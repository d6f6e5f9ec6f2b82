------------------------- MODULE TaskWorkspaceProofs -------------------------
(***************************************************************************)
(* Proofs about TaskWorkspace, for any number of workspaces, tasks,        *)
(* publishers, loaders, cleaners and kills: its types, that what a         *)
(* publisher was told is installed is there for as long as no cleaner is   *)
(* called, and that a loader never refuses a complete set.                 *)
(*                                                                         *)
(* Both follow from what a directory may hold (Tidy): one result a task,   *)
(* and at most one temporary, whose task has no result.  A publisher makes *)
(* a temporary only after it has cleaned away the others, so the temporary *)
(* a killed one leaves is always of a task that is still to do.  That is   *)
(* inductive with what a process knows of the directory it has locked      *)
(* (Place), since two of them never have the same one locked.  Kept says   *)
(* that without a cleaner the directory a process has opened is still the  *)
(* one its path leads to.                                                  *)
(***************************************************************************)
EXTENDS TaskWorkspace, FiniteSetTheorems, TLAPS

(* The steps a process takes with the lock on the directory it opened.     *)
Held(p) ==
  {"owner", "owner rename", "validate", "clean", "write", "rename", "admit",
   "retain", "load", "inspect", "unlink", "admit dir", "retain dir"}
  \cup IF p \in Publishers THEN {} ELSE {"tomb", "tomb owner", "tomb lock", "admission"}

StepsOf(p) == IF p \in Publishers THEN PublishSteps
              ELSE IF p \in Loaders THEN LoadSteps ELSE CleanupSteps

(* What a directory holds: one result a task, and at most one temporary,   *)
(* of a task without a result.                                             *)
Missing(set, t) == \A r \in set \cap Results : r[2] # t
Tidy(set) ==
  /\ \A r, s \in set \cap Results : r[2] = s[2] => r = s
  /\ \/ set \cap Temps = {}
     \/ \E t \in Tasks : set \cap Temps = {Temp(t, 0)} /\ Missing(set, t)

(* Where a process is, and what it knows of the directory it has locked.   *)
Place(p) ==
  /\ pc[p] \in StepsOf(p) /\ (created[p] => p \in Publishers)
  /\ pc[p] \in Held(p) \cup {"flock"} => fd[p] \in Inodes
  /\ pc[p] \in Held(p) => lock[fd[p]] = p
  /\ pc[p] = "write" => entries[fd[p]] \cap Temps = {}
  /\ pc[p] = "rename" => /\ entries[fd[p]] \cap Temps = {Temp(TaskOf[p], 0)}
                         /\ Missing(entries[fd[p]], TaskOf[p])

(* What stays while no cleaner has been called.                            *)
NeverCleaned == \A c \in Cleaners : last[c] = "none" /\ pc[c] = "idle"
Kept(p) ==
  /\ pc[p] \in Held(p) \cup {"flock"} => dir[WorkspaceOf[p]] = fd[p]
  /\ p \in Publishers /\ last[p] = "ok" =>
       /\ dir[WorkspaceOf[p]] \in Inodes
       /\ Result(TaskOf[p], BytesOf[p]) \in entries[dir[WorkspaceOf[p]]]

WorkspaceInv ==
  /\ TypeOK /\ (\A p \in Processes : Place(p)) /\ (\A i \in Inodes : Tidy(entries[i]))
  /\ NeverCleaned => \A p \in Processes : Kept(p)
  /\ CompleteIsClean

-----------------------------------------------------------------------------
(* What a directory holds.                                                 *)
LEMMA Kinds ==
  /\ Results \cap Temps = {}
  /\ {Owner, OwnerTemp} \cap (Results \cup Temps) = {}
  /\ \A t, b : Result(t, b)[2] = t /\ Result(t, b)[3] = b
  /\ \A p \in Publishers : Result(TaskOf[p], BytesOf[p]) \in Results
  /\ \A t \in Tasks : Temp(t, 0) \in Temps
<1>1. Results \cap Temps = {}
  BY DEF Results, Temps, Result, Temp
<1>2. {Owner, OwnerTemp} \cap (Results \cup Temps) = {}
  BY DEF Results, Temps, Result, Temp, Owner, OwnerTemp
<1>3. \A t, b : Result(t, b)[2] = t /\ Result(t, b)[3] = b
  BY DEF Result
<1>4. \A p \in Publishers : Result(TaskOf[p], BytesOf[p]) \in Results
  BY WorkspaceAssumption DEF Results
<1>5. 0 \in 0..MaxKills
  BY WorkspaceAssumption
<1>6. \A t \in Tasks : Temp(t, 0) \in Temps
  BY <1>5 DEF Temps
<1> QED BY <1>1, <1>2, <1>3, <1>4, <1>6

LEMMA TidyKept ==
  ASSUME NEW E, NEW F, Tidy(E),
         F \cap Results \subseteq E, F \cap Temps = {} \/ F \cap Temps = E \cap Temps
  PROVE  Tidy(F)
BY DEF Tidy, Missing

LEMMA TidyLess ==
  ASSUME NEW E, NEW F, Tidy(E), F \subseteq E
  PROVE  Tidy(F)
BY DEF Tidy, Missing

LEMMA TidyWrite ==
  ASSUME NEW E, NEW t \in Tasks, Tidy(E), E \cap Temps = {}, Missing(E, t)
  PROVE  LET F == E \cup {Temp(t, 0)}
         IN  Tidy(F) /\ F \cap Temps = {Temp(t, 0)} /\ Missing(F, t)
<1> DEFINE F == E \cup {Temp(t, 0)}
<1>1. F \cap Temps = {Temp(t, 0)} /\ F \cap Results = E \cap Results
  BY Kinds
<1> QED BY <1>1 DEF Tidy, Missing

LEMMA TidyInstall ==
  ASSUME NEW E, NEW p \in Publishers, Tidy(E),
         E \cap Temps = {Temp(TaskOf[p], 0)}, Missing(E, TaskOf[p])
  PROVE  Tidy((E \ {Temp(TaskOf[p], 0)}) \cup {Result(TaskOf[p], BytesOf[p])})
<1> DEFINE r == Result(TaskOf[p], BytesOf[p])
           F == (E \ {Temp(TaskOf[p], 0)}) \cup {r}
<1>1. r \in Results /\ r \notin Temps /\ r[2] = TaskOf[p]
  BY Kinds
<1>2. F \cap Temps = {} /\ F \cap Results \subseteq (E \cap Results) \cup {r}
  BY <1>1
<1> HIDE DEF r, F
<1>3. Tidy(F)
  BY <1>1, <1>2 DEF Tidy, Missing
<1> QED BY <1>3 DEF F, r

-----------------------------------------------------------------------------
(* The variables of the processes, and those of the disk.                  *)
AllSteps == PublishSteps \cup LoadSteps \cup CleanupSteps
Answers  == {"none", "ok", "error", "foreign"}

PlacesTyped ==
  /\ pc \in [Processes -> AllSteps] /\ fd \in [Processes -> Inodes \cup {NoDir}]
  /\ created \in [Processes -> BOOLEAN] /\ last \in [Processes -> Answers]
  /\ lock \in [Inodes -> Processes \cup {Nobody}]
  /\ tombLock \in Processes \cup {Nobody}

DiskTyped ==
  /\ tomb \in {"absent", "bare", "owned", "ready"} /\ retained \in Nat
  /\ dir \in [Workspaces -> Inodes \cup {NoDir}]
  /\ entries \in [Inodes -> SUBSET ({Owner, OwnerTemp} \cup Results \cup Temps)]
  /\ kills \in 0..MaxKills

LEMMA TypeParts == TypeOK <=> PlacesTyped /\ DiskTyped
BY DEF TypeOK, PlacesTyped, DiskTyped, AllSteps, Answers

(* A step of one process leaves the others where they are, with the locks  *)
(* they hold.                                                              *)
OthersStay(p) ==
  \A q \in Processes \ {p} :
    /\ pc'[q] = pc[q] /\ fd'[q] = fd[q] /\ created'[q] = created[q]
    /\ last'[q] = last[q]
    /\ \A i \in Inodes : lock[i] = q => lock'[i] = q

LEMMA ReturnEffect ==
  ASSUME PlacesTyped, NEW p \in Processes, NEW how \in Answers, Return(p, how)
  PROVE  /\ PlacesTyped' /\ OthersStay(p)
         /\ pc'[p] = "idle" /\ last'[p] = how /\ ~ created'[p]
<1>1. "idle" \in AllSteps
  BY DEF AllSteps, PublishSteps
<1>2. /\ pc' = [pc EXCEPT ![p] = "idle"] /\ fd' = [fd EXCEPT ![p] = NoDir]
      /\ created' = [created EXCEPT ![p] = FALSE] /\ last' = [last EXCEPT ![p] = how]
  BY DEF Return, Goto
<1>3. lock' = [i \in Inodes |-> IF lock[i] = p THEN Nobody ELSE lock[i]]
  BY DEF Return
<1>4. lock' \in [Inodes -> Processes \cup {Nobody}]
      /\ tombLock' \in Processes \cup {Nobody}
  BY <1>3 DEF PlacesTyped, Return
<1>5. created' \in [Processes -> BOOLEAN] /\ ~ created'[p]
      /\ \A q \in Processes \ {p} : created'[q] = created[q]
  BY <1>2 DEF PlacesTyped
<1>6. PlacesTyped'
  BY <1>1, <1>2, <1>4, <1>5 DEF PlacesTyped
<1>7. OthersStay(p)
  BY <1>2, <1>3, <1>5 DEF PlacesTyped, OthersStay
<1> QED BY <1>2, <1>5, <1>6, <1>7 DEF PlacesTyped

LEMMA ContinueEffect ==
  ASSUME PlacesTyped, NEW p \in Processes, NEW s \in AllSteps, Continue(p, s)
  PROVE  /\ PlacesTyped' /\ OthersStay(p) /\ pc'[p] = s
         /\ UNCHANGED <<fd, created, last, lock>>
<1>1. pc' = [pc EXCEPT ![p] = s] /\ UNCHANGED <<fd, created, last, lock, tombLock>>
  BY DEF Continue, Goto
<1>2. PlacesTyped'
  BY <1>1 DEF PlacesTyped
<1>3. OthersStay(p) /\ pc'[p] = s
  BY <1>1 DEF PlacesTyped, OthersStay
<1> QED BY <1>1, <1>2, <1>3

-----------------------------------------------------------------------------
(* A step of p that changes what at most p has locked, or nobody has open. *)
OnlyOwn(p) ==
  \A q \in Processes \ {p} : pc[q] \in Held(q) => entries'[fd[q]] = entries[fd[q]]

LEMMA PlaceStep ==
  ASSUME \A q \in Processes : Place(q), NEW p \in Processes, OthersStay(p),
         OnlyOwn(p), Place(p)'
  PROVE  \A q \in Processes : Place(q)'
<1>1. ASSUME NEW q \in Processes \ {p}
      PROVE  Place(q)'
  <2>1. /\ pc'[q] = pc[q] /\ fd'[q] = fd[q] /\ created'[q] = created[q]
        /\ \A i \in Inodes : lock[i] = q => lock'[i] = q
        /\ pc[q] \in Held(q) => entries'[fd[q]] = entries[fd[q]]
    BY DEF OthersStay, OnlyOwn
  <2>2. Place(q)
    OBVIOUS
  <2>3. "write" \in Held(q) /\ "rename" \in Held(q)
    BY DEF Held
  <2> QED BY <2>1, <2>2, <2>3 DEF Place
<1> QED BY <1>1

(* Two processes that hold a lock have opened different directories.       *)
LEMMA Alone ==
  ASSUME \A q \in Processes : Place(q), NEW p \in Processes, pc[p] \in Held(p),
         \A i \in Inodes \ {fd[p]} : entries'[i] = entries[i]
  PROVE  OnlyOwn(p)
BY DEF OnlyOwn, Place

LEMMA TidyStep ==
  ASSUME \A i \in Inodes : Tidy(entries[i]), NEW j \in Inodes,
         \A i \in Inodes \ {j} : entries'[i] = entries[i],
         Tidy(entries'[j])
  PROVE  \A i \in Inodes : Tidy(entries'[i])
OBVIOUS

-----------------------------------------------------------------------------
(* Every step of p ends its call or goes to another step.                  *)
Ended    == {"ok", "error", "foreign"}
Opens(p) ==
  /\ \E i \in Inodes : fd' = [fd EXCEPT ![p] = i] /\ Goto(p, "flock")
  /\ created' \in {created, [created EXCEPT ![p] = TRUE]}
  /\ UNCHANGED <<last, lock, tombLock>>
Locks(p) ==
  /\ fd[p] \in Inodes /\ lock[fd[p]] = Nobody /\ lock' = [lock EXCEPT ![fd[p]] = p]
  /\ Goto(p, "owner") /\ UNCHANGED <<tombLock, fd, created, last>>
Removes(p) ==
  /\ \E s \in AllSteps \ {"idle"} : Goto(p, s)
  /\ tombLock' \in {p, Nobody} /\ UNCHANGED <<fd, created, last, lock>>

Shape(p) ==
  \/ \E how \in Ended : Return(p, how)
  \/ \E s \in AllSteps \ {"idle"} : Continue(p, s)
  \/ Opens(p) \/ Locks(p) \/ Removes(p)

LEMMA Shapes ==
  ASSUME TypeOK, NEW p \in Processes, Place(p), Step(p) \/ WriteFails(p) \/ Kill(p)
  PROVE  Shape(p)
<1>0. AllSteps \ {"idle"} = {"tomb", "tomb owner", "tomb lock", "admission", "open", "flock",
         "owner", "owner rename", "validate", "clean", "admit", "retain", "write",
         "rename", "load", "inspect", "unlink", "admit dir", "retain dir"}
  BY DEF AllSteps, PublishSteps, LoadSteps, CleanupSteps
<1>1. ASSUME Call(p) \/ OpenTombs(p) \/ Mark(p) \/ Load(p) \/ Cleanup(p) \/ Publish(p)
             \/ WriteFails(p) \/ Kill(p)
      PROVE  \/ \E how \in Ended : Return(p, how)
             \/ \E s \in AllSteps \ {"idle"} : Continue(p, s)
  <2>1. CASE Call(p)
    BY <1>0, <2>1 DEF Call
  <2>2. CASE OpenTombs(p)
    BY <1>0, <2>2 DEF OpenTombs, TombReady, Ended
  <2>3. CASE Mark(p)
    BY <1>0, <2>3 DEF Mark, Inside, Ended
  <2>4. CASE Load(p)
    BY <2>4 DEF Load, Ended
  <2>5. CASE Cleanup(p)
    BY <1>0, <2>5 DEF Cleanup, Inspect, Unlink, RemoveDirectory, Ended
  <2>6. CASE Publish(p)
    BY <1>0, <2>6 DEF Publish, Validate, Clean, Write, Install, Ended
  <2>7. CASE WriteFails(p) \/ Kill(p)
    BY <2>7 DEF WriteFails, Kill, Ended
  <2> QED BY <1>1, <2>1, <2>2, <2>3, <2>4, <2>5, <2>6, <2>7
<1>2. CASE OpenWorkspace(p)
  <2>1. DiskTyped /\ WorkspaceOf[p] \in Workspaces
    BY TypeParts, WorkspaceAssumption
  <2>2. dir[WorkspaceOf[p]] # NoDir => dir[WorkspaceOf[p]] \in Inodes
    BY <2>1 DEF DiskTyped
  <2>3. CASE Return(p, "error")
    BY <2>3 DEF Shape, Ended
  <2>4. CASE \E i \in Inodes : /\ fd' = [fd EXCEPT ![p] = i] /\ Goto(p, "flock")
                               /\ created' \in {created, [created EXCEPT ![p] = TRUE]}
                               /\ UNCHANGED <<last, lock, tombLock>>
    BY <2>4 DEF Shape, Opens
  <2> QED BY <1>2, <2>2, <2>3, <2>4 DEF OpenWorkspace
<1>3. CASE Flock(p)
  <2>1. fd[p] \in Inodes
    BY <1>3 DEF Flock, Place
  <2> QED BY <1>3, <2>1 DEF Flock, Shape, Locks, store
<1>4. CASE Admit(p)
  <2>1. CASE Return(p, "error")
    BY <2>1 DEF Shape, Ended
  <2>2. CASE /\ tombLock' = p
             /\ Goto(p, IF pc[p] = "admit" THEN "retain" ELSE "retain dir")
             /\ UNCHANGED <<fd, created, last, lock>>
    BY <1>0, <2>2 DEF Shape, Removes
  <2> QED BY <1>4, <2>1, <2>2 DEF Admit
<1>5. CASE Retain(p)
  BY <1>0, <1>5 DEF Retain, Shape, Removes
<1> QED BY <1>1, <1>2, <1>3, <1>4, <1>5 DEF Step, Shape

LEMMA ShapeEffect ==
  ASSUME PlacesTyped, NEW p \in Processes, Shape(p)
  PROVE  /\ PlacesTyped' /\ OthersStay(p)
         /\ last'[p] \in Ended \/ (pc'[p] # "idle" /\ last'[p] = last[p])
<1>1. ASSUME NEW how \in Ended, Return(p, how)
      PROVE  PlacesTyped' /\ OthersStay(p) /\ last'[p] \in Ended
  <2>1. how \in Answers
    BY DEF Ended, Answers
  <2> QED BY <1>1, <2>1, ReturnEffect
<1>2. ASSUME NEW s \in AllSteps \ {"idle"}, Continue(p, s)
      PROVE  PlacesTyped' /\ OthersStay(p) /\ pc'[p] # "idle" /\ last'[p] = last[p]
  BY <1>2, ContinueEffect
<1>3. CASE Opens(p)
  <2>1. PICK i \in Inodes : fd' = [fd EXCEPT ![p] = i] /\ Goto(p, "flock")
    BY <1>3 DEF Opens
  <2>2. pc' = [pc EXCEPT ![p] = "flock"] /\ "flock" \in AllSteps
    BY <2>1 DEF Goto, AllSteps, LoadSteps
  <2>3. created' \in [Processes -> BOOLEAN] /\ \A q \in Processes \ {p} : created'[q] = created[q]
    BY <1>3 DEF Opens, PlacesTyped
  <2>4. UNCHANGED <<last, lock, tombLock>>
    BY <1>3 DEF Opens
  <2> QED BY <2>1, <2>2, <2>3, <2>4 DEF PlacesTyped, OthersStay
<1>4. CASE Locks(p)
  <2>1. pc' = [pc EXCEPT ![p] = "owner"] /\ "owner" \in AllSteps
    BY <1>4 DEF Locks, Goto, AllSteps, LoadSteps
  <2>2. \A q \in Processes : q # Nobody
    BY WorkspaceAssumption
  <2> QED BY <1>4, <2>1, <2>2 DEF Locks, PlacesTyped, OthersStay
<1>5. CASE Removes(p)
  <2>1. PICK s \in AllSteps \ {"idle"} : Goto(p, s)
    BY <1>5 DEF Removes
  <2>2. pc' = [pc EXCEPT ![p] = s] /\ tombLock' \in {p, Nobody} /\ UNCHANGED <<fd, created, last, lock>>
    BY <1>5, <2>1 DEF Removes, Goto
  <2> QED BY <2>2 DEF PlacesTyped, OthersStay
<1> QED BY <1>1, <1>2, <1>3, <1>4, <1>5 DEF Shape

(* While no cleaner has been called, none is.                              *)
LEMMA NeverStep ==
  ASSUME PlacesTyped, NEW p \in Processes, Shape(p), NeverCleaned'
  PROVE  NeverCleaned /\ p \notin Cleaners
<1>1. Cleaners \subseteq Processes
  BY DEF Processes
<1>2. p \notin Cleaners
  BY ShapeEffect DEF NeverCleaned, Ended
<1>3. \A c \in Cleaners : pc'[c] = pc[c] /\ last'[c] = last[c]
  BY <1>1, <1>2, ShapeEffect DEF OthersStay
<1> QED BY <1>2, <1>3 DEF NeverCleaned

-----------------------------------------------------------------------------
(* Who takes which step, and where a step leaves its process.              *)
LEMMA Roles ==
  ASSUME NEW p \in Processes, pc[p] \in StepsOf(p)
  PROVE  /\ pc[p] \in {"owner rename", "validate", "clean", "write", "rename"} => p \in Publishers
         /\ pc[p] = "load" => p \in Loaders /\ p \notin Publishers
         /\ pc[p] \in {"inspect", "unlink", "admit dir", "retain dir"} =>
              p \in Cleaners /\ p \notin Publishers /\ p \notin Loaders
         /\ pc[p] \in {"tomb", "tomb owner", "tomb lock", "admission", "admit", "retain"} =>
              p \in Publishers \/ (p \in Cleaners /\ p \notin Publishers /\ p \notin Loaders)
<1>1. p \in Publishers \cup Loaders \cup Cleaners
  BY DEF Processes
<1> QED BY <1>1 DEF StepsOf, PublishSteps, LoadSteps, CleanupSteps

LEMMA ReturnPlace ==
  ASSUME PlacesTyped, NEW p \in Processes, NEW how \in Answers, Return(p, how)
  PROVE  Place(p)'
<1>1. pc'[p] = "idle" /\ ~ created'[p]
  BY ReturnEffect
<1>2. "idle" \in StepsOf(p)
  BY DEF StepsOf, PublishSteps, LoadSteps, CleanupSteps
<1> QED BY <1>1, <1>2 DEF Place, Held

(* Onwards with the lock, or without one.                                  *)
LEMMA HeldPlace ==
  ASSUME PlacesTyped, NEW p \in Processes, Place(p), pc[p] \in Held(p),
         NEW s \in StepsOf(p), s \notin {"write", "rename"}, pc'[p] = s,
         UNCHANGED <<fd, created>>, lock'[fd[p]] = lock[fd[p]]
  PROVE  Place(p)'
BY DEF Place

LEMMA FreePlace ==
  ASSUME NEW p \in Processes, Place(p),
         NEW s \in StepsOf(p), s \notin Held(p) \cup {"flock"}, pc'[p] = s,
         UNCHANGED created
  PROVE  Place(p)'
<1>1. "write" \in Held(p) /\ "rename" \in Held(p)
  BY DEF Held
<1> QED BY <1>1 DEF Place

(* The steps that leave the directories as they are.                       *)
Quiet(p) ==
  \/ Call(p) \/ OpenTombs(p) \/ Flock(p) \/ Admit(p) \/ Load(p) \/ Kill(p)
  \/ Cleanup(p) \/ Validate(p) \/ Clean(p)

LEMMA StepsAre ==
  /\ AllSteps \ {"idle"} = {"tomb", "tomb owner", "tomb lock", "admission", "open", "flock",
         "owner", "owner rename", "validate", "clean", "admit", "retain", "write",
         "rename", "load", "inspect", "unlink", "admit dir", "retain dir"}
  /\ {"ok", "error", "foreign"} \subseteq Answers
BY DEF AllSteps, PublishSteps, LoadSteps, CleanupSteps, Answers

LEMMA QuietPlace ==
  ASSUME TypeOK, NEW p \in Processes, Place(p), Quiet(p)
  PROVE  Place(p)'
<1>0. PlacesTyped /\ pc[p] \in StepsOf(p)
  BY TypeParts DEF Place
<1>1. ASSUME NEW how \in {"ok", "error", "foreign"}, Return(p, how)
      PROVE  Place(p)'
  BY <1>0, <1>1, StepsAre, ReturnPlace
<1>2. ASSUME NEW s \in AllSteps, Continue(p, s), pc[p] \in Held(p), s \in StepsOf(p),
             s \notin {"write", "rename"}
      PROVE  Place(p)'
  BY <1>0, <1>2, ContinueEffect, HeldPlace
<1>3. ASSUME NEW s \in AllSteps, Continue(p, s), s \in StepsOf(p), s \notin Held(p) \cup {"flock"}
      PROVE  Place(p)'
  BY <1>0, <1>3, ContinueEffect, FreePlace
<1>4. CASE Call(p)
  <2>1. CASE p \in Publishers
    <3>1. Continue(p, "tomb") /\ "tomb" \in AllSteps
      BY <1>4, <2>1, StepsAre DEF Call
    <3>2. "tomb" \in StepsOf(p) /\ "tomb" \notin Held(p) \cup {"flock"}
      BY <2>1 DEF StepsOf, PublishSteps, Held
    <3> QED BY <1>3, <3>1, <3>2
  <2>2. CASE p \notin Publishers
    <3>1. Continue(p, "open") /\ "open" \in AllSteps
      BY <1>4, <2>2, StepsAre DEF Call
    <3>2. "open" \in StepsOf(p) /\ "open" \notin Held(p) \cup {"flock"}
      BY <2>2 DEF StepsOf, LoadSteps, CleanupSteps, Held
    <3> QED BY <1>3, <3>1, <3>2
  <2> QED BY <2>1, <2>2
<1>5. CASE OpenTombs(p)
  <2>1. CASE Return(p, "error")
    BY <1>1, <2>1
  <2>2. PICK s \in {"tomb owner", "tomb lock", "admission", TombReady(p)} :
          Return(p, "error") \/ Continue(p, s)
    BY <1>5 DEF OpenTombs
  <2>3. pc[p] \in {"tomb", "tomb owner", "tomb lock", "admission"}
    BY <1>5 DEF OpenTombs
  <2>4. s \in AllSteps
    BY StepsAre DEF TombReady
  <2>5. CASE p \in Publishers /\ Continue(p, s)
    <3>1. s \in StepsOf(p) /\ s \notin Held(p) \cup {"flock"}
      BY <2>5 DEF StepsOf, PublishSteps, Held, TombReady
    <3> QED BY <1>3, <2>4, <2>5, <3>1
  <2>6. CASE p \notin Publishers /\ Continue(p, s)
    <3>1. p \notin Loaders
      BY <1>0, <2>3, <2>6, Roles
    <3>2. s \in StepsOf(p) /\ pc[p] \in Held(p) /\ s \notin {"write", "rename"}
      BY <2>3, <2>6, <3>1 DEF StepsOf, CleanupSteps, Held, TombReady
    <3> QED BY <1>2, <2>4, <2>6, <3>2
  <2> QED BY <2>1, <2>2, <2>5, <2>6
<1>6. CASE Flock(p)
  <2>1. fd[p] \in Inodes
    BY <1>6 DEF Flock, Place
  <2>2. lock'[fd[p]] = p /\ pc'[p] = "owner" /\ UNCHANGED <<fd, created>>
    BY <1>0, <1>6, <2>1 DEF Flock, Goto, PlacesTyped
  <2>3. "owner" \in StepsOf(p)
    BY DEF StepsOf, PublishSteps, LoadSteps, CleanupSteps
  <2> QED BY <2>1, <2>2, <2>3 DEF Place
<1>7. CASE Admit(p)
  <2>1. CASE Return(p, "error")
    BY <1>1, <2>1
  <2>2. PICK s \in {"retain", "retain dir"} :
          \/ Return(p, "error")
          \/ /\ Goto(p, s) /\ UNCHANGED <<fd, created, last, lock>>
             /\ s = "retain" => pc[p] = "admit"
             /\ s = "retain dir" => pc[p] = "admit dir"
    BY <1>7 DEF Admit
  <2>3. CASE /\ Goto(p, s) /\ UNCHANGED <<fd, created, last, lock>>
             /\ s = "retain" => pc[p] = "admit"
             /\ s = "retain dir" => pc[p] = "admit dir"
    <3>1. pc'[p] = s
      BY <1>0, <2>3 DEF Goto, PlacesTyped
    <3>2. s \in StepsOf(p)
      BY <1>0, <2>3 DEF StepsOf, PublishSteps, LoadSteps, CleanupSteps
    <3>3. pc[p] \in Held(p)
      BY <1>7 DEF Admit, Held
    <3> QED BY <1>0, <2>3, <3>1, <3>2, <3>3, HeldPlace
  <2> QED BY <2>1, <2>2, <2>3
<1>8. CASE Load(p)
  BY <1>1, <1>8 DEF Load
<1>9. CASE Kill(p)
  BY <1>1, <1>9 DEF Kill
<1>10. CASE Inspect(p) \/ Unlink(p)
  <2>1. CASE Return(p, "error")
    BY <1>1, <2>1
  <2>2. PICK s \in {"tomb", "admit dir", "admit"} : Return(p, "error") \/ Continue(p, s)
    BY <1>10 DEF Inspect, Unlink
  <2>3. pc[p] \in {"inspect", "unlink"}
    BY <1>10 DEF Inspect, Unlink
  <2>4. p \notin Publishers /\ p \notin Loaders
    BY <1>0, <2>3, Roles
  <2>5. s \in StepsOf(p) /\ pc[p] \in Held(p) /\ s \in AllSteps
    BY <2>3, <2>4, StepsAre DEF StepsOf, CleanupSteps, Held
  <2> QED BY <1>2, <2>1, <2>2, <2>5
<1>11. CASE RemoveDirectory(p)
  BY <1>1, <1>11 DEF RemoveDirectory
<1>12. CASE Validate(p)
  <2>1. p \in Publishers /\ pc[p] \in Held(p)
    BY <1>0, <1>12, Roles DEF Validate, Held
  <2>2. "clean" \in StepsOf(p) /\ "clean" \in AllSteps
    BY <2>1, StepsAre DEF StepsOf, PublishSteps
  <2> QED BY <1>1, <1>2, <1>12, <2>1, <2>2 DEF Validate
<1>13. CASE Clean(p)
  <2>1. p \in Publishers /\ pc[p] \in Held(p)
    BY <1>0, <1>13, Roles DEF Clean, Held
  <2>2. "admit" \in StepsOf(p) /\ "write" \in StepsOf(p) /\ {"admit", "write"} \subseteq AllSteps
    BY <2>1, StepsAre DEF StepsOf, PublishSteps
  <2>3. CASE Continue(p, "admit")
    BY <1>2, <2>1, <2>2, <2>3
  <2>4. CASE Removable(p) = {} /\ Continue(p, "write")
    <3>1. entries[fd[p]] \cap Temps = {} /\ UNCHANGED entries
      BY <1>13, <2>1, <2>4 DEF Removable, Clean
    <3>2. pc'[p] = "write" /\ UNCHANGED <<fd, created, last, lock>>
      BY <1>0, <2>2, <2>4, ContinueEffect
    <3> QED BY <2>1, <2>2, <3>1, <3>2 DEF Place
  <2> QED BY <1>13, <2>3, <2>4 DEF Clean
<1> QED BY <1>4, <1>5, <1>6, <1>7, <1>8, <1>9, <1>10, <1>11, <1>12, <1>13
        DEF Quiet, Cleanup

-----------------------------------------------------------------------------
(* What was acknowledged, while directories and results only come.         *)
Grown ==
  \A w \in Workspaces :
    dir[w] # NoDir => /\ dir'[w] = dir[w]
                      /\ entries[dir[w]] \cap Results \subseteq entries'[dir[w]]

Onward(p) ==
  /\ \/ last'[p] = last[p] \/ last'[p] # "ok" \/ p \notin Publishers
     \/ pc[p] \in Held(p) /\ Result(TaskOf[p], BytesOf[p]) \in entries'[fd[p]]
  /\ pc'[p] \in Held(p) \cup {"flock"} =>
       pc[p] \in Held(p) \cup {"flock"} /\ fd'[p] = fd[p]

LEMMA KeptOwn ==
  ASSUME NEW p \in Processes, Place(p), Kept(p), Grown, Onward(p)
  PROVE  Kept(p)'
<1>1. WorkspaceOf[p] \in Workspaces /\ NoDir \notin Inodes
  BY WorkspaceAssumption DEF NoDir
<1>2. pc[p] \in Held(p) \cup {"flock"} =>
        dir[WorkspaceOf[p]] = fd[p] /\ dir'[WorkspaceOf[p]] = fd[p] /\ fd[p] \in Inodes
  BY <1>1 DEF Place, Kept, Grown
<1>3. pc'[p] \in Held(p) \cup {"flock"} => dir'[WorkspaceOf[p]] = fd'[p]
  BY <1>2 DEF Onward
<1>4. ASSUME p \in Publishers, last'[p] = "ok"
      PROVE  /\ dir'[WorkspaceOf[p]] \in Inodes
             /\ Result(TaskOf[p], BytesOf[p]) \in entries'[dir'[WorkspaceOf[p]]]
  <2>1. Result(TaskOf[p], BytesOf[p]) \in Results
    BY <1>4, Kinds
  <2>2. CASE last'[p] = last[p]
    BY <1>1, <1>4, <2>1, <2>2 DEF Kept, Grown
  <2>3. CASE pc[p] \in Held(p) /\ Result(TaskOf[p], BytesOf[p]) \in entries'[fd[p]]
    BY <1>2, <2>3
  <2> QED BY <1>4, <2>2, <2>3 DEF Onward
<1> QED BY <1>3, <1>4 DEF Kept

LEMMA KeptStep ==
  ASSUME \A q \in Processes : Place(q), \A q \in Processes : Kept(q),
         NEW p \in Processes, OthersStay(p), Grown, Kept(p)'
  PROVE  \A q \in Processes : Kept(q)'
<1>1. ASSUME NEW q \in Processes \ {p}
      PROVE  Kept(q)'
  <2>1. pc'[q] = pc[q] /\ fd'[q] = fd[q] /\ last'[q] = last[q] /\ Place(q) /\ Kept(q)
    BY DEF OthersStay
  <2>2. Onward(q)
    BY <2>1 DEF Onward
  <2> QED BY <2>1, <2>2, KeptOwn
<1> QED BY <1>1

LEMMA QuietOnward ==
  ASSUME TypeOK, NEW p \in Processes, Place(p), Quiet(p), p \notin Cleaners
  PROVE  Onward(p)
<1>0. PlacesTyped /\ pc[p] \in StepsOf(p)
  BY TypeParts DEF Place
<1>3. ASSUME NEW how \in {"ok", "error", "foreign"}, Return(p, how), how # "ok" \/ p \notin Publishers
      PROVE  Onward(p)
  <2>1. pc'[p] = "idle" /\ last'[p] = how
    BY <1>0, <1>3, StepsAre, ReturnEffect
  <2> QED BY <1>3, <2>1 DEF Onward, Held
<1>4. ASSUME NEW s \in AllSteps, Continue(p, s),
             pc[p] \in Held(p) \cup {"flock"} \/ s \notin Held(p) \cup {"flock"}
      PROVE  Onward(p)
  BY <1>0, <1>4, ContinueEffect DEF Onward
<1>5. CASE Call(p)
  <2>1. PICK s \in {"tomb", "open"} : Continue(p, s) /\ (s = "tomb" => p \in Publishers)
    BY <1>5 DEF Call
  <2>2. s \in AllSteps /\ s \notin Held(p) \cup {"flock"}
    BY <2>1, StepsAre DEF Held
  <2> QED BY <1>4, <2>1, <2>2
<1>6. CASE OpenTombs(p)
  <2>1. PICK s \in {"tomb owner", "tomb lock", "admission", "open"} :
          Return(p, "error") \/ Continue(p, s)
    <3>1. p \in Publishers
      BY <1>0, <1>6, Roles DEF OpenTombs
    <3> QED BY <1>6, <3>1 DEF OpenTombs, TombReady
  <2>2. s \in AllSteps
    BY StepsAre
  <2>3. p \in Publishers
    BY <1>0, <1>6, Roles DEF OpenTombs
  <2>4. s \notin Held(p) \cup {"flock"}
    BY <2>3 DEF Held
  <2> QED BY <1>3, <1>4, <2>1, <2>2, <2>4
<1>7. CASE Flock(p) \/ Admit(p)
  <2>1. CASE Return(p, "error")
    BY <1>3, <2>1
  <2>2. CASE UNCHANGED <<fd, last>>
    <3>1. pc[p] \in Held(p) \cup {"flock"}
      BY <1>7 DEF Held, Flock, Admit
    <3> QED BY <2>2, <3>1 DEF Onward
  <2> QED BY <1>7, <2>1, <2>2 DEF Flock, Admit
<1>8. CASE Load(p)
  <2>1. p \notin Publishers
    BY <1>0, <1>8, Roles DEF Load
  <2> QED BY <1>3, <1>8, <2>1 DEF Load
<1>9. CASE Kill(p)
  BY <1>3, <1>9 DEF Kill
<1>10. CASE Validate(p) \/ Clean(p)
  <2>1. \/ Return(p, "error")
        \/ \E s \in {"clean", "write", "admit"} : Continue(p, s)
    BY <1>10 DEF Validate, Clean
  <2>2. pc[p] \in Held(p) /\ {"clean", "write", "admit"} \subseteq AllSteps
    BY <1>10, StepsAre DEF Validate, Clean, Held
  <2> QED BY <1>3, <1>4, <2>1, <2>2
<1>11. ~ Cleanup(p)
  BY <1>0, Roles DEF Cleanup, Inspect, Unlink, RemoveDirectory
<1> QED BY <1>5, <1>6, <1>7, <1>8, <1>9, <1>10, <1>11 DEF Quiet

LEMMA QuietGrown ==
  ASSUME NEW p \in Processes, Place(p), Quiet(p), p \notin Cleaners
  PROVE  Grown
<1>1. pc[p] \in StepsOf(p)
  BY DEF Place
<1>2. ~ RemoveDirectory(p)
  BY <1>1, Roles DEF RemoveDirectory
<1>3. UNCHANGED <<dir, entries>>
  BY <1>2 DEF Quiet, Call, OpenTombs, Flock, Admit, Load, Kill, Cleanup, Inspect,
     Unlink, Validate, Clean
<1> QED BY <1>3 DEF Grown

(* The steps that change a directory.                                      *)
Disk(p) ==
  /\ DiskTyped' /\ OnlyOwn(p) /\ Place(p)' /\ \A i \in Inodes : Tidy(entries'[i])
  /\ p \notin Cleaners /\ Kept(p) => Grown /\ Kept(p)'

LEMMA QuietDisk ==
  ASSUME WorkspaceInv, NEW p \in Processes, Quiet(p)
  PROVE  Disk(p)
<1>0. TypeOK /\ DiskTyped /\ Place(p) /\ \A i \in Inodes : Tidy(entries[i])
  BY TypeParts DEF WorkspaceInv
<1>1. UNCHANGED entries
  BY DEF Quiet, Call, OpenTombs, Flock, Admit, Load, Kill, Cleanup, Inspect, Unlink,
     RemoveDirectory, Validate, Clean
<1>2. dir' \in [Workspaces -> Inodes \cup {NoDir}]
  BY <1>0 DEF DiskTyped, Quiet, Call, OpenTombs, Flock, Admit, Load, Kill, Cleanup,
     Inspect, Unlink, RemoveDirectory, Validate, Clean
<1>3. tomb' \in {"absent", "bare", "owned", "ready"}
  BY <1>0 DEF DiskTyped, Quiet, Call, OpenTombs, Flock, Admit, Load, Kill, Cleanup,
     Inspect, Unlink, RemoveDirectory, Validate, Clean, store
<1>4. retained' \in Nat
  <2>1. retained' = retained \/ retained' = retained + 1
    BY DEF Quiet, Call, OpenTombs, Flock, Admit, Load, Kill, Cleanup, Inspect,
       Unlink, RemoveDirectory, Validate, Clean, store
  <2>2. retained \in Nat
    BY <1>0 DEF DiskTyped
  <2> QED BY <2>1, <2>2
<1>5. kills' \in 0..MaxKills
  <2>1. kills' = kills \/ (kills < MaxKills /\ kills' = kills + 1)
    BY DEF Quiet, Call, OpenTombs, Flock, Admit, Load, Kill, Cleanup,
       Inspect, Unlink, RemoveDirectory, Validate, Clean
  <2>2. kills \in 0..MaxKills /\ MaxKills \in Nat
    BY <1>0, WorkspaceAssumption DEF DiskTyped
  <2> QED BY <2>1, <2>2
<1>6. DiskTyped'
  BY <1>0, <1>1, <1>2, <1>3, <1>4, <1>5 DEF DiskTyped
<1>7. Place(p)'
  BY <1>0, QuietPlace
<1>8. OnlyOwn(p) /\ \A i \in Inodes : Tidy(entries'[i])
  BY <1>0, <1>1 DEF OnlyOwn
<1>9. p \notin Cleaners /\ Kept(p) => Grown /\ Kept(p)'
  BY <1>0, QuietOnward, QuietGrown, KeptOwn
<1> QED BY <1>6, <1>7, <1>8, <1>9 DEF Disk

(* What p makes of the directory it has locked.                            *)
Entries == SUBSET ({Owner, OwnerTemp} \cup Results \cup Temps)

LEMMA OwnEntries ==
  ASSUME WorkspaceInv, NEW p \in Processes, pc[p] \in Held(p), NEW F \in Entries, Tidy(F),
         entries' = [entries EXCEPT ![fd[p]] = F]
  PROVE  /\ OnlyOwn(p) /\ (\A i \in Inodes : Tidy(entries'[i]))
         /\ entries' \in [Inodes -> Entries] /\ entries'[fd[p]] = F
         /\ UNCHANGED dir /\ entries[fd[p]] \cap Results \subseteq F => Grown
<1>0. /\ DiskTyped /\ Place(p) /\ (\A q \in Processes : Place(q))
      /\ \A i \in Inodes : Tidy(entries[i])
  BY TypeParts DEF WorkspaceInv
<1>1. entries \in [Inodes -> Entries] /\ fd[p] \in Inodes
  BY <1>0 DEF DiskTyped, Entries, Place
<1>2. entries' \in [Inodes -> Entries] /\ entries'[fd[p]] = F
      /\ \A i \in Inodes \ {fd[p]} : entries'[i] = entries[i]
  BY <1>1
<1>3. OnlyOwn(p)
  BY <1>0, <1>2, Alone
<1>4. \A i \in Inodes : Tidy(entries'[i])
  BY <1>0, <1>1, <1>2, TidyStep
<1>5. ASSUME UNCHANGED dir, entries[fd[p]] \cap Results \subseteq F
      PROVE  Grown
  <2>1. \A w \in Workspaces : dir[w] # NoDir => dir[w] \in Inodes
    BY <1>0 DEF DiskTyped
  <2> QED BY <1>2, <1>5, <2>1 DEF Grown
<1> QED BY <1>2, <1>3, <1>4, <1>5

LEMMA OpenDisk ==
  ASSUME WorkspaceInv, NEW p \in Processes, OpenWorkspace(p)
  PROVE  Disk(p)
<1>0. /\ DiskTyped /\ PlacesTyped /\ Place(p) /\ (\A q \in Processes : Place(q))
      /\ \A i \in Inodes : Tidy(entries[i])
  BY TypeParts DEF WorkspaceInv
<1>1. WorkspaceOf[p] \in Workspaces /\ NoDir \notin Inodes
  BY WorkspaceAssumption DEF NoDir
<1>2. UNCHANGED <<tomb, retained, kills>>
  BY DEF OpenWorkspace
<1>3. CASE Return(p, "error") /\ UNCHANGED <<dir, entries>>
  <2>1. pc'[p] = "idle" /\ last'[p] = "error"
    BY <1>0, <1>3, StepsAre, ReturnEffect
  <2>2. Onward(p) /\ Grown
    BY <1>3, <2>1 DEF Onward, Held, Grown
  <2>3. Place(p)'
    BY <1>0, <1>3, StepsAre, ReturnPlace
  <2>4. DiskTyped' /\ OnlyOwn(p) /\ \A i \in Inodes : Tidy(entries'[i])
    BY <1>0, <1>2, <1>3 DEF DiskTyped, OnlyOwn
  <2> QED BY <1>0, <2>2, <2>3, <2>4, KeptOwn DEF Disk
<1>4. ASSUME NEW i \in Inodes, fd' = [fd EXCEPT ![p] = i], Goto(p, "flock"),
             created' \in {created, [created EXCEPT ![p] = TRUE]},
             created' = created \/ p \in Publishers
      PROVE  Place(p)' /\ pc'[p] = "flock" /\ fd'[p] = i
  <2>1. pc'[p] = "flock" /\ fd'[p] = i
    BY <1>0, <1>4 DEF Goto, PlacesTyped
  <2>2. "flock" \in StepsOf(p) /\ "flock" \notin Held(p)
    BY DEF StepsOf, PublishSteps, LoadSteps, CleanupSteps, Held
  <2>3. created'[p] => p \in Publishers
    BY <1>0, <1>4 DEF Place
  <2> QED BY <1>4, <2>1, <2>2, <2>3 DEF Place
<1>5. CASE /\ dir[WorkspaceOf[p]] # NoDir
           /\ fd' = [fd EXCEPT ![p] = dir[WorkspaceOf[p]]] /\ Goto(p, "flock")
           /\ UNCHANGED <<dir, entries, created, last, lock, tombLock>>
  <2>1. dir[WorkspaceOf[p]] \in Inodes
    BY <1>0, <1>1, <1>5 DEF DiskTyped
  <2>2. Place(p)' /\ pc'[p] = "flock" /\ fd'[p] = dir[WorkspaceOf[p]]
    BY <1>4, <1>5, <2>1
  <2>3. DiskTyped' /\ OnlyOwn(p) /\ Grown /\ \A i \in Inodes : Tidy(entries'[i])
    BY <1>0, <1>2, <1>5 DEF DiskTyped, OnlyOwn, Grown
  <2>4. Kept(p) => Kept(p)'
    BY <1>5, <2>2 DEF Kept
  <2> QED BY <2>2, <2>3, <2>4 DEF Disk
<1>6. ASSUME NEW i \in Inodes,
             dir[WorkspaceOf[p]] = NoDir, p \in Publishers,
             i \notin {dir[v] : v \in Workspaces}, i \notin {fd[q] : q \in Processes},
             dir' = [dir EXCEPT ![WorkspaceOf[p]] = i],
             entries' = [entries EXCEPT ![i] = {}],
             fd' = [fd EXCEPT ![p] = i], Goto(p, "flock"),
             created' = [created EXCEPT ![p] = TRUE],
             UNCHANGED <<last, lock, tombLock>>
      PROVE  Disk(p)
  <2>1. Place(p)' /\ pc'[p] = "flock" /\ fd'[p] = i
    BY <1>4, <1>6
  <2>2. dir' \in [Workspaces -> Inodes \cup {NoDir}] /\ dir'[WorkspaceOf[p]] = i
        /\ \A w \in Workspaces : dir[w] # NoDir => dir'[w] = dir[w]
    BY <1>0, <1>1, <1>6 DEF DiskTyped
  <2>3. entries' \in [Inodes -> Entries]
        /\ \A j \in Inodes \ {i} : entries'[j] = entries[j]
    BY <1>0, <1>6 DEF DiskTyped, Entries
  <2>4. entries'[i] = {}
    BY <1>0, <1>6 DEF DiskTyped
  <2>5. \A j \in Inodes : Tidy(entries'[j])
    BY <1>0, <2>3, <2>4 DEF Tidy
  <2>6. DiskTyped'
    BY <1>0, <1>2, <2>2, <2>3 DEF DiskTyped, Entries
  <2>7. OnlyOwn(p)
    BY <1>0, <1>6, <2>3 DEF OnlyOwn, Place
  <2>8. Grown
    BY <1>0, <1>6, <2>2, <2>3 DEF Grown, DiskTyped
  <2>9. ASSUME Kept(p) PROVE Kept(p)'
    <3>1. dir[WorkspaceOf[p]] \notin Inodes
      BY <1>1, <1>6
    <3>2. ~ (p \in Publishers /\ last'[p] = "ok")
      BY <1>6, <2>9, <3>1 DEF Kept
    <3> QED BY <2>1, <2>2, <3>2 DEF Kept
  <2> QED BY <2>1, <2>5, <2>6, <2>7, <2>8, <2>9 DEF Disk
<1> QED BY <1>3, <1>5, <1>6 DEF OpenWorkspace

LEMMA MarkDisk ==
  ASSUME WorkspaceInv, NEW p \in Processes, Mark(p)
  PROVE  Disk(p)
<1>0. /\ DiskTyped /\ PlacesTyped /\ Place(p) /\ pc[p] \in StepsOf(p)
      /\ \A i \in Inodes : Tidy(entries[i])
  BY TypeParts DEF WorkspaceInv, Place
<1>1. pc[p] \in Held(p) /\ fd[p] \in Inodes
  BY <1>0 DEF Mark, Held, Place
<1>2. UNCHANGED <<tomb, retained, dir, kills>>
  BY DEF Mark
<1>3. entries[fd[p]] \in Entries /\ Tidy(entries[fd[p]])
      /\ entries = [entries EXCEPT ![fd[p]] = entries[fd[p]]]
  BY <1>0, <1>1 DEF DiskTyped, Entries
<1>4. PICK F \in {entries[fd[p]], entries[fd[p]] \cup {OwnerTemp},
                  (entries[fd[p]] \ {OwnerTemp}) \cup {Owner}} :
        entries' = [entries EXCEPT ![fd[p]] = F]
  BY <1>3 DEF Mark, Put, Swap
<1>5. /\ F \in Entries /\ F \cap Results = entries[fd[p]] \cap Results
      /\ F \cap Temps = entries[fd[p]] \cap Temps
  BY <1>3, Kinds DEF Entries
<1>6. Tidy(F)
  BY <1>3, <1>5, TidyKept
<1>7. /\ OnlyOwn(p) /\ Grown /\ (\A i \in Inodes : Tidy(entries'[i]))
      /\ entries' \in [Inodes -> Entries]
  BY <1>1, <1>2, <1>4, <1>5, <1>6, OwnEntries
<1>8. DiskTyped'
  BY <1>0, <1>2, <1>7 DEF DiskTyped, Entries
<1>9. CASE Return(p, "error")
  <2>1. pc'[p] = "idle" /\ last'[p] = "error" /\ Place(p)'
    BY <1>0, <1>9, StepsAre, ReturnEffect, ReturnPlace
  <2>2. Onward(p)
    BY <2>1 DEF Onward, Held
  <2> QED BY <1>0, <1>7, <1>8, <2>1, <2>2, KeptOwn DEF Disk
<1>10. ASSUME NEW s \in AllSteps, Continue(p, s), s \in StepsOf(p), s \notin {"write", "rename"}
       PROVE  Disk(p)
  <2>1. pc'[p] = s /\ UNCHANGED <<fd, created, last, lock>>
    BY <1>0, <1>10, ContinueEffect
  <2>2. Place(p)'
    BY <1>0, <1>1, <1>10, <2>1, HeldPlace
  <2>3. Onward(p)
    BY <1>1, <2>1 DEF Onward
  <2> QED BY <1>0, <1>7, <1>8, <2>2, <2>3, KeptOwn DEF Disk
<1>11. Inside(p) \in AllSteps /\ Inside(p) \in StepsOf(p) /\ Inside(p) \notin {"write", "rename"}
  BY StepsAre DEF Inside, StepsOf, PublishSteps, LoadSteps, CleanupSteps
<1>12. "owner rename" \in AllSteps /\ (created[p] => "owner rename" \in StepsOf(p))
  BY <1>0, StepsAre DEF Place, StepsOf, PublishSteps
<1> QED BY <1>9, <1>10, <1>11, <1>12 DEF Mark

LEMMA RetainDisk ==
  ASSUME WorkspaceInv, NEW p \in Processes, Retain(p)
  PROVE  Disk(p)
<1>0. /\ DiskTyped /\ PlacesTyped /\ Place(p) /\ pc[p] \in StepsOf(p)
      /\ \A i \in Inodes : Tidy(entries[i])
  BY TypeParts DEF WorkspaceInv, Place
<1>1. pc[p] = "retain" /\ pc[p] \in Held(p) /\ fd[p] \in Inodes
  BY <1>0 DEF Retain, Held, Place
<1>2. PICK e \in Removable(p) : entries' = [entries EXCEPT ![fd[p]] = @ \ {e}]
  BY DEF Retain
<1>3. UNCHANGED <<tomb, dir, fd, created, last, lock, kills>> /\ retained' = retained + 1
  BY DEF Retain
<1>4. PICK F : F = entries[fd[p]] \ {e}
  OBVIOUS
<1>5. entries' = [entries EXCEPT ![fd[p]] = F]
  BY <1>2, <1>4
<1>6. F \in Entries /\ F \subseteq entries[fd[p]] /\ Tidy(entries[fd[p]])
  BY <1>0, <1>1, <1>4 DEF DiskTyped, Entries
<1>7. Tidy(F)
  BY <1>6, TidyLess
<1>8. /\ OnlyOwn(p) /\ (\A i \in Inodes : Tidy(entries'[i]))
      /\ entries' \in [Inodes -> Entries]
      /\ entries[fd[p]] \cap Results \subseteq F => Grown
  BY <1>1, <1>3, <1>5, <1>6, <1>7, OwnEntries
<1>9. DiskTyped'
  BY <1>0, <1>3, <1>8 DEF DiskTyped, Entries
<1>10. PICK s \in {"clean", "unlink"} :
         pc' = [pc EXCEPT ![p] = s] /\ (s = "clean" <=> p \in Publishers)
  BY DEF Retain, Goto
<1>11. s \in StepsOf(p)
  BY <1>0, <1>1, <1>10, Roles DEF StepsOf, PublishSteps, CleanupSteps
<1>12. pc'[p] = s
  BY <1>0, <1>10 DEF PlacesTyped
<1>13. Place(p)'
  BY <1>0, <1>1, <1>3, <1>11, <1>12, HeldPlace
<1>14. Onward(p)
  BY <1>1, <1>3 DEF Onward
<1>15. ASSUME p \notin Cleaners PROVE Grown
  <2>1. p \in Publishers
    BY <1>0, <1>1, <1>15, Roles
  <2>2. e \in Temps
    BY <1>2, <2>1 DEF Removable
  <2> QED BY <1>4, <1>8, <2>2, Kinds
<1> QED BY <1>0, <1>8, <1>9, <1>13, <1>14, <1>15, KeptOwn DEF Disk

(* The temporary of a publisher that is about to rename it.                *)
LEMMA WrittenIs ==
  ASSUME NEW p \in Publishers, entries[fd[p]] \cap Temps = {Temp(TaskOf[p], 0)}
  PROVE  Written(p) = Temp(TaskOf[p], 0)
<1>1. Temp(TaskOf[p], 0)[2] = TaskOf[p]
  BY DEF Temp
<1>2. TempsOf(fd[p], TaskOf[p]) = {Temp(TaskOf[p], 0)}
  BY <1>1 DEF TempsOf
<1>3. Temp(TaskOf[p], 0)[3] <= Temp(TaskOf[p], 0)[3]
  BY DEF Temp
<1> QED BY <1>2, <1>3 DEF Written

LEMMA WriteDisk ==
  ASSUME WorkspaceInv, NEW p \in Processes, Write(p)
  PROVE  Disk(p)
<1>0. /\ DiskTyped /\ PlacesTyped /\ Place(p) /\ pc[p] \in StepsOf(p)
      /\ \A i \in Inodes : Tidy(entries[i])
  BY TypeParts DEF WorkspaceInv, Place
<1>1. pc[p] = "write" /\ pc[p] \in Held(p) /\ fd[p] \in Inodes /\ p \in Publishers
      /\ entries[fd[p]] \cap Temps = {}
  BY <1>0, Roles DEF Write, Held, Place
<1>2. TaskOf[p] \in Tasks
  BY <1>1, WorkspaceAssumption
<1>3. UNCHANGED <<tomb, retained, dir, kills>>
  BY DEF Write
<1>4. entries[fd[p]] \in Entries /\ Tidy(entries[fd[p]])
  BY <1>0, <1>1 DEF DiskTyped, Entries
<1>5. ASSUME NEW how \in {"ok", "error"}, Return(p, how), UNCHANGED entries,
             how = "ok" => Result(TaskOf[p], BytesOf[p]) \in entries[fd[p]]
      PROVE  Disk(p)
  <2>1. pc'[p] = "idle" /\ last'[p] = how /\ Place(p)'
    BY <1>0, <1>5, StepsAre, ReturnEffect, ReturnPlace
  <2>2. Onward(p) /\ Grown
    BY <1>1, <1>3, <1>5, <2>1 DEF Onward, Held, Grown
  <2>3. DiskTyped' /\ OnlyOwn(p) /\ \A i \in Inodes : Tidy(entries'[i])
    BY <1>0, <1>3, <1>5 DEF DiskTyped, OnlyOwn
  <2> QED BY <1>0, <2>1, <2>2, <2>3, KeptOwn DEF Disk
<1>6. CASE /\ TaskOf[p] \notin Present(fd[p])
           /\ Put(fd[p], Temp(TaskOf[p], Cardinality(TempsOf(fd[p], TaskOf[p]))))
           /\ Continue(p, "rename")
  <2>1. TempsOf(fd[p], TaskOf[p]) = {}
    BY <1>1 DEF TempsOf
  <2>2. Cardinality(TempsOf(fd[p], TaskOf[p])) = 0
    BY <2>1, FS_EmptySet
  <2>3. PICK F : F = entries[fd[p]] \cup {Temp(TaskOf[p], 0)}
    OBVIOUS
  <2>4. entries' = [entries EXCEPT ![fd[p]] = F]
    BY <1>6, <2>2, <2>3 DEF Put
  <2>5. Missing(entries[fd[p]], TaskOf[p])
    BY <1>2, <1>6 DEF Present, Missing
  <2>6. Tidy(F) /\ F \cap Temps = {Temp(TaskOf[p], 0)} /\ Missing(F, TaskOf[p])
    BY <1>1, <1>2, <1>4, <2>3, <2>5, TidyWrite
  <2>7. F \in Entries /\ entries[fd[p]] \cap Results \subseteq F
    BY <1>2, <1>4, <2>3, Kinds DEF Entries
  <2>8. /\ OnlyOwn(p) /\ Grown /\ (\A i \in Inodes : Tidy(entries'[i]))
        /\ entries' \in [Inodes -> Entries] /\ entries'[fd[p]] = F
    BY <1>1, <1>3, <2>4, <2>6, <2>7, OwnEntries
  <2>9. DiskTyped'
    BY <1>0, <1>3, <2>8 DEF DiskTyped, Entries
  <2>10. pc'[p] = "rename" /\ UNCHANGED <<fd, created, last, lock>>
    BY <1>0, <1>6, StepsAre, ContinueEffect
  <2>11. "rename" \in StepsOf(p)
    BY <1>1 DEF StepsOf, PublishSteps
  <2>12. Place(p)'
    BY <1>0, <1>1, <2>6, <2>8, <2>10, <2>11 DEF Place
  <2>13. Onward(p)
    BY <1>1, <2>10 DEF Onward
  <2> QED BY <1>0, <2>8, <2>9, <2>12, <2>13, KeptOwn DEF Disk
<1> QED BY <1>5, <1>6 DEF Write

LEMMA InstallDisk ==
  ASSUME WorkspaceInv, NEW p \in Processes, Install(p) \/ WriteFails(p)
  PROVE  Disk(p)
<1>0. /\ DiskTyped /\ PlacesTyped /\ Place(p) /\ pc[p] \in StepsOf(p)
      /\ \A i \in Inodes : Tidy(entries[i])
  BY TypeParts DEF WorkspaceInv, Place
<1>1. /\ pc[p] = "rename" /\ pc[p] \in Held(p) /\ fd[p] \in Inodes /\ p \in Publishers
      /\ entries[fd[p]] \cap Temps = {Temp(TaskOf[p], 0)}
      /\ Missing(entries[fd[p]], TaskOf[p])
  BY <1>0, Roles DEF Install, WriteFails, Held, Place
<1>2. Written(p) = Temp(TaskOf[p], 0) /\ Temp(TaskOf[p], 0) \in Temps
  BY <1>1, WrittenIs
<1>3. Tidy(entries[fd[p]]) /\ entries[fd[p]] \in Entries
      /\ entries = [entries EXCEPT ![fd[p]] = entries[fd[p]]]
  BY <1>0, <1>1 DEF DiskTyped, Entries
<1>4. ASSUME NEW how \in {"ok", "error"}, Return(p, how),
             NEW F \in Entries, Tidy(F), entries[fd[p]] \cap Results \subseteq F,
             entries' = [entries EXCEPT ![fd[p]] = F],
             how = "ok" => Result(TaskOf[p], BytesOf[p]) \in F,
             UNCHANGED <<tomb, dir>>, retained' \in Nat, kills' \in 0..MaxKills
      PROVE  Disk(p)
  <2>1. pc'[p] = "idle" /\ last'[p] = how /\ Place(p)'
    BY <1>0, <1>4, StepsAre, ReturnEffect, ReturnPlace
  <2>2. /\ OnlyOwn(p) /\ Grown /\ (\A i \in Inodes : Tidy(entries'[i]))
        /\ entries' \in [Inodes -> Entries] /\ entries'[fd[p]] = F
    BY <1>1, <1>4, OwnEntries
  <2>3. Onward(p)
    BY <1>1, <1>4, <2>1, <2>2 DEF Onward, Held
  <2>4. DiskTyped'
    BY <1>0, <1>4, <2>2 DEF DiskTyped, Entries
  <2> QED BY <1>0, <2>1, <2>2, <2>3, <2>4, KeptOwn DEF Disk
<1>5. CASE Install(p)
  <2>1. PICK F : F = (entries[fd[p]] \ {Temp(TaskOf[p], 0)}) \cup {Result(TaskOf[p], BytesOf[p])}
    OBVIOUS
  <2>2. Tidy(F)
    BY <1>1, <1>3, <2>1, TidyInstall
  <2>3. /\ F \in Entries /\ entries[fd[p]] \cap Results \subseteq F
        /\ Result(TaskOf[p], BytesOf[p]) \in F
    BY <1>1, <1>2, <1>3, <2>1, Kinds DEF Entries
  <2>4. entries' = [entries EXCEPT ![fd[p]] = F]
    BY <1>2, <1>5, <2>1 DEF Install, Swap
  <2>5. Return(p, "ok") /\ UNCHANGED <<tomb, retained, dir, kills>>
    BY <1>5 DEF Install
  <2> QED BY <1>0, <1>4, <2>2, <2>3, <2>4, <2>5 DEF DiskTyped
<1>6. CASE WriteFails(p)
  <2>1. PICK F \in {entries[fd[p]], entries[fd[p]] \ {Temp(TaskOf[p], 0)}} :
          entries' = [entries EXCEPT ![fd[p]] = F]
    BY <1>2, <1>3, <1>6 DEF WriteFails
  <2>2. F \in Entries /\ entries[fd[p]] \cap Results \subseteq F /\ F \subseteq entries[fd[p]]
    BY <1>2, <1>3, <2>1, Kinds DEF Entries
  <2>3. Tidy(F)
    BY <1>3, <2>2, TidyLess
  <2>4. Return(p, "error") /\ UNCHANGED <<tomb, dir>>
    BY <1>6 DEF WriteFails
  <2>5. retained' = retained \/ retained' = retained + 1
    BY <1>6 DEF WriteFails
  <2>6. kills < MaxKills /\ kills' = kills + 1 /\ kills \in 0..MaxKills /\ MaxKills \in Nat
    BY <1>0, <1>6, WorkspaceAssumption DEF WriteFails, DiskTyped
  <2>7. retained' \in Nat /\ kills' \in 0..MaxKills
    BY <1>0, <2>5, <2>6 DEF DiskTyped
  <2> QED BY <1>4, <2>1, <2>2, <2>3, <2>4, <2>7
<1> QED BY <1>5, <1>6

-----------------------------------------------------------------------------
(* Every step.                                                             *)
LEMMA FilledDisk ==
  ASSUME Filled
  PROVE  /\ tomb = "ready" /\ dir \in [Workspaces -> Inodes \cup {NoDir}]
         /\ entries \in [Inodes -> Entries] /\ \A i \in Inodes : Tidy(entries[i])
<1> DEFINE b == BytesOf[CHOOSE p \in Publishers : TRUE]
           full == {Owner} \cup {Result(t, b) : t \in Tasks}
<1>1. \E p \in Publishers : TRUE
  BY WorkspaceAssumption
<1>2. (CHOOSE p \in Publishers : TRUE) \in Publishers
  BY <1>1
<1>3. b \in {BytesOf[p] : p \in Publishers}
  BY <1>2
<1>4. /\ tomb = "ready" /\ dir \in [Workspaces -> 0..Cardinality(Earlier)]
      /\ entries = [i \in Inodes |-> IF i <= Cardinality(Earlier) THEN full ELSE {}]
  BY DEF Filled
<1> HIDE DEF b
<1>5. full \in Entries
  BY <1>3 DEF Entries, Results
<1>6. full \cap Temps = {}
  <2>1. \A t \in Tasks : Result(t, b) \in Results
    BY <1>3 DEF Results
  <2> QED BY <2>1, Kinds
<1>7. \A r, s \in full \cap Results : r[2] = s[2] => r = s
  <2>1. \A r \in full \cap Results : \E t \in Tasks : r = Result(t, b)
    BY Kinds
  <2> QED BY <2>1, Kinds
<1>8. Tidy(full) /\ Tidy({})
  BY <1>6, <1>7 DEF Tidy
<1>9. entries \in [Inodes -> Entries] /\ \A i \in Inodes : Tidy(entries[i])
  <2>1. {} \in Entries
    BY DEF Entries
  <2> HIDE DEF full
  <2> QED BY <1>4, <1>5, <1>8, <2>1
<1>10. \A n \in 0..Cardinality(Earlier) : n \in Inodes \cup {NoDir}
  <2>1. 1..Cardinality(Earlier) \subseteq Inodes
    BY WorkspaceAssumption
  <2>2. \A n \in 0..Cardinality(Earlier) : n = 0 \/ n \in 1..Cardinality(Earlier)
    OBVIOUS
  <2> QED BY <2>1, <2>2 DEF NoDir
<1> QED BY <1>4, <1>9, <1>10

LEMMA WorkspaceInit == Init => WorkspaceInv
<1> SUFFICES ASSUME Init PROVE WorkspaceInv
  OBVIOUS
<1>1. PlacesTyped
  <2>1. "idle" \in AllSteps
    BY DEF AllSteps, LoadSteps
  <2> QED BY <2>1 DEF Init, PlacesTyped, Answers
<1>2. /\ tomb \in {"absent", "bare", "owned", "ready"}
      /\ dir \in [Workspaces -> Inodes \cup {NoDir}]
      /\ entries \in [Inodes -> Entries] /\ \A i \in Inodes : Tidy(entries[i])
  <2>1. CASE Fresh
    BY <2>1 DEF Fresh, Entries, Tidy
  <2> QED BY <2>1, FilledDisk DEF Init
<1>3. retained \in Nat /\ kills \in 0..MaxKills
  BY WorkspaceAssumption DEF Init
<1>4. TypeOK
  BY <1>1, <1>2, <1>3, TypeParts DEF DiskTyped, Entries
<1>5. ASSUME NEW p \in Processes
      PROVE  Place(p) /\ Kept(p) /\ last[p] = "none"
  <2>1. pc[p] = "idle" /\ last[p] = "none" /\ ~ created[p]
    BY DEF Init
  <2>2. "idle" \in StepsOf(p) /\ "idle" \notin Held(p)
    BY DEF StepsOf, PublishSteps, LoadSteps, CleanupSteps, Held
  <2> QED BY <2>1, <2>2 DEF Place, Kept
<1>6. CompleteIsClean
  BY <1>5 DEF CompleteIsClean, Processes
<1> QED BY <1>2, <1>4, <1>5, <1>6 DEF WorkspaceInv

LEMMA DiskStep ==
  ASSUME WorkspaceInv, NEW p \in Processes, Step(p) \/ WriteFails(p) \/ Kill(p)
  PROVE  Disk(p)
<1>1. Quiet(p) \/ OpenWorkspace(p) \/ Mark(p) \/ Retain(p) \/ Write(p) \/ Install(p) \/ WriteFails(p)
  BY DEF Step, Quiet, Publish
<1> QED BY <1>1, QuietDisk, OpenDisk, MarkDisk, RetainDisk, WriteDisk, InstallDisk

(* A loader that finds every result finds no temporary: one is only there  *)
(* for a task without a result.                                            *)
LEMMA LoadIsClean ==
  ASSUME WorkspaceInv, NEW p \in Processes, Load(p)
  PROVE  last'[p] \in {"ok", "error"}
<1>0. PlacesTyped /\ Place(p) /\ Tidy(entries[fd[p]])
  BY TypeParts DEF WorkspaceInv, Load, Place, Held
<1>1. Present(fd[p]) = Tasks => entries[fd[p]] \cap Temps = {}
  BY <1>0 DEF Present, Tidy, Missing
<1>2. PICK how \in {"ok", "error"} : Return(p, how)
  BY <1>1 DEF Load
<1> QED BY <1>0, <1>2, StepsAre, ReturnEffect

LEMMA CleanStep ==
  ASSUME WorkspaceInv, NEW p \in Processes, Step(p) \/ WriteFails(p) \/ Kill(p)
  PROVE  CompleteIsClean'
<1>0. TypeOK /\ PlacesTyped /\ Place(p) /\ CompleteIsClean
  BY TypeParts DEF WorkspaceInv
<1>1. OthersStay(p)
  BY <1>0, Shapes, ShapeEffect
<1>2. last'[p] \in {last[p], "ok", "error"}
  <2>1. Load(p) \/ UNCHANGED last \/ Return(p, "ok") \/ Return(p, "error")
    <3>1. CASE Call(p) \/ OpenTombs(p) \/ OpenWorkspace(p) \/ Flock(p) \/ Mark(p)
      BY <3>1 DEF Call, OpenTombs, OpenWorkspace, Flock, Mark, Continue
    <3>2. CASE Admit(p) \/ Retain(p) \/ Load(p) \/ Cleanup(p)
      BY <3>2 DEF Admit, Retain, Cleanup, Inspect, Unlink, RemoveDirectory, Continue
    <3>3. CASE Publish(p) \/ WriteFails(p) \/ Kill(p)
      BY <3>3 DEF Publish, Validate, Clean, Write, Install, WriteFails, Kill, Continue
    <3> QED BY <3>1, <3>2, <3>3 DEF Step
  <2> QED BY <1>0, <2>1, LoadIsClean, StepsAre, ReturnEffect
<1>3. ASSUME NEW l \in Loaders
      PROVE  last'[l] # "foreign"
  <2>1. l \in Processes /\ last[l] # "foreign"
    BY <1>0 DEF Processes, CompleteIsClean
  <2> QED BY <1>1, <1>2, <2>1 DEF OthersStay
<1> QED BY <1>3 DEF CompleteIsClean

LEMMA WorkspaceStep == WorkspaceInv /\ [Next]_vars => WorkspaceInv'
<1> SUFFICES ASSUME WorkspaceInv, [Next]_vars PROVE WorkspaceInv'
  OBVIOUS
<1>0. /\ TypeOK /\ PlacesTyped /\ (\A p \in Processes : Place(p))
      /\ (NeverCleaned => \A p \in Processes : Kept(p))
  BY TypeParts DEF WorkspaceInv
<1>1. CASE UNCHANGED vars
  <2>1. TypeOK' /\ CompleteIsClean' /\ \A i \in Inodes : Tidy(entries'[i])
    BY <1>1 DEF WorkspaceInv, vars, TypeOK, CompleteIsClean
  <2>2. \A p \in Processes : Place(p)'
    BY <1>0, <1>1 DEF vars, Place
  <2>3. NeverCleaned' => \A p \in Processes : Kept(p)'
    BY <1>0, <1>1 DEF vars, Kept, NeverCleaned
  <2> QED BY <2>1, <2>2, <2>3 DEF WorkspaceInv
<1>2. ASSUME NEW p \in Processes, Step(p) \/ WriteFails(p) \/ Kill(p)
      PROVE  WorkspaceInv'
  <2>1. Shape(p) /\ Disk(p) /\ CompleteIsClean'
    BY <1>0, <1>2, Shapes, DiskStep, CleanStep
  <2>2. PlacesTyped' /\ OthersStay(p)
    BY <1>0, <2>1, ShapeEffect
  <2>3. TypeOK'
    <3>1. DiskTyped'
      BY <2>1 DEF Disk
    <3> QED BY <2>2, <3>1 DEF TypeOK, PlacesTyped, DiskTyped, AllSteps, Answers
  <2>4. \A q \in Processes : Place(q)'
    BY <1>0, <2>1, <2>2, PlaceStep DEF Disk
  <2>5. ASSUME NeverCleaned' PROVE \A q \in Processes : Kept(q)'
    <3>1. NeverCleaned /\ p \notin Cleaners
      BY <1>0, <2>1, <2>5, NeverStep
    <3>2. Grown /\ Kept(p)'
      BY <1>0, <2>1, <3>1 DEF Disk
    <3> QED BY <1>0, <2>2, <3>1, <3>2, KeptStep
  <2> QED BY <2>1, <2>3, <2>4, <2>5 DEF WorkspaceInv, Disk
<1> QED BY <1>1, <1>2 DEF Next

-----------------------------------------------------------------------------
(* Every variable holds a value of its kind.                               *)
THEOREM TypeCorrect == Spec => []TypeOK
<1>1. WorkspaceInv => TypeOK
  BY DEF WorkspaceInv
<1> QED BY <1>1, WorkspaceInit, WorkspaceStep, PTL DEF Spec

(* What publish_task_result answered is installed is there, byte for byte  *)
(* and alone for its task, until a cleaner is called, whoever else was at  *)
(* work in the workspace or killed there; and load_task_results never      *)
(* refuses a complete set as foreign.                                      *)
THEOREM AckedAlwaysThere == Spec => []AckedIsThere
<1>1. ASSUME WorkspaceInv, NEW p \in Publishers, last[p] = "ok", NeverCleaned
      PROVE  /\ dir[WorkspaceOf[p]] # NoDir
             /\ Result(TaskOf[p], BytesOf[p]) \in entries[dir[WorkspaceOf[p]]]
             /\ \A r \in entries[dir[WorkspaceOf[p]]] \cap Results :
                  r[2] = TaskOf[p] => r[3] = BytesOf[p]
  <2>1. p \in Processes
    BY DEF Processes
  <2>2. /\ dir[WorkspaceOf[p]] \in Inodes
        /\ Result(TaskOf[p], BytesOf[p]) \in entries[dir[WorkspaceOf[p]]]
    BY <1>1, <2>1 DEF WorkspaceInv, Kept
  <2>3. dir[WorkspaceOf[p]] # NoDir
    BY <2>2, WorkspaceAssumption DEF NoDir
  <2>4. Tidy(entries[dir[WorkspaceOf[p]]])
    BY <1>1, <2>2 DEF WorkspaceInv
  <2>5. \A r \in entries[dir[WorkspaceOf[p]]] \cap Results :
          r[2] = TaskOf[p] => r = Result(TaskOf[p], BytesOf[p])
    BY <2>2, <2>4, Kinds DEF Tidy
  <2> QED BY <2>2, <2>3, <2>5, Kinds
<1>2. WorkspaceInv => AckedIsThere
  BY <1>1 DEF WorkspaceInv, AckedIsThere, NeverCleaned
<1> QED BY <1>2, WorkspaceInit, WorkspaceStep, PTL DEF Spec
=============================================================================
