---------------------------- MODULE TaskWorkspace ----------------------------
(***************************************************************************)
(* corpusgen/parallel/workspace.py on safeio.py: publishers install the    *)
(* results of disjoint tasks in a shared workspace directory, a loader     *)
(* reads a complete set back, a cleaner removes the workspace.  Any of     *)
(* them may be killed between two system calls.  Nothing is unlinked: what *)
(* is removed is renamed into one retained-tombstone directory, whose lock *)
(* guards an admission threshold.                                          *)
(*                                                                         *)
(* A directory is an inode number, a path leads to one or to none, and a   *)
(* process keeps the one it opened.  The parents of a workspace, opened or *)
(* made without a race, are left out; so are symbolic links and files of   *)
(* other programs.  The byte threshold is left out, the count kept.        *)
(***************************************************************************)
EXTENDS Naturals, FiniteSets

CONSTANTS Workspaces, Tasks,
          Publishers, Loaders, Cleaners,
          WorkspaceOf,   \* the workspace a process is called for
          TaskOf,        \* a publisher's task
          BytesOf,       \* what it renders for it
          Earlier,       \* workspaces that an earlier run may have filled
          Inodes,
          Threshold,     \* admission count threshold
          MaxKills       \* bound on kills and failed writes

Processes == Publishers \cup Loaders \cup Cleaners

Nobody == "nobody"
NoDir  == 0

ASSUME WorkspaceAssumption ==
  /\ WorkspaceOf \in [Processes -> Workspaces]
  /\ TaskOf \in [Publishers -> Tasks] /\ DOMAIN BytesOf = Publishers
  /\ Publishers # {} /\ Publishers \cap (Loaders \cup Cleaners) = {}
  /\ Loaders \cap Cleaners = {} /\ Nobody \notin Processes
  /\ Earlier \subseteq Workspaces /\ 1..Cardinality(Earlier) \subseteq Inodes
  /\ Inodes \subseteq Nat \ {0}
  /\ Cardinality(Inodes) > Cardinality(Workspaces) + Cardinality(Processes)
  /\ Threshold \in Nat /\ MaxKills \in Nat

VARIABLES
  tomb,      \* the tombstone directory: absent, bare, owned, ready
  tombLock,  \* holder of the flock on its lock file, or Nobody
  retained,  \* objects in it
  dir,       \* workspace path -> inode, or NoDir
  entries,   \* inode -> what the directory holds
  lock,      \* inode -> holder of the flock, or Nobody
  pc, fd, created,   \* per process: next step, opened inode, made by it
  last,      \* how its last call ended
  kills

vars  == <<tomb, tombLock, retained, dir, entries, lock, pc, fd, created,
           last, kills>>
store == <<tomb, tombLock, retained>>

Owner        == <<"owner">>
OwnerTemp    == <<"temp", "owner">>
Result(t, b) == <<"result", t, b>>
Temp(t, n)   == <<"temp", t, n>>   \* n: the random suffix

Results  == {Result(t, b) : t \in Tasks, b \in {BytesOf[p] : p \in Publishers}}
Temps    == {Temp(t, n) : t \in Tasks, n \in 0..MaxKills}
TempsOf(i, t) == {e \in entries[i] \cap Temps : e[2] = t}
Present(i) == {t \in Tasks : \E r \in entries[i] \cap Results : r[2] = t}

Goto(p, s)  == pc' = [pc EXCEPT ![p] = s]
Put(i, e)   == entries' = [entries EXCEPT ![i] = @ \cup {e}]
Swap(i, e, f) == entries' = [entries EXCEPT ![i] = (@ \ {e}) \cup {f}]

(* A descriptor left open: the locks stay held.                            *)
ReturnLeaks(p, how) ==
  /\ Goto(p, "idle")
  /\ fd' = [fd EXCEPT ![p] = NoDir]
  /\ created' = [created EXCEPT ![p] = FALSE]
  /\ last' = [last EXCEPT ![p] = how]
  /\ UNCHANGED <<lock, tombLock>>

(* Every way out of a call closes its descriptors, which drops its locks.  *)
Return(p, how) ==
  /\ Goto(p, "idle")
  /\ fd' = [fd EXCEPT ![p] = NoDir]
  /\ created' = [created EXCEPT ![p] = FALSE]
  /\ last' = [last EXCEPT ![p] = how]
  /\ lock' = [i \in Inodes |-> IF lock[i] = p THEN Nobody ELSE lock[i]]
  /\ tombLock' = IF tombLock = p THEN Nobody ELSE tombLock

Continue(p, s) ==
  Goto(p, s) /\ UNCHANGED <<fd, created, last, lock, tombLock>>

-----------------------------------------------------------------------------
Fresh ==
  /\ tomb = "absent"
  /\ dir = [w \in Workspaces |-> NoDir]
  /\ entries = [i \in Inodes |-> {}]

(* Some workspaces hold all the results of publishers that went before.    *)
Filled ==
  LET bytes == BytesOf[CHOOSE p \in Publishers : TRUE]
      full  == {Owner} \cup {Result(t, bytes) : t \in Tasks}
  IN  /\ tomb = "ready"
      /\ dir \in [Workspaces -> 0..Cardinality(Earlier)]
      /\ \A w \in Workspaces : dir[w] # NoDir <=> w \in Earlier
      /\ \A v, w \in Earlier : v # w => dir[v] # dir[w]
      /\ entries = [i \in Inodes |-> IF i <= Cardinality(Earlier) THEN full ELSE {}]

Init ==
  /\ Fresh \/ Filled
  /\ tombLock = Nobody /\ retained = 0
  /\ lock = [i \in Inodes |-> Nobody]
  /\ pc = [p \in Processes |-> "idle"]
  /\ fd = [p \in Processes |-> NoDir]
  /\ created = [p \in Processes |-> FALSE]
  /\ last = [p \in Processes |-> "none"]
  /\ kills = 0

(* A call that did not succeed is made again.                              *)
Call(p) ==
  /\ pc[p] = "idle" /\ last[p] # "ok"
  /\ Continue(p, IF p \in Publishers THEN "tomb" ELSE "open")
  /\ UNCHANGED <<tomb, retained, dir, entries, kills>>

(* open_tombstone_directory: whoever makes the directory fills it; anyone  *)
(* else needs it filled.                                                   *)
TombReady(p) == IF p \in Publishers THEN "open" ELSE "unlink"

OpenTombs(p) ==
  /\ \/ /\ pc[p] = "tomb" /\ tomb = "absent"
        /\ tomb' = "bare" /\ Continue(p, "tomb owner")
     \/ /\ pc[p] = "tomb owner"
        /\ tomb' = "owned" /\ Continue(p, "tomb lock")
     \/ /\ pc[p] = "tomb lock"
        /\ tomb' = "ready" /\ Continue(p, "admission")
     \/ /\ pc[p] = "tomb" /\ tomb # "absent"
        /\ IF tomb = "ready" THEN Continue(p, "admission") ELSE Return(p, "error")
        /\ UNCHANGED tomb
     \/ /\ pc[p] = "admission" /\ tombLock = Nobody
        /\ IF retained <= Threshold
           THEN Continue(p, TombReady(p)) ELSE Return(p, "error")
        /\ UNCHANGED tomb
  /\ UNCHANGED <<retained, dir, entries, kills>>

(* open_directory_at: only publishers create.                              *)
OpenWorkspace(p) ==
  LET w == WorkspaceOf[p]
      enter(i) == fd' = [fd EXCEPT ![p] = i] /\ Goto(p, "flock")
  IN  /\ pc[p] = "open"
      /\ \/ /\ dir[w] # NoDir
            /\ enter(dir[w])
            /\ UNCHANGED <<dir, entries, created, last, lock, tombLock>>
         \/ /\ dir[w] = NoDir /\ p \notin Publishers
            /\ Return(p, "error")
            /\ UNCHANGED <<dir, entries>>
         \/ /\ dir[w] = NoDir /\ p \in Publishers
            /\ \E i \in Inodes :
                 /\ i \notin {dir[v] : v \in Workspaces}
                 /\ i \notin {fd[q] : q \in Processes}
                 /\ \A j \in Inodes : j < i =>
                      \/ j \in {dir[v] : v \in Workspaces}
                      \/ j \in {fd[q] : q \in Processes}
                 /\ dir' = [dir EXCEPT ![w] = i]
                 /\ entries' = [entries EXCEPT ![i] = {}]
                 /\ enter(i)
            /\ created' = [created EXCEPT ![p] = TRUE]
            /\ UNCHANGED <<last, lock, tombLock>>
      /\ UNCHANGED <<tomb, retained, kills>>

Flock(p) ==
  /\ pc[p] = "flock" /\ lock[fd[p]] = Nobody
  /\ lock' = [lock EXCEPT ![fd[p]] = p]
  /\ Goto(p, "owner")
  /\ UNCHANGED <<store, dir, entries, fd, created, last, kills>>

(* _open_workspace, under the lock: the maker of the directory installs    *)
(* the ownership marker, everyone else requires it.                        *)
Inside(p) == IF p \in Publishers THEN "validate"
             ELSE IF p \in Loaders THEN "load" ELSE "inspect"

Mark(p) ==
  /\ \/ /\ pc[p] = "owner" /\ created[p]
        /\ IF entries[fd[p]] = {}
           THEN Put(fd[p], OwnerTemp) /\ Continue(p, "owner rename")
           ELSE Return(p, "error") /\ UNCHANGED entries
     \/ /\ pc[p] = "owner rename"
        /\ Swap(fd[p], OwnerTemp, Owner)
        /\ Continue(p, Inside(p))
     \/ /\ pc[p] = "owner" /\ ~created[p]
        /\ IF Owner \in entries[fd[p]]
           THEN Continue(p, Inside(p)) ELSE Return(p, "error")
        /\ UNCHANGED entries
  /\ UNCHANGED <<tomb, retained, dir, kills>>

(* _validate_workspace_entries: a marker's temporary is foreign.           *)
Valid(i) == entries[i] \subseteq {Owner} \cup Results \cup Temps

Validate(p) ==
  /\ pc[p] = "validate"
  /\ IF Valid(fd[p]) THEN Continue(p, "clean") ELSE Return(p, "error")
  /\ UNCHANGED <<tomb, retained, dir, entries, kills>>

(* _retain_regular_tombstone and _remove_owned_empty_directory: under the  *)
(* tombstone lock, admission is required and the object renamed.           *)
Admit(p) ==
  /\ pc[p] \in {"admit", "admit dir"} /\ tombLock = Nobody
  /\ IF retained + 1 <= Threshold
     THEN /\ tombLock' = p
          /\ Goto(p, IF pc[p] = "admit" THEN "retain" ELSE "retain dir")
          /\ UNCHANGED <<fd, created, last, lock>>
     ELSE Return(p, "error")
  /\ UNCHANGED <<tomb, retained, dir, entries, kills>>

(* clean_owned_temporaries takes the temporaries; cleanup_task_workspace   *)
(* takes everything, the ownership marker last.                            *)
Removable(p) ==
  IF p \in Publishers THEN entries[fd[p]] \cap Temps
  ELSE IF entries[fd[p]] = {Owner} THEN {Owner}
  ELSE entries[fd[p]] \ {Owner}

Retain(p) ==
  /\ pc[p] = "retain"
  /\ \E e \in Removable(p) : entries' = [entries EXCEPT ![fd[p]] = @ \ {e}]
  /\ retained' = retained + 1 /\ tombLock' = Nobody
  /\ Goto(p, IF p \in Publishers THEN "clean" ELSE "unlink")
  /\ UNCHANGED <<tomb, dir, fd, created, last, lock, kills>>

Clean(p) ==
  /\ pc[p] = "clean"
  /\ Continue(p, IF Removable(p) = {} THEN "write" ELSE "admit")
  /\ UNCHANGED <<tomb, retained, dir, entries, kills>>

(* Any bytes already installed accepted.                                   *)
WriteAcceptsAny(p) ==
  LET t == TaskOf[p]
  IN  /\ pc[p] = "write"
      /\ IF t \in Present(fd[p])
         THEN Return(p, "ok") /\ UNCHANGED entries
         ELSE /\ Put(fd[p], Temp(t, Cardinality(TempsOf(fd[p], t))))
              /\ Continue(p, "rename")
      /\ UNCHANGED <<tomb, retained, dir, kills>>

(* atomic_write_or_match: bytes already there must be the same.            *)
Write(p) ==
  LET t == TaskOf[p]
  IN  /\ pc[p] = "write"
      /\ IF t \in Present(fd[p])
         THEN /\ Return(p, IF Result(t, BytesOf[p]) \in entries[fd[p]]
                           THEN "ok" ELSE "error")
              /\ UNCHANGED entries
         ELSE /\ Put(fd[p], Temp(t, Cardinality(TempsOf(fd[p], t))))
              /\ Continue(p, "rename")
      /\ UNCHANGED <<tomb, retained, dir, kills>>

(* The temporary of this call, made after the others were cleaned away.    *)
Written(p) == CHOOSE e \in TempsOf(fd[p], TaskOf[p]) :
                \A f \in TempsOf(fd[p], TaskOf[p]) : f[3] <= e[3]

Install(p) ==
  /\ pc[p] = "rename"
  /\ Swap(fd[p], Written(p), Result(TaskOf[p], BytesOf[p]))
  /\ Return(p, "ok")
  /\ UNCHANGED <<tomb, retained, dir, kills>>

(* AtomicFileWriter.abort retains the temporary if it is admitted.         *)
WriteFails(p) ==
  /\ pc[p] = "rename" /\ kills < MaxKills /\ tombLock = Nobody
  /\ kills' = kills + 1
  /\ IF retained + 1 <= Threshold
     THEN /\ retained' = retained + 1
          /\ entries' = [entries EXCEPT ![fd[p]] = @ \ {Written(p)}]
     ELSE UNCHANGED <<retained, entries>>
  /\ Return(p, "error")
  /\ UNCHANGED <<tomb, dir>>

Publish(p) == Validate(p) \/ Clean(p) \/ Write(p) \/ Install(p)

(* load_task_results.                                                      *)
Load(p) ==
  LET i == fd[p]
  IN  /\ pc[p] = "load"
      /\ Return(p, IF ~Valid(i) THEN "error"
                   ELSE IF Present(i) # Tasks THEN "error"
                   ELSE IF entries[i] \cap Temps # {} THEN "foreign"
                   ELSE "ok")
      /\ UNCHANGED <<tomb, retained, dir, entries, kills>>

(* cleanup_task_workspace.                                                 *)
Inspect(p) ==
  /\ pc[p] = "inspect"
  /\ IF Valid(fd[p]) THEN Continue(p, "tomb") ELSE Return(p, "error")
  /\ UNCHANGED <<tomb, retained, dir, entries, kills>>

Unlink(p) ==
  /\ pc[p] = "unlink"
  /\ Continue(p, IF entries[fd[p]] = {} THEN "admit dir" ELSE "admit")
  /\ UNCHANGED <<tomb, retained, dir, entries, kills>>

RemoveDirectory(p) ==
  /\ pc[p] = "retain dir"
  /\ IF dir[WorkspaceOf[p]] = fd[p]
     THEN /\ dir' = [dir EXCEPT ![WorkspaceOf[p]] = NoDir]
          /\ retained' = retained + 1
          /\ Return(p, "ok")
     ELSE Return(p, "error") /\ UNCHANGED <<dir, retained>>
  /\ UNCHANGED <<tomb, entries, kills>>

Cleanup(p) == Inspect(p) \/ Unlink(p) \/ RemoveDirectory(p)

(* Files stay as they are; locks go with the process.                      *)
Kill(p) ==
  /\ pc[p] # "idle" /\ kills < MaxKills
  /\ kills' = kills + 1
  /\ Return(p, "error")
  /\ UNCHANGED <<tomb, retained, dir, entries>>

Step(p) ==
  \/ Call(p) \/ OpenTombs(p) \/ OpenWorkspace(p) \/ Flock(p) \/ Mark(p)
  \/ Admit(p) \/ Retain(p) \/ Load(p) \/ Cleanup(p) \/ Publish(p)

Next == \E p \in Processes : Step(p) \/ WriteFails(p) \/ Kill(p)

Spec == Init /\ [][Next]_vars

(* Processes run, failed calls are made again, and a waiter for a flock    *)
(* that is released time and again gets its turn.                          *)
FairSpec == Spec /\ \A p \in Processes : WF_vars(Step(p)) /\ SF_vars(Flock(p))

-----------------------------------------------------------------------------
PublishSteps ==
  {"idle", "tomb", "tomb owner", "tomb lock", "admission", "open", "flock",
   "owner", "owner rename", "validate", "clean", "admit", "retain", "write",
   "rename"}
LoadSteps    == {"idle", "open", "flock", "owner", "load"}
CleanupSteps ==
  {"idle", "open", "flock", "owner", "inspect", "tomb", "tomb owner",
   "tomb lock", "admission", "unlink", "admit", "retain", "admit dir",
   "retain dir"}

(* Every variable holds a value of its kind.                               *)
TypeOK ==
  /\ pc \in [Processes -> PublishSteps \cup LoadSteps \cup CleanupSteps]
  /\ tomb \in {"absent", "bare", "owned", "ready"}
  /\ tombLock \in Processes \cup {Nobody} /\ retained \in Nat
  /\ dir \in [Workspaces -> Inodes \cup {NoDir}]
  /\ entries \in [Inodes -> SUBSET ({Owner, OwnerTemp} \cup Results \cup Temps)]
  /\ lock \in [Inodes -> Processes \cup {Nobody}]
  /\ fd \in [Processes -> Inodes \cup {NoDir}]
  /\ created \in [Processes -> BOOLEAN]
  /\ last \in [Processes -> {"none", "ok", "error", "foreign"}]
  /\ kills \in 0..MaxKills

(* A complete set of results holds no temporary of a killed publisher, so  *)
(* a loader never refuses it as foreign (workspace.py load_task_results).  *)
CompleteIsClean == \A p \in Loaders : last[p] # "foreign"

(* What a publisher was told is installed is what is there, byte for byte, *)
(* for as long as nobody cleans up, whoever else rendered the same task,   *)
(* and is taken for what it is by a loader (workspace.py                   *)
(* publish_task_result, load_task_results).                                *)
AckedIsThere ==
  /\ \A p \in Publishers :
       last[p] = "ok" /\ (\A c \in Cleaners : last[c] = "none" /\ pc[c] = "idle") =>
         /\ dir[WorkspaceOf[p]] # NoDir
         /\ Result(TaskOf[p], BytesOf[p]) \in entries[dir[WorkspaceOf[p]]]
         /\ \A r \in entries[dir[WorkspaceOf[p]]] \cap Results :
              r[2] = TaskOf[p] => r[3] = BytesOf[p]
  /\ CompleteIsClean

(* A workspace without its ownership marker, and without its maker to      *)
(* install one or a cleaner to remove it: no call on it can succeed.       *)
Orphaned(w) ==
  /\ dir[w] # NoDir /\ Owner \notin entries[dir[w]]
  /\ \A p \in Processes : fd[p] = dir[w] =>
       ~created[p] /\ pc[p] \notin {"unlink", "admit dir", "retain dir"}

(* What only a person can put right: a tombstone directory nobody filled,  *)
(* an orphaned workspace, a left-over that is not admitted, other bytes.   *)
Wedged(p) ==
  LET w == WorkspaceOf[p]
      i == dir[w]
  IN  \/ tomb \in {"bare", "owned"}
      \/ Orphaned(w)
      \/ i # NoDir /\ entries[i] \cap Temps # {} /\ retained = Threshold
      \/ i # NoDir /\ \E r \in entries[i] \cap Results :
                        r[2] = TaskOf[p] /\ r[3] # BytesOf[p]

(* A publisher that calls again until it succeeds does succeed, unless     *)
(* something is wedged for good: losing the race to make a directory, or a *)
(* kill inside the lock, only costs it a call (workspace.py                *)
(* publish_task_result).                                                   *)
PublishedUnlessWedged ==
  \A p \in Publishers : <>[](last[p] = "ok" \/ Wedged(p))
=============================================================================
