-------------------------- MODULE ExactResumeProofs --------------------------
(***************************************************************************)
(* Proofs about ExactResume for any number of steps, any logging and       *)
(* snapshot interval, with a ledger or without, and any number of          *)
(* exceptions and kills.                                                   *)
(***************************************************************************)
EXTENDS ExactResume, SequenceTheorems, TLAPS

-----------------------------------------------------------------------------
(* The rows and snapshots that are due up to a step.                       *)
RowDue(s)  == s % LogEvery = 0 \/ s = MaxSteps
SnapDue(s) == s % SnapEvery = 0

RowsTo(s)  == {d \in 1..MaxSteps : d <= s /\ RowDue(d)}
SnapsTo(s) == {d \in 1..MaxSteps : d <= s /\ SnapDue(d)}

(* The types that may be appended after a ledger whose latest type is l.   *)
After(l) == IF l = "none" THEN {"planned"} ELSE Transitions[l]

(* A plan is a path of legal transitions from the latest type l, up to a   *)
(* refusal; it arrives where training may start, and the checkpoint it     *)
(* imports is the one on the disk.                                         *)
Before(l, p, i) == IF i = 1 THEN l ELSE p[i - 1].type

Path(l, p) ==
  \A i \in 1..Len(p) :
    p[i].type = "refused" \/ p[i].type \in After(Before(l, p, i))

Destination(l, p) == IF p = << >> THEN l ELSE p[Len(p)].type

Imports(p) ==
  \A i \in 1..Len(p) :
    p[i].type = "checkpointed" => p[i].step = ckpt /\ ckpt # NoStep

GoodPlan(p) ==
  /\ Path(Latest, p)
  /\ Destination(Latest, p) \in {"started", "resumed", "refused"}
  /\ Imports(p)

(* What no crash takes away: the rows increase and all are due; the        *)
(* checkpoint has behind it every row and snapshot due up to it; and where *)
(* there is a snapshot, the inventory finds its directory.                 *)
Increasing == \A i, j \in 1..Len(log) : i < j => log[i] < log[j]

Kept ==
  /\ Increasing
  /\ Rows \subseteq RowsTo(MaxSteps) /\ snaps \subseteq SnapsTo(MaxSteps)
  /\ ckpt # NoStep => RowsTo(ckpt) \subseteq Rows /\ SnapsTo(ckpt) \subseteq snaps
  /\ snaps # {} => "snapshots" \in made

(* While a process works on a run it was let into, the log and the         *)
(* snapshots are those of an uninterrupted run at the same point.          *)
Starting == {"plan", "mkdir", "mksnap", "config", "write config"}

Looping == {"train", "log", "snapshot", "write snapshot", "tick",
            "write ckpt", "record", "complete", "done"}

Running ==
  /\ pc \in Starting \cup Looping =>
       /\ ckpt = NoStep \/ ckpt <= step
       /\ Rows = RowsTo(IF pc = "log" THEN step - 1 ELSE step)
       /\ snaps = SnapsTo(IF pc \in {"log", "snapshot", "write snapshot"}
                          THEN step - 1 ELSE step)
  /\ pc \in {"log", "snapshot", "write snapshot"} => step # 0
  /\ pc \in {"snapshot", "write snapshot"} => SnapDue(step)

(* It trains where the inventory of its successor expects it to.           *)
Prepared ==
  pc \in Looping \cup {"config", "write config"} => "snapshots" \in made

(* The last checkpoint is that of the last step.                           *)
Closing ==
  /\ closing => /\ step = MaxSteps
                /\ pc \in {"write ckpt", "record", "complete", "done", "raise"}
  /\ pc \in {"complete", "done"} => closing
  /\ pc \in {"record", "complete", "done"} => ckpt = step

(* The ledger's course while a process works.                              *)
Planned ==
  pc = "plan" => IF Ledgered THEN GoodPlan(plan) ELSE plan = << >>

Course ==
  /\ pc = "record" => Ledgered
  /\ Ledgered =>
       /\ pc \in (Starting \cup Looping) \ {"plan", "complete", "done"} =>
            Latest \in {"started", "resumed", "checkpointed"}
       /\ pc \in {"complete", "done"} => step \in Recorded
       /\ pc = "complete" => Latest = "checkpointed"
       /\ pc = "done" => Latest = "completed"

Finished ==
  outcome = "ok" =>
    /\ pc = "off" /\ ckpt = MaxSteps
    /\ Rows = RowsTo(MaxSteps) /\ snaps = SnapsTo(MaxSteps)
    /\ Ledgered => Latest = "completed" /\ MaxSteps \in Recorded

ResumeInv ==
  /\ TypeOK
  /\ LedgerNotAhead /\ Kept /\ Running /\ Prepared /\ Closing
  /\ Planned /\ Course /\ Finished

-----------------------------------------------------------------------------
(* What is due up to a step, from what was due up to the step before.      *)
LEMMA RowsToStep ==
  ASSUME NEW s \in 1..MaxSteps
  PROVE  RowsTo(s) = IF RowDue(s) THEN RowsTo(s - 1) \cup {s} ELSE RowsTo(s - 1)
  BY ResumeAssumption DEF RowsTo

LEMMA SnapsToStep ==
  ASSUME NEW s \in 1..MaxSteps
  PROVE  SnapsTo(s)
           = IF SnapDue(s) THEN SnapsTo(s - 1) \cup {s} ELSE SnapsTo(s - 1)
  BY ResumeAssumption DEF SnapsTo

LEMMA NothingDueYet == RowsTo(0) = {} /\ SnapsTo(0) = {}
  BY ResumeAssumption DEF RowsTo, SnapsTo

LEMMA DueWithin ==
  ASSUME NEW s \in 0..MaxSteps
  PROVE  RowsTo(s) \subseteq RowsTo(MaxSteps) /\ SnapsTo(s) \subseteq SnapsTo(MaxSteps)
  BY ResumeAssumption DEF RowsTo, SnapsTo

(* A row appended past the last one.                                       *)
LEMMA RowAppended ==
  ASSUME TypeOK, Increasing, NEW s \in 1..MaxSteps, log' = Append(log, s),
         \A r \in Rows : r < s
  PROVE  /\ log' \in Seq(1..MaxSteps)
         /\ Increasing' /\ Rows' = Rows \cup {s}
<1>1. log \in Seq(1..MaxSteps)
  BY DEF TypeOK
<1> DEFINE n == Len(log)
<1>2. n \in Nat /\ \A i \in 1..n : log[i] \in 1..MaxSteps
  BY <1>1, LenProperties, ElementOfSeq
<1>3. /\ log' \in Seq(1..MaxSteps) /\ Len(log') = n + 1
      /\ \A i \in 1..n : log'[i] = log[i]
      /\ log'[n + 1] = s
  BY <1>1, AppendProperties
<1>4. \A i \in 1..n : log[i] < s
  BY DEF Rows
<1> HIDE DEF n
<1>5. \A i \in 1..(n + 1) : i \in 1..n \/ i = n + 1
  BY <1>2
<1>6. \A i, j \in 1..(n + 1) : i < j => log'[i] < log'[j]
  <2> SUFFICES ASSUME NEW i \in 1..(n + 1), NEW j \in 1..(n + 1), i < j
               PROVE  log'[i] < log'[j]
    OBVIOUS
  <2>1. i \in 1..n
    BY <1>2
  <2>2. CASE j \in 1..n
    <3>1. log[i] < log[j]
      BY <2>1, <2>2 DEF Increasing, n
    <3> QED  BY <1>3, <2>1, <2>2, <3>1
  <2>3. CASE j = n + 1
    BY <1>3, <1>4, <2>1, <2>3
  <2> QED  BY <1>5, <2>2, <2>3
<1>7. {log'[i] : i \in 1..(n + 1)} = {log[i] : i \in 1..n} \cup {s}
  <2>1. ASSUME NEW i \in 1..(n + 1)
        PROVE  log'[i] \in {log[j] : j \in 1..n} \cup {s}
    BY <1>3, <1>5
  <2>2. ASSUME NEW i \in 1..n
        PROVE  log[i] \in {log'[j] : j \in 1..(n + 1)}
    <3>1. i \in 1..(n + 1)
      BY <1>2
    <3> QED  BY <1>3, <3>1
  <2>3. s \in {log'[j] : j \in 1..(n + 1)}
    <3>1. n + 1 \in 1..(n + 1)
      BY <1>2
    <3> QED  BY <1>3, <3>1
  <2> QED  BY <2>1, <2>2, <2>3
<1> QED  BY <1>3, <1>6, <1>7 DEF Increasing, Rows, n

-----------------------------------------------------------------------------
(* What may be appended depends on the latest event alone (ledger.py       *)
(* _validate_transition).                                                  *)
LEMMA LatestDecides ==
  ASSUME TypeOK
  PROVE  /\ Latest \in EventTypes \cup {"none"}
         /\ \A t : MayFollow(Types, t) <=> t \in After(Latest)
<1> DEFINE n == Len(ledger)
<1>1. ledger \in Seq(EventRecords)
  BY DEF TypeOK
<1>2. n \in Nat /\ \A i \in 1..n : ledger[i] \in EventRecords
  BY <1>1, LenProperties, ElementOfSeq
<1>3. Types = [i \in 1..n |-> ledger[i].type]
  BY DEF Types
<1>4. \A i \in 1..n : ledger[i].type \in EventTypes
  BY <1>2 DEF EventRecords
<1>5. Types \in [1..n -> EventTypes]
  BY <1>3, <1>4
<1>6. Types \in Seq(EventTypes)
  BY <1>2, <1>5, SeqDef
<1>7. Len(Types) = n
  <2>1. DOMAIN Types = 1..n /\ DOMAIN Types = 1..Len(Types) /\ Len(Types) \in Nat
    BY <1>5, <1>6, LenProperties
  <2> QED  BY <1>2, <2>1
<1>8. CASE ledger = << >>
  <2>1. n = 0
    BY <1>8, EmptySeq
  <2>2. Types = << >>
    BY <1>6, <1>7, <2>1, EmptySeq
  <2> QED  BY <1>8, <2>2 DEF Latest, After, MayFollow
<1>9. CASE ledger # << >>
  <2>1. n \in 1..n
    BY <1>1, <1>9, EmptySeq
  <2>2. Latest = ledger[n].type /\ Latest \in EventTypes
    BY <1>4, <1>9, <2>1 DEF Latest
  <2>3. Types # << >> /\ Types[Len(Types)] = Latest
    <3>1. Types[n] = ledger[n].type
      BY <1>3, <2>1
    <3> QED  BY <1>6, <1>7, <2>1, <2>2, <3>1, EmptySeq
  <2>4. Latest # "none"
    BY <2>2 DEF EventTypes
  <2> QED  BY <2>2, <2>3, <2>4 DEF After, MayFollow
<1> QED  BY <1>8, <1>9

(* One more event: what it changes of what the trainer asks of the ledger. *)
LEMMA LedgerGrows ==
  ASSUME TypeOK, NEW e \in EventRecords, ledger' = Append(ledger, e)
  PROVE  /\ ledger' \in Seq(EventRecords)
         /\ Latest' = e.type
         /\ Recorded' = IF e.type = "checkpointed"
                        THEN Recorded \cup {e.step} ELSE Recorded
<1> DEFINE n == Len(ledger)
<1>1. ledger \in Seq(EventRecords) /\ n \in Nat
  BY LenProperties DEF TypeOK
<1>2. /\ ledger' \in Seq(EventRecords) /\ Len(ledger') = n + 1
      /\ \A i \in 1..n : ledger'[i] = ledger[i]
      /\ ledger'[n + 1] = e
  BY <1>1, AppendProperties
<1>3. ledger' # << >>
  BY <1>1, <1>2, EmptySeq
<1>4. Latest' = e.type
  BY <1>2, <1>3 DEF Latest
<1> HIDE DEF n
<1>5. n + 1 \in 1..(n + 1) /\ \A i \in 1..n : i \in 1..(n + 1)
  BY <1>1
<1>6. \A i \in 1..(n + 1) : i \in 1..n \/ i = n + 1
  BY <1>1
<1> DEFINE R == {ledger'[i].step : i \in {j \in 1..(n + 1) :
                                           ledger'[j].type = "checkpointed"}}
           Q == {ledger[i].step : i \in {j \in 1..n :
                                           ledger[j].type = "checkpointed"}}
<1>7. R = IF e.type = "checkpointed" THEN Q \cup {e.step} ELSE Q
  <2>1. ASSUME NEW i \in 1..(n + 1), ledger'[i].type = "checkpointed"
        PROVE  ledger'[i].step \in IF e.type = "checkpointed"
                                   THEN Q \cup {e.step} ELSE Q
    <3>1. CASE i \in 1..n
      BY <1>2, <2>1, <3>1
    <3>2. CASE i = n + 1
      BY <1>2, <2>1, <3>2
    <3> QED  BY <1>6, <3>1, <3>2
  <2>2. ASSUME NEW i \in 1..n, ledger[i].type = "checkpointed"
        PROVE  ledger[i].step \in R
    BY <1>2, <1>5, <2>2
  <2>3. e.type = "checkpointed" => e.step \in R
    BY <1>2, <1>5
  <2>4. \A s \in R : s \in IF e.type = "checkpointed" THEN Q \cup {e.step} ELSE Q
    BY <2>1
  <2>5. \A s \in Q : s \in R
    BY <2>2
  <2> HIDE DEF R, Q
  <2> QED  BY <2>3, <2>4, <2>5
<1>8. Recorded' = R /\ Recorded = Q
  BY <1>2 DEF Recorded, n
<1> QED  BY <1>2, <1>4, <1>7, <1>8

(* A checkpoint recorded at the step of the checkpoint file keeps the      *)
(* ledger no further than the file.                                        *)
LEMMA RecordingKeepsOrder ==
  ASSUME TypeOK, LedgerNotAhead, NEW e \in EventRecords,
         ledger' = Append(ledger, e), ckpt' = ckpt,
         e.type = "checkpointed" => ckpt # NoStep /\ e.step = ckpt
  PROVE  LedgerNotAhead'
<1> DEFINE n == Len(ledger)
<1>1. ledger \in Seq(EventRecords) /\ n \in Nat /\ ckpt \in 0..NoStep
  BY LenProperties DEF TypeOK
<1>2. /\ Len(ledger') = n + 1
      /\ \A i \in 1..n : ledger'[i] = ledger[i]
      /\ ledger'[n + 1] = e
  BY <1>1, AppendProperties
<1>3. \A s \in Recorded' : ckpt' # NoStep' /\ s <= ckpt'
  <2>1. \A s \in Recorded' : s \in Recorded
                             \/ (e.type = "checkpointed" /\ s = e.step)
    BY LedgerGrows
  <2>2. NoStep' = NoStep
    BY DEF NoStep
  <2>3. ckpt <= ckpt
    BY <1>1, ResumeAssumption DEF NoStep
  <2> QED  BY <2>1, <2>2, <2>3 DEF LedgerNotAhead
<1>4. ASSUME NEW i \in 1..n, ledger[i].type = "checkpointed"
      PROVE  ledger[i].step <= ckpt
  BY <1>4 DEF LedgerNotAhead, Recorded
<1> HIDE DEF n
<1>5. ASSUME NEW i \in 1..(n + 1), NEW j \in 1..(n + 1), i < j,
             ledger'[i].type = "checkpointed", ledger'[j].type = "checkpointed"
      PROVE  ledger'[i].step <= ledger'[j].step
  <2>1. i \in 1..n /\ ledger'[i] = ledger[i]
    BY <1>1, <1>2, <1>5
  <2>2. CASE j \in 1..n
    <3>1. ledger'[j] = ledger[j]
      BY <1>2, <2>2
    <3> QED  BY <1>5, <2>1, <2>2, <3>1 DEF LedgerNotAhead, n
  <2>3. CASE j = n + 1
    BY <1>2, <1>4, <1>5, <2>1, <2>3
  <2>4. j \in 1..n \/ j = n + 1
    BY <1>1
  <2> QED  BY <2>2, <2>3, <2>4
<1> QED  BY <1>2, <1>3, <1>5 DEF LedgerNotAhead

-----------------------------------------------------------------------------
(* Plans of one to four events.                                            *)
LEMMA PathOfOne ==
  ASSUME NEW l, NEW a \in PlanRecords,
         a.type = "refused" \/ a.type \in After(l)
  PROVE  <<a>> \in Seq(PlanRecords) /\ Path(l, <<a>>)
  BY DEF Path, Before

LEMMA PathOfTwo ==
  ASSUME NEW l, NEW a \in PlanRecords, NEW b \in PlanRecords,
         a.type \in After(l), b.type \in After(a.type)
  PROVE  <<a, b>> \in Seq(PlanRecords) /\ Path(l, <<a, b>>)
  BY DEF Path, Before

LEMMA PathOfThree ==
  ASSUME NEW l, NEW a \in PlanRecords, NEW b \in PlanRecords,
         NEW c \in PlanRecords,
         a.type \in After(l), b.type \in After(a.type), c.type \in After(b.type)
  PROVE  <<a, b, c>> \in Seq(PlanRecords) /\ Path(l, <<a, b, c>>)
  BY DEF Path, Before

LEMMA PathOfFour ==
  ASSUME NEW l, NEW a \in PlanRecords, NEW b \in PlanRecords,
         NEW c \in PlanRecords, NEW d \in PlanRecords,
         a.type \in After(l), b.type \in After(a.type),
         c.type \in After(b.type), d.type \in After(c.type)
  PROVE  <<a, b, c, d>> \in Seq(PlanRecords) /\ Path(l, <<a, b, c, d>>)
  BY DEF Path, Before

(* One path after another.                                                 *)
LEMMA PathsJoin ==
  ASSUME NEW l, NEW p \in Seq(PlanRecords), NEW q \in Seq(PlanRecords),
         Path(l, p), p # << >>, Path(p[Len(p)].type, q)
  PROVE  p \o q \in Seq(PlanRecords) /\ Path(l, p \o q)
<1> DEFINE m == Len(p)
           n == Len(q)
           r == p \o q
<1>1. m \in Nat /\ m # 0 /\ n \in Nat
  BY LenProperties, EmptySeq
<1>2. /\ r \in Seq(PlanRecords) /\ Len(r) = m + n
      /\ \A i \in 1..(m + n) : r[i] = IF i <= m THEN p[i] ELSE q[i - m]
  BY ConcatProperties
<1> HIDE DEF r, m, n
<1>3. ASSUME NEW i \in 1..(m + n)
      PROVE  r[i].type = "refused" \/ r[i].type \in After(Before(l, r, i))
  <2>1. CASE i <= m
    <3>1. i \in 1..m
      BY <1>1, <2>1
    <3>2. r[i] = p[i] /\ (i # 1 => r[i - 1] = p[i - 1])
      BY <1>1, <1>2, <2>1
    <3>3. Before(l, r, i) = Before(l, p, i)
      BY <3>2 DEF Before
    <3> QED  BY <3>1, <3>2, <3>3 DEF Path, m
  <2>2. CASE i = m + 1
    <3>1. 1 \in 1..n
      BY <1>1, <2>2
    <3>2. r[i] = q[1] /\ r[i - 1] = p[m] /\ i # 1
      BY <1>1, <1>2, <2>2
    <3>3. q[1].type = "refused" \/ q[1].type \in After(p[m].type)
      BY <3>1 DEF Path, Before, m, n
    <3> QED  BY <3>2, <3>3 DEF Before
  <2>3. CASE i > m + 1
    <3> DEFINE j == i - m
    <3>1. j \in 1..n /\ j # 1 /\ i # 1
      BY <1>1, <2>3
    <3>2. r[i] = q[j] /\ r[i - 1] = q[j - 1]
      BY <1>1, <1>2, <2>3
    <3> HIDE DEF j
    <3>3. q[j].type = "refused" \/ q[j].type \in After(q[j - 1].type)
      BY <3>1 DEF Path, Before, n
    <3> QED  BY <3>1, <3>2, <3>3 DEF Before
  <2> QED  BY <1>1, <2>1, <2>2, <2>3
<1> QED  BY <1>2, <1>3 DEF Path, r

(* What is left of a plan after its first step.                            *)
LEMMA PathLeft ==
  ASSUME NEW l, NEW p \in Seq(PlanRecords), p # << >>, Path(l, p)
  PROVE  /\ Head(p) = p[1] /\ Head(p) \in PlanRecords
         /\ Tail(p) \in Seq(PlanRecords)
         /\ Head(p).type = "refused" \/ Head(p).type \in After(l)
         /\ Path(Head(p).type, Tail(p))
         /\ Destination(Head(p).type, Tail(p)) = Destination(l, p)
         /\ Imports(p) => Imports(Tail(p))
<1> DEFINE n == Len(p)
           t == Tail(p)
<1>1. n \in Nat /\ n # 0
  BY LenProperties, EmptySeq
<1>2. /\ Head(p) \in PlanRecords /\ t \in Seq(PlanRecords) /\ Len(t) = n - 1
      /\ \A i \in 1..(n - 1) : t[i] = p[i + 1]
  BY HeadTailProperties
<1>3. Head(p) = p[1]
  OBVIOUS
<1>4. 1 \in 1..n
  BY <1>1
<1>5. Head(p).type = "refused" \/ Head(p).type \in After(l)
  BY <1>3, <1>4 DEF Path, Before
<1> HIDE DEF t, n
<1>6. Path(p[1].type, t)
  <2> SUFFICES ASSUME NEW i \in 1..(n - 1)
               PROVE  \/ t[i].type = "refused"
                      \/ t[i].type \in After(Before(p[1].type, t, i))
    BY <1>2 DEF Path
  <2>1. i + 1 \in 1..n /\ i + 1 # 1 /\ (i + 1) - 1 = i
    BY <1>1
  <2>2. p[i + 1].type = "refused" \/ p[i + 1].type \in After(p[i].type)
    BY <2>1 DEF Path, Before, n
  <2>3. t[i] = p[i + 1]
    BY <1>2
  <2>4. i = 1 \/ (i # 1 /\ i - 1 \in 1..(n - 1) /\ (i - 1) + 1 = i)
    BY <1>1
  <2>5. Before(p[1].type, t, i) = p[i].type
    BY <1>2, <2>4 DEF Before
  <2> QED  BY <2>2, <2>3, <2>5
<1>7. Destination(p[1].type, t) = Destination(l, p)
  <2>1. CASE n = 1
    <3>1. t = << >>
      BY <1>2, <2>1, EmptySeq
    <3> QED  BY <2>1, <3>1 DEF Destination, n
  <2>2. CASE n # 1
    <3>1. t # << >> /\ n - 1 \in 1..(n - 1) /\ (n - 1) + 1 = n
      BY <1>1, <1>2, <2>2, EmptySeq
    <3>2. t[Len(t)] = p[n]
      BY <1>2, <3>1
    <3> QED  BY <3>1, <3>2 DEF Destination, n
  <2> QED  BY <2>1, <2>2
<1>8. Imports(p) => Imports(t)
  <2> SUFFICES ASSUME Imports(p), NEW i \in 1..(n - 1),
                      t[i].type = "checkpointed"
               PROVE  t[i].step = ckpt /\ ckpt # NoStep
    BY <1>2 DEF Imports
  <2>1. i + 1 \in 1..n /\ t[i] = p[i + 1]
    BY <1>1, <1>2
  <2> QED  BY <2>1 DEF Imports, n
<1> QED  BY <1>2, <1>3, <1>5, <1>6, <1>7, <1>8 DEF t

-----------------------------------------------------------------------------
LEMMA EventsType ==
  /\ \A t \in EventTypes : Event(t) \in PlanRecords /\ Event(t).type = t
  /\ Event("refused") \in PlanRecords /\ Event("refused").type = "refused"
  /\ \A t \in EventTypes, s \in 0..NoStep :
       /\ EventAt(t, s) \in PlanRecords
       /\ EventAt(t, s).type = t /\ EventAt(t, s).step = s
  BY ResumeAssumption DEF Event, EventAt, PlanRecords, NoStep

(* Launching, and the refusal, import nothing.                             *)
ImportsNothing(p) == \A i \in 1..Len(p) : p[i].type # "checkpointed"

LEMMA LaunchEventsGood ==
  ASSUME NEW l, "preflight_passed" \in After(l)
  PROVE  /\ LaunchEvents \in Seq(PlanRecords) /\ Path(l, LaunchEvents)
         /\ LaunchEvents # << >> /\ LaunchEvents[Len(LaunchEvents)].type = "started"
         /\ ImportsNothing(LaunchEvents)
<1>1. /\ Event("preflight_passed") \in PlanRecords
      /\ Event("launch_requested") \in PlanRecords
      /\ Event("started") \in PlanRecords
      /\ Event("preflight_passed").type = "preflight_passed"
      /\ Event("launch_requested").type = "launch_requested"
      /\ Event("started").type = "started"
  BY EventsType DEF EventTypes
<1>2. "launch_requested" \in After("preflight_passed")
      /\ "started" \in After("launch_requested")
  BY DEF After, Transitions
<1>3. LaunchEvents \in Seq(PlanRecords) /\ Path(l, LaunchEvents)
  BY <1>1, <1>2, PathOfThree DEF LaunchEvents
<1> QED  BY <1>1, <1>3 DEF LaunchEvents, ImportsNothing

LEMMA OneAndThree ==
  ASSUME NEW S, NEW a \in S, NEW b \in S, NEW c \in S, NEW d \in S
  PROVE  <<a>> \o <<b, c, d>> = <<a, b, c, d>>
<1> DEFINE p == <<a>>
           q == <<b, c, d>>
           r == <<a, b, c, d>>
<1>1. p \in Seq(S) /\ q \in Seq(S) /\ r \in Seq(S)
  OBVIOUS
<1>2. Len(p) = 1 /\ Len(q) = 3 /\ Len(r) = 4
  OBVIOUS
<1>3. /\ p[1] = a /\ q[1] = b /\ q[2] = c /\ q[3] = d
      /\ r[1] = a /\ r[2] = b /\ r[3] = c /\ r[4] = d
  OBVIOUS
<1> HIDE DEF p, q, r
<1>4. /\ p \o q \in Seq(S) /\ Len(p \o q) = 4
      /\ \A i \in 1..4 : (p \o q)[i] = IF i <= 1 THEN p[i] ELSE q[i - 1]
  <2>1. /\ p \o q \in Seq(S) /\ Len(p \o q) = Len(p) + Len(q)
        /\ \A i \in 1..Len(p) + Len(q) :
             (p \o q)[i] = IF i <= Len(p) THEN p[i] ELSE q[i - Len(p)]
    BY <1>1, ConcatProperties
  <2> QED  BY <1>2, <2>1
<1>5. \A i \in 1..4 : (p \o q)[i] = r[i]
  BY <1>3, <1>4
<1>6. p \o q = r
  BY <1>1, <1>2, <1>4, <1>5, SeqEqual
<1> QED  BY <1>6 DEF p, q, r

(* What brings a run that has not been launched yet to "started".          *)
LEMMA LaunchGood ==
  ASSUME NEW l \in EventTypes \cup {"none"}, Launch(l) # << >>
  PROVE  /\ Launch(l) \in Seq(PlanRecords) /\ Path(l, Launch(l))
         /\ Launch(l)[Len(Launch(l))].type = "started"
         /\ ImportsNothing(Launch(l))
<1> DEFINE a == Event("planned")
           b == Event("preflight_passed")
           c == Event("launch_requested")
           d == Event("started")
<1>1. /\ a \in PlanRecords /\ b \in PlanRecords
      /\ c \in PlanRecords /\ d \in PlanRecords
      /\ a.type = "planned" /\ b.type = "preflight_passed"
      /\ c.type = "launch_requested" /\ d.type = "started"
  BY EventsType DEF EventTypes
<1>2. LaunchEvents = <<b, c, d>>
  BY DEF LaunchEvents
<1> HIDE DEF a, b, c, d
<1>3. /\ "planned" \in After("none")
      /\ "preflight_passed" \in After("planned")
      /\ "launch_requested" \in After("preflight_passed")
      /\ "started" \in After("launch_requested")
  BY DEF After, Transitions
<1>4. CASE l = "none"
  <2>1. Launch(l) = <<a, b, c, d>>
    <3>1. Launch(l) = <<a>> \o LaunchEvents
      BY <1>4 DEF Launch, a
    <3>2. <<a>> \o <<b, c, d>> = <<a, b, c, d>>
      BY <1>1, OneAndThree
    <3> QED  BY <1>2, <3>1, <3>2
  <2>2. <<a, b, c, d>> \in Seq(PlanRecords) /\ Path(l, <<a, b, c, d>>)
    BY <1>1, <1>3, <1>4, PathOfFour
  <2> QED  BY <1>1, <2>1, <2>2 DEF ImportsNothing
<1>5. CASE l = "planned"
  <2>1. Launch(l) = <<b, c, d>>
    BY <1>2, <1>5 DEF Launch
  <2>2. <<b, c, d>> \in Seq(PlanRecords) /\ Path(l, <<b, c, d>>)
    BY <1>1, <1>3, <1>5, PathOfThree
  <2> QED  BY <1>1, <2>1, <2>2 DEF ImportsNothing
<1>6. CASE l = "preflight_passed"
  <2>1. Launch(l) = <<c, d>>
    <3>1. Tail(<<b, c, d>>) = <<c, d>>
      OBVIOUS
    <3> QED  BY <1>2, <1>6, <3>1 DEF Launch
  <2>2. <<c, d>> \in Seq(PlanRecords) /\ Path(l, <<c, d>>)
    BY <1>1, <1>3, <1>6, PathOfTwo
  <2> QED  BY <1>1, <2>1, <2>2 DEF ImportsNothing
<1>7. CASE l = "launch_requested"
  <2>1. Launch(l) = <<d>>
    BY <1>7 DEF Launch, d
  <2>2. <<d>> \in Seq(PlanRecords) /\ Path(l, <<d>>)
    BY <1>1, <1>3, <1>7, PathOfOne
  <2> QED  BY <1>1, <2>1, <2>2 DEF ImportsNothing
<1> QED  BY <1>4, <1>5, <1>6, <1>7 DEF Launch

LEMMA LaunchNothing ==
  ASSUME NEW l, Launch(l) = << >>
  PROVE  l \notin {"none", "planned", "preflight_passed", "launch_requested"}
  BY DEF Launch, LaunchEvents

(* A plan continued after a launch.                                        *)
LEMMA ContinueGood ==
  ASSUME NEW l \in EventTypes \cup {"none"}, NEW q \in Seq(PlanRecords),
         Path(IF Launch(l) = << >> THEN l ELSE "started", q), q # << >>, Imports(q)
  PROVE  LET p == Launch(l) \o q
         IN  /\ p \in Seq(PlanRecords) /\ Path(l, p) /\ Imports(p)
             /\ Destination(l, p) = q[Len(q)].type
<1> DEFINE h == Launch(l)
<1>1. CASE h = << >>
  <2>1. h \o q = q
    BY <1>1, ConcatEmptySeq
  <2> QED  BY <1>1, <2>1 DEF Destination
<1>2. CASE h # << >>
  <2>1. /\ h \in Seq(PlanRecords) /\ Path(l, h)
        /\ h[Len(h)].type = "started" /\ ImportsNothing(h)
    BY <1>2, LaunchGood
  <2> HIDE DEF h
  <2>2. h \o q \in Seq(PlanRecords) /\ Path(l, h \o q)
    BY <1>2, <2>1, PathsJoin DEF h
  <2>3. /\ Len(h) \in Nat /\ Len(q) \in Nat /\ Len(q) # 0
        /\ Len(h \o q) = Len(h) + Len(q)
        /\ \A i \in 1..(Len(h) + Len(q)) :
             (h \o q)[i] = IF i <= Len(h) THEN h[i] ELSE q[i - Len(h)]
    BY <2>1, ConcatProperties, LenProperties, EmptySeq
  <2>4. Imports(h \o q)
    <3> SUFFICES ASSUME NEW i \in 1..(Len(h) + Len(q)),
                        (h \o q)[i].type = "checkpointed"
                 PROVE  (h \o q)[i].step = ckpt /\ ckpt # NoStep
      BY <2>3 DEF Imports
    <3>1. CASE i <= Len(h)
      BY <2>1, <2>3, <3>1 DEF ImportsNothing
    <3>2. CASE ~(i <= Len(h))
      <4>1. i - Len(h) \in 1..Len(q)
        BY <2>3, <3>2
      <4> QED  BY <2>3, <3>2, <4>1 DEF Imports
    <3> QED  BY <3>1, <3>2
  <2>5. h \o q # << >> /\ (h \o q)[Len(h \o q)] = q[Len(q)]
    <3>1. Len(h) + Len(q) \in 1..(Len(h) + Len(q)) /\ ~(Len(h) + Len(q) <= Len(h))
          /\ (Len(h) + Len(q)) - Len(h) = Len(q)
      BY <2>3
    <3> QED  BY <2>2, <2>3, <3>1, EmptySeq
  <2> QED  BY <2>2, <2>4, <2>5 DEF Destination, h
<1> QED  BY <1>1, <1>2

-----------------------------------------------------------------------------
LEMMA RefuseGood ==
  ASSUME NEW l
  PROVE  /\ Refuse \in Seq(PlanRecords) /\ Path(l, Refuse) /\ Imports(Refuse)
         /\ Refuse # << >> /\ Refuse[Len(Refuse)].type = "refused"
<1> DEFINE r == Event("refused")
<1>1. r \in PlanRecords /\ r.type = "refused"
  BY EventsType
<1> HIDE DEF r
<1>2. <<r>> \in Seq(PlanRecords) /\ Path(l, <<r>>)
  BY <1>1, PathOfOne
<1>3. Imports(<<r>>)
  BY <1>1 DEF Imports
<1> QED  BY <1>1, <1>2, <1>3 DEF Refuse, r

(* The plan of a process that found a checkpoint.                          *)
LEMMA ResumePlanGood ==
  ASSUME TypeOK, LedgerNotAhead, Latest \notin {"completed", "excluded"},
         ckpt # NoStep
  PROVE  ResumePlan \in Seq(PlanRecords) /\ GoodPlan(ResumePlan)
<1> DEFINE l == IF Launch(Latest) = << >> THEN Latest ELSE "started"
           a == EventAt("checkpointed", ckpt)
           b == EventAt("resumed", ckpt)
<1>1. Latest \in EventTypes \cup {"none"} /\ ckpt \in 0..NoStep
  BY LatestDecides DEF TypeOK
<1>2. /\ a \in PlanRecords /\ a.type = "checkpointed" /\ a.step = ckpt
      /\ b \in PlanRecords /\ b.type = "resumed"
  BY <1>1, EventsType DEF EventTypes
<1>3. l \in {"started", "checkpointed", "failed", "resumed"}
  BY <1>1, LaunchNothing DEF EventTypes
<1>4. ~\E s \in Recorded : ckpt < s
  <2> SUFFICES ASSUME NEW s \in Recorded, ckpt < s  PROVE FALSE
    OBVIOUS
  <2>1. s <= ckpt
    BY DEF LedgerNotAhead
  <2>2. s \in 0..NoStep
    <3>1. PICK i \in 1..Len(ledger) : s = ledger[i].step
      BY DEF Recorded
    <3>2. ledger[i] \in EventRecords
      BY ElementOfSeq DEF TypeOK
    <3> QED  BY <3>1, <3>2 DEF EventRecords
  <2> QED  BY <1>1, <2>1, <2>2, ResumeAssumption DEF NoStep
<1>5. ResumePlan \in {Launch(Latest) \o <<a, b>>, Launch(Latest) \o Refuse}
      \/ (l \in {"checkpointed", "failed"} /\ ResumePlan = Launch(Latest) \o <<b>>)
  BY <1>4 DEF ResumePlan
<1> HIDE DEF a, b, l
<1>6. ASSUME NEW q \in Seq(PlanRecords), Path(l, q), q # << >>, Imports(q),
             q[Len(q)].type \in {"started", "resumed", "refused"}
      PROVE  /\ Launch(Latest) \o q \in Seq(PlanRecords)
             /\ GoodPlan(Launch(Latest) \o q)
  BY <1>1, <1>6, ContinueGood DEF GoodPlan, l
<1>7. /\ "checkpointed" \in After(l)
      /\ "resumed" \in After("checkpointed") /\ "resumed" \in After("failed")
  BY <1>3 DEF After, Transitions
<1>8. /\ <<a, b>> \in Seq(PlanRecords) /\ Path(l, <<a, b>>)
      /\ <<a, b>> # << >> /\ Imports(<<a, b>>)
      /\ <<a, b>>[Len(<<a, b>>)].type = "resumed"
  <2>1. <<a, b>> \in Seq(PlanRecords) /\ Path(l, <<a, b>>)
    BY <1>2, <1>7, PathOfTwo
  <2>2. Imports(<<a, b>>)
    BY <1>2 DEF Imports
  <2> QED  BY <1>2, <2>1, <2>2
<1>9. CASE l \in {"checkpointed", "failed"} /\ ResumePlan = Launch(Latest) \o <<b>>
  <2>1. <<b>> \in Seq(PlanRecords) /\ Path(l, <<b>>)
    BY <1>2, <1>7, <1>9, PathOfOne
  <2>2. Imports(<<b>>) /\ <<b>> # << >> /\ <<b>>[Len(<<b>>)].type = "resumed"
    BY <1>2 DEF Imports
  <2> QED  BY <1>6, <1>9, <2>1, <2>2
<1>10. CASE ResumePlan = Launch(Latest) \o Refuse
  BY <1>6, <1>10, RefuseGood
<1>11. CASE ResumePlan = Launch(Latest) \o <<a, b>>
  BY <1>6, <1>8, <1>11
<1> QED  BY <1>5, <1>9, <1>10, <1>11

(* The plan of a process that starts from nothing.                         *)
LEMMA FreshPlanGood ==
  ASSUME TypeOK
  PROVE  FreshPlan \in Seq(PlanRecords) /\ GoodPlan(FreshPlan)
<1>1. Latest \in EventTypes \cup {"none"}
  BY LatestDecides
<1>2. CASE FreshPlan = Refuse
  BY <1>2, RefuseGood DEF GoodPlan, Destination
<1>3. CASE Latest = "started" /\ FreshPlan = <<Event("failed")>> \o LaunchEvents
  <2> DEFINE f == Event("failed")
             p == <<f>>
             e == LaunchEvents
  <2>1. f \in PlanRecords /\ f.type = "failed"
    BY EventsType DEF EventTypes
  <2> HIDE DEF f
  <2>2. "failed" \in After(Latest) /\ "preflight_passed" \in After("failed")
    BY <1>3 DEF After, Transitions
  <2>3. p \in Seq(PlanRecords) /\ Path(Latest, p)
    BY <2>1, <2>2, PathOfOne
  <2>4. Len(p) = 1 /\ p[1] = f /\ p # << >>
    OBVIOUS
  <2> HIDE DEF p
  <2>5. /\ e \in Seq(PlanRecords) /\ Path("failed", e)
        /\ e # << >> /\ e[Len(e)].type = "started" /\ ImportsNothing(e)
    BY <2>2, LaunchEventsGood
  <2> HIDE DEF e
  <2>6. p \o e \in Seq(PlanRecords) /\ Path(Latest, p \o e)
    BY <2>1, <2>3, <2>4, <2>5, PathsJoin
  <2>7. /\ Len(e) \in Nat /\ Len(e) # 0 /\ Len(p \o e) = 1 + Len(e)
        /\ \A i \in 1..(1 + Len(e)) : (p \o e)[i] = IF i <= 1 THEN p[i] ELSE e[i - 1]
    BY <2>3, <2>4, <2>5, ConcatProperties, LenProperties, EmptySeq
  <2>8. Imports(p \o e)
    <3> SUFFICES ASSUME NEW i \in 1..(1 + Len(e))
                 PROVE  (p \o e)[i].type # "checkpointed"
      BY <2>7 DEF Imports
    <3>1. CASE i = 1
      BY <2>1, <2>4, <2>7, <3>1
    <3>2. CASE i # 1
      <4>1. i - 1 \in 1..Len(e) /\ ~(i <= 1)
        BY <2>7, <3>2
      <4> QED  BY <2>5, <2>7, <4>1 DEF ImportsNothing
    <3> QED  BY <3>1, <3>2
  <2>9. p \o e # << >> /\ (p \o e)[Len(p \o e)].type = "started"
    <3>1. 1 + Len(e) \in 1..(1 + Len(e)) /\ ~(1 + Len(e) <= 1)
          /\ (1 + Len(e)) - 1 = Len(e)
      BY <2>7
    <3> QED  BY <2>5, <2>6, <2>7, <3>1, EmptySeq
  <2>10. FreshPlan = p \o e
    BY <1>3 DEF p, e, f
  <2> QED  BY <2>6, <2>8, <2>9, <2>10 DEF GoodPlan, Destination
<1>4. CASE Latest = "failed" /\ FreshPlan = LaunchEvents
  <2>1. "preflight_passed" \in After(Latest)
    BY <1>4 DEF After, Transitions
  <2> QED
    BY <1>4, <2>1, LaunchEventsGood DEF GoodPlan, Destination, Imports, ImportsNothing
<1>5. CASE /\ Latest \in {"none", "planned", "preflight_passed", "launch_requested"}
           /\ FreshPlan = Launch(Latest)
  <2>1. Launch(Latest) # << >>
    BY <1>5, LaunchNothing
  <2> QED
    BY <1>1, <1>5, <2>1, LaunchGood DEF GoodPlan, Destination, Imports, ImportsNothing
<1> QED  BY <1>2, <1>3, <1>4, <1>5 DEF FreshPlan

(* Whatever a process finds, the plan it makes is a path the ledger will   *)
(* take, to where training may start or to a refusal.                      *)
LEMMA PlanMade ==
  ASSUME TypeOK, LedgerNotAhead, NEW resuming \in BOOLEAN,
         resuming => ckpt # NoStep
  PROVE  /\ LedgerPlan(resuming) \in Seq(PlanRecords)
         /\ IF Ledgered THEN GoodPlan(LedgerPlan(resuming))
            ELSE LedgerPlan(resuming) = << >>
<1>1. CASE ~Ledgered
  BY <1>1, EmptySeq DEF LedgerPlan
<1>2. CASE Ledgered /\ Latest \in {"completed", "excluded"}
  BY <1>2, RefuseGood DEF LedgerPlan, GoodPlan, Destination
<1>3. CASE Ledgered /\ Latest \notin {"completed", "excluded"} /\ resuming
  BY <1>3, ResumePlanGood DEF LedgerPlan
<1>4. CASE Ledgered /\ Latest \notin {"completed", "excluded"} /\ ~resuming
  BY <1>4, FreshPlanGood DEF LedgerPlan
<1> QED  BY <1>1, <1>2, <1>3, <1>4

-----------------------------------------------------------------------------
LEMMA Bounds ==
  /\ NoStep \in Nat /\ NoStep \in 0..NoStep /\ NoStep = MaxSteps + 1
  /\ 0 \in 0..MaxSteps /\ 0 \in 0..MaxFaults
  /\ \A s \in 0..MaxSteps : s \in 0..NoStep /\ s # NoStep
  /\ \A s \in 0..NoStep : s # NoStep => s \in 0..MaxSteps
  BY ResumeAssumption DEF NoStep

LEMMA FaultCounted ==
  ASSUME faults \in 0..MaxFaults, faults < MaxFaults
  PROVE  faults + 1 \in 0..MaxFaults
  BY ResumeAssumption

LEMMA ResumeInit == ASSUME Init PROVE ResumeInv
<1> USE DEF Init
<1>1. TypeOK
  <2>1. << >> \in Seq(EventRecords) /\ << >> \in Seq(PlanRecords)
        /\ << >> \in Seq(1..MaxSteps)
    BY EmptySeq
  <2> QED  BY <2>1, Bounds DEF TypeOK
<1>2. Len(log) = 0 /\ Len(ledger) = 0 /\ Recorded = {} /\ Rows = {}
  <2>1. Len(log) = 0 /\ Len(ledger) = 0
    BY EmptySeq
  <2> QED  BY <2>1 DEF Recorded, Rows
<1>3. LedgerNotAhead /\ Kept
  BY <1>2 DEF LedgerNotAhead, Kept, Increasing
<1>4. Running /\ Prepared /\ Closing /\ Planned /\ Course /\ Finished
  BY DEF Running, Prepared, Closing, Planned, Course, Finished, Starting, Looping
<1> QED  BY <1>1, <1>3, <1>4 DEF ResumeInv

(* A process ends, by any way but success: the rest is on the disk.        *)
LEMMA ExitKeeps ==
  ASSUME ResumeInv, NEW o \in {"refused", "failed", "killed"}, Exit(o),
         UNCHANGED <<made, ckpt, log, snaps>>, LedgerNotAhead',
         ledger' \in Seq(EventRecords), temps' \subseteq {"temporary"},
         faults' \in 0..MaxFaults
  PROVE  ResumeInv'
<1>1. TypeOK'
  <2>1. << >> \in Seq(PlanRecords)
    BY EmptySeq
  <2>2. ckpt' \in 0..NoStep
    BY DEF ResumeInv, TypeOK
  <2> QED  BY <2>1, <2>2, Bounds DEF ResumeInv, TypeOK, Exit, NoStep
<1>2. Kept'
  BY DEF ResumeInv, Kept, Increasing, Rows, RowsTo, SnapsTo, NoStep
<1>3. Running' /\ Prepared' /\ Closing' /\ Planned' /\ Course' /\ Finished'
  BY DEF Exit, Running, Prepared, Closing, Planned, Course, Finished, Starting, Looping
<1> QED  BY <1>1, <1>2, <1>3 DEF ResumeInv

(* A process that has stopped working, or has not begun.                   *)
LEMMA IdleKeeps ==
  ASSUME ResumeInv, pc' \in {"validate", "raise", "exit"}, outcome # "ok",
         UNCHANGED <<ledger, files, plan, step, outcome>>,
         closing' \in BOOLEAN, closing' => closing /\ pc' = "raise",
         faults' \in 0..MaxFaults
  PROVE  ResumeInv'
<1>1. TypeOK'
  BY DEF ResumeInv, TypeOK, files
<1>2. Kept' /\ LedgerNotAhead'
  BY DEF ResumeInv, Kept, Increasing, Rows, LedgerNotAhead, Recorded, files
<1>3. Running' /\ Prepared' /\ Planned' /\ Course' /\ Finished'
  BY DEF Running, Prepared, Planned, Course, Finished, Starting, Looping
<1>4. Closing'
  BY DEF ResumeInv, Closing
<1> QED  BY <1>1, <1>2, <1>3, <1>4 DEF ResumeInv

LEMMA WorkingNotOk ==
  ASSUME ResumeInv, pc # "off"  PROVE outcome # "ok"
  BY DEF ResumeInv, Finished

LEMMA IdleNotClosing ==
  ASSUME ResumeInv, pc \notin {"write ckpt", "record", "complete", "done", "raise"}
  PROVE  ~closing
  BY DEF ResumeInv, Closing

LEMMA SpawnKeeps == ASSUME ResumeInv, Spawn PROVE ResumeInv'
<1>1. ~closing
  BY IdleNotClosing DEF Spawn
<1>2. faults \in 0..MaxFaults /\ closing \in BOOLEAN
  BY DEF ResumeInv, TypeOK
<1> QED  BY <1>1, <1>2, IdleKeeps DEF Spawn, memory

LEMMA RaiseKeeps == ASSUME ResumeInv, Raise PROVE ResumeInv'
<1>1. pc # "off" /\ outcome # "ok"
  BY WorkingNotOk DEF Raise, Working
<1>2. faults' \in 0..MaxFaults /\ closing \in BOOLEAN
  <2>1. faults \in 0..MaxFaults /\ closing \in BOOLEAN
    BY DEF ResumeInv, TypeOK
  <2> QED  BY <2>1, FaultCounted DEF Raise
<1>3. closing => pc # "plan"
  BY IdleNotClosing
<1> QED  BY <1>1, <1>2, <1>3, IdleKeeps DEF Raise, memory

LEMMA KillKeeps == ASSUME ResumeInv, Kill PROVE ResumeInv'
<1>1. LedgerNotAhead'
  BY DEF ResumeInv, LedgerNotAhead, Recorded, Kill, NoStep
<1>2. faults' \in 0..MaxFaults /\ temps' \subseteq {"temporary"}
      /\ ledger' \in Seq(EventRecords)
  <2>1. faults \in 0..MaxFaults /\ temps \subseteq {"temporary"}
        /\ ledger \in Seq(EventRecords)
    BY DEF ResumeInv, TypeOK
  <2> QED  BY <2>1, FaultCounted DEF Kill
<1> QED  BY <1>1, <1>2, ExitKeeps DEF Kill

LEMMA RetainKeeps == ASSUME ResumeInv, Retain PROVE ResumeInv'
<1>1. /\ UNCHANGED <<made, ckpt, log, snaps, temps, faults>>
      /\ Exit("failed")
      /\ ledger' = ledger \/ ledger' = Append(ledger, Event("failed"))
  BY DEF Retain, files
<1>2. TypeOK /\ LedgerNotAhead
  BY DEF ResumeInv
<1>3. CASE ledger' = ledger
  <2>1. LedgerNotAhead' /\ ledger' \in Seq(EventRecords)
    BY <1>1, <1>2, <1>3 DEF LedgerNotAhead, Recorded, TypeOK
  <2> QED  BY <1>1, <1>2, <2>1, ExitKeeps DEF TypeOK
<1>4. CASE ledger' = Append(ledger, Event("failed"))
  <2>1. Event("failed") \in EventRecords /\ Event("failed").type = "failed"
    BY ResumeAssumption DEF Event, EventRecords, EventTypes, NoStep
  <2>2. LedgerNotAhead' /\ ledger' \in Seq(EventRecords)
    BY <1>1, <1>2, <1>4, <2>1, RecordingKeepsOrder, LedgerGrows
  <2> QED  BY <1>1, <1>2, <2>2, ExitKeeps DEF TypeOK
<1> QED  BY <1>1, <1>3, <1>4

-----------------------------------------------------------------------------
(* What the inventory accepts is nothing at all, or what an uninterrupted  *)
(* run has when it writes the checkpoint that is there                     *)
(* (_validate_resume_inventory, _validate_log).                            *)
LEMMA AcceptedIsExact ==
  ASSUME ResumeInv, NEW policy, Accepted(policy)
  PROVE  /\ Fresh => /\ ckpt = NoStep
                     /\ Rows = RowsTo(0) /\ snaps = SnapsTo(0)
         /\ ~Fresh => /\ ckpt \in 0..MaxSteps /\ ckpt # NoStep
                      /\ Rows = RowsTo(ckpt) /\ snaps = SnapsTo(ckpt)
<1>1. TypeOK /\ Kept
  BY DEF ResumeInv
<1>2. ASSUME Fresh
      PROVE  ckpt = NoStep /\ Rows = RowsTo(0) /\ snaps = SnapsTo(0)
  <2>1. ckpt = NoStep /\ log = << >> /\ "snapshots" \notin made
    BY <1>2 DEF Fresh, Entries
  <2>2. Len(log) = 0
    BY <2>1, EmptySeq
  <2>3. Rows = {}
    BY <2>2 DEF Rows
  <2>4. snaps = {}
    BY <1>1, <2>1 DEF Kept
  <2> QED  BY <2>1, <2>3, <2>4, NothingDueYet
<1>3. ASSUME Resumable
      PROVE  /\ ckpt \in 0..MaxSteps /\ ckpt # NoStep
             /\ Rows = RowsTo(ckpt) /\ snaps = SnapsTo(ckpt)
  <2>1. ckpt # NoStep
    BY <1>1, <1>3 DEF Resumable, Entries, TypeOK
  <2>2. ckpt \in 0..MaxSteps
    <3>1. ckpt \in 0..NoStep
      BY <1>1 DEF TypeOK
    <3> QED  BY <2>1, <3>1, Bounds
  <2>3. \A r \in Rows : r <= ckpt
    BY <1>3 DEF Resumable, LogFits, Rows
  <2>4. \A s \in snaps : s <= ckpt
    BY <1>3 DEF Resumable
  <2>5. Rows \subseteq RowsTo(ckpt)
    BY <1>1, <2>3 DEF Kept, RowsTo
  <2>6. snaps \subseteq SnapsTo(ckpt)
    BY <1>1, <2>4 DEF Kept, SnapsTo
  <2> QED  BY <1>1, <2>1, <2>2, <2>5, <2>6 DEF Kept
<1> QED  BY <1>2, <1>3 DEF Accepted

LEMMA ValidateKeeps ==
  ASSUME ResumeInv, NEW policy \in Policies, Validate(policy)
  PROVE  ResumeInv'
<1>1. pc = "validate" /\ UNCHANGED <<ledger, made, temps, ckpt, log, snaps, faults>>
  BY DEF Validate, files
<1>2. outcome # "ok" /\ ~closing
  BY <1>1, WorkingNotOk, IdleNotClosing
<1>3. TypeOK /\ LedgerNotAhead /\ Kept
  BY DEF ResumeInv
<1>4. LedgerNotAhead' /\ Kept'
  BY <1>1, <1>3 DEF LedgerNotAhead, Recorded, Kept, Increasing, Rows, RowsTo,
     SnapsTo, NoStep
<1>5. CASE Exit("refused")
  BY <1>1, <1>3, <1>4, <1>5, ExitKeeps DEF TypeOK
<1>6. CASE /\ Accepted(policy) /\ pc' = "plan" /\ UNCHANGED <<closing, outcome>>
           /\ plan' = LedgerPlan(~Fresh) /\ step' = IF Fresh THEN 0 ELSE ckpt
  <2>1. /\ step' \in 0..MaxSteps /\ (ckpt = NoStep \/ ckpt <= step')
        /\ Rows = RowsTo(step') /\ snaps = SnapsTo(step')
        /\ ~Fresh => ckpt # NoStep
    <3>1. CASE Fresh
      BY <1>6, <3>1, AcceptedIsExact, Bounds
    <3>2. CASE ~Fresh
      <4>1. step' = ckpt /\ ckpt \in 0..MaxSteps
        BY <1>6, <3>2, AcceptedIsExact
      <4>2. ckpt <= ckpt
        BY <4>1, ResumeAssumption
      <4> QED  BY <1>6, <3>2, <4>1, <4>2, AcceptedIsExact
    <3> QED  BY <3>1, <3>2
  <2>2. /\ LedgerPlan(~Fresh) \in Seq(PlanRecords)
        /\ IF Ledgered THEN GoodPlan(LedgerPlan(~Fresh))
           ELSE LedgerPlan(~Fresh) = << >>
    BY <1>3, <2>1, PlanMade
  <2>3. TypeOK'
    BY <1>1, <1>3, <1>6, <2>1, <2>2 DEF TypeOK
  <2>4. Running'
    <3>1. Rows' = Rows
      BY <1>1 DEF Rows
    <3> QED  BY <1>1, <1>6, <2>1, <3>1 DEF Running, NoStep
  <2>5. Planned'
    <3> DEFINE q == LedgerPlan(~Fresh)
    <3>1. plan' = q /\ q \in Seq(PlanRecords)
          /\ IF Ledgered THEN GoodPlan(q) ELSE q = << >>
      BY <1>6, <2>2
    <3> HIDE DEF q
    <3> QED
      BY <1>1, <3>1 DEF Planned, GoodPlan, Latest, Imports, Path, Destination, NoStep
  <2>6. Prepared' /\ Closing' /\ Course' /\ Finished'
    BY <1>2, <1>6 DEF Prepared, Closing, Course, Finished, Starting, Looping
  <2> QED  BY <1>4, <2>3, <2>4, <2>5, <2>6 DEF ResumeInv
<1> QED  BY <1>5, <1>6 DEF Validate

(* A process goes on with nothing written but a directory or config.yaml.  *)
Quiet == {"mkdir", "mksnap", "config", "write config", "train", "tick",
          "write ckpt"}

LEMMA QuietKeeps ==
  ASSUME ResumeInv, pc \in Quiet \ {"write ckpt"}, pc' \in Quiet,
         UNCHANGED <<ledger, temps, ckpt, log, snaps, memory, outcome, faults>>,
         made \subseteq made', made' \subseteq {"dir", "snapshots", "config"},
         pc' \notin {"mkdir", "mksnap"} => "snapshots" \in made'
  PROVE  ResumeInv'
<1> USE DEF memory
<1>1. TypeOK'
  BY DEF ResumeInv, TypeOK, Quiet
<1>2. LedgerNotAhead' /\ Kept'
  BY DEF ResumeInv, LedgerNotAhead, Recorded, Kept, Increasing, Rows, RowsTo,
     SnapsTo, NoStep
<1>3. Running'
  <2>1. Rows' = Rows
    BY DEF Rows
  <2> QED  BY <2>1 DEF ResumeInv, Running, Quiet, Starting, Looping, NoStep
<1>4. Closing' /\ Planned' /\ Finished'
  BY DEF ResumeInv, Closing, Planned, Finished, Quiet
<1>5. Prepared'
  BY DEF Prepared, Quiet, Looping
<1>6. Course'
  BY DEF ResumeInv, Course, Quiet, Starting, Looping, Latest
<1> QED  BY <1>1, <1>2, <1>3, <1>4, <1>5, <1>6 DEF ResumeInv

LEMMA MakeOutputKeeps == ASSUME ResumeInv, MakeOutput PROVE ResumeInv'
<1>1. made \subseteq {"dir", "snapshots", "config"}
  BY DEF ResumeInv, TypeOK
<1>2. pc \in {"config", "write config"} => "snapshots" \in made
  BY DEF ResumeInv, Prepared
<1> QED  BY <1>1, <1>2, QuietKeeps DEF MakeOutput, Quiet

LEMMA TickKeeps == ASSUME ResumeInv, Tick PROVE ResumeInv'
<1>1. made \subseteq {"dir", "snapshots", "config"}
  BY DEF ResumeInv, TypeOK
<1>2. pc = "tick" => "snapshots" \in made
  BY DEF ResumeInv, Prepared, Looping
<1> QED  BY <1>1, <1>2, QuietKeeps DEF Tick, Quiet, files

-----------------------------------------------------------------------------
(* One event of the plan, which the ledger always takes.                   *)
LEMMA PlannedAppend ==
  ASSUME ResumeInv, Prepare, plan # << >>, Head(plan).type # "refused"
  PROVE  ResumeInv'
<1> DEFINE e == Head(plan)
<1>1. pc = "plan" /\ UNCHANGED <<files, faults, step, closing, outcome>>
      /\ plan' = Tail(plan) /\ LedgerAppend(e, "plan", "exit")
  BY DEF Prepare
<1>2. TypeOK /\ LedgerNotAhead
  BY DEF ResumeInv
<1>3. Ledgered /\ GoodPlan(plan) /\ plan \in Seq(PlanRecords)
  BY <1>1 DEF ResumeInv, Planned, TypeOK
<1>4. /\ e = plan[1] /\ e \in PlanRecords /\ Tail(plan) \in Seq(PlanRecords)
      /\ e.type \in After(Latest) /\ Path(e.type, Tail(plan))
      /\ Destination(e.type, Tail(plan)) \in {"started", "resumed", "refused"}
      /\ Imports(Tail(plan))
  BY <1>3, PathLeft DEF GoodPlan
<1>5. e \in EventRecords
  BY <1>4 DEF PlanRecords, EventRecords
<1>6. e.type = "checkpointed" => e.step = ckpt /\ ckpt # NoStep
  <2>1. 1 \in 1..Len(plan)
    BY <1>3, EmptySeq
  <2> QED  BY <1>3, <1>4, <2>1 DEF GoodPlan, Imports
<1>7. MayFollow(Types, e.type)
  BY <1>2, <1>4, LatestDecides
<1>8. ledger' = Append(ledger, e) /\ pc' = "plan"
  BY <1>1, <1>7 DEF LedgerAppend
<1> HIDE DEF e
<1>9. ledger' \in Seq(EventRecords) /\ Latest' = e.type
  BY <1>2, <1>5, <1>8, LedgerGrows
<1>10. LedgerNotAhead'
  BY <1>1, <1>2, <1>5, <1>6, <1>8, RecordingKeepsOrder DEF files
<1>11. TypeOK'
  BY <1>1, <1>2, <1>4, <1>8, <1>9 DEF TypeOK, files
<1>12. Planned'
  <2> DEFINE q == Tail(plan)
  <2>1. /\ plan' = q /\ Path(e.type, q) /\ Imports(q)
        /\ Destination(e.type, q) \in {"started", "resumed", "refused"}
    BY <1>1, <1>4
  <2> HIDE DEF q
  <2>2. UNCHANGED <<ckpt, NoStep>>
    BY <1>1 DEF files, NoStep
  <2>3. GoodPlan(plan)'
    BY <1>9, <2>1, <2>2 DEF GoodPlan, Path, Destination, Imports
  <2> QED  BY <1>3, <2>3 DEF Planned
<1>13. Kept' /\ Running'
  <2>1. Rows' = Rows
    BY <1>1 DEF Rows, files
  <2> QED
    BY <1>1, <1>8, <2>1 DEF ResumeInv, Kept, Increasing, Running, Starting,
       Looping, files, RowsTo, SnapsTo, NoStep
<1>14. Prepared' /\ Closing' /\ Course' /\ Finished'
  BY <1>1, <1>8 DEF ResumeInv, Prepared, Closing, Course, Finished, Starting, Looping
<1> QED  BY <1>10, <1>11, <1>12, <1>13, <1>14 DEF ResumeInv

LEMMA PrepareKeeps == ASSUME ResumeInv, Prepare PROVE ResumeInv'
<1>1. pc = "plan" /\ UNCHANGED <<made, temps, ckpt, log, snaps, faults>>
  BY DEF Prepare, files
<1>2. TypeOK
  BY DEF ResumeInv
<1>3. CASE plan = << >>
  <2>1. pc' = "mkdir" /\ UNCHANGED <<ledger, memory, outcome>>
    BY <1>3 DEF Prepare
  <2>2. Ledgered => Latest \in {"started", "resumed"}
    <3>1. Ledgered => Latest \in {"started", "resumed", "refused"}
      BY <1>1, <1>3 DEF ResumeInv, Planned, GoodPlan, Destination
    <3>2. Latest # "refused"
      BY <1>2, LatestDecides DEF EventTypes
    <3> QED  BY <3>1, <3>2
  <2>3. TypeOK'
    BY <1>1, <1>2, <2>1 DEF TypeOK, memory
  <2>4. LedgerNotAhead' /\ Kept'
    BY <1>1, <2>1 DEF ResumeInv, LedgerNotAhead, Recorded, Kept, Increasing,
       Rows, RowsTo, SnapsTo, NoStep
  <2>5. Running'
    <3>1. Rows' = Rows
      BY <1>1 DEF Rows
    <3> QED  BY <1>1, <2>1, <3>1 DEF ResumeInv, Running, Starting, Looping,
                memory, NoStep
  <2>6. Course'
    BY <2>1, <2>2 DEF Course, Latest, Starting, Looping
  <2>7. Prepared' /\ Closing' /\ Planned' /\ Finished'
    BY <1>1, <2>1 DEF ResumeInv, Prepared, Closing, Planned, Finished, Looping,
       memory
  <2> QED  BY <2>3, <2>4, <2>5, <2>6, <2>7 DEF ResumeInv
<1>4. CASE plan # << >> /\ Head(plan).type = "refused"
  <2>1. Exit("refused") /\ UNCHANGED ledger
    BY <1>4 DEF Prepare
  <2>2. LedgerNotAhead' /\ ledger' \in Seq(EventRecords)
    BY <1>1, <2>1 DEF ResumeInv, TypeOK, LedgerNotAhead, Recorded, NoStep
  <2> QED  BY <1>1, <1>2, <2>1, <2>2, ExitKeeps DEF TypeOK
<1>5. CASE plan # << >> /\ Head(plan).type # "refused"
  BY <1>5, PlannedAppend
<1> QED  BY <1>3, <1>4, <1>5

-----------------------------------------------------------------------------
LEMMA LastStep ==
  ASSUME NEW s \in 0..MaxSteps, ~(s < MaxSteps)  PROVE s = MaxSteps
  BY ResumeAssumption

LEMMA TrainStepKeeps == ASSUME ResumeInv, TrainStep PROVE ResumeInv'
<1>1. pc = "train" /\ UNCHANGED <<ledger, made, temps, ckpt, log, snaps, plan, outcome, faults>>
  BY DEF TrainStep, files
<1>2. TypeOK /\ step \in 0..MaxSteps
  BY DEF ResumeInv, TypeOK
<1>3. /\ ckpt = NoStep \/ ckpt <= step
      /\ Rows = RowsTo(step) /\ snaps = SnapsTo(step)
  BY <1>1 DEF ResumeInv, Running, Looping
<1>4. ~closing
  BY <1>1, IdleNotClosing
<1>5. LedgerNotAhead' /\ Kept' /\ Rows' = Rows
  BY <1>1 DEF ResumeInv, LedgerNotAhead, Recorded, Kept, Increasing, Rows,
     RowsTo, SnapsTo, NoStep
<1>6. Ledgered => Latest \in {"started", "resumed", "checkpointed"}
  BY <1>1 DEF ResumeInv, Course, Looping
<1>7. Prepared' /\ Planned' /\ Course' /\ Finished'
  BY <1>1, <1>6 DEF ResumeInv, TrainStep, Prepared, Planned, Course, Latest,
     Finished, Looping
<1>8. CASE step < MaxSteps /\ step' = step + 1 /\ pc' = "log" /\ UNCHANGED closing
  <2>1. /\ step' \in 1..MaxSteps /\ step' - 1 = step /\ step' # 0
        /\ ckpt = NoStep \/ ckpt <= step'
    <3>1. ckpt \in 0..NoStep
      BY <1>2 DEF TypeOK
    <3> QED  BY <1>2, <1>3, <1>8, <3>1, ResumeAssumption DEF NoStep
  <2>2. TypeOK'
    <3>1. step' \in 0..MaxSteps
      BY <2>1, ResumeAssumption
    <3> QED  BY <1>1, <1>2, <1>8, <3>1 DEF TypeOK
  <2>3. Running'
    BY <1>1, <1>3, <1>5, <1>8, <2>1 DEF Running, NoStep
  <2>4. Closing'
    BY <1>4, <1>8 DEF Closing
  <2> QED  BY <1>5, <1>7, <2>2, <2>3, <2>4 DEF ResumeInv
<1>9. CASE ~(step < MaxSteps) /\ closing' = TRUE /\ pc' = "write ckpt" /\ UNCHANGED step
  <2>1. step' = MaxSteps
    <3>1. ~(step < MaxSteps) /\ step' = step
      BY <1>9
    <3> QED  BY <1>2, <3>1, LastStep
  <2>2. TypeOK'
    BY <1>1, <1>2, <1>9 DEF TypeOK
  <2>3. Running'
    BY <1>1, <1>3, <1>5, <1>9 DEF Running, NoStep
  <2>4. Closing'
    BY <1>9, <2>1 DEF Closing
  <2> QED  BY <1>5, <1>7, <2>2, <2>3, <2>4 DEF ResumeInv
<1> QED  BY <1>8, <1>9 DEF TrainStep

(* The row of a step, when it is due.                                      *)
LEMMA AppendLogKeeps == ASSUME ResumeInv, AppendLog PROVE ResumeInv'
<1>1. pc = "log" /\ UNCHANGED <<ledger, made, temps, ckpt, snaps, memory, outcome, faults>>
  BY DEF AppendLog
<1>2. TypeOK /\ Kept
  BY DEF ResumeInv
<1>3. /\ ckpt = NoStep \/ ckpt <= step
      /\ Rows = RowsTo(step - 1) /\ snaps = SnapsTo(step - 1)
  BY <1>1 DEF ResumeInv, Running, Looping
<1>4. step \in 1..MaxSteps
  <2>1. step \in 0..MaxSteps /\ step # 0
    BY <1>1, <1>2 DEF ResumeInv, Running, TypeOK
  <2> QED  BY <2>1, ResumeAssumption
<1>5. log' \in Seq(1..MaxSteps) /\ Increasing' /\ Rows' = RowsTo(step)
  <2>1. CASE RowDue(step)
    <3>1. log' = Append(log, step)
      BY <2>1 DEF AppendLog, RowDue
    <3>2. \A r \in Rows : r < step
      BY <1>3, <1>4, ResumeAssumption DEF RowsTo
    <3>3. log' \in Seq(1..MaxSteps) /\ Increasing' /\ Rows' = Rows \cup {step}
      BY <1>2, <1>4, <3>1, <3>2, RowAppended DEF Kept
    <3> QED  BY <1>3, <1>4, <2>1, <3>3, RowsToStep
  <2>2. CASE ~RowDue(step)
    <3>1. log' = log
      BY <2>2 DEF AppendLog, RowDue
    <3>2. Rows' = Rows /\ Increasing'
      BY <1>2, <3>1 DEF Rows, Kept, Increasing
    <3> QED  BY <1>2, <1>3, <1>4, <2>2, <3>1, <3>2, RowsToStep DEF TypeOK
  <2> QED  BY <2>1, <2>2
<1>6. pc' = IF SnapDue(step) THEN "snapshot" ELSE "tick"
  BY DEF AppendLog, SnapDue
<1>7. ~SnapDue(step) => snaps = SnapsTo(step)
  BY <1>3, <1>4, SnapsToStep
<1>8. TypeOK'
  BY <1>1, <1>2, <1>5, <1>6 DEF TypeOK, memory
<1>9. LedgerNotAhead'
  BY <1>1 DEF ResumeInv, LedgerNotAhead, Recorded, NoStep
<1>10. Kept'
  <2>1. Rows' \subseteq RowsTo(MaxSteps)
    <3>1. step \in 0..MaxSteps
      BY <1>2 DEF TypeOK
    <3> QED  BY <1>5, <3>1, DueWithin
  <2>2. Rows \subseteq Rows'
    BY <1>3, <1>4, <1>5, RowsToStep
  <2> QED  BY <1>1, <1>2, <1>5, <2>1, <2>2 DEF Kept, RowsTo, SnapsTo, NoStep
<1>11. Running'
  <2>1. step # 0
    BY <1>4
  <2> QED  BY <1>1, <1>3, <1>5, <1>6, <1>7, <2>1 DEF Running, memory, NoStep
<1>12. Prepared' /\ Closing' /\ Planned' /\ Course' /\ Finished'
  BY <1>1, <1>6 DEF ResumeInv, Prepared, Closing, Planned, Course, Latest, Finished,
     Starting, Looping, memory
<1> QED  BY <1>8, <1>9, <1>10, <1>11, <1>12 DEF ResumeInv

(* The snapshot of a step, which no earlier process has left there.        *)
LEMMA SaveSnapshotKeeps == ASSUME ResumeInv, SaveSnapshot PROVE ResumeInv'
<1>1. /\ pc \in {"snapshot", "write snapshot"}
      /\ UNCHANGED <<ledger, made, temps, ckpt, log, memory, outcome, faults>>
  BY DEF SaveSnapshot
<1>2. TypeOK /\ Kept
  BY DEF ResumeInv
<1>3. /\ ckpt = NoStep \/ ckpt <= step
      /\ Rows = RowsTo(step) /\ snaps = SnapsTo(step - 1) /\ SnapDue(step)
  BY <1>1 DEF ResumeInv, Running, Looping
<1>4. step \in 1..MaxSteps
  <2>1. step \in 0..MaxSteps /\ step # 0
    BY <1>1, <1>2 DEF ResumeInv, Running, TypeOK
  <2> QED  BY <2>1, ResumeAssumption
<1>5. step \notin snaps
  BY <1>3, <1>4, ResumeAssumption DEF SnapsTo
<1>6. Rows' = Rows /\ Increasing'
  BY <1>1, <1>2 DEF Rows, Kept, Increasing
<1>7. LedgerNotAhead'
  BY <1>1 DEF ResumeInv, LedgerNotAhead, Recorded, NoStep
<1>8. Prepared' /\ Planned' /\ Course' /\ Finished'
  BY <1>1, <1>5 DEF ResumeInv, SaveSnapshot, Prepared, Planned, Course, Latest, Finished,
     Starting, Looping, memory
<1>9. Closing'
  <2>1. ~closing
    BY <1>1, IdleNotClosing
  <2>2. closing' = closing
    BY <1>1 DEF memory
  <2>3. pc' \in {"write snapshot", "tick"}
    BY <1>5 DEF SaveSnapshot
  <2> QED  BY <2>1, <2>2, <2>3 DEF Closing
<1>10. CASE pc' = "write snapshot" /\ snaps' = snaps
  <2>1. TypeOK' /\ Kept'
    BY <1>1, <1>2, <1>6, <1>10 DEF TypeOK, Kept, RowsTo, SnapsTo, NoStep, memory
  <2>2. Running'
    <3>1. step' = step /\ ckpt' = ckpt /\ step # 0
      <4>1. step # 0
        BY <1>4
      <4> QED  BY <1>1, <4>1 DEF memory
    <3>2. SnapDue(step')
      BY <1>3, <3>1
    <3> QED  BY <1>3, <1>6, <1>10, <3>1, <3>2 DEF Running, NoStep
  <2> QED  BY <1>7, <1>8, <1>9, <2>1, <2>2 DEF ResumeInv
<1>11. CASE pc' = "tick" /\ snaps' = snaps \cup {step}
  <2>1. snaps' = SnapsTo(step)
    BY <1>3, <1>4, <1>11, SnapsToStep
  <2>2. snaps' \subseteq SnapsTo(MaxSteps) /\ snaps \subseteq snaps'
    <3>1. step \in 0..MaxSteps
      BY <1>2 DEF TypeOK
    <3> QED  BY <1>11, <2>1, <3>1, DueWithin
  <2>3. "snapshots" \in made
    BY <1>1 DEF ResumeInv, Prepared, Looping
  <2>4. TypeOK'
    BY <1>1, <1>2, <1>4, <1>11 DEF TypeOK, memory
  <2>5. Kept'
    BY <1>1, <1>2, <1>6, <2>2, <2>3 DEF Kept, RowsTo, SnapsTo, NoStep
  <2>6. Running'
    BY <1>1, <1>3, <1>6, <1>11, <2>1 DEF Running, memory, NoStep
  <2> QED  BY <1>7, <1>8, <1>9, <2>4, <2>5, <2>6 DEF ResumeInv
<1> QED  BY <1>1, <1>5, <1>10, <1>11 DEF SaveSnapshot

(* The checkpoint file is replaced before its event is appended.           *)
LEMMA SaveCkptKeeps == ASSUME ResumeInv, SaveCkpt PROVE ResumeInv'
<1>1. /\ pc = "write ckpt" /\ ckpt' = step
      /\ UNCHANGED <<ledger, made, temps, log, snaps, plan, step, closing, outcome, faults>>
      /\ pc' = IF Ledgered THEN "record" ELSE IF closing THEN "complete" ELSE "train"
  BY DEF SaveCkpt, memory
<1>2. TypeOK /\ Kept /\ LedgerNotAhead /\ step \in 0..MaxSteps
  BY DEF ResumeInv, TypeOK
<1>3. /\ ckpt = NoStep \/ ckpt <= step
      /\ Rows = RowsTo(step) /\ snaps = SnapsTo(step)
  BY <1>1 DEF ResumeInv, Running, Looping
<1>4. step # NoStep /\ step \in 0..NoStep /\ step <= step
  <2>1. step <= step
    BY <1>2, ResumeAssumption
  <2> QED  BY <1>2, <2>1, Bounds
<1>5. Rows' = Rows /\ Recorded' = Recorded
  BY <1>1 DEF Rows, Recorded
<1>6. TypeOK'
  BY <1>1, <1>2, <1>4 DEF TypeOK
<1>7. LedgerNotAhead'
  <2>1. \A s \in Recorded : s <= step
    <3> SUFFICES ASSUME NEW s \in Recorded  PROVE s <= step
      OBVIOUS
    <3>1. ckpt # NoStep /\ s <= ckpt
      BY <1>2 DEF LedgerNotAhead
    <3>2. s \in 0..NoStep
      <4>1. PICK i \in 1..Len(ledger) : s = ledger[i].step
        BY DEF Recorded
      <4>2. ledger[i] \in EventRecords
        BY <1>2, ElementOfSeq DEF TypeOK
      <4> QED  BY <4>1, <4>2 DEF EventRecords
    <3>3. ckpt \in 0..NoStep
      BY <1>2 DEF TypeOK
    <3> QED  BY <1>2, <1>3, <3>1, <3>2, <3>3, ResumeAssumption DEF NoStep
  <2> QED  BY <1>1, <1>2, <1>4, <1>5, <2>1 DEF LedgerNotAhead, NoStep
<1>8. Kept'
  BY <1>1, <1>2, <1>3, <1>5 DEF Kept, Increasing, RowsTo, SnapsTo, NoStep
<1>9. Running'
  BY <1>1, <1>3, <1>4, <1>5 DEF Running, NoStep
<1>10. Prepared' /\ Planned' /\ Finished'
  BY <1>1 DEF ResumeInv, Prepared, Planned, Finished, Looping
<1>11. Closing'
  BY <1>1 DEF ResumeInv, Closing
<1>12. Course'
  BY <1>1 DEF ResumeInv, Course, Latest, Starting, Looping
<1> QED
  BY <1>6, <1>7, <1>8, <1>9, <1>10, <1>11, <1>12 DEF ResumeInv

(* What an event appended in the loop leaves as it was.                    *)
LEMMA LoopAppend ==
  ASSUME ResumeInv, pc \in {"record", "complete"}, pc' \in {"train", "complete", "done"},
         NEW e \in EventRecords, ledger' = Append(ledger, e),
         e.type = "checkpointed" => e.step = step,
         UNCHANGED <<files, memory, outcome, faults>>
  PROVE  TypeOK' /\ LedgerNotAhead' /\ Kept' /\ Running' /\ Prepared' /\ Finished'
<1>1. TypeOK /\ LedgerNotAhead /\ Kept
  BY DEF ResumeInv
<1>2. ckpt = step /\ ckpt # NoStep
  <2>1. ckpt = step
    BY DEF ResumeInv, Closing
  <2>2. step \in 0..MaxSteps
    BY <1>1 DEF TypeOK
  <2> QED  BY <2>1, <2>2, Bounds
<1>3. TypeOK'
  <2>1. ledger' \in Seq(EventRecords)
    BY <1>1, LedgerGrows
  <2> QED  BY <1>1, <2>1 DEF TypeOK, files, memory
<1>4. LedgerNotAhead'
  BY <1>1, <1>2, RecordingKeepsOrder DEF files
<1>5. Kept'
  BY <1>1 DEF Kept, Increasing, Rows, RowsTo, SnapsTo, NoStep, files
<1>6. Running'
  <2>1. Rows' = Rows
    BY DEF Rows, files
  <2> QED  BY <2>1 DEF ResumeInv, Running, Looping, files, memory, NoStep
<1>7. Prepared'
  BY DEF ResumeInv, Prepared, Looping, files
<1>8. Finished'
  BY WorkingNotOk DEF Finished
<1> QED  BY <1>3, <1>4, <1>5, <1>6, <1>7, <1>8

LEMMA RecordCkptKeeps == ASSUME ResumeInv, RecordCkpt PROVE ResumeInv'
<1> DEFINE e == EventAt("checkpointed", step)
<1>1. pc = "record" /\ UNCHANGED <<files, memory, outcome, faults>>
      /\ LedgerAppend(e, IF closing THEN "complete" ELSE "train", "raise")
  BY DEF RecordCkpt
<1>2. TypeOK /\ step \in 0..MaxSteps
  BY DEF ResumeInv, TypeOK
<1>3. e \in EventRecords /\ e.type = "checkpointed" /\ e.step = step
  BY <1>2, Bounds DEF EventAt, EventRecords, EventTypes
<1> HIDE DEF e
<1>4. Ledgered /\ Latest \in {"started", "resumed", "checkpointed"}
  BY <1>1 DEF ResumeInv, Course, Looping
<1>5. MayFollow(Types, e.type)
  <2>1. "checkpointed" \in After(Latest)
    BY <1>4 DEF After, Transitions
  <2> QED  BY <1>2, <1>3, <2>1, LatestDecides
<1>6. ledger' = Append(ledger, e) /\ pc' = IF closing THEN "complete" ELSE "train"
  BY <1>1, <1>5 DEF LedgerAppend
<1>7. Latest' = "checkpointed" /\ step \in Recorded'
  BY <1>2, <1>3, <1>6, LedgerGrows
<1>8. TypeOK' /\ LedgerNotAhead' /\ Kept' /\ Running' /\ Prepared' /\ Finished'
  BY <1>1, <1>3, <1>6, LoopAppend
<1>9. Closing'
  BY <1>1, <1>6 DEF ResumeInv, Closing, files, memory
<1>10. Planned'
  BY <1>6 DEF Planned
<1>11. Course'
  BY <1>1, <1>6, <1>7 DEF Course, memory, Starting, Looping
<1> QED  BY <1>8, <1>9, <1>10, <1>11 DEF ResumeInv

LEMMA CompleteKeeps == ASSUME ResumeInv, Complete PROVE ResumeInv'
<1>1. pc = "complete" /\ UNCHANGED <<files, memory, outcome, faults>>
  BY DEF Complete
<1>2. TypeOK /\ step \in 0..MaxSteps
  BY DEF ResumeInv, TypeOK
<1>3. CASE ~Ledgered
  <2>1. pc' = "done" /\ ledger' = ledger
    BY <1>3 DEF Complete
  <2>2. TypeOK' /\ LedgerNotAhead' /\ Kept'
    BY <1>1, <2>1 DEF ResumeInv, TypeOK, LedgerNotAhead, Recorded, Kept,
       Increasing, Rows, RowsTo, SnapsTo, NoStep, files, memory
  <2>3. Running'
    <3>1. Rows' = Rows
      BY <1>1 DEF Rows, files
    <3> QED  BY <1>1, <2>1, <3>1 DEF ResumeInv, Running, Looping, files,
                memory, NoStep
  <2>4. Prepared' /\ Planned' /\ Course' /\ Finished'
    BY <1>1, <1>3, <2>1, WorkingNotOk DEF ResumeInv, Prepared, Planned, Course,
       Finished, Looping, files
  <2>5. Closing'
    BY <1>1, <2>1 DEF ResumeInv, Closing, files, memory
  <2> QED  BY <2>2, <2>3, <2>4, <2>5 DEF ResumeInv
<1>4. CASE Ledgered
  <2> DEFINE e == EventAt("completed", step)
  <2>1. LedgerAppend(e, "done", "raise")
    BY <1>4 DEF Complete
  <2>2. e \in EventRecords /\ e.type = "completed"
    BY <1>2, Bounds DEF EventAt, EventRecords, EventTypes
  <2> HIDE DEF e
  <2>3. Latest = "checkpointed" /\ step \in Recorded
    BY <1>1, <1>4 DEF ResumeInv, Course
  <2>4. MayFollow(Types, e.type)
    <3>1. "completed" \in After(Latest)
      BY <2>3 DEF After, Transitions
    <3> QED  BY <1>2, <2>2, <3>1, LatestDecides
  <2>5. ledger' = Append(ledger, e) /\ pc' = "done"
    BY <2>1, <2>4 DEF LedgerAppend
  <2>6. Latest' = "completed" /\ step \in Recorded'
    BY <1>2, <2>2, <2>3, <2>5, LedgerGrows
  <2>7. TypeOK' /\ LedgerNotAhead' /\ Kept' /\ Running' /\ Prepared' /\ Finished'
    BY <1>1, <2>2, <2>5, LoopAppend
  <2>8. Closing'
    BY <1>1, <2>5 DEF ResumeInv, Closing, files, memory
  <2>9. Planned'
    BY <2>5 DEF Planned
  <2>10. Course'
    BY <1>1, <2>5, <2>6 DEF Course, memory
  <2> QED  BY <2>7, <2>8, <2>9, <2>10 DEF ResumeInv
<1> QED  BY <1>3, <1>4

LEMMA FinishKeeps == ASSUME ResumeInv, Finish PROVE ResumeInv'
<1>1. pc = "done" /\ Exit("ok") /\ UNCHANGED <<ledger, made, temps, ckpt, log, snaps, faults>>
  BY DEF Finish, files
<1>2. /\ step = MaxSteps /\ ckpt = step
      /\ Rows = RowsTo(step) /\ snaps = SnapsTo(step)
      /\ Ledgered => Latest = "completed" /\ step \in Recorded
  BY <1>1 DEF ResumeInv, Closing, Running, Course, Looping
<1>3. TypeOK'
  <2>1. << >> \in Seq(PlanRecords)
    BY EmptySeq
  <2> QED  BY <1>1, <2>1, Bounds DEF ResumeInv, TypeOK, Exit
<1>4. LedgerNotAhead' /\ Kept'
  BY <1>1 DEF ResumeInv, LedgerNotAhead, Recorded, Kept, Increasing, Rows,
     RowsTo, SnapsTo, NoStep
<1>5. Running' /\ Prepared' /\ Closing' /\ Planned' /\ Course'
  BY <1>1 DEF Exit, Running, Prepared, Closing, Planned, Course, Starting, Looping
<1>6. Finished'
  BY <1>1, <1>2 DEF Exit, Finished, Rows, Latest, Recorded
<1> QED  BY <1>3, <1>4, <1>5, <1>6 DEF ResumeInv

(* Every step keeps the invariant.                                         *)
LEMMA ResumeStep == ASSUME ResumeInv, [Next]_vars PROVE ResumeInv'
<1>1. CASE UNCHANGED vars
  <2>1. Rows' = Rows /\ Recorded' = Recorded /\ Latest' = Latest
    BY <1>1 DEF vars, Rows, Recorded, Latest
  <2>2. TypeOK' /\ LedgerNotAhead' /\ Kept' /\ Prepared' /\ Closing'
    BY <1>1, <2>1 DEF vars, ResumeInv, TypeOK, LedgerNotAhead, Kept, Increasing,
       RowsTo, SnapsTo, Prepared, Closing, NoStep
  <2>3. Running' /\ Finished' /\ Course'
    BY <1>1, <2>1 DEF vars, ResumeInv, Running, Finished, Course, NoStep
  <2>4. Planned'
    BY <1>1, <2>1 DEF vars, ResumeInv, Planned, GoodPlan, Path, Before,
       Destination, Imports, NoStep
  <2> QED  BY <2>2, <2>3, <2>4 DEF ResumeInv
<1> QED
  BY <1>1, SpawnKeeps, ValidateKeeps, PrepareKeeps, MakeOutputKeeps,
     TrainStepKeeps, AppendLogKeeps, SaveSnapshotKeeps, TickKeeps,
     SaveCkptKeeps, RecordCkptKeeps, CompleteKeeps, FinishKeeps, RetainKeeps,
     RaiseKeeps, KillKeeps DEF Next, Process

LEMMA ResumeAlways == Spec => []ResumeInv
<1>1. Init => ResumeInv
  BY ResumeInit
<1>2. ResumeInv /\ [Next]_vars => ResumeInv'
  BY ResumeStep
<1> QED  BY <1>1, <1>2, PTL DEF Spec

(* Every reachable state is well typed.                                    *)
THEOREM TypeCorrect == Spec => []TypeOK
<1>1. ResumeInv => TypeOK
  BY DEF ResumeInv
<1> QED  BY <1>1, ResumeAlways, PTL

(* However often it is interrupted, and wherever, a run that finishes has  *)
(* the log, the snapshots and the checkpoint of one that never was; and    *)
(* until then the ledger takes every event it is given and is never ahead  *)
(* of the checkpoint (trainer.py train, _validate_resume_inventory,        *)
(* _prepare_training_ledger, save_ckpt).                                   *)
THEOREM HistoryAlwaysExact == Spec => []ExactHistory
<1>1. ASSUME ResumeInv  PROVE AppendsLegal
  <2>1. TypeOK
    BY <1>1 DEF ResumeInv
  <2>2. ASSUME pc = "plan", plan # << >>, Head(plan).type # "refused"
        PROVE  MayFollow(Types, Head(plan).type)
    <3>1. GoodPlan(plan) /\ plan \in Seq(PlanRecords)
      BY <1>1, <2>2 DEF ResumeInv, Planned, TypeOK
    <3>2. Head(plan).type \in After(Latest)
      BY <2>2, <3>1, PathLeft DEF GoodPlan
    <3> QED  BY <2>1, <3>2, LatestDecides
  <2>3. ASSUME pc = "record"  PROVE MayFollow(Types, "checkpointed")
    <3>1. Latest \in {"started", "resumed", "checkpointed"}
      BY <1>1, <2>3 DEF ResumeInv, Course, Looping
    <3>2. "checkpointed" \in After(Latest)
      BY <3>1 DEF After, Transitions
    <3> QED  BY <2>1, <3>2, LatestDecides
  <2>4. ASSUME pc = "complete", Ledgered  PROVE MayFollow(Types, "completed")
    <3>1. "completed" \in After(Latest)
      BY <1>1, <2>4 DEF ResumeInv, Course, After, Transitions
    <3> QED  BY <2>1, <3>1, LatestDecides
  <2> QED  BY <2>2, <2>3, <2>4 DEF AppendsLegal
<1>2. ASSUME ResumeInv, outcome = "ok"
      PROVE  /\ ckpt = MaxSteps
             /\ \A i, j \in 1..Len(log) : i < j => log[i] < log[j]
             /\ Rows = {s \in 1..MaxSteps : s % LogEvery = 0 \/ s = MaxSteps}
             /\ snaps = {s \in 1..MaxSteps : s % SnapEvery = 0}
             /\ Ledgered => Latest = "completed" /\ MaxSteps \in Recorded
  <2>1. /\ ckpt = MaxSteps
        /\ Rows = RowsTo(MaxSteps) /\ snaps = SnapsTo(MaxSteps)
        /\ Ledgered => Latest = "completed" /\ MaxSteps \in Recorded
        /\ Increasing
    BY <1>2 DEF ResumeInv, Finished, Kept
  <2>2. \A d \in 1..MaxSteps : d <= MaxSteps
    BY ResumeAssumption
  <2>3. RowsTo(MaxSteps) = {s \in 1..MaxSteps : RowDue(s)}
        /\ SnapsTo(MaxSteps) = {s \in 1..MaxSteps : SnapDue(s)}
    BY <2>2 DEF RowsTo, SnapsTo
  <2> QED  BY <2>1, <2>3 DEF Increasing, RowDue, SnapDue
<1>3. ResumeInv => ExactHistory
  BY <1>1, <1>2 DEF ExactHistory, ResumeInv
<1> QED  BY <1>3, ResumeAlways, PTL
=============================================================================
