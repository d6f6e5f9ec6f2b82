-------------------------------- MODULE Cohort --------------------------------
(***************************************************************************)
(* launch/: the supervisor of the 1b cohort (run_cohort_d1b.sh, "lead")    *)
(* and the chained one of the 135m cohort (run_cohort_135m.sh, "own")      *)
(* start one trainer per GPU in rounds, retry what died, and copy results  *)
(* to S3; the durability daemon (sync_daemon.sh) and the chained           *)
(* supervisor's watchdog stop the trainers at their deadlines.  Trainers   *)
(* die at any step or hang, copies fail, and a supervisor may be killed,   *)
(* which leaves its trainers and its background loops running.  The lead   *)
(* may be restarted after that, as another process that begins with round  *)
(* 1 and knows nothing of what the killed one left.                        *)
(*                                                                         *)
(* Time is a clock that everyone reads; how long anything takes is open.   *)
(* A step of a trainer stands for the updates between two log rows.        *)
(***************************************************************************)
EXTENDS Integers, Sequences, FiniteSets

CONSTANTS Gpus,
          LeadRounds, OwnRounds,       \* numbers of rounds
          LastStep,                    \* max_steps
          OwnDeadline, Deadline,       \* of the watchdog and of the daemon
          LeadNeeded, OwnNeeded,       \* time a round is given
          MaxKills,                    \* bound on kills of supervisors
          MaxRestarts                  \* bound on restarts of the lead

ASSUME CohortAssumption ==
  /\ IsFiniteSet(Gpus) /\ Gpus \subseteq Nat
  /\ LeadRounds \in Nat /\ OwnRounds \in Nat
  /\ MaxKills \in Nat /\ MaxRestarts \in Nat
  /\ LastStep \in Nat \ {0}
  /\ OwnDeadline \in Nat /\ Deadline \in Nat /\ OwnDeadline < Deadline
  /\ LeadNeeded \in Nat \ {0} /\ OwnNeeded \in Nat \ {0}

Supervisors == {"lead", "own"}
LastRound(s) == IF s = "lead" THEN LeadRounds ELSE OwnRounds
Rounds(s)    == 1..LastRound(s)

(* A run of a round is trained on the GPU of its place in the round.       *)
RoundRuns(s, n) == {[cohort |-> s, round |-> n, gpu |-> g] : g \in Gpus}
RunsOf(s) == UNION {RoundRuns(s, n) : n \in Rounds(s)}
Runs      == RunsOf("lead") \cup RunsOf("own")

(* A trainer is a process on a run, of one life of its supervisor: a       *)
(* restarted lead trains on the runs of the killed one.                    *)
Lives(s) == IF s = "lead" THEN 1..(MaxRestarts + 1) ELSE {1}

RoundTrainers(s, n, l) ==
  {[cohort |-> s, round |-> n, gpu |-> g, life |-> l] : g \in Gpus}
TrainersOf(s) ==
  UNION {RoundTrainers(s, n, l) : n \in Rounds(s), l \in Lives(s)}
Trainers == TrainersOf("lead") \cup TrainersOf("own")
RunOf(t) == [cohort |-> t.cohort, round |-> t.round, gpu |-> t.gpu]

VARIABLES
  now,
  sup,        \* supervisor -> [pc, round, waits: the trainers it waits for]
  life,       \* the process that the lead is, of those started one by one
  train,      \* trainer -> its next step, or "none"
  step,       \* trainer -> updates done in its memory
  files,      \* run -> what is on the instance store
  stale,      \* runs with a file whose copy in S3 is missing or old
  synced,     \* supervisor, "daemon" -> its final copy reported no error
  daemon, watchdog, syncer,
  intruded,   \* history: the lead started trainers, the chained
              \* supervisor having seen none and gone on
  kills

vars == <<now, sup, life, train, step, files, stale, synced, daemon, watchdog,
          syncer, intruded, kills>>
trainers == <<train, step, files, intruded>>
loops    == <<daemon, watchdog, syncer>>
faults   == <<kills, life>>

Running == {t \in Trainers : train[t] # "none"}
Phases  == {"none", "train", "snapshot", "write snapshot"}

(* Where a supervisor's script stands.                                     *)
Labels == {"wait lead", "wait trainers", "round", "wait", "retry",
           "wait retried", "sync", "final sync", "done", "exited", "killed"}

-----------------------------------------------------------------------------
Init ==
  /\ now = 0
  /\ sup = [s \in Supervisors |->
              [pc |-> IF s = "lead" THEN "round" ELSE "wait lead",
               round |-> 1, waits |-> {}]]
  /\ life = 1
  /\ train = [t \in Trainers |-> "none"] /\ step = [t \in Trainers |-> 0]
  /\ files = [r \in Runs |-> [log |-> 0, ckpt |-> 0]]
  /\ stale = {}
  /\ synced = [s \in Supervisors \cup {"daemon"} |-> FALSE]
  /\ daemon = "loop" /\ watchdog = "off" /\ syncer = "off"
  /\ intruded = FALSE /\ kills = 0

(* The shell is quick: no time passes while it looks at the clock and      *)
(* starts a round or a retry.                                              *)
Tick ==
  /\ now < Deadline
  /\ \A s \in Supervisors : sup[s].pc \notin {"round", "retry"}
  /\ now' = now + 1
  /\ UNCHANGED <<sup, trainers, stale, synced, loops, faults>>

-----------------------------------------------------------------------------
(* run_train.py --resume auto: from the run's ckpt.pt if there is one.     *)
Started(S) ==
  /\ train' = [t \in Trainers |-> IF t \in S THEN "train" ELSE train[t]]
  /\ step' = [t \in Trainers |->
                IF t \in S THEN files[RunOf(t)].ckpt ELSE step[t]]
  /\ UNCHANGED files

(* Two trainers of one run write the same files: the last write counts.    *)
Write(t, f, v) == files' = [files EXCEPT ![RunOf(t)][f] = v]
Changes(t)     == stale' = stale \cup {RunOf(t)}

Stopped(S) ==
  /\ train' = [t \in Trainers |-> IF t \in S THEN "none" ELSE train[t]]
  /\ step' = [t \in Trainers |-> IF t \in S THEN 0 ELSE step[t]]

(* train_steps: a row, at the last step a snapshot, ckpt.pt by the clock   *)
(* and after the loop.  A snapshot is written in place: a copy of it is    *)
(* out of date until it is whole.                                          *)
TrainerStep(t) ==
  /\ \/ /\ train[t] = "train" /\ step[t] < LastStep
        /\ step' = [step EXCEPT ![t] = @ + 1]
        /\ Write(t, "log", step[t] + 1) /\ Changes(t)
        /\ train' = [train EXCEPT ![t] =
                       IF step[t] + 1 = LastStep THEN "snapshot" ELSE "train"]
     \/ /\ train[t] = "train" /\ step[t] > 0
        /\ files[RunOf(t)].ckpt # step[t]
        /\ Write(t, "ckpt", step[t]) /\ Changes(t)
        /\ UNCHANGED <<train, step>>
     \/ /\ train[t] \in {"snapshot", "write snapshot"}
        /\ Changes(t)
        /\ train' = [train EXCEPT ![t] = IF @ = "snapshot" THEN "write snapshot"
                                                         ELSE "train"]
        /\ UNCHANGED <<step, files>>
     \/ /\ train[t] = "train" /\ step[t] = LastStep
        /\ Write(t, "ckpt", LastStep) /\ Changes(t)
        /\ Stopped({t})
  /\ UNCHANGED <<now, sup, synced, loops, intruded, faults>>

TrainerDies(t) ==
  /\ t \in Running
  /\ Stopped({t})
  /\ UNCHANGED <<now, sup, files, stale, synced, loops, intruded, faults>>

(* pkill: -TERM may find a trainer hung, -KILL ends every one.             *)
Terminate(S) == \E D \in SUBSET (Running \cap S) : Stopped(D)

-----------------------------------------------------------------------------
(* aws s3 sync of the runs S; one that reports errors leaves some out.     *)
Copy(S) == stale' = stale \ S

CopyOrFail(S, ok) == IF ok THEN Copy(S) ELSE \E D \in SUBSET S : Copy(D)

At(s, l)     == sup[s].pc = l
Goto(s, l)   == sup' = [sup EXCEPT ![s].pc = l]
Life(s)      == IF s = "lead" THEN life ELSE 1
ThisRound(s) == RoundTrainers(s, sup[s].round, Life(s))

(* LEAD_PID is fixed: the process with which the lead began.               *)
LeadPidGone == life > 1 \/ At("lead", "done") \/ At("lead", "killed")

(* A chained round started whenever the lead's process is gone.            *)
AwaitLeadOnly ==
  /\ At("own", "wait lead") /\ LeadPidGone
  /\ Goto("own", "round") /\ watchdog' = "on" /\ syncer' = "on"
  /\ UNCHANGED <<now, trainers, stale, synced, daemon, faults>>

(* The chained supervisor waits for the lead's first process to end, then, *)
(* once, for every trainer, and gives up when no round fits any more.      *)
AwaitLead ==
  /\ \/ /\ At("own", "wait lead")
        /\ \/ /\ LeadPidGone
              /\ Goto("own", "wait trainers")
           \/ /\ ~LeadPidGone /\ now >= OwnDeadline
              /\ Goto("own", "exited")
        /\ UNCHANGED <<watchdog, syncer>>
     \/ /\ At("own", "wait trainers") /\ Running = {}
        /\ Goto("own", "round") /\ watchdog' = "on" /\ syncer' = "on"
     \/ /\ At("own", "wait trainers") /\ Running # {}
        /\ now + OwnNeeded >= OwnDeadline
        /\ Goto("own", "exited")
        /\ UNCHANGED <<watchdog, syncer>>
  /\ UNCHANGED <<now, trainers, stale, synced, daemon, faults>>

RoundFits(s) ==
  IF s = "lead" THEN sup[s].round = 1 \/ Deadline - now >= LeadNeeded
                ELSE OwnDeadline - now >= OwnNeeded

Intrudes(s) ==
  intruded' = (intruded \/ (s = "lead" /\ watchdog # "off"))

(* launch_round, or the skip; the chained supervisor tries every round.    *)
LaunchRound(s) ==
  /\ At(s, "round")
  /\ \/ /\ sup[s].round \in Rounds(s) /\ RoundFits(s)
        /\ sup' = [sup EXCEPT ![s].pc = "wait", ![s].waits = ThisRound(s)]
        /\ Started(ThisRound(s)) /\ Intrudes(s)
     \/ /\ sup[s].round \in Rounds(s) /\ ~RoundFits(s)
        /\ IF s = "lead" THEN Goto(s, "final sync")
                         ELSE sup' = [sup EXCEPT ![s].round = @ + 1]
        /\ UNCHANGED trainers
     \/ /\ sup[s].round \notin Rounds(s)
        /\ Goto(s, "final sync")
        /\ UNCHANGED trainers
  /\ UNCHANGED <<now, stale, synced, loops, faults>>

Wait(s) ==
  /\ sup[s].pc \in {"wait", "wait retried"}
  /\ sup[s].waits \cap Running = {}
  /\ sup' = [sup EXCEPT ![s].waits = {},
               ![s].pc = IF sup[s].pc = "wait" THEN "retry" ELSE "sync"]
  /\ UNCHANGED <<now, trainers, stale, synced, loops, faults>>

RetryFits(s) ==
  IF s = "lead" THEN now < Deadline ELSE now + OwnNeeded < OwnDeadline

Retried(s) == {t \in ThisRound(s) : files[RunOf(t)].log < LastStep}

(* retry_round: once, the runs whose last log row is not the last step.    *)
Retry(s) ==
  /\ At(s, "retry")
  /\ LET S == IF RetryFits(s) THEN Retried(s) ELSE {}
     IN  /\ Started(S)
         /\ IF S = {} THEN UNCHANGED intruded ELSE Intrudes(s)
         /\ sup' = [sup EXCEPT ![s].pc = IF S = {} THEN "sync" ELSE "wait retried",
                               ![s].waits = S]
  /\ UNCHANGED <<now, stale, synced, loops, faults>>

Sync(s) ==
  /\ \E ok \in BOOLEAN :
       /\ CopyOrFail(RunsOf(s), ok)
       /\ \/ /\ At(s, "sync")
             /\ sup' = [sup EXCEPT ![s].pc = "round", ![s].round = @ + 1]
             /\ UNCHANGED <<watchdog, syncer, synced>>
          \/ /\ At(s, "final sync")
             /\ Goto(s, "done") /\ synced' = [synced EXCEPT ![s] = ok]
             /\ IF s = "own" THEN watchdog' = "off" /\ syncer' = "off"
                             ELSE UNCHANGED <<watchdog, syncer>>
  /\ UNCHANGED <<now, trainers, daemon, faults>>

KillSupervisor(s) ==
  /\ sup[s].pc \notin {"done", "exited", "killed"} /\ kills < MaxKills
  /\ kills' = kills + 1
  /\ sup' = [sup EXCEPT ![s].pc = "killed", ![s].waits = {}]
  /\ UNCHANGED <<now, life, trainers, stale, synced, loops>>

(* The operator starts the lead's script again, as long as the block       *)
(* lasts: round 1 is launched whatever runs.                               *)
RestartLead ==
  /\ At("lead", "killed") /\ life <= MaxRestarts
  /\ now < Deadline
  /\ sup' = [sup EXCEPT !["lead"] = [pc |-> "round", round |-> 1, waits |-> {}]]
  /\ life' = life + 1
  /\ UNCHANGED <<now, trainers, stale, synced, loops, kills>>

Supervise(s) == LaunchRound(s) \/ Wait(s) \/ Retry(s) \/ Sync(s)

-----------------------------------------------------------------------------
(* sync_daemon.sh.  A pass leaves out the runs whose copy failed and, when *)
(* it is one that skips ckpt.pt, those with another ckpt.pt by now.        *)
DaemonPass ==
  /\ daemon = "loop" /\ now < Deadline
  /\ \E S \in SUBSET RunsOf("lead") : Copy(S)
  /\ UNCHANGED <<now, sup, trainers, synced, loops, faults>>

(* The trainers asked to stop, and not made to.                            *)
DaemonStopTermOnly ==
  /\ \/ daemon = "loop" /\ now >= Deadline /\ Terminate(Trainers) /\ daemon' = "stop"
     \/ daemon = "stop" /\ daemon' = "final" /\ UNCHANGED <<train, step>>
  /\ UNCHANGED <<now, sup, files, stale, synced, watchdog, syncer, intruded,
                 faults>>

DaemonStop ==
  /\ \/ daemon = "loop" /\ now >= Deadline /\ Terminate(Trainers) /\ daemon' = "stop"
     \/ daemon = "stop" /\ Stopped(Trainers) /\ daemon' = "final"
  /\ UNCHANGED <<now, sup, files, stale, synced, watchdog, syncer, intruded,
                 faults>>

DaemonFinal ==
  /\ daemon = "final"
  /\ \E ok \in BOOLEAN : /\ CopyOrFail(RunsOf("lead"), ok)
                         /\ synced' = [synced EXCEPT !["daemon"] = ok]
  /\ daemon' = "done"
  /\ UNCHANGED <<now, sup, trainers, watchdog, syncer, faults>>

(* The chained supervisor's background loops.                              *)
Watchdog ==
  /\ \/ watchdog = "on" /\ now >= OwnDeadline
        /\ Terminate(TrainersOf("own")) /\ watchdog' = "stop"
     \/ watchdog = "stop" /\ Stopped(TrainersOf("own")) /\ watchdog' = "off"
  /\ UNCHANGED <<now, sup, files, stale, synced, daemon, syncer, intruded,
                 faults>>

SyncerPass ==
  /\ syncer = "on"
  /\ \E S \in SUBSET RunsOf("own") : Copy(S)
  /\ UNCHANGED <<now, sup, trainers, synced, loops, faults>>

-----------------------------------------------------------------------------
Ended == \A s \in Supervisors : sup[s].pc \in {"done", "exited", "killed"}

Next ==
  \/ Tick \/ AwaitLead \/ RestartLead
  \/ \E s \in Supervisors : Supervise(s) \/ KillSupervisor(s)
  \/ \E t \in Trainers : TrainerStep(t) \/ TrainerDies(t)
  \/ DaemonPass \/ DaemonStop \/ DaemonFinal
  \/ Watchdog \/ SyncerPass
  \/ Ended /\ daemon = "done" /\ UNCHANGED vars

Spec == Init /\ [][Next]_vars

(* Time passes and the scripts run.  A trainer owes nobody a step: it may  *)
(* hang.                                                                   *)
FairSpec ==
  /\ Spec
  /\ WF_vars(Tick)
  /\ WF_vars(Supervise("lead")) /\ WF_vars(AwaitLead \/ Supervise("own"))
  /\ WF_vars(DaemonStop \/ DaemonFinal) /\ WF_vars(Watchdog)

-----------------------------------------------------------------------------
(* Every variable holds a value of its kind.                               *)
TypeOK ==
  /\ now \in 0..Deadline
  /\ sup \in [Supervisors -> [pc : Labels, round : Nat, waits : SUBSET Trainers]]
  /\ \A s \in Supervisors : /\ sup[s].round \in 1..(LastRound(s) + 1)
                            /\ sup[s].waits \subseteq TrainersOf(s)
  /\ life \in Lives("lead")
  /\ train \in [Trainers -> Phases]
  /\ step \in [Trainers -> 0..LastStep]
  /\ files \in [Runs -> [log : 0..LastStep, ckpt : 0..LastStep]]
  /\ stale \subseteq Runs
  /\ synced \in [Supervisors \cup {"daemon"} -> BOOLEAN]
  /\ daemon \in {"loop", "stop", "final", "done"}
  /\ watchdog \in {"off", "on", "stop"} /\ syncer \in {"off", "on"}
  /\ intruded \in BOOLEAN /\ kills \in 0..MaxKills

(* Who may share a GPU (run_cohort_135m.sh, the wait for run_train.py).    *)
(* Trainers that one process of a supervisor started never do.  A trainer  *)
(* of the lead and a chained one do only when the lead launched after the  *)
(* chained supervisor had looked, and only a restarted lead does that: the *)
(* look is taken once, before the first chained round, and passes while a  *)
(* restarted lead is between two rounds, which has no such look of its     *)
(* own.  A restarted lead also joins what the killed one left on its GPUs. *)
(* Without a restart two trainers never share a GPU, whoever is killed.    *)
OneTrainerPerGpu ==
  /\ \A q, t \in Running : q.gpu = t.gpu /\ q # t =>
       \/ q.cohort # t.cohort /\ intruded
       \/ q.cohort = "lead" /\ t.cohort = "lead" /\ q.life # t.life
  /\ intruded => life > 1

(* No trainer of a cohort runs once its deadline has been enforced: the    *)
(* retries and rounds after it are all refused (retry_round,               *)
(* round_if_time).                                                         *)
NothingTrainsAfterDeadline ==
  /\ daemon \in {"final", "done"} => Running = {}
  /\ sup["own"].pc # "wait lead" /\ now >= OwnDeadline /\ watchdog = "off"
       => Running \cap TrainersOf("own") = {}

(* What a cohort's last copy reported without an error is what the store   *)
(* holds, and nothing is trained after it: the daemon's of the lead's runs *)
(* (sync_daemon.sh, DEADLINE-SYNC-DONE), the supervisors' of their own     *)
(* (COHORT-COMPLETE, COHORT-135M-COMPLETE).  A restarted lead cannot say   *)
(* so: a trainer that the killed one left may outlive its last copy.       *)
DurableIfSynced ==
  /\ NothingTrainsAfterDeadline
  /\ daemon = "done" /\ synced["daemon"] =>
       stale \cap RunsOf("lead") = {}
  /\ \A s \in Supervisors : At(s, "done") /\ synced[s] /\ Life(s) = 1 =>
       stale \cap RunsOf(s) = {}

(* The supervisors end by themselves, though trainers hang for good        *)
(* (run_cohort_d1b.sh and run_cohort_135m.sh, wait).                       *)
SupervisorsEnd == <>[]Ended
=============================================================================
