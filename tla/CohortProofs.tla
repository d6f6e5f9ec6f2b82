----------------------------- MODULE CohortProofs -----------------------------
(***************************************************************************)
(* Proofs about Cohort, for every set of GPUs, every number of rounds and  *)
(* restarts and all deadlines: its types, who may share a GPU, and that    *)
(* what a last copy reported is what the store holds.                      *)
(*                                                                         *)
(* Neither property is inductive.  Whether a start is safe depends on what *)
(* the two scripts have waited for (Awaited, Handover), on the rounds of   *)
(* the trainers a killed supervisor left behind (OneRound) and on the      *)
(* clock at which a deadline was enforced (Enforced); CohortInv says all   *)
(* of it.                                                                  *)
(***************************************************************************)
EXTENDS Cohort, TLAPS

(* The trainers of a supervisor, and those its present process started.    *)
Trains(s)   == Running \cap TrainersOf(s)
Children(s) == {t \in Trains(s) : t.life = Life(s)}

(* The chained supervisor's script is past both waits.                     *)
OwnBegan ==
  sup["own"].pc \in {"round", "wait", "retry", "wait retried", "sync",
                     "final sync"}

(* A round that was launched is one of the supervisor's.                   *)
RoundKnown ==
  \A s \in Supervisors :
    sup[s].pc \in {"wait", "retry", "wait retried", "sync"}
      => sup[s].round \in Rounds(s)

(* What a supervisor's script knows of its own trainers, where it stands.  *)
Awaited ==
  \A s \in Supervisors :
    /\ sup[s].pc \notin {"wait", "wait retried", "killed"} => Children(s) = {}
    /\ sup[s].pc # "killed" => Children(s) \subseteq sup[s].waits

(* The trainers that one process started are of one round, its round while *)
(* it is there, and no process to come has any.                            *)
OneRound ==
  /\ \A s \in Supervisors : \A t \in Children(s) : t.round = sup[s].round
  /\ \A q, t \in Running : q.cohort = t.cohort /\ q.life = t.life
                             => q.round = t.round
  /\ \A s \in Supervisors : \A t \in Trains(s) : t.life <= Life(s)

(* The chained supervisor begins when no trainer is left, and the lead has *)
(* launched nothing since, or is a restarted one.                          *)
Handover ==
  /\ sup["lead"].pc \notin {"wait lead", "wait trainers", "exited"}
  /\ sup["own"].pc = "wait trainers" => LeadPidGone
  /\ watchdog # "off" => LeadPidGone /\ (intruded \/ Trains("lead") = {})
  /\ intruded => life > 1

(* The clock the deadlines were enforced at.                               *)
Enforced ==
  /\ At("lead", "round") /\ sup["lead"].round = 1 => now < Deadline
  /\ daemon # "loop" => now = Deadline
  /\ daemon \in {"final", "done"} => Running = {}
  /\ watchdog = "stop" => now >= OwnDeadline
  /\ watchdog = "off" => Trains("own") = {}
  /\ watchdog = "off" /\ OwnBegan => now >= OwnDeadline

CohortInv == TypeOK /\ RoundKnown /\ Awaited /\ OneRound /\ Handover /\ Enforced

-----------------------------------------------------------------------------
(* Of the runs and the trainers.                                           *)
LEMMA RunFields ==
  /\ \A s \in Supervisors : RunsOf(s) \subseteq Runs
  /\ \A s \in Supervisors : \A r \in RunsOf(s) : r.cohort = s
BY DEF RunsOf, RoundRuns, Runs, Supervisors

LEMMA TrainerFields ==
  /\ \A s \in Supervisors : \A t \in TrainersOf(s) :
       /\ t.cohort = s /\ t.round \in Rounds(s) /\ t.life \in Lives(s)
       /\ t = [cohort |-> s, round |-> t.round, gpu |-> t.gpu, life |-> t.life]
       /\ RunOf(t) \in RunsOf(s)
  /\ \A t \in Trainers : t.cohort \in Supervisors /\ t \in TrainersOf(t.cohort)
  /\ \A s \in Supervisors : TrainersOf(s) \subseteq Trainers
<1>1. ASSUME NEW s \in Supervisors, NEW t \in TrainersOf(s)
      PROVE  /\ t.cohort = s /\ t.round \in Rounds(s) /\ t.life \in Lives(s)
             /\ t = [cohort |-> s, round |-> t.round, gpu |-> t.gpu, life |-> t.life]
             /\ RunOf(t) \in RunsOf(s)
  <2>1. PICK n \in Rounds(s), l \in Lives(s) : t \in RoundTrainers(s, n, l)
    BY DEF TrainersOf
  <2>2. PICK g \in Gpus : t = [cohort |-> s, round |-> n, gpu |-> g, life |-> l]
    BY <2>1 DEF RoundTrainers
  <2>3. RunOf(t) = [cohort |-> s, round |-> n, gpu |-> g]
    BY <2>2 DEF RunOf
  <2>4. RunOf(t) \in RunsOf(s)
    BY <2>3 DEF RunsOf, RoundRuns
  <2> QED BY <2>2, <2>4
<1>2. \A s \in Supervisors : TrainersOf(s) \subseteq Trainers
  BY DEF Trainers, Supervisors
<1>3. \A t \in Trainers : t.cohort \in Supervisors /\ t \in TrainersOf(t.cohort)
  <2>1. TAKE t \in Trainers
  <2>2. PICK s \in Supervisors : t \in TrainersOf(s)
    BY DEF Trainers, Supervisors
  <2> QED BY <1>1, <2>2
<1> QED BY <1>1, <1>2, <1>3

LEMMA RoundFields ==
  ASSUME TypeOK, NEW s \in Supervisors, sup[s].round \in Rounds(s)
  PROVE  /\ ThisRound(s) \subseteq TrainersOf(s)
         /\ \A t \in ThisRound(s) : t.round = sup[s].round /\ t.life = Life(s)
<1>1. Life(s) \in Lives(s)
  BY DEF TypeOK, Life, Lives
<1>2. PICK n \in Rounds(s), l \in Lives(s) : n = sup[s].round /\ l = Life(s)
  BY <1>1
<1>3. ThisRound(s) = RoundTrainers(s, n, l)
  BY <1>2 DEF ThisRound
<1> QED BY <1>2, <1>3 DEF TrainersOf, RoundTrainers

(* What one step of a script does to the record of its supervisor.         *)
Moves(s, l, n, W) ==
  sup' = [sup EXCEPT ![s] = [pc |-> l, round |-> n, waits |-> W]]

SupTyped ==
  /\ sup \in [Supervisors -> [pc : Labels, round : Nat, waits : SUBSET Trainers]]
  /\ \A s \in Supervisors : /\ sup[s].round \in 1..(LastRound(s) + 1)
                            /\ sup[s].waits \subseteq TrainersOf(s)

LEMMA MovesTyped ==
  ASSUME SupTyped, NEW s \in Supervisors, NEW l \in Labels,
         NEW n \in 1..(LastRound(s) + 1), NEW W \in SUBSET TrainersOf(s),
         Moves(s, l, n, W)
  PROVE  /\ SupTyped'
         /\ sup'[s].pc = l /\ sup'[s].round = n /\ sup'[s].waits = W
         /\ \A t \in Supervisors \ {s} : sup'[t] = sup[t]
<1>1. n \in Nat /\ W \in SUBSET Trainers
  BY CohortAssumption, TrainerFields DEF LastRound
<1>2. /\ sup'[s] = [pc |-> l, round |-> n, waits |-> W]
      /\ \A t \in Supervisors \ {s} : sup'[t] = sup[t]
  BY DEF Moves, SupTyped
<1>3. sup' \in [Supervisors -> [pc : Labels, round : Nat, waits : SUBSET Trainers]]
  BY <1>1 DEF Moves, SupTyped
<1>4. \A t \in Supervisors : /\ sup'[t].round \in 1..(LastRound(t) + 1)
                             /\ sup'[t].waits \subseteq TrainersOf(t)
  <2>1. TAKE t \in Supervisors
  <2>2. CASE t = s
    BY <1>2, <2>2
  <2>3. CASE t # s
    BY <1>2, <2>3 DEF SupTyped
  <2> QED BY <2>2, <2>3
<1> QED BY <1>2, <1>3, <1>4 DEF SupTyped

LEMMA GotoMoves ==
  ASSUME SupTyped, NEW s \in Supervisors, NEW l, Goto(s, l)
  PROVE  Moves(s, l, sup[s].round, sup[s].waits)
<1>1. sup[s] = [pc |-> sup[s].pc, round |-> sup[s].round, waits |-> sup[s].waits]
  BY DEF SupTyped
<1>2. [sup[s] EXCEPT !.pc = l] = [pc |-> l, round |-> sup[s].round, waits |-> sup[s].waits]
  BY <1>1
<1> QED BY <1>2 DEF Goto, Moves

LEMMA AwaitingMoves ==
  ASSUME SupTyped, NEW s \in Supervisors, NEW l, NEW W,
         sup' = [sup EXCEPT ![s].pc = l, ![s].waits = W]
  PROVE  Moves(s, l, sup[s].round, W)
<1> DEFINE g == [sup[s] EXCEPT !.pc = l]
<1>1. sup[s] = [pc |-> sup[s].pc, round |-> sup[s].round, waits |-> sup[s].waits]
  BY DEF SupTyped
<1>2. g = [pc |-> l, round |-> sup[s].round, waits |-> sup[s].waits]
  BY <1>1
<1>3. sup' = [sup EXCEPT ![s] = [g EXCEPT !.waits = W]]
  BY DEF SupTyped
<1> HIDE DEF g
<1>4. [g EXCEPT !.waits = W] = [pc |-> l, round |-> sup[s].round, waits |-> W]
  BY <1>2
<1> QED BY <1>3, <1>4 DEF Moves

-----------------------------------------------------------------------------
(* What starting, stopping, writing and copying do.                        *)
LEMMA StartedEffect ==
  ASSUME TypeOK, NEW S \in SUBSET Trainers, Started(S)
  PROVE  /\ train' \in [Trainers -> Phases] /\ step' \in [Trainers -> 0..LastStep]
         /\ files' = files
         /\ Running' = Running \cup S
<1>1. train' \in [Trainers -> Phases]
  BY DEF TypeOK, Started, Phases
<1>2. step' \in [Trainers -> 0..LastStep]
  <2>1. \A t \in Trainers : files[RunOf(t)].ckpt \in 0..LastStep
    BY TrainerFields, RunFields DEF TypeOK
  <2> QED BY <2>1 DEF TypeOK, Started
<1>3. Running' = Running \cup S
  BY DEF TypeOK, Started, Running
<1> QED BY <1>1, <1>2, <1>3 DEF Started

LEMMA StoppedEffect ==
  ASSUME TypeOK, NEW S, Stopped(S)
  PROVE  /\ train' \in [Trainers -> Phases] /\ step' \in [Trainers -> 0..LastStep]
         /\ Running' = Running \ S
<1>1. train' \in [Trainers -> Phases]
  BY DEF TypeOK, Stopped, Phases
<1>2. step' \in [Trainers -> 0..LastStep]
  BY CohortAssumption DEF TypeOK, Stopped
<1>3. Running' = Running \ S
  BY DEF TypeOK, Stopped, Running
<1> QED BY <1>1, <1>2, <1>3

LEMMA TerminateEffect ==
  ASSUME TypeOK, NEW S, Terminate(S)
  PROVE  /\ train' \in [Trainers -> Phases] /\ step' \in [Trainers -> 0..LastStep]
         /\ Running' \subseteq Running
<1>1. PICK D \in SUBSET (Running \cap S) : Stopped(D)
  BY DEF Terminate
<1> QED BY <1>1, StoppedEffect

LEMMA WriteEffect ==
  ASSUME TypeOK, NEW t \in Trainers, NEW f \in {"log", "ckpt"},
         NEW v \in 0..LastStep, Write(t, f, v)
  PROVE  files' \in [Runs -> [log : 0..LastStep, ckpt : 0..LastStep]]
<1>1. PICK r \in Runs : r = RunOf(t)
  BY TrainerFields, RunFields
<1>2. [files[r] EXCEPT ![f] = v] \in [log : 0..LastStep, ckpt : 0..LastStep]
  BY DEF TypeOK
<1>3. files' = [files EXCEPT ![r] = [files[r] EXCEPT ![f] = v]]
  BY <1>1 DEF Write
<1> QED BY <1>2, <1>3 DEF TypeOK

LEMMA CopyEffect ==
  ASSUME NEW S, NEW ok \in BOOLEAN, CopyOrFail(S, ok)
  PROVE  /\ stale' \subseteq stale
         /\ ok => stale' \cap S = {}
BY DEF CopyOrFail, Copy

LEMMA TrainerStepEffect ==
  ASSUME TypeOK, NEW t \in Trainers, TrainerStep(t)
  PROVE  /\ train' \in [Trainers -> Phases] /\ step' \in [Trainers -> 0..LastStep]
         /\ files' \in [Runs -> [log : 0..LastStep, ckpt : 0..LastStep]]
         /\ stale' = stale \cup {RunOf(t)}
         /\ Running' \subseteq Running
         /\ t \in Running
<1>1. LastStep \in Nat \ {0} /\ step[t] \in 0..LastStep
  BY CohortAssumption DEF TypeOK
<1>0. stale' = stale \cup {RunOf(t)}
  BY DEF TrainerStep, Changes
<1>2. CASE /\ train[t] = "train" /\ step[t] < LastStep
           /\ step' = [step EXCEPT ![t] = @ + 1]
           /\ Write(t, "log", step[t] + 1)
           /\ train' = [train EXCEPT ![t] =
                          IF step[t] + 1 = LastStep THEN "snapshot" ELSE "train"]
  <2>1. step[t] + 1 \in 0..LastStep
    BY <1>1, <1>2
  <2>2. files' \in [Runs -> [log : 0..LastStep, ckpt : 0..LastStep]]
    BY <1>2, <2>1, WriteEffect
  <2>3. train' \in [Trainers -> Phases] /\ step' \in [Trainers -> 0..LastStep]
    BY <1>2, <2>1 DEF TypeOK, Phases
  <2>4. Running' \subseteq Running /\ t \in Running
    BY <1>2 DEF TypeOK, Running
  <2> QED BY <1>0, <2>2, <2>3, <2>4
<1>3. CASE /\ train[t] = "train" /\ step[t] > 0
           /\ Write(t, "ckpt", step[t])
           /\ UNCHANGED <<train, step>>
  <2>1. files' \in [Runs -> [log : 0..LastStep, ckpt : 0..LastStep]]
    BY <1>1, <1>3, WriteEffect
  <2> QED BY <1>0, <1>3, <2>1 DEF TypeOK, Running
<1>4. CASE /\ train[t] \in {"snapshot", "write snapshot"}
           /\ train' = [train EXCEPT ![t] = IF @ = "snapshot" THEN "write snapshot"
                                                            ELSE "train"]
           /\ UNCHANGED <<step, files>>
  <2>1. train' \in [Trainers -> Phases]
    BY <1>4 DEF TypeOK, Phases
  <2>2. Running' \subseteq Running /\ t \in Running
    BY <1>4 DEF TypeOK, Running
  <2> QED BY <1>0, <1>4, <2>1, <2>2 DEF TypeOK
<1>5. CASE /\ train[t] = "train" /\ step[t] = LastStep
           /\ Write(t, "ckpt", LastStep)
           /\ Stopped({t})
  <2>1. files' \in [Runs -> [log : 0..LastStep, ckpt : 0..LastStep]]
    BY <1>1, <1>5, WriteEffect
  <2>2. t \in Running
    BY <1>5 DEF Running
  <2> QED BY <1>0, <1>5, <2>1, <2>2, StoppedEffect
<1> QED BY <1>2, <1>3, <1>4, <1>5 DEF TrainerStep

-----------------------------------------------------------------------------
(* The scripts of the supervisors, as moves.                               *)
LEMMA LaunchMoves ==
  ASSUME TypeOK, NEW s \in Supervisors, LaunchRound(s)
  PROVE  \/ /\ sup[s].round \in Rounds(s) /\ RoundFits(s)
            /\ Moves(s, "wait", sup[s].round, ThisRound(s))
            /\ Started(ThisRound(s)) /\ Intrudes(s)
         \/ /\ sup[s].round \in Rounds(s) /\ UNCHANGED trainers
            /\ \/ s = "lead" /\ Moves(s, "final sync", sup[s].round, sup[s].waits)
               \/ /\ s = "own" /\ ~RoundFits(s)
                  /\ Moves(s, "round", sup[s].round + 1, sup[s].waits)
         \/ /\ UNCHANGED trainers
            /\ Moves(s, "final sync", sup[s].round, sup[s].waits)
<1>0. SupTyped /\ sup[s].pc = "round"
  BY DEF TypeOK, SupTyped, LaunchRound, At
<1>1. sup[s] = [pc |-> "round", round |-> sup[s].round, waits |-> sup[s].waits]
  BY <1>0 DEF SupTyped
<1>2. CASE /\ sup[s].round \in Rounds(s) /\ RoundFits(s)
           /\ sup' = [sup EXCEPT ![s].pc = "wait", ![s].waits = ThisRound(s)]
           /\ Started(ThisRound(s)) /\ Intrudes(s)
  <2>1. Moves(s, "wait", sup[s].round, ThisRound(s))
    BY <1>0, <1>2, AwaitingMoves
  <2> QED BY <1>2, <2>1
<1>3. CASE /\ sup[s].round \in Rounds(s) /\ ~RoundFits(s)
           /\ IF s = "lead" THEN Goto(s, "final sync")
                            ELSE sup' = [sup EXCEPT ![s].round = @ + 1]
           /\ UNCHANGED trainers
  <2>1. CASE s = "lead"
    <3>1. Goto(s, "final sync")
      BY <1>3, <2>1
    <3>2. Moves(s, "final sync", sup[s].round, sup[s].waits)
      BY <1>0, <3>1, GotoMoves
    <3> QED BY <1>3, <2>1, <3>2
  <2>2. CASE s = "own"
    <3>1. Moves(s, "round", sup[s].round + 1, sup[s].waits)
      BY <1>0, <1>1, <1>3, <2>2 DEF SupTyped, Moves
    <3> QED BY <1>3, <2>2, <3>1
  <2> QED BY <2>1, <2>2 DEF Supervisors
<1>4. CASE Goto(s, "final sync") /\ UNCHANGED trainers
  BY <1>0, <1>4, GotoMoves
<1> QED BY <1>2, <1>3, <1>4 DEF LaunchRound

LEMMA WaitMoves ==
  ASSUME TypeOK, NEW s \in Supervisors, Wait(s)
  PROVE  \/ sup[s].pc = "wait" /\ Moves(s, "retry", sup[s].round, {})
         \/ sup[s].pc = "wait retried" /\ Moves(s, "sync", sup[s].round, {})
<1>1. sup[s] = [pc |-> sup[s].pc, round |-> sup[s].round, waits |-> sup[s].waits]
  BY DEF TypeOK
<1> DEFINE l == IF sup[s].pc = "wait" THEN "retry" ELSE "sync"
<1>2. Moves(s, l, sup[s].round, {})
  BY AwaitingMoves DEF Wait, TypeOK, SupTyped
<1>3. CASE sup[s].pc = "wait"
  BY <1>2, <1>3
<1>4. CASE sup[s].pc = "wait retried"
  BY <1>2, <1>4
<1> QED BY <1>3, <1>4 DEF Wait

LEMMA RetryMoves ==
  ASSUME TypeOK, NEW s \in Supervisors, Retry(s)
  PROVE  \E S \in SUBSET ThisRound(s) :
           /\ S = {} => intruded' = intruded
           /\ S # {} => RetryFits(s) /\ Intrudes(s)
           /\ Started(S)
           /\ Moves(s, IF S = {} THEN "sync" ELSE "wait retried",
                    sup[s].round, S)
<1> DEFINE S == IF RetryFits(s) THEN Retried(s) ELSE {}
<1>2. /\ S \in SUBSET ThisRound(s) /\ (S # {} => RetryFits(s)) /\ Started(S)
      /\ S = {} => intruded' = intruded
      /\ S # {} => Intrudes(s)
  BY DEF Retry, Retried
<1>3. sup' = [sup EXCEPT ![s].pc = IF S = {} THEN "sync" ELSE "wait retried",
                         ![s].waits = S]
  BY DEF Retry
<1> HIDE DEF S
<1>4. Moves(s, IF S = {} THEN "sync" ELSE "wait retried", sup[s].round, S)
  BY <1>3, AwaitingMoves DEF TypeOK, SupTyped
<1>5. S \in SUBSET ThisRound(s)
  BY <1>2
<1> QED
  <2> USE <1>5
  <2> WITNESS S \in SUBSET ThisRound(s)
  <2> QED BY <1>2, <1>4

LEMMA SyncMoves ==
  ASSUME TypeOK, NEW s \in Supervisors, Sync(s)
  PROVE  \/ sup[s].pc = "sync" /\ Moves(s, "round", sup[s].round + 1, sup[s].waits)
         \/ sup[s].pc = "final sync" /\ Moves(s, "done", sup[s].round, sup[s].waits)
<1>0. SupTyped
  BY DEF TypeOK, SupTyped
<1>1. sup[s] = [pc |-> sup[s].pc, round |-> sup[s].round, waits |-> sup[s].waits]
  BY DEF TypeOK
<1>2. CASE At(s, "sync") /\ sup' = [sup EXCEPT ![s].pc = "round", ![s].round = @ + 1]
  BY <1>1, <1>2 DEF Moves, TypeOK, At
<1>3. CASE At(s, "final sync") /\ Goto(s, "done")
  BY <1>0, <1>3, GotoMoves DEF At
<1> QED BY <1>2, <1>3 DEF Sync

LEMMA KillMoves ==
  ASSUME TypeOK, NEW s \in Supervisors, KillSupervisor(s)
  PROVE  Moves(s, "killed", sup[s].round, {})
BY AwaitingMoves DEF KillSupervisor, TypeOK, SupTyped

LEMMA AwaitMoves ==
  ASSUME TypeOK, AwaitLead
  PROVE  /\ "own" \in Supervisors
         /\ \/ /\ sup["own"].pc = "wait lead" /\ LeadPidGone
               /\ Moves("own", "wait trainers", sup["own"].round, sup["own"].waits)
               /\ UNCHANGED <<watchdog, syncer>>
            \/ /\ sup["own"].pc \in {"wait lead", "wait trainers"}
               /\ Moves("own", "exited", sup["own"].round, sup["own"].waits)
               /\ UNCHANGED <<watchdog, syncer>>
            \/ /\ sup["own"].pc = "wait trainers" /\ Running = {}
               /\ Moves("own", "round", sup["own"].round, sup["own"].waits)
               /\ watchdog' = "on" /\ syncer' = "on"
<1>1. "own" \in Supervisors /\ SupTyped
  BY DEF Supervisors, TypeOK, SupTyped
<1> QED BY <1>1, GotoMoves DEF AwaitLead, At

LEMMA RestartMoves ==
  ASSUME TypeOK, RestartLead
  PROVE  "lead" \in Supervisors /\ Moves("lead", "round", 1, {})
BY DEF RestartLead, Moves, Supervisors

-----------------------------------------------------------------------------
(* The types are kept.                                                     *)
LEMMA MovesKnown ==
  ASSUME TypeOK, RoundKnown, NEW s \in Supervisors, NEW l \in Labels,
         NEW n \in 1..(LastRound(s) + 1), NEW W \in SUBSET TrainersOf(s),
         Moves(s, l, n, W),
         l \in {"wait", "retry", "wait retried", "sync"} => n \in Rounds(s)
  PROVE  SupTyped' /\ RoundKnown'
<1>1. SupTyped
  BY DEF TypeOK, SupTyped
<1>2. /\ SupTyped' /\ sup'[s].pc = l /\ sup'[s].round = n
      /\ \A t \in Supervisors \ {s} : sup'[t] = sup[t]
  BY <1>1, MovesTyped
<1>3. \A t \in Supervisors :
        sup'[t].pc \in {"wait", "retry", "wait retried", "sync"}
          => sup'[t].round \in Rounds(t)
  <2>1. TAKE t \in Supervisors
  <2>2. CASE t = s
    BY <1>2, <2>2
  <2>3. CASE t # s
    BY <1>2, <2>3 DEF RoundKnown
  <2> QED BY <2>2, <2>3
<1> QED BY <1>2, <1>3 DEF RoundKnown

LEMMA RoundArith ==
  ASSUME NEW s \in Supervisors
  PROVE  /\ LastRound(s) \in Nat
         /\ \A n \in Rounds(s) : n \in 1..(LastRound(s) + 1) /\ n + 1 \in 1..(LastRound(s) + 1)
BY CohortAssumption DEF Rounds, LastRound

LEMMA ScriptKnown ==
  ASSUME TypeOK, RoundKnown,
         \/ AwaitLead \/ RestartLead
         \/ \E s \in Supervisors : Supervise(s) \/ KillSupervisor(s)
  PROVE  SupTyped' /\ RoundKnown'
<1>0. \A s \in Supervisors : /\ sup[s].round \in 1..(LastRound(s) + 1)
                             /\ sup[s].waits \in SUBSET TrainersOf(s)
                             /\ {} \in SUBSET TrainersOf(s)
  BY DEF TypeOK
<1>1. CASE AwaitLead
  <2>1. "own" \in Supervisors
    BY DEF Supervisors
  <2>2. PICK l \in {"wait trainers", "exited", "round"} :
          Moves("own", l, sup["own"].round, sup["own"].waits)
    BY <1>1, AwaitMoves
  <2>3. l \in Labels /\ l \notin {"wait", "retry", "wait retried", "sync"}
    BY DEF Labels
  <2> QED BY <1>0, <2>1, <2>2, <2>3, MovesKnown
<1>2. ASSUME NEW s \in Supervisors, Supervise(s) \/ KillSupervisor(s)
      PROVE  SupTyped' /\ RoundKnown'
  <2>1. CASE LaunchRound(s)
    <3>1. CASE sup[s].round \in Rounds(s) /\ Moves(s, "wait", sup[s].round, ThisRound(s))
      <4>1. ThisRound(s) \in SUBSET TrainersOf(s)
        BY <3>1, RoundFields
      <4>2. "wait" \in Labels
        BY DEF Labels
      <4> QED BY <1>0, <3>1, <4>1, <4>2, MovesKnown
    <3>2. CASE sup[s].round \in Rounds(s) /\ Moves(s, "round", sup[s].round + 1, sup[s].waits)
      <4>1. "round" \in Labels /\ "round" \notin {"wait", "retry", "wait retried", "sync"}
        BY DEF Labels
      <4>2. sup[s].round + 1 \in 1..(LastRound(s) + 1)
        BY <3>2, RoundArith
      <4> QED BY <1>0, <3>2, <4>1, <4>2, MovesKnown
    <3>3. CASE Moves(s, "final sync", sup[s].round, sup[s].waits)
      <4>1. "final sync" \in Labels /\ "final sync" \notin {"wait", "retry", "wait retried", "sync"}
        BY DEF Labels
      <4> QED BY <1>0, <3>3, <4>1, MovesKnown
    <3> QED BY <2>1, <3>1, <3>2, <3>3, LaunchMoves
  <2>2. CASE Wait(s)
    <3>1. PICK l \in {"retry", "sync"} : Moves(s, l, sup[s].round, {})
      BY <2>2, WaitMoves
    <3>2. l \in Labels /\ sup[s].round \in Rounds(s)
      BY <2>2 DEF Labels, Wait, RoundKnown
    <3> QED BY <1>0, <3>1, <3>2, MovesKnown
  <2>3. CASE Retry(s)
    <3>1. sup[s].round \in Rounds(s)
      BY <2>3 DEF Retry, RoundKnown, At
    <3>2. PICK S \in SUBSET ThisRound(s) :
             Moves(s, IF S = {} THEN "sync" ELSE "wait retried", sup[s].round, S)
      BY <2>3, RetryMoves
    <3>3. S \in SUBSET TrainersOf(s)
      BY <3>1, RoundFields
    <3>4. PICK l \in Labels : l = IF S = {} THEN "sync" ELSE "wait retried"
      BY DEF Labels
    <3>5. Moves(s, l, sup[s].round, S)
      BY <3>2, <3>4
    <3> QED BY <1>0, <3>1, <3>3, <3>5, MovesKnown
  <2>4. CASE Sync(s)
    <3>1. CASE sup[s].pc = "sync" /\ Moves(s, "round", sup[s].round + 1, sup[s].waits)
      <4>1. "round" \in Labels /\ "round" \notin {"wait", "retry", "wait retried", "sync"}
        BY DEF Labels
      <4>2. sup[s].round + 1 \in 1..(LastRound(s) + 1)
        BY <3>1, RoundArith DEF RoundKnown
      <4> QED BY <1>0, <3>1, <4>1, <4>2, MovesKnown
    <3>2. CASE Moves(s, "done", sup[s].round, sup[s].waits)
      <4>1. "done" \in Labels /\ "done" \notin {"wait", "retry", "wait retried", "sync"}
        BY DEF Labels
      <4> QED BY <1>0, <3>2, <4>1, MovesKnown
    <3> QED BY <2>4, <3>1, <3>2, SyncMoves
  <2>5. CASE KillSupervisor(s)
    <3>1. "killed" \in Labels /\ "killed" \notin {"wait", "retry", "wait retried", "sync"}
      BY DEF Labels
    <3>2. Moves(s, "killed", sup[s].round, {})
      BY <2>5, KillMoves
    <3> QED BY <1>0, <3>1, <3>2, MovesKnown
  <2> QED BY <1>2, <2>1, <2>2, <2>3, <2>4, <2>5 DEF Supervise
<1>3. CASE RestartLead
  <2>1. PICK s \in Supervisors : s = "lead"
    BY DEF Supervisors
  <2>2. Moves(s, "round", 1, {})
    BY <1>3, <2>1, RestartMoves
  <2>3. "round" \in Labels /\ "round" \notin {"wait", "retry", "wait retried", "sync"}
    BY DEF Labels
  <2>4. 1 \in 1..(LastRound(s) + 1)
    BY RoundArith
  <2> QED BY <1>0, <2>2, <2>3, <2>4, MovesKnown
<1> QED BY <1>1, <1>2, <1>3

(* The variables that are not the supervisors'.                            *)
RestTyped ==
  /\ now \in 0..Deadline
  /\ life \in Lives("lead")
  /\ train \in [Trainers -> Phases]
  /\ step \in [Trainers -> 0..LastStep]
  /\ files \in [Runs -> [log : 0..LastStep, ckpt : 0..LastStep]]
  /\ stale \subseteq Runs
  /\ synced \in [Supervisors \cup {"daemon"} -> BOOLEAN]
  /\ daemon \in {"loop", "stop", "final", "done"}
  /\ watchdog \in {"off", "on", "stop"} /\ syncer \in {"off", "on"}
  /\ intruded \in BOOLEAN /\ kills \in 0..MaxKills

LEMMA TypeParts == TypeOK <=> SupTyped /\ RestTyped
BY DEF TypeOK, SupTyped, RestTyped

LEMMA RestKept ==
  ASSUME TypeOK, RoundKnown, Next
  PROVE  RestTyped'
<1>0. RestTyped
  BY TypeParts
<1>1. CASE Tick
  BY <1>0, <1>1, CohortAssumption DEF Tick, trainers, loops, faults, RestTyped
<1>2. CASE AwaitLead
  BY <1>0, <1>2 DEF AwaitLead, trainers, faults, RestTyped
<1>3. ASSUME NEW s \in Supervisors, LaunchRound(s)
      PROVE  RestTyped'
  <2>1. UNCHANGED <<now, stale, synced, loops, faults>>
    BY <1>3 DEF LaunchRound
  <2>2. CASE UNCHANGED trainers
    BY <1>0, <2>1, <2>2 DEF RestTyped, trainers, loops, faults
  <2>3. CASE sup[s].round \in Rounds(s) /\ Started(ThisRound(s)) /\ Intrudes(s)
    <3>1. ThisRound(s) \in SUBSET Trainers
      BY <2>3, RoundFields, TrainerFields
    <3>2. train' \in [Trainers -> Phases] /\ step' \in [Trainers -> 0..LastStep] /\ files' = files
      BY <2>3, <3>1, StartedEffect
    <3>3. intruded' \in BOOLEAN
      BY <1>0, <2>3 DEF Intrudes, RestTyped
    <3> QED BY <1>0, <2>1, <3>2, <3>3 DEF RestTyped, loops, faults
  <2> QED BY <1>3, <2>2, <2>3, LaunchMoves
<1>4. ASSUME NEW s \in Supervisors, Wait(s)
      PROVE  RestTyped'
  BY <1>0, <1>4 DEF Wait, RestTyped, trainers, loops, faults
<1>5. ASSUME NEW s \in Supervisors, Retry(s)
      PROVE  RestTyped'
  <2>1. PICK S \in SUBSET ThisRound(s) :
          Started(S) /\ (intruded' = intruded \/ Intrudes(s))
    BY <1>5, RetryMoves
  <2>2. S \in SUBSET Trainers
    <3>1. sup[s].round \in Rounds(s)
      BY <1>5 DEF Retry, RoundKnown, At
    <3> QED BY <3>1, RoundFields, TrainerFields
  <2>3. train' \in [Trainers -> Phases] /\ step' \in [Trainers -> 0..LastStep] /\ files' = files
    BY <2>1, <2>2, StartedEffect
  <2>4. UNCHANGED <<now, stale, synced, loops, faults>>
    BY <1>5 DEF Retry
  <2>5. intruded' \in BOOLEAN
    BY <1>0, <2>1 DEF Intrudes, RestTyped
  <2> QED BY <1>0, <2>3, <2>4, <2>5 DEF RestTyped, loops, faults
<1>6. ASSUME NEW s \in Supervisors, Sync(s)
      PROVE  RestTyped'
  <2>1. PICK ok \in BOOLEAN :
          /\ CopyOrFail(RunsOf(s), ok)
          /\ \/ UNCHANGED <<watchdog, syncer, synced>>
             \/ /\ synced' = [synced EXCEPT ![s] = ok]
                /\ IF s = "own" THEN watchdog' = "off" /\ syncer' = "off"
                                ELSE UNCHANGED <<watchdog, syncer>>
    BY <1>6 DEF Sync
  <2>2. stale' \subseteq Runs
    BY <1>0, <2>1, CopyEffect DEF RestTyped
  <2>3. UNCHANGED <<now, trainers, daemon, faults>>
    BY <1>6 DEF Sync
  <2>4. synced' \in [Supervisors \cup {"daemon"} -> BOOLEAN]
    BY <1>0, <2>1 DEF RestTyped
  <2>5. watchdog' \in {"off", "on", "stop"} /\ syncer' \in {"off", "on"}
    BY <1>0, <2>1 DEF RestTyped
  <2> QED BY <1>0, <2>2, <2>3, <2>4, <2>5 DEF RestTyped, trainers, faults
<1>7. ASSUME NEW s \in Supervisors, KillSupervisor(s)
      PROVE  RestTyped'
  BY <1>0, <1>7, CohortAssumption DEF KillSupervisor, RestTyped, trainers, loops
<1>8. ASSUME NEW t \in Trainers, TrainerStep(t)
      PROVE  RestTyped'
  <2>1. UNCHANGED <<now, synced, loops, intruded, faults>>
    BY <1>8 DEF TrainerStep
  <2>2. RunOf(t) \in Runs
    BY TrainerFields, RunFields
  <2> QED BY <1>0, <1>8, <2>1, <2>2, TrainerStepEffect DEF RestTyped, loops, faults
<1>9. ASSUME NEW t \in Trainers, TrainerDies(t)
      PROVE  RestTyped'
  BY <1>0, <1>9, StoppedEffect DEF TrainerDies, RestTyped, loops, faults
<1>10. CASE DaemonPass
  BY <1>0, <1>10 DEF DaemonPass, Copy, RestTyped, trainers, loops, faults
<1>11. CASE DaemonStop
  <2>1. train' \in [Trainers -> Phases] /\ step' \in [Trainers -> 0..LastStep]
    BY <1>11, StoppedEffect, TerminateEffect DEF DaemonStop
  <2> QED BY <1>0, <1>11, <2>1 DEF DaemonStop, RestTyped, faults
<1>12. CASE DaemonFinal
  <2>1. PICK ok \in BOOLEAN : /\ CopyOrFail(RunsOf("lead"), ok)
                              /\ synced' = [synced EXCEPT !["daemon"] = ok]
    BY <1>12 DEF DaemonFinal
  <2>2. stale' \subseteq Runs
    BY <1>0, <2>1, CopyEffect DEF RestTyped
  <2>3. synced' \in [Supervisors \cup {"daemon"} -> BOOLEAN]
    BY <1>0, <2>1 DEF RestTyped
  <2> QED BY <1>0, <1>12, <2>2, <2>3 DEF DaemonFinal, RestTyped, trainers, faults
<1>13. CASE Watchdog
  <2>1. train' \in [Trainers -> Phases] /\ step' \in [Trainers -> 0..LastStep]
    BY <1>13, StoppedEffect, TerminateEffect DEF Watchdog
  <2> QED BY <1>0, <1>13, <2>1 DEF Watchdog, RestTyped, faults
<1>14. CASE SyncerPass
  BY <1>0, <1>14 DEF SyncerPass, Copy, RestTyped, trainers, loops, faults
<1>15. CASE UNCHANGED vars
  BY <1>0, <1>15 DEF vars, RestTyped
<1>16. CASE RestartLead
  <2>1. life' \in Lives("lead")
    <3>1. life \in 1..(MaxRestarts + 1) /\ life <= MaxRestarts /\ life' = life + 1
      BY <1>0, <1>16 DEF RestartLead, RestTyped, Lives
    <3>2. MaxRestarts \in Nat
      BY CohortAssumption
    <3>3. life' \in 1..(MaxRestarts + 1)
      BY <3>1, <3>2
    <3> QED BY <3>3 DEF Lives
  <2> QED BY <1>0, <1>16, <2>1 DEF RestartLead, RestTyped, trainers, loops
<1> QED BY <1>1, <1>2, <1>3, <1>4, <1>5, <1>6, <1>7, <1>8, <1>9, <1>10,
           <1>11, <1>12, <1>13, <1>14, <1>15, <1>16 DEF Next, Supervise

LEMMA TypeStep ==
  ASSUME TypeOK, RoundKnown, [Next]_vars
  PROVE  TypeOK' /\ RoundKnown'
<1>1. CASE Next
  <2>1. RestTyped'
    BY <1>1, RestKept
  <2>2. SupTyped' /\ RoundKnown'
    <3>1. CASE \/ AwaitLead \/ RestartLead
               \/ \E s \in Supervisors : Supervise(s) \/ KillSupervisor(s)
      BY <3>1, ScriptKnown
    <3>2. CASE UNCHANGED sup
      BY <3>2 DEF TypeOK, SupTyped, RoundKnown
    <3>3. \/ AwaitLead \/ RestartLead
          \/ \E s \in Supervisors : Supervise(s) \/ KillSupervisor(s)
          \/ UNCHANGED sup
      BY <1>1 DEF Next, Tick, TrainerStep, TrainerDies, DaemonPass,
         DaemonStop, DaemonFinal, Watchdog, SyncerPass, vars
    <3> QED BY <3>1, <3>2, <3>3
  <2>3. TypeOK'
    BY <2>1, <2>2 DEF TypeOK, SupTyped, RestTyped
  <2> QED BY <2>2, <2>3
<1>2. CASE UNCHANGED vars
  BY <1>2 DEF vars, TypeOK, RoundKnown, SupTyped
<1> QED BY <1>1, <1>2

LEMMA TypeInit == Init => TypeOK /\ RoundKnown
<1> SUFFICES ASSUME Init PROVE TypeOK /\ RoundKnown
  OBVIOUS
<1>1. RestTyped
  <2>1. now \in 0..Deadline /\ kills \in 0..MaxKills /\ life \in Lives("lead")
    <3>1. now = 0 /\ kills = 0 /\ life = 1
      BY DEF Init
    <3>2. Deadline \in Nat /\ MaxRestarts \in Nat /\ MaxKills \in Nat
      BY CohortAssumption
    <3> QED BY <3>1, <3>2 DEF Lives
  <2>2. train \in [Trainers -> Phases] /\ stale \subseteq Runs
    BY DEF Init, Phases
  <2>3. 0 \in 0..LastStep
    BY CohortAssumption
  <2>4. /\ files \in [Runs -> [log : 0..LastStep, ckpt : 0..LastStep]]
        /\ step \in [Trainers -> 0..LastStep]
    BY <2>3 DEF Init
  <2>5. synced \in [Supervisors \cup {"daemon"} -> BOOLEAN]
    BY DEF Init
  <2> QED BY <2>1, <2>2, <2>4, <2>5 DEF Init, RestTyped
<1>2. SupTyped
  <2>1. \A s \in Supervisors : 1 \in 1..(LastRound(s) + 1)
    BY RoundArith
  <2>2. \A s \in Supervisors :
          [pc |-> IF s = "lead" THEN "round" ELSE "wait lead",
           round |-> 1, waits |-> {}] \in [pc : Labels, round : Nat, waits : SUBSET Trainers]
    BY DEF Labels
  <2>3. sup \in [Supervisors -> [pc : Labels, round : Nat, waits : SUBSET Trainers]]
    BY <2>2 DEF Init
  <2>4. \A s \in Supervisors : sup[s].round = 1 /\ sup[s].waits = {}
    BY DEF Init
  <2> QED BY <2>1, <2>3, <2>4 DEF SupTyped
<1>3. RoundKnown
  BY DEF Init, RoundKnown
<1> QED BY <1>1, <1>2, <1>3, TypeParts

(* Every variable holds a value of its kind, for every set of GPUs and     *)
(* every number of rounds, deadline and bound.                             *)
THEOREM TypeCorrect == Spec => []TypeOK
<1>1. Init => TypeOK /\ RoundKnown
  BY TypeInit
<1>2. TypeOK /\ RoundKnown /\ [Next]_vars => (TypeOK /\ RoundKnown)'
  BY TypeStep
<1> QED BY <1>1, <1>2, PTL DEF Spec

-----------------------------------------------------------------------------
(* Who trains, kept by the steps of a script and by all others.            *)
LEMMA Apart ==
  ASSUME NEW s \in Supervisors, NEW t \in Supervisors, s # t
  PROVE  TrainersOf(s) \cap TrainersOf(t) = {}
BY TrainerFields

(* The chained supervisor has one life.                                    *)
LEMMA OwnChildren == Trains("own") = Children("own")
<1>1. PICK s \in Supervisors : s = "own"
  BY DEF Supervisors
<1>2. \A t \in Trains(s) : t.life \in Lives(s)
  BY TrainerFields DEF Trains
<1>3. \A t \in Trains(s) : t.life = Life(s)
  BY <1>1, <1>2 DEF Lives, Life
<1> QED BY <1>1, <1>3 DEF Children

(* A script's move that starts the trainers S, to where these may train.   *)
Starts(s, l, n, W, S) ==
  /\ Moves(s, l, n, W) /\ life' = life
  /\ Running' = Running \cup S
  /\ l \notin {"wait", "wait retried", "killed"} => Children(s) \cup S = {}
  /\ l # "killed" => Children(s) \cup S \subseteq W
  /\ \A t \in Children(s) \cup S : t.round = n
  /\ \A t \in S : t.life = Life(s)

LEMMA ScriptStep ==
  ASSUME TypeOK, Awaited, OneRound,
         NEW s \in Supervisors, NEW l \in Labels,
         NEW n \in 1..(LastRound(s) + 1), NEW W \in SUBSET TrainersOf(s),
         NEW S \in SUBSET TrainersOf(s), Starts(s, l, n, W, S)
  PROVE  /\ Awaited' /\ OneRound'
         /\ Trains(s)' = Trains(s) \cup S
         /\ Children(s)' = Children(s) \cup S
         /\ \A x \in Supervisors \ {s} : Trains(x)' = Trains(x) /\ sup'[x] = sup[x]
         /\ sup'[s].pc = l /\ sup'[s].round = n
<1>0. /\ sup'[s].pc = l /\ sup'[s].round = n /\ sup'[s].waits = W
      /\ \A x \in Supervisors \ {s} : sup'[x] = sup[x]
  BY MovesTyped DEF TypeOK, SupTyped, Starts
<1>1. Trains(s)' = Trains(s) \cup S
  BY DEF Trains, Starts
<1>2. \A x \in Supervisors \ {s} : Trains(x)' = Trains(x)
  BY Apart DEF Trains, Starts
<1>3. \A x \in Supervisors : Life(x)' = Life(x)
  BY DEF Life, Starts
<1>4. Children(s)' = Children(s) \cup S
  <2>1. \A t \in S : t.life = Life(s)
    BY DEF Starts
  <2> QED BY <1>1, <1>3, <2>1 DEF Children
<1>5. \A x \in Supervisors \ {s} : Children(x)' = Children(x)
  BY <1>2, <1>3 DEF Children
<1>6. Awaited'
  <2>1. ASSUME NEW x \in Supervisors
        PROVE  /\ sup'[x].pc \notin {"wait", "wait retried", "killed"} => Children(x)' = {}
               /\ sup'[x].pc # "killed" => Children(x)' \subseteq sup'[x].waits
    <3>1. CASE x = s
      BY <1>0, <1>4, <3>1 DEF Starts
    <3>2. CASE x # s
      <4>1. sup'[x] = sup[x] /\ Children(x)' = Children(x)
        BY <1>0, <1>5, <3>2
      <4> QED BY <4>1 DEF Awaited
    <3> QED BY <3>1, <3>2
  <2> QED BY <2>1 DEF Awaited
<1>7. OneRound'
  <2>1. ASSUME NEW x \in Supervisors, NEW t \in Children(x)'
        PROVE  t.round = sup'[x].round
    <3>1. CASE x = s
      BY <1>0, <1>4, <2>1, <3>1 DEF Starts
    <3>2. CASE x # s
      BY <1>0, <1>5, <2>1, <3>2 DEF OneRound
    <3> QED BY <3>1, <3>2
  <2>2. ASSUME NEW q \in Running', NEW t \in Running',
               q.cohort = t.cohort, q.life = t.life
        PROVE  q.round = t.round
    <3>1. /\ q \in Trainers /\ t \in Trainers
          /\ Running' = Running \cup S
      BY <2>2 DEF Running, Starts
    <3>2. PICK x \in Supervisors : x = q.cohort /\ q \in TrainersOf(x)
                                    /\ t \in TrainersOf(x)
      BY <2>2, <3>1, TrainerFields
    <3>3. q \in Trains(x)' /\ t \in Trains(x)'
      BY <2>2, <3>2 DEF Trains
    <3>4. CASE q.life = Life(x)
      <4>1. q \in Children(x)' /\ t \in Children(x)'
        BY <1>3, <2>2, <3>2, <3>3, <3>4 DEF Children
      <4> QED BY <2>1, <3>2, <4>1
    <3>5. CASE q.life # Life(x)
      <4>1. q \notin S /\ t \notin S
        <5>1. \A y \in S : y.life = Life(s) /\ y.cohort = s
          BY TrainerFields DEF Starts
        <5> QED BY <2>2, <3>2, <3>5, <5>1
      <4> QED BY <2>2, <3>1, <4>1 DEF OneRound
    <3> QED BY <3>4, <3>5
  <2>3. ASSUME NEW x \in Supervisors, NEW t \in Trains(x)'
        PROVE  t.life <= Life(x)'
    <3>1. Life(s) \in Int
      BY DEF Life, TypeOK, Lives
    <3>2. CASE x = s
      <4>1. CASE t \in S
        <5>1. t.life = Life(s) /\ Life(x)' = Life(s)
          BY <1>3, <3>2, <4>1 DEF Starts
        <5>2. PICK i \in Int : i = Life(s)
          BY <3>1
        <5> QED BY <5>1, <5>2
      <4>2. CASE t \notin S
        BY <1>1, <1>3, <2>3, <3>2, <4>2 DEF OneRound
      <4> QED BY <4>1, <4>2
    <3>3. CASE x # s
      BY <1>2, <1>3, <2>3, <3>3 DEF OneRound
    <3> QED BY <3>2, <3>3
  <2> QED BY <2>1, <2>2, <2>3 DEF OneRound
<1> QED BY <1>0, <1>1, <1>2, <1>4, <1>6, <1>7

LEMMA OtherStep ==
  ASSUME Awaited, OneRound, Handover, sup' = sup, life' = life,
         intruded' = intruded, watchdog' # "off" => watchdog # "off",
         Running' \subseteq Running
  PROVE  Awaited' /\ OneRound' /\ Handover'
<1>1. \A s \in Supervisors : Trains(s)' \subseteq Trains(s) /\ Life(s)' = Life(s)
  BY DEF Trains, Life
<1>2. \A s \in Supervisors : Children(s)' \subseteq Children(s)
  BY <1>1 DEF Children
<1>3. Awaited'
  BY <1>2 DEF Awaited
<1>4. OneRound'
  BY <1>1, <1>2 DEF OneRound
<1>5. Handover'
  BY <1>1 DEF Handover, LeadPidGone, At, Supervisors
<1> QED BY <1>3, <1>4, <1>5

(* A step of the lead's script: while it is there the chained supervisor   *)
(* waits, unless it was restarted.                                         *)
LEMMA LeadStep ==
  ASSUME Handover, intruded \in BOOLEAN, NEW l,
         sup["lead"].pc \notin {"done", "killed"},
         l \notin {"wait lead", "wait trainers", "exited"},
         sup'["lead"].pc = l, sup'["own"] = sup["own"],
         life' = life, watchdog' = watchdog,
         \/ Trains("lead")' = Trains("lead") /\ intruded' = intruded
         \/ Intrudes("lead")
  PROVE  Handover'
<1>1. LeadPidGone => life > 1 /\ LeadPidGone'
  BY DEF LeadPidGone, At
<1>2. watchdog # "off" => life > 1
  BY <1>1 DEF Handover
<1>3. intruded' => life > 1
  BY <1>2 DEF Handover, Intrudes
<1>4. watchdog # "off" => intruded' \/ Trains("lead")' = {}
  BY DEF Handover, Intrudes
<1> QED BY <1>1, <1>3, <1>4 DEF Handover

(* A step of the chained supervisor's.                                     *)
LEMMA OwnStep ==
  ASSUME Handover, NEW l,
         sup'["own"].pc = l, sup'["lead"] = sup["lead"],
         life' = life, intruded' = intruded,
         Trains("lead")' = Trains("lead"),
         l = "wait trainers" => LeadPidGone,
         watchdog' # "off" => \/ watchdog # "off"
                              \/ LeadPidGone /\ Trains("lead") = {}
  PROVE  Handover'
<1>1. LeadPidGone' <=> LeadPidGone
  BY DEF LeadPidGone, At
<1> QED BY <1>1 DEF Handover

(* No supervisor comes to a first round.                                   *)
NoFirstRound ==
  /\ sup'["lead"].pc = "round" /\ sup'["lead"].round = 1 =>
       sup["lead"].pc = "round" /\ sup["lead"].round = 1
  /\ OwnBegan' => OwnBegan

(* The deadlines, when nothing is started, and when it is in time.         *)
LEMMA EnforcedKept ==
  ASSUME Enforced, Running' \subseteq Running, now' = now,
         daemon' = daemon, watchdog' = watchdog,
         NoFirstRound
  PROVE  Enforced'
<1>1. Trains("own")' \subseteq Trains("own")
  BY DEF Trains
<1> QED BY <1>1 DEF Enforced, At, NoFirstRound

OwnInTime ==
  \/ Trains("own")' \subseteq Trains("own")
  \/ OwnBegan /\ now < OwnDeadline

LEMMA EnforcedStarted ==
  ASSUME TypeOK, Enforced, now < Deadline, now' = now,
         daemon' = daemon, watchdog' = watchdog,
         NoFirstRound,
         OwnInTime
  PROVE  Enforced'
<1>1. now \in Int /\ Deadline \in Int /\ OwnDeadline \in Int
  BY CohortAssumption DEF TypeOK
<1>2. daemon = "loop"
  BY <1>1 DEF Enforced
<1>3. watchdog = "off" => Trains("own")' = {}
  BY <1>1 DEF Enforced, OwnInTime
<1> QED BY <1>1, <1>2, <1>3 DEF Enforced, At, NoFirstRound

-----------------------------------------------------------------------------
(* Every step of a script keeps the invariant.                             *)
Supervised == Awaited /\ OneRound /\ Handover /\ Enforced

LEMMA LaunchKept ==
  ASSUME CohortInv, NEW s \in Supervisors, LaunchRound(s)
  PROVE  Supervised'
<1>0. /\ TypeOK /\ RoundKnown /\ Awaited /\ OneRound /\ Handover /\ Enforced
      /\ sup[s].pc = "round" /\ Children(s) = {}
      /\ sup[s].round \in 1..(LastRound(s) + 1) /\ sup[s].waits \in SUBSET TrainersOf(s)
      /\ {} \in SUBSET TrainersOf(s) /\ intruded \in BOOLEAN
  BY DEF CohortInv, LaunchRound, At, Awaited, TypeOK
<1>1. now' = now /\ daemon' = daemon /\ watchdog' = watchdog /\ life' = life
  BY DEF LaunchRound, loops, faults
<1>2. now \in Int /\ Deadline \in Int /\ OwnDeadline \in Int /\ LeadNeeded \in Nat \ {0}
      /\ OwnNeeded \in Nat \ {0} /\ OwnDeadline < Deadline /\ OwnDeadline \in Nat
  BY <1>0, CohortAssumption DEF TypeOK
<1>3. s = "own" => OwnBegan
  BY <1>0 DEF OwnBegan
<1>4. s = "lead" \/ s = "own"
  BY DEF Supervisors
<1>5. CASE /\ sup[s].round \in Rounds(s) /\ RoundFits(s)
           /\ Moves(s, "wait", sup[s].round, ThisRound(s))
           /\ Started(ThisRound(s)) /\ Intrudes(s)
  <2> DEFINE S == ThisRound(s)
  <2>1. S \in SUBSET TrainersOf(s) /\ \A t \in S : t.round = sup[s].round /\ t.life = Life(s)
    BY <1>0, <1>5, RoundFields
  <2>2. Running' = Running \cup S
    BY <1>0, <1>5, <2>1, StartedEffect, TrainerFields
  <2>3. "wait" \in Labels /\ (Children(s) \cup S) \subseteq S
        /\ \A t \in Children(s) \cup S : t.round = sup[s].round
    BY <1>0, <2>1 DEF Labels
  <2>4. Starts(s, "wait", sup[s].round, S, S)
    BY <1>1, <1>5, <2>1, <2>2, <2>3 DEF Starts
  <2> HIDE DEF S
  <2>5. /\ Awaited' /\ OneRound' /\ Trains(s)' = Trains(s) \cup S
        /\ \A x \in Supervisors \ {s} : Trains(x)' = Trains(x) /\ sup'[x] = sup[x]
        /\ sup'[s].pc = "wait" /\ sup'[s].round = sup[s].round
    BY <1>0, <2>1, <2>3, <2>4, ScriptStep
  <2>6. CASE s = "lead"
    <3>1. "own" \in Supervisors \ {s}
      BY <2>6 DEF Supervisors
    <3>2. Handover'
      BY <1>0, <1>1, <1>5, <2>5, <2>6, <3>1, LeadStep
    <3>3. now < Deadline
      BY <1>0, <1>2, <1>5, <2>6 DEF RoundFits, Enforced, At
    <3>4. Enforced'
      <4>1. NoFirstRound
        BY <2>5, <2>6, <3>1 DEF NoFirstRound, OwnBegan
      <4>2. OwnInTime
        BY <2>5, <3>1 DEF OwnInTime
      <4> QED BY <1>0, <1>1, <3>3, <4>1, <4>2, EnforcedStarted
    <3> QED BY <2>5, <3>2, <3>4 DEF Supervised
  <2>7. CASE s = "own"
    <3>1. "lead" \in Supervisors \ {s}
      BY <2>7 DEF Supervisors
    <3>2. intruded' = intruded
      BY <1>0, <1>5, <2>7 DEF Intrudes
    <3>5. Handover'
      BY <1>0, <1>1, <1>3, <2>5, <2>7, <3>1, <3>2, OwnStep
    <3>3. now < OwnDeadline /\ now < Deadline
      BY <1>2, <1>5, <2>7 DEF RoundFits
    <3>4. Enforced'
      BY <1>0, <1>1, <1>3, <2>5, <2>7, <3>1, <3>3, EnforcedStarted DEF NoFirstRound, OwnInTime
    <3> QED BY <2>5, <3>5, <3>4 DEF Supervised
  <2> QED BY <1>4, <2>6, <2>7
<1>6. ASSUME NEW l \in {"final sync", "round"}, UNCHANGED trainers,
             NEW n \in 1..(LastRound(s) + 1),
             Moves(s, l, n, sup[s].waits),
             l = "round" => s = "own"
      PROVE  Supervised'
  <2>1. Running' = Running \cup {} /\ Running' \subseteq Running
    BY <1>6 DEF Running, trainers
  <2>2. /\ l \in Labels /\ Children(s) \cup {} = {} /\ intruded' = intruded
    BY <1>0, <1>6 DEF Labels, trainers
  <2>0. PICK W \in SUBSET TrainersOf(s) : W = sup[s].waits
    BY <1>0
  <2>3. Starts(s, l, n, W, {})
    BY <1>1, <1>6, <2>0, <2>1, <2>2 DEF Starts
  <2>5. /\ Awaited' /\ OneRound' /\ Trains(s)' = Trains(s) \cup {}
        /\ \A x \in Supervisors \ {s} : Trains(x)' = Trains(x) /\ sup'[x] = sup[x]
        /\ sup'[s].pc = l
    BY <1>0, <1>6, <2>2, <2>3, ScriptStep
  <2>6. CASE s = "lead"
    <3>1. "own" \in Supervisors \ {s}
      BY <2>6 DEF Supervisors
    <3>2. Handover'
      BY <1>0, <1>1, <1>6, <2>2, <2>5, <2>6, <3>1, LeadStep
    <3>4. Enforced'
      BY <1>0, <1>1, <1>6, <2>1, <2>5, <2>6, <3>1, EnforcedKept DEF NoFirstRound, OwnBegan
    <3> QED BY <2>5, <3>2, <3>4 DEF Supervised
  <2>7. CASE s = "own"
    <3>1. "lead" \in Supervisors \ {s}
      BY <2>7 DEF Supervisors
    <3>2. Handover'
      BY <1>0, <1>1, <1>3, <1>6, <2>2, <2>5, <2>7, <3>1, OwnStep
    <3>4. Enforced'
      BY <1>0, <1>1, <1>3, <2>1, <2>5, <2>7, <3>1, EnforcedKept DEF NoFirstRound
    <3> QED BY <2>5, <3>2, <3>4 DEF Supervised
  <2> QED BY <1>4, <2>6, <2>7
<1>7. sup[s].round \in Rounds(s) => sup[s].round + 1 \in 1..(LastRound(s) + 1)
  BY RoundArith
<1> QED BY <1>0, <1>5, <1>6, <1>7, LaunchMoves

LEMMA WaitKept ==
  ASSUME CohortInv, NEW s \in Supervisors, Wait(s)
  PROVE  Supervised'
<1>0. /\ TypeOK /\ RoundKnown /\ Awaited /\ OneRound /\ Handover /\ Enforced
      /\ sup[s].pc \in {"wait", "wait retried"} /\ Children(s) = {}
      /\ sup[s].round \in 1..(LastRound(s) + 1)
      /\ {} \in SUBSET TrainersOf(s)
  BY DEF CohortInv, Wait, Awaited, TypeOK, Children, Trains
<1>1. now' = now /\ daemon' = daemon /\ watchdog' = watchdog /\ UNCHANGED trainers
      /\ life' = life /\ intruded' = intruded /\ intruded \in BOOLEAN
  BY <1>0 DEF Wait, loops, faults, trainers, TypeOK
<1>2. PICK l \in {"retry", "sync"} : Moves(s, l, sup[s].round, {})
  BY <1>0, WaitMoves
<1>3. Running' = Running \cup {} /\ Running' \subseteq Running
  BY <1>1 DEF Running, trainers
<1>4. l \in Labels /\ Starts(s, l, sup[s].round, {}, {})
  BY <1>0, <1>1, <1>2, <1>3 DEF Labels, Starts
<1>5. /\ Awaited' /\ OneRound' /\ Trains(s)' = Trains(s) \cup {}
      /\ \A x \in Supervisors \ {s} : Trains(x)' = Trains(x) /\ sup'[x] = sup[x]
      /\ sup'[s].pc = l /\ sup'[s].round = sup[s].round
  BY <1>0, <1>4, ScriptStep
<1>6. CASE s = "lead"
  <2>1. "own" \in Supervisors \ {s}
    BY <1>6 DEF Supervisors
  <2>2. Handover'
    BY <1>0, <1>1, <1>2, <1>5, <1>6, <2>1, LeadStep
  <2>3. Enforced'
    BY <1>0, <1>1, <1>2, <1>3, <1>5, <1>6, <2>1, EnforcedKept DEF NoFirstRound, OwnBegan
  <2> QED BY <1>5, <2>2, <2>3 DEF Supervised
<1>7. CASE s = "own"
  <2>1. "lead" \in Supervisors \ {s} /\ OwnBegan
    BY <1>0, <1>7 DEF Supervisors, OwnBegan
  <2>2. Handover'
    BY <1>0, <1>1, <1>2, <1>5, <1>7, <2>1, OwnStep
  <2>3. Enforced'
    BY <1>0, <1>1, <1>3, <1>5, <1>7, <2>1, EnforcedKept DEF NoFirstRound
  <2> QED BY <1>5, <2>2, <2>3 DEF Supervised
<1> QED BY <1>6, <1>7 DEF Supervisors

LEMMA RetryInTime ==
  ASSUME TypeOK, NEW s \in Supervisors, RetryFits(s)
  PROVE  now < Deadline /\ (s = "own" => now < OwnDeadline)
<1>1. /\ now \in Int /\ Deadline \in Int /\ OwnDeadline \in Int
      /\ OwnNeeded \in Int /\ OwnNeeded > 0 /\ OwnDeadline < Deadline
  BY CohortAssumption DEF TypeOK
<1>2. CASE s = "lead"
  BY <1>2 DEF RetryFits
<1>3. CASE s = "own"
  BY <1>1, <1>3 DEF RetryFits
<1> QED BY <1>2, <1>3 DEF Supervisors

LEMMA RetryKept ==
  ASSUME CohortInv, NEW s \in Supervisors, Retry(s)
  PROVE  Supervised'
<1>0. /\ TypeOK /\ RoundKnown /\ Awaited /\ OneRound /\ Handover /\ Enforced
      /\ sup[s].pc = "retry" /\ Children(s) = {}
      /\ sup[s].round \in 1..(LastRound(s) + 1) /\ sup[s].round \in Rounds(s)
  BY DEF CohortInv, Retry, At, Awaited, TypeOK, RoundKnown
<1>1. now' = now /\ daemon' = daemon /\ watchdog' = watchdog /\ life' = life
      /\ intruded \in BOOLEAN
  BY <1>0 DEF Retry, loops, faults, TypeOK
<1>3. PICK S \in SUBSET ThisRound(s) :
        /\ S = {} => intruded' = intruded
        /\ S # {} => RetryFits(s) /\ Intrudes(s)
        /\ Started(S)
        /\ Moves(s, IF S = {} THEN "sync" ELSE "wait retried", sup[s].round, S)
  BY <1>0, RetryMoves
<1>4. PICK l \in {"sync", "wait retried"} :
        l = IF S = {} THEN "sync" ELSE "wait retried"
  OBVIOUS
<1>5. S \in SUBSET TrainersOf(s) /\ \A t \in S : t.round = sup[s].round /\ t.life = Life(s)
  BY <1>0, RoundFields
<1>6. Running' = Running \cup S
  BY <1>0, <1>3, <1>5, StartedEffect, TrainerFields
<1>7. l \in Labels /\ Starts(s, l, sup[s].round, S, S)
  BY <1>0, <1>1, <1>3, <1>4, <1>5, <1>6 DEF Starts, Labels
<1>8. /\ Awaited' /\ OneRound' /\ Trains(s)' = Trains(s) \cup S
      /\ \A x \in Supervisors \ {s} : Trains(x)' = Trains(x) /\ sup'[x] = sup[x]
      /\ sup'[s].pc = l /\ sup'[s].round = sup[s].round
  BY <1>0, <1>5, <1>7, ScriptStep
<1>9. CASE s = "lead"
  <2>1. "own" \in Supervisors \ {s}
    BY <1>9 DEF Supervisors
  <2>5. \/ Trains("lead")' = Trains("lead") /\ intruded' = intruded
        \/ Intrudes("lead")
    BY <1>3, <1>8, <1>9
  <2>2. Handover'
    BY <1>0, <1>1, <1>8, <1>9, <2>1, <2>5, LeadStep
  <2>3. NoFirstRound /\ OwnInTime
    BY <1>8, <1>9, <2>1 DEF NoFirstRound, OwnBegan, OwnInTime
  <2>4. Enforced'
    <3>1. CASE S = {}
      <4>1. Running' \subseteq Running
        BY <1>6, <3>1
      <4> QED BY <1>0, <1>1, <2>3, <4>1, EnforcedKept
    <3>2. CASE S # {}
      <4>1. now < Deadline
        BY <1>0, <1>3, <3>2, RetryInTime
      <4> QED BY <1>0, <1>1, <2>3, <4>1, EnforcedStarted
    <3> QED BY <3>1, <3>2
  <2> QED BY <1>8, <2>2, <2>4 DEF Supervised
<1>10. CASE s = "own"
  <2>1. "lead" \in Supervisors \ {s} /\ OwnBegan
    BY <1>0, <1>10 DEF Supervisors, OwnBegan
  <2>5. intruded' = intruded
    BY <1>1, <1>3, <1>10 DEF Intrudes
  <2>2. Handover'
    BY <1>0, <1>1, <1>8, <1>10, <2>1, <2>5, OwnStep
  <2>3. NoFirstRound
    BY <1>8, <1>10, <2>1 DEF NoFirstRound
  <2>4. Enforced'
    <3>1. CASE S = {}
      <4>1. Running' \subseteq Running
        BY <1>6, <3>1
      <4> QED BY <1>0, <1>1, <2>3, <4>1, EnforcedKept
    <3>2. CASE S # {}
      <4>1. now < OwnDeadline /\ now < Deadline
        <5>1. RetryFits(s)
          BY <1>3, <3>2
        <5> QED BY <1>0, <1>10, <5>1, RetryInTime
      <4>2. OwnInTime
        BY <2>1, <4>1 DEF OwnInTime
      <4> QED BY <1>0, <1>1, <2>3, <4>1, <4>2, EnforcedStarted
    <3> QED BY <3>1, <3>2
  <2> QED BY <1>8, <2>2, <2>4 DEF Supervised
<1> QED BY <1>9, <1>10 DEF Supervisors

LEMMA SyncKept ==
  ASSUME CohortInv, NEW s \in Supervisors, Sync(s)
  PROVE  Supervised'
<1>0. /\ TypeOK /\ RoundKnown /\ Awaited /\ OneRound /\ Handover /\ Enforced
      /\ sup[s].pc \in {"sync", "final sync"} /\ Children(s) = {}
      /\ sup[s].round \in 1..(LastRound(s) + 1)
      /\ sup[s].pc = "sync" => sup[s].round \in Rounds(s)
      /\ {} \in SUBSET TrainersOf(s)
  BY DEF CohortInv, Sync, At, Awaited, TypeOK, RoundKnown
<1>1. now' = now /\ daemon' = daemon /\ UNCHANGED trainers
      /\ life' = life /\ intruded' = intruded /\ intruded \in BOOLEAN
  BY <1>0 DEF Sync, trainers, faults, TypeOK
<1>2. PICK W \in SUBSET TrainersOf(s) : W = sup[s].waits
  BY <1>0 DEF TypeOK
<1>3. PICK l \in {"round", "done"}, n \in 1..(LastRound(s) + 1) :
        /\ Moves(s, l, n, W)
        /\ l = "round" => n # 1 /\ sup[s].pc = "sync"
        /\ l = "done" => sup[s].pc = "final sync"
  <2>1. CASE sup[s].pc = "sync" /\ Moves(s, "round", sup[s].round + 1, sup[s].waits)
    <3>1. sup[s].round + 1 \in 1..(LastRound(s) + 1) /\ sup[s].round + 1 # 1
      BY <1>0, <2>1, RoundArith DEF Rounds
    <3> QED BY <1>2, <2>1, <3>1
  <2>2. CASE sup[s].pc = "final sync" /\ Moves(s, "done", sup[s].round, sup[s].waits)
    BY <1>0, <1>2, <2>2
  <2> QED BY <1>0, <2>1, <2>2, SyncMoves
<1>4. Running' = Running \cup {} /\ Running' \subseteq Running
  BY <1>1 DEF Running, trainers
<1>5. l \in Labels /\ Starts(s, l, n, W, {})
  BY <1>0, <1>1, <1>3, <1>4 DEF Labels, Starts
<1>6. /\ Awaited' /\ OneRound' /\ Trains(s)' = Trains(s) \cup {}
      /\ \A x \in Supervisors \ {s} : Trains(x)' = Trains(x) /\ sup'[x] = sup[x]
      /\ sup'[s].pc = l /\ sup'[s].round = n
  BY <1>0, <1>5, ScriptStep
<1>7. CASE s = "lead"
  <2>1. "own" \in Supervisors \ {s}
    BY <1>7 DEF Supervisors
  <2>4. watchdog' = watchdog
    BY <1>7 DEF Sync
  <2>2. Handover'
    BY <1>0, <1>1, <1>3, <1>6, <1>7, <2>1, <2>4, LeadStep
  <2>3. NoFirstRound
    BY <1>3, <1>6, <1>7, <2>1 DEF NoFirstRound, OwnBegan
  <2>5. Enforced'
    BY <1>0, <1>1, <1>4, <2>3, <2>4, EnforcedKept
  <2> QED BY <1>6, <2>2, <2>5 DEF Supervised
<1>8. CASE s = "own"
  <2>1. "lead" \in Supervisors \ {s} /\ OwnBegan
    BY <1>0, <1>8 DEF Supervisors, OwnBegan
  <2>6. watchdog' # "off" => watchdog # "off"
    BY <1>8 DEF Sync
  <2>2. Handover'
    BY <1>0, <1>1, <1>3, <1>6, <1>8, <2>1, <2>6, OwnStep
  <2>3. NoFirstRound
    BY <1>3, <1>6, <1>8, <2>1 DEF NoFirstRound
  <2>4. CASE watchdog' = watchdog
    <3>1. Enforced'
      BY <1>0, <1>1, <1>4, <2>3, <2>4, EnforcedKept
    <3> QED BY <1>6, <2>2, <3>1 DEF Supervised
  <2>5. CASE watchdog' = "off" /\ sup[s].pc = "final sync"
    <3>1. ~OwnBegan'
      BY <1>3, <1>6, <1>8, <2>5 DEF OwnBegan
    <3>2. Trains("own")' = {}
      BY <1>0, <1>6, <1>8, OwnChildren
    <3>3. Enforced'
      BY <1>0, <1>1, <1>4, <2>3, <2>5, <3>1, <3>2 DEF Enforced, NoFirstRound, At
    <3> QED BY <1>6, <2>2, <3>3 DEF Supervised
  <2> QED BY <1>0, <2>4, <2>5 DEF Sync, At
<1> QED BY <1>7, <1>8 DEF Supervisors

LEMMA KillKept ==
  ASSUME CohortInv, NEW s \in Supervisors, KillSupervisor(s)
  PROVE  Supervised'
<1>0. /\ TypeOK /\ RoundKnown /\ Awaited /\ OneRound /\ Handover /\ Enforced
      /\ sup[s].pc \notin {"done", "exited", "killed"}
      /\ sup[s].round \in 1..(LastRound(s) + 1)
      /\ {} \in SUBSET TrainersOf(s)
  BY DEF CohortInv, KillSupervisor, TypeOK
<1>1. now' = now /\ daemon' = daemon /\ watchdog' = watchdog /\ UNCHANGED trainers
      /\ life' = life /\ intruded' = intruded /\ intruded \in BOOLEAN
  BY <1>0 DEF KillSupervisor, loops, trainers, TypeOK
<1>2. Moves(s, "killed", sup[s].round, {})
  BY <1>0, KillMoves
<1>3. Running' = Running \cup {} /\ Running' \subseteq Running
  BY <1>1 DEF Running, trainers
<1>4. \A t \in Children(s) : t.round = sup[s].round
  BY <1>0 DEF OneRound
<1>5. "killed" \in Labels /\ Starts(s, "killed", sup[s].round, {}, {})
  BY <1>1, <1>2, <1>3, <1>4 DEF Labels, Starts
<1>6. /\ Awaited' /\ OneRound' /\ Trains(s)' = Trains(s) \cup {}
      /\ \A x \in Supervisors \ {s} : Trains(x)' = Trains(x) /\ sup'[x] = sup[x]
      /\ sup'[s].pc = "killed" /\ sup'[s].round = sup[s].round
  BY <1>0, <1>5, ScriptStep
<1>7. Handover'
  <2>1. CASE s = "lead"
    <3>1. "own" \in Supervisors \ {s}
      BY <2>1 DEF Supervisors
    <3> QED BY <1>0, <1>1, <1>6, <2>1, <3>1, LeadStep
  <2>2. CASE s = "own"
    <3>1. "lead" \in Supervisors \ {s}
      BY <2>2 DEF Supervisors
    <3> QED BY <1>0, <1>1, <1>6, <2>2, <3>1, OwnStep
  <2> QED BY <2>1, <2>2 DEF Supervisors
<1>8. NoFirstRound
  BY <1>6 DEF NoFirstRound, OwnBegan, Supervisors
<1>9. Enforced'
  BY <1>0, <1>1, <1>3, <1>8, EnforcedKept
<1> QED BY <1>6, <1>7, <1>9 DEF Supervised

LEMMA AwaitKept ==
  ASSUME CohortInv, AwaitLead
  PROVE  Supervised'
<1>0. /\ TypeOK /\ RoundKnown /\ Awaited /\ OneRound /\ Handover /\ Enforced
      /\ "own" \in Supervisors /\ "lead" \in Supervisors \ {"own"}
      /\ sup["own"].pc \in {"wait lead", "wait trainers"} /\ Children("own") = {}
      /\ sup["own"].round \in 1..(LastRound("own") + 1)
      /\ {} \in SUBSET TrainersOf("own")
  BY DEF CohortInv, AwaitLead, At, Awaited, TypeOK, Supervisors
<1>1. now' = now /\ daemon' = daemon /\ UNCHANGED trainers
      /\ life' = life /\ intruded' = intruded
  BY DEF AwaitLead, trainers, faults
<1>2. PICK W \in SUBSET TrainersOf("own") : W = sup["own"].waits
  BY <1>0 DEF TypeOK
<1>3. PICK l \in {"wait trainers", "exited", "round"} :
        /\ Moves("own", l, sup["own"].round, W)
        /\ l = "wait trainers" => LeadPidGone
        /\ l = "round" => /\ sup["own"].pc = "wait trainers" /\ Running = {}
                          /\ watchdog' = "on"
        /\ l # "round" => watchdog' = watchdog
  BY <1>0, <1>2, AwaitMoves
<1>4. Running' = Running \cup {} /\ Running' \subseteq Running
  BY <1>1 DEF Running, trainers
<1>5. l \in Labels /\ Starts("own", l, sup["own"].round, W, {})
  BY <1>0, <1>1, <1>3, <1>4 DEF Labels, Starts
<1>6. /\ Awaited' /\ OneRound' /\ Trains("own")' = Trains("own")
      /\ \A x \in Supervisors \ {"own"} : Trains(x)' = Trains(x) /\ sup'[x] = sup[x]
      /\ sup'["own"].pc = l
  <2>1. PICK s \in Supervisors : s = "own"
    BY <1>0
  <2>2. /\ Starts(s, l, sup[s].round, W, {}) /\ W \in SUBSET TrainersOf(s)
        /\ sup[s].round \in 1..(LastRound(s) + 1) /\ {} \in SUBSET TrainersOf(s)
    BY <1>0, <1>5, <2>1
  <2>3. TypeOK /\ Awaited /\ OneRound /\ l \in Labels
    BY <1>0, <1>5
  <2>4. /\ Awaited' /\ OneRound' /\ Trains(s)' = Trains(s) \cup {}
        /\ \A x \in Supervisors \ {s} : Trains(x)' = Trains(x) /\ sup'[x] = sup[x]
        /\ sup'[s].pc = l
    BY <2>2, <2>3, ScriptStep
  <2> QED BY <1>0, <2>1, <2>4
<1>7. Handover'
  <2>1. l = "round" => LeadPidGone /\ Trains("lead") = {}
    BY <1>0, <1>3 DEF Handover, Trains
  <2>2. watchdog' # "off" => \/ watchdog # "off"
                             \/ LeadPidGone /\ Trains("lead") = {}
    BY <1>3, <2>1
  <2> QED BY <1>0, <1>1, <1>3, <1>6, <2>2, OwnStep
<1>8. Enforced'
  <2>1. CASE l = "round"
    BY <1>0, <1>1, <1>3, <1>4, <1>6, <2>1 DEF Enforced, At
  <2>2. CASE l # "round"
    <3>1. NoFirstRound
      BY <1>0, <1>3, <1>6, <2>2 DEF NoFirstRound, OwnBegan
    <3> QED BY <1>0, <1>1, <1>3, <1>4, <2>2, <3>1, EnforcedKept
  <2> QED BY <2>1, <2>2
<1> QED BY <1>6, <1>7, <1>8 DEF Supervised

(* A restarted lead has no trainers yet; what runs was left to it.         *)
LEMMA RestartKept ==
  ASSUME CohortInv, RestartLead
  PROVE  Supervised'
<1>0. /\ TypeOK /\ Awaited /\ OneRound /\ Handover /\ Enforced
      /\ "lead" \in Supervisors /\ "own" \in Supervisors
      /\ life \in Int /\ now < Deadline
  BY DEF CohortInv, RestartLead, TypeOK, Supervisors, Lives
<1>1. /\ now' = now /\ daemon' = daemon /\ watchdog' = watchdog
      /\ intruded' = intruded /\ life' = life + 1 /\ train' = train
  BY DEF RestartLead, trainers, loops
<1>2. /\ sup'["lead"] = [pc |-> "round", round |-> 1, waits |-> {}]
      /\ sup'["own"] = sup["own"]
  BY <1>0 DEF RestartLead, TypeOK, Supervisors
<1>3. Running' = Running /\ \A s \in Supervisors : Trains(s)' = Trains(s)
  BY <1>1 DEF Running, Trains
<1>4. Life("lead")' = Life("lead") + 1 /\ Life("own")' = Life("own")
  BY <1>1 DEF Life
<1>5. Children("lead")' = {}
  <2>1. ASSUME NEW t \in Trains("lead"), t.life = life + 1 PROVE FALSE
    <3>1. t.life <= life
      BY <1>0 DEF OneRound, Life
    <3> QED BY <1>0, <2>1, <3>1
  <2> QED BY <1>0, <1>3, <1>4, <2>1 DEF Children, Life
<1>6. Children("own")' = Children("own")
  BY <1>0, <1>3, <1>4 DEF Children
<1>7. Awaited'
  BY <1>0, <1>2, <1>5, <1>6 DEF Awaited, Supervisors
<1>8. OneRound'
  <2>1. \A s \in Supervisors : \A t \in Children(s)' : t.round = sup'[s].round
    BY <1>0, <1>2, <1>5, <1>6 DEF OneRound, Supervisors
  <2>2. \A q, t \in Running' : q.cohort = t.cohort /\ q.life = t.life
                                 => q.round = t.round
    BY <1>0, <1>3 DEF OneRound
  <2>3. \A t \in Trains("lead")' : t.life <= Life("lead")'
    <3>1. TAKE t \in Trains("lead")'
    <3>2. t \in Trains("lead") /\ t.life <= life
      BY <1>0, <1>3, <3>1 DEF OneRound, Life
    <3>3. t.life \in Int
      BY <1>0, <3>2, TrainerFields, CohortAssumption DEF Trains, Lives
    <3>4. Life("lead")' = life + 1
      BY <1>1 DEF Life
    <3> QED BY <1>0, <3>2, <3>3, <3>4
  <2>4. \A t \in Trains("own")' : t.life <= Life("own")'
    BY <1>0, <1>3, <1>4 DEF OneRound
  <2> QED BY <2>1, <2>2, <2>3, <2>4 DEF OneRound, Supervisors
<1>9. life > 0
  BY <1>0 DEF TypeOK, Lives
<1>10. Handover'
  <2>1. life' > 1
    BY <1>0, <1>1, <1>9
  <2>2. LeadPidGone'
    BY <2>1 DEF LeadPidGone
  <2>3. watchdog' # "off" => intruded' \/ Trains("lead")' = {}
    BY <1>0, <1>1, <1>3 DEF Handover
  <2>4. sup'["lead"].pc = "round"
    BY <1>2
  <2> QED BY <2>1, <2>2, <2>3, <2>4 DEF Handover
<1>11. Enforced'
  BY <1>0, <1>1, <1>2, <1>3 DEF Enforced, At, OwnBegan
<1> QED BY <1>7, <1>8, <1>10, <1>11 DEF Supervised

-----------------------------------------------------------------------------
(* And so does every other step, which starts nothing.                     *)
Unsupervised ==
  \/ Tick \/ \E t \in Trainers : TrainerStep(t) \/ TrainerDies(t)
  \/ DaemonPass \/ DaemonStop \/ DaemonFinal \/ Watchdog \/ SyncerPass
  \/ UNCHANGED vars

LEMMA NothingStarted ==
  ASSUME TypeOK, Unsupervised
  PROVE  /\ sup' = sup /\ life' = life /\ intruded' = intruded
         /\ watchdog' # "off" => watchdog # "off"
         /\ Running' \subseteq Running
<1>1. sup' = sup /\ life' = life /\ intruded' = intruded
  BY DEF Unsupervised, Tick, TrainerStep, TrainerDies, DaemonPass, DaemonStop,
     DaemonFinal, Watchdog, SyncerPass, trainers, faults, vars
<1>2. watchdog' # "off" => watchdog # "off"
  BY DEF Unsupervised, Tick, TrainerStep, TrainerDies, DaemonPass, DaemonStop,
     DaemonFinal, Watchdog, SyncerPass, loops, vars
<1>3. ASSUME NEW S, Terminate(S) \/ Stopped(S) PROVE Running' \subseteq Running
  <2>1. CASE Terminate(S)
    BY <2>1, TerminateEffect
  <2>2. CASE Stopped(S)
    BY <2>2, StoppedEffect
  <2> QED BY <1>3, <2>1, <2>2
<1>4. Running' \subseteq Running
  <2>1. CASE Tick \/ DaemonPass \/ DaemonFinal \/ SyncerPass \/ UNCHANGED vars
    <3>1. train' = train
      BY <2>1 DEF Tick, DaemonPass, DaemonFinal, SyncerPass, vars, trainers
    <3> QED BY <3>1 DEF Running
  <2>2. ASSUME NEW t \in Trainers, TrainerStep(t) \/ TrainerDies(t)
        PROVE  Running' \subseteq Running
    <3>1. CASE TrainerStep(t)
      BY <3>1, TrainerStepEffect
    <3>2. CASE TrainerDies(t)
      BY <1>3, <3>2 DEF TrainerDies
    <3> QED BY <2>2, <3>1, <3>2
  <2>3. CASE DaemonStop
    BY <1>3, <2>3 DEF DaemonStop
  <2>4. CASE Watchdog
    BY <1>3, <2>4 DEF Watchdog
  <2> QED BY <2>1, <2>2, <2>3, <2>4 DEF Unsupervised
<1> QED BY <1>1, <1>2, <1>4

LEMMA UnsupervisedKept ==
  ASSUME CohortInv, Unsupervised
  PROVE  Supervised'
<1>0. TypeOK /\ Awaited /\ OneRound /\ Handover /\ Enforced
  BY DEF CohortInv
<1>1. /\ sup' = sup /\ life' = life /\ intruded' = intruded
      /\ watchdog' # "off" => watchdog # "off"
      /\ Running' \subseteq Running
  BY <1>0, NothingStarted
<1>2. Awaited' /\ OneRound' /\ Handover'
  BY <1>0, <1>1, OtherStep
<1>3. Trains("own")' \subseteq Trains("own") /\ (OwnBegan' <=> OwnBegan)
  BY <1>1 DEF Trains, OwnBegan
<1>4. now \in Int /\ Deadline \in Int /\ OwnDeadline \in Int
      /\ OwnDeadline < Deadline /\ now <= Deadline
  BY <1>0, CohortAssumption DEF TypeOK
<1>5. NoFirstRound
  BY <1>1, <1>3 DEF NoFirstRound
<1>6. CASE Tick
  <2>1. /\ now' = now + 1 /\ now < Deadline
        /\ sup["lead"].pc # "round"
        /\ UNCHANGED <<trainers, loops>>
    BY <1>6 DEF Tick, Supervisors
  <2>2. daemon' = daemon /\ watchdog' = watchdog
    BY <2>1 DEF loops
  <2>3. daemon = "loop"
    BY <1>0, <1>4, <2>1 DEF Enforced
  <2>4. Enforced'
    BY <1>0, <1>1, <1>3, <1>4, <2>1, <2>2, <2>3 DEF Enforced, At
  <2> QED BY <1>2, <2>4 DEF Supervised
<1>7. CASE now' = now /\ daemon' = daemon /\ watchdog' = watchdog
  <2>1. Enforced'
    BY <1>0, <1>1, <1>5, <1>7, EnforcedKept
  <2> QED BY <1>2, <2>1 DEF Supervised
<1>8. CASE DaemonStop
  <2>1. now' = now /\ watchdog' = watchdog
    BY <1>8 DEF DaemonStop
  <2>2. CASE now >= Deadline /\ daemon' = "stop"
    <3>1. now = Deadline
      BY <1>4, <2>2
    <3>2. Enforced'
      BY <1>0, <1>1, <1>3, <1>4, <2>1, <2>2, <3>1 DEF Enforced, At
    <3> QED BY <1>2, <3>2 DEF Supervised
  <2>3. CASE daemon = "stop" /\ Stopped(Trainers) /\ daemon' = "final"
    <3>1. Running' = Running \ Trainers
      BY <1>0, <2>3, StoppedEffect
    <3>2. Running' = {}
      BY <3>1 DEF Running
    <3>3. Enforced'
      BY <1>0, <1>1, <1>3, <1>4, <2>1, <2>3, <3>2 DEF Enforced, At
    <3> QED BY <1>2, <3>3 DEF Supervised
  <2> QED BY <1>8, <2>2, <2>3 DEF DaemonStop
<1>9. CASE DaemonFinal
  <2>1. now' = now /\ watchdog' = watchdog /\ daemon = "final" /\ daemon' = "done"
    BY <1>9 DEF DaemonFinal
  <2>2. Enforced'
    BY <1>0, <1>1, <1>3, <2>1 DEF Enforced, At
  <2> QED BY <1>2, <2>2 DEF Supervised
<1>10. CASE Watchdog
  <2>1. now' = now /\ daemon' = daemon
    BY <1>10 DEF Watchdog
  <2>2. CASE now >= OwnDeadline /\ watchdog' = "stop"
    <3>1. watchdog # "off"
      BY <1>1, <2>2
    <3>2. Enforced'
      BY <1>0, <1>1, <1>3, <2>1, <2>2 DEF Enforced, At
    <3> QED BY <1>2, <3>2 DEF Supervised
  <2>3. CASE watchdog = "stop" /\ Stopped(TrainersOf("own")) /\ watchdog' = "off"
    <3>1. Running' = Running \ TrainersOf("own")
      BY <1>0, <2>3, StoppedEffect
    <3>2. Trains("own")' = {}
      BY <3>1 DEF Trains
    <3>3. Enforced'
      BY <1>0, <1>1, <1>3, <2>1, <2>3, <3>2 DEF Enforced, At
    <3> QED BY <1>2, <3>3 DEF Supervised
  <2> QED BY <1>10, <2>2, <2>3 DEF Watchdog
<1>11. \/ Tick \/ DaemonStop \/ DaemonFinal \/ Watchdog
       \/ now' = now /\ daemon' = daemon /\ watchdog' = watchdog
  BY DEF Unsupervised, TrainerStep, TrainerDies, DaemonPass, SyncerPass, loops, vars
<1> QED BY <1>6, <1>7, <1>8, <1>9, <1>10, <1>11

LEMMA CohortStep == CohortInv /\ [Next]_vars => CohortInv'
<1> SUFFICES ASSUME CohortInv, [Next]_vars PROVE CohortInv'
  OBVIOUS
<1>1. TypeOK' /\ RoundKnown'
  BY TypeStep DEF CohortInv
<1>2. \/ Unsupervised \/ AwaitLead \/ RestartLead
      \/ \E s \in Supervisors : \/ LaunchRound(s) \/ Wait(s) \/ Retry(s)
                                \/ Sync(s) \/ KillSupervisor(s)
  BY DEF Next, Supervise, Unsupervised
<1>3. Supervised'
  BY <1>2, UnsupervisedKept, AwaitKept, RestartKept, LaunchKept, WaitKept,
     RetryKept, SyncKept, KillKept
<1> QED BY <1>1, <1>3 DEF CohortInv, Supervised

LEMMA CohortInit == Init => CohortInv
<1> SUFFICES ASSUME Init PROVE CohortInv
  OBVIOUS
<1>1. TypeOK /\ RoundKnown
  BY TypeInit
<1>2. Running = {}
  BY DEF Init, Running
<1>3. sup["lead"].pc = "round" /\ sup["own"].pc = "wait lead"
  BY DEF Init, Supervisors
<1>4. Awaited /\ OneRound
  BY <1>2 DEF Awaited, OneRound, Trains, Children
<1>5. Handover
  BY <1>3 DEF Init, Handover
<1>6. 0 < Deadline
  BY CohortAssumption
<1>7. Enforced
  BY <1>2, <1>3, <1>6 DEF Init, Enforced, OwnBegan, Trains
<1> QED BY <1>1, <1>4, <1>5, <1>7 DEF CohortInv

LEMMA CohortAlways == Spec => []CohortInv
BY CohortInit, CohortStep, PTL DEF Spec

(* Who may share a GPU.  The trainers of one process are of one round,     *)
(* which gives each GPU one run.  The chained supervisor begins when no    *)
(* trainer is left and the lead's first process is gone: whatever the lead *)
(* trains while a chained trainer may run, a restarted lead launched.      *)
THEOREM OneTrainerAlways == Spec => []OneTrainerPerGpu
<1>1. ASSUME CohortInv, NEW q \in Running, NEW t \in Running,
             q.gpu = t.gpu, q # t
      PROVE  \/ q.cohort # t.cohort /\ intruded
             \/ q.cohort = "lead" /\ t.cohort = "lead" /\ q.life # t.life
  <2>1. /\ q.cohort \in Supervisors /\ q \in TrainersOf(q.cohort)
        /\ t.cohort \in Supervisors /\ t \in TrainersOf(t.cohort)
    BY TrainerFields DEF Running
  <2>2. ~(q.cohort = t.cohort /\ q.life = t.life)
    <3> SUFFICES ASSUME q.cohort = t.cohort, q.life = t.life PROVE FALSE
      OBVIOUS
    <3>1. q.round = t.round
      BY <1>1 DEF CohortInv, OneRound
    <3>2. /\ q = [cohort |-> q.cohort, round |-> q.round, gpu |-> q.gpu,
                  life |-> q.life]
          /\ t = [cohort |-> t.cohort, round |-> t.round, gpu |-> t.gpu,
                  life |-> t.life]
      BY <2>1, TrainerFields
    <3> QED BY <1>1, <3>1, <3>2
  <2>3. CASE q.cohort = t.cohort
    <3>1. q.life # t.life
      BY <2>2, <2>3
    <3>2. q.cohort # "own"
      BY <2>1, <2>3, <3>1, TrainerFields DEF Lives
    <3> QED BY <2>1, <2>3, <3>1, <3>2 DEF Supervisors
  <2>4. CASE q.cohort # t.cohort
    <3>1. Trains("own") # {} /\ Trains("lead") # {}
      BY <2>1, <2>4 DEF Trains, Supervisors
    <3>2. watchdog # "off"
      BY <1>1, <3>1 DEF CohortInv, Enforced
    <3> QED BY <1>1, <2>4, <3>1, <3>2 DEF CohortInv, Handover
  <2> QED BY <2>3, <2>4
<1>2. CohortInv => (intruded => life > 1)
  BY DEF CohortInv, Handover
<1>3. CohortInv => OneTrainerPerGpu
  BY <1>1, <1>2 DEF OneTrainerPerGpu
<1> QED BY <1>3, CohortAlways, PTL

-----------------------------------------------------------------------------
(* What was copied to the end stays as it was copied.                      *)
Copied(S) == stale \cap S = {}

Durable ==
  /\ daemon = "done" /\ synced["daemon"] => Copied(RunsOf("lead"))
  /\ \A s \in Supervisors :
       sup[s].pc = "done" /\ synced[s] /\ Life(s) = 1 => Copied(RunsOf(s))

LEMMA NothingWritten ==
  ASSUME TypeOK, [Next]_vars, \A t \in Trainers : ~TrainerStep(t)
  PROVE  stale' \subseteq stale
<1>1. CASE \E S : \E ok \in BOOLEAN : CopyOrFail(S, ok)
  BY <1>1, CopyEffect
<1>2. CASE \E S : Copy(S)
  BY <1>2 DEF Copy
<1>3. \/ stale' = stale \/ \E S : \E ok \in BOOLEAN : CopyOrFail(S, ok)
      \/ \E S : Copy(S)
  BY DEF Next, Tick, AwaitLead, RestartLead, Supervise, LaunchRound, Wait,
     Retry, Sync, KillSupervisor, TrainerDies, DaemonPass, DaemonStop,
     DaemonFinal, Watchdog, SyncerPass, vars
<1> QED BY <1>1, <1>2, <1>3

(* A supervisor is done, and says how its last copy went, by that copy.    *)
LEMMA DoneBySync ==
  ASSUME TypeOK, [Next]_vars, NEW s \in Supervisors,
         sup'[s].pc = "done", ~(At(s, "final sync") /\ Sync(s))
  PROVE  sup[s].pc = "done"
<1>0. SupTyped
  BY TypeParts
<1>1. ASSUME NEW t \in Supervisors, NEW l, NEW n, NEW W, Moves(t, l, n, W),
             t = s => l # "done"
      PROVE  sup[s].pc = "done"
  BY <1>0, <1>1 DEF Moves, SupTyped
<1>2. CASE UNCHANGED sup
  BY <1>2
<1>3. CASE AwaitLead
  <2>1. PICK t \in Supervisors : t = "own"
    BY DEF Supervisors
  <2>2. PICK l \in {"wait trainers", "exited", "round"} :
          Moves(t, l, sup["own"].round, sup["own"].waits)
    BY <1>3, <2>1, AwaitMoves
  <2>3. l # "done"
    OBVIOUS
  <2> QED BY <1>1, <2>2, <2>3
<1>4. ASSUME NEW t \in Supervisors, LaunchRound(t) PROVE sup[s].pc = "done"
  <2>1. PICK l \in {"wait", "round", "final sync"} : \E n, W : Moves(t, l, n, W)
    BY <1>4, LaunchMoves
  <2>2. l # "done"
    OBVIOUS
  <2> QED BY <1>1, <2>1, <2>2
<1>5. ASSUME NEW t \in Supervisors, Wait(t) PROVE sup[s].pc = "done"
  BY <1>1, <1>5, WaitMoves
<1>6. ASSUME NEW t \in Supervisors, Retry(t) PROVE sup[s].pc = "done"
  <2>1. PICK S : Moves(t, IF S = {} THEN "sync" ELSE "wait retried", sup[t].round, S)
    BY <1>6, RetryMoves
  <2>2. PICK l : l = IF S = {} THEN "sync" ELSE "wait retried"
    OBVIOUS
  <2>3. Moves(t, l, sup[t].round, S) /\ l # "done"
    BY <2>1, <2>2
  <2> QED BY <1>1, <2>3
<1>7. ASSUME NEW t \in Supervisors, Sync(t) PROVE sup[s].pc = "done"
  <2>1. CASE sup[t].pc = "sync" /\ Moves(t, "round", sup[t].round + 1, sup[t].waits)
    <3>1. PICK l, n, W : l = "round" /\ Moves(t, l, n, W)
      BY <2>1
    <3>2. l # "done"
      BY <3>1
    <3> QED BY <1>1, <3>1, <3>2
  <2>2. CASE sup[t].pc = "final sync" /\ Moves(t, "done", sup[t].round, sup[t].waits)
    <3>1. t # s
      BY <1>7, <2>2 DEF At
    <3> QED BY <1>1, <2>2, <3>1
  <2> QED BY <1>7, <2>1, <2>2, SyncMoves
<1>8. ASSUME NEW t \in Supervisors, KillSupervisor(t) PROVE sup[s].pc = "done"
  BY <1>1, <1>8, KillMoves
<1>9. CASE RestartLead
  <2>1. PICK l, n, W : l = "round" /\ Moves("lead", l, n, W)
    BY <1>9, RestartMoves
  <2>2. l # "done" /\ "lead" \in Supervisors
    BY <2>1 DEF Supervisors
  <2> QED BY <1>1, <2>1, <2>2
<1>10. \/ UNCHANGED sup \/ AwaitLead \/ RestartLead
       \/ \E t \in Supervisors : \/ LaunchRound(t) \/ Wait(t) \/ Retry(t)
                                 \/ Sync(t) \/ KillSupervisor(t)
  BY DEF Next, Supervise, Tick, TrainerStep, TrainerDies, DaemonPass,
     DaemonStop, DaemonFinal, Watchdog, SyncerPass, vars
<1> QED BY <1>2, <1>3, <1>4, <1>5, <1>6, <1>7, <1>8, <1>9, <1>10

LEMMA SyncedBySync ==
  ASSUME TypeOK, [Next]_vars, NEW s \in Supervisors,
         synced'[s], ~(At(s, "final sync") /\ Sync(s))
  PROVE  synced[s]
<1>1. \/ synced' = synced
      \/ \E ok \in BOOLEAN : synced' = [synced EXCEPT !["daemon"] = ok]
      \/ \E t \in Supervisors, ok \in BOOLEAN :
           synced' = [synced EXCEPT ![t] = ok] /\ At(t, "final sync") /\ Sync(t)
  <2>1. CASE DaemonFinal
    BY <2>1 DEF DaemonFinal
  <2>2. ASSUME NEW t \in Supervisors, Sync(t), synced' # synced
        PROVE  \E ok \in BOOLEAN :
                 synced' = [synced EXCEPT ![t] = ok] /\ At(t, "final sync") /\ Sync(t)
    BY <2>2 DEF Sync
  <2>3. \/ synced' = synced \/ DaemonFinal \/ \E t \in Supervisors : Sync(t)
    BY DEF Next, Supervise, Tick, AwaitLead, RestartLead, LaunchRound, Wait,
       Retry, KillSupervisor, TrainerStep, TrainerDies, DaemonPass,
       DaemonStop, Watchdog, SyncerPass, vars
  <2> QED BY <2>1, <2>2, <2>3
<1> QED BY <1>1 DEF TypeOK, Supervisors

LEMMA DurableStep ==
  ASSUME CohortInv, Durable, [Next]_vars
  PROVE  Durable'
<1>0. TypeOK /\ Awaited /\ OneRound /\ Enforced
  BY DEF CohortInv
<1>1. "lead" \in Supervisors /\ \A s \in Supervisors : RunsOf(s) \subseteq Runs
  BY RunFields DEF Supervisors
<1>2. ASSUME NEW s \in Supervisors, Copied(RunsOf(s)), Trains(s) = {}
      PROVE  Copied(RunsOf(s))'
  <2>1. CASE \A t \in Trainers : ~TrainerStep(t)
    BY <1>0, <1>2, <2>1, NothingWritten DEF Copied
  <2>2. CASE \E t \in Trainers : TrainerStep(t)
    <3>1. PICK t \in Trainers : TrainerStep(t)
      BY <2>2
    <3>2. t \in Running /\ stale' = stale \cup {RunOf(t)}
      BY <1>0, <3>1, TrainerStepEffect
    <3>3. t \in TrainersOf(t.cohort) /\ t.cohort \in Supervisors
      BY TrainerFields
    <3>4. t.cohort # s
      BY <1>2, <3>2, <3>3 DEF Trains
    <3>5. RunOf(t) \notin RunsOf(s)
      BY <3>3, <3>4, TrainerFields, RunFields
    <3> QED BY <1>2, <3>2, <3>5 DEF Copied
  <2> QED BY <2>1, <2>2
<1>3. ASSUME daemon' = "done", synced'["daemon"]
      PROVE  Copied(RunsOf("lead"))'
  <2>1. CASE DaemonFinal
    <3>1. PICK ok \in BOOLEAN : /\ CopyOrFail(RunsOf("lead"), ok)
                                /\ synced' = [synced EXCEPT !["daemon"] = ok]
      BY <2>1 DEF DaemonFinal
    <3>2. ok
      BY <1>0, <1>3, <3>1 DEF TypeOK
    <3> QED BY <3>1, <3>2, CopyEffect DEF Copied
  <2>2. CASE ~DaemonFinal
    <3>1. daemon' = daemon
      BY <1>3, <2>2 DEF Next, Tick, AwaitLead, RestartLead, Supervise,
         LaunchRound, Wait, Retry, Sync, KillSupervisor, TrainerStep,
         TrainerDies, DaemonPass, DaemonStop, Watchdog, SyncerPass, vars, loops
    <3>2. synced'["daemon"] = synced["daemon"]
      <4>1. \/ synced' = synced
            \/ \E x \in Supervisors, ok \in BOOLEAN : synced' = [synced EXCEPT ![x] = ok]
        BY <2>2 DEF Next, Tick, AwaitLead, RestartLead, Supervise, LaunchRound,
           Wait, Retry, Sync, KillSupervisor, TrainerStep, TrainerDies,
           DaemonPass, DaemonStop, Watchdog, SyncerPass, vars
      <4> QED BY <1>0, <4>1 DEF TypeOK, Supervisors
    <3>3. Copied(RunsOf("lead")) /\ Trains("lead") = {}
      BY <1>0, <1>3, <3>1, <3>2 DEF Durable, Enforced, Trains
    <3> QED BY <1>1, <1>2, <3>3
  <2> QED BY <2>1, <2>2
<1>4. ASSUME NEW s \in Supervisors, sup'[s].pc = "done", synced'[s],
             Life(s)' = 1
      PROVE  Copied(RunsOf(s))'
  <2>1. CASE At(s, "final sync") /\ Sync(s)
    <3>1. PICK ok \in BOOLEAN : /\ CopyOrFail(RunsOf(s), ok)
                                /\ synced' = [synced EXCEPT ![s] = ok]
      BY <2>1 DEF Sync, At
    <3>2. ok
      BY <1>0, <1>4, <3>1 DEF TypeOK
    <3> QED BY <3>1, <3>2, CopyEffect DEF Copied
  <2>2. CASE ~(At(s, "final sync") /\ Sync(s))
    <3>1. sup[s].pc = "done" /\ synced[s]
      BY <1>0, <1>4, <2>2, DoneBySync, SyncedBySync
    <3>2. Life(s) = 1
      <4>1. life' = life \/ RestartLead
        BY DEF Next, Tick, AwaitLead, Supervise, LaunchRound, Wait, Retry,
           Sync, KillSupervisor, TrainerStep, TrainerDies, DaemonPass,
           DaemonStop, DaemonFinal, Watchdog, SyncerPass, vars, faults
      <4>2. CASE RestartLead
        <5>1. life' = life + 1 /\ life \in 1..(MaxRestarts + 1)
          BY <1>0, <4>2 DEF RestartLead, TypeOK, Lives
        <5>2. s # "lead"
          BY <1>4, <5>1, CohortAssumption DEF Life
        <5> QED BY <5>2 DEF Life
      <4> QED BY <1>4, <4>1, <4>2 DEF Life
    <3>3. Trains(s) = {}
      <4>1. ASSUME NEW t \in Trains(s) PROVE t.life = 1
        <5>1. t.life \in Lives(s) /\ t.life <= 1
          BY <1>0, <3>2, TrainerFields DEF Trains, OneRound
        <5> QED BY <5>1, CohortAssumption DEF Lives
      <4>2. Children(s) = {}
        BY <1>0, <3>1 DEF Awaited
      <4> QED BY <3>2, <4>1, <4>2 DEF Children
    <3>4. Copied(RunsOf(s))
      BY <3>1, <3>2 DEF Durable
    <3> QED BY <1>2, <3>3, <3>4
  <2> QED BY <2>1, <2>2
<1> QED BY <1>3, <1>4 DEF Durable

(* What a cohort's last copy reported without an error is what the store   *)
(* holds, and nothing trains after a deadline that was enforced: the       *)
(* clock is past it, so that no round and no retry fits any more.          *)
THEOREM DurableAlways == Spec => []DurableIfSynced
<1>1. Init => Durable
  BY DEF Init, Durable, Supervisors
<1>2. CohortInv /\ Durable /\ [Next]_vars => Durable'
  BY DurableStep
<1>3. CohortInv /\ Durable => DurableIfSynced
  <2> SUFFICES ASSUME CohortInv, Durable PROVE DurableIfSynced
    OBVIOUS
  <2>1. Awaited /\ Handover /\ Enforced
    BY DEF CohortInv
  <2>2. NothingTrainsAfterDeadline
    BY <2>1 DEF NothingTrainsAfterDeadline, Enforced, Trains
  <2> QED BY <2>2 DEF Durable, DurableIfSynced, Copied, At
<1> QED BY <1>1, <1>2, <1>3, CohortAlways, PTL DEF Spec

=============================================================================
