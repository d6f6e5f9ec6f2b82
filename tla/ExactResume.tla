----------------------------- MODULE ExactResume -----------------------------
(***************************************************************************)
(* train/trainer.py: one training run across the processes that work on it *)
(* in turn.  A process validates what it finds, brings the ledger forward, *)
(* prepares the output directory and trains; it may raise or be killed     *)
(* between any two effects; a scheduler (cluster/submit_chain.sh, or       *)
(* scripts/run_local_gpus.py) starts the next one.                         *)
(*                                                                         *)
(* A ledger append is one step here: RunLedger shows it to be atomic.  The *)
(* model, optimizer and data state are abstracted to the step they belong  *)
(* to; weights, losses and RNG states play no part in the control.         *)
(***************************************************************************)
EXTENDS LedgerEvents

CONSTANTS MaxSteps,    \* the run's steps
          LogEvery,    \* log_every
          SnapEvery,   \* snap_every
          Ledgered,    \* the config names a ledger root
          Policies,    \* the --resume arguments in use
          MaxFaults    \* bound on exceptions and kills

ASSUME ResumeAssumption ==
  /\ MaxSteps \in Nat \ {0} /\ LogEvery \in Nat \ {0} /\ SnapEvery \in Nat \ {0}
  /\ Ledgered \in BOOLEAN
  /\ Policies \subseteq {"auto", "none"}
  /\ MaxFaults \in Nat

VARIABLES
  ledger,     \* the run's events, [type, step]
  made,       \* out_dir entries: "dir", "snapshots", "config"
  temps,      \* temporaries a kill left behind in out_dir or snapshots
  ckpt,       \* step of ckpt.pt, or NoStep
  log,        \* steps of the rows of log.jsonl
  snaps,      \* steps of the snapshots
  pc, plan, step, closing,    \* the running process
  outcome,    \* how the last process ended
  faults

vars == <<ledger, made, temps, ckpt, log, snaps, pc, plan, step, closing,
          outcome, faults>>
files  == <<made, temps, ckpt, log, snaps>>
memory == <<plan, step, closing>>

NoStep == MaxSteps + 1

Types == [i \in 1..Len(ledger) |-> ledger[i].type]

Latest == IF ledger = << >> THEN "none" ELSE ledger[Len(ledger)].type

(* The steps of log.jsonl's rows.                                          *)
Rows == {log[i] : i \in 1..Len(log)}

(* The steps of the recorded checkpoints.                                  *)
Recorded == {ledger[i].step : i \in {j \in 1..Len(ledger) :
                                       ledger[j].type = "checkpointed"}}

-----------------------------------------------------------------------------
(* _validate_log: rows strictly increase and none is past the checkpoint.  *)
LogFits(s) ==
  /\ \A i \in 1..Len(log) : log[i] <= s
  /\ \A i, j \in 1..Len(log) : i < j => log[i] < log[j]

(* _validate_resume_inventory.                                             *)
Entries == (made \ {"dir"}) \cup (IF ckpt = NoStep THEN {} ELSE {"ckpt"})
             \cup (IF log = << >> THEN {} ELSE {"log"}) \cup temps

Fresh == Entries = {}

Resumable ==
  /\ Entries \subseteq {"config", "ckpt", "log", "snapshots"}
  /\ {"config", "ckpt"} \subseteq Entries
  /\ \A s \in snaps : s <= ckpt
  /\ LogFits(ckpt)

Accepted(policy) == Fresh \/ (policy = "auto" /\ Resumable)

(* _prepare_training_ledger: the appends that lead from the latest type to *)
(* "started" for a run that has not been launched yet.                     *)
Event(t)        == [type |-> t, step |-> NoStep]
EventAt(t, s)   == [type |-> t, step |-> s]
LaunchEvents    == <<Event("preflight_passed"), Event("launch_requested"),
                     Event("started")>>

Launch(latest) ==
  CASE latest = "none"             -> <<Event("planned")>> \o LaunchEvents
    [] latest = "planned"          -> LaunchEvents
    [] latest = "preflight_passed" -> Tail(LaunchEvents)
    [] latest = "launch_requested" -> <<Event("started")>>
    [] OTHER                       -> << >>

Refuse == <<Event("refused")>>

(* An interrupted resume not recognised: the checkpoint is imported only   *)
(* when the ledger does not have it.                                       *)
ResumePlanWithoutImport ==
  LET head == Launch(Latest)
  IN  head \o IF \A s \in Recorded : ckpt > s
              THEN <<EventAt("checkpointed", ckpt), EventAt("resumed", ckpt)>>
              ELSE <<EventAt("resumed", ckpt)>>

ResumePlan ==
  LET head     == Launch(Latest)
      latest   == IF head = << >> THEN Latest ELSE "started"
      behind   == \E s \in Recorded : ckpt < s
      imported == \/ \A s \in Recorded : ckpt > s
                  \/ latest \in {"started", "resumed"}
  IN  head \o
      IF behind THEN Refuse
      ELSE IF imported
      THEN <<EventAt("checkpointed", ckpt), EventAt("resumed", ckpt)>>
      ELSE IF latest \in {"checkpointed", "failed"}
      THEN <<EventAt("resumed", ckpt)>>
      ELSE Refuse

FreshPlan ==
  IF Recorded # {} THEN Refuse
  ELSE CASE Latest = "started" -> <<Event("failed")>> \o LaunchEvents
         [] Latest = "failed"  -> LaunchEvents
         [] Latest \in {"none", "planned", "preflight_passed",
                        "launch_requested"} -> Launch(Latest)
         [] OTHER              -> Refuse

LedgerPlan(resuming) ==
  IF ~Ledgered THEN << >>
  ELSE IF Latest \in {"completed", "excluded"} THEN Refuse
  ELSE IF resuming THEN ResumePlan ELSE FreshPlan

-----------------------------------------------------------------------------
Init ==
  /\ ledger = << >>
  /\ made = {} /\ temps = {} /\ ckpt = NoStep /\ log = << >> /\ snaps = {}
  /\ pc = "off" /\ plan = << >> /\ step = 0 /\ closing = FALSE
  /\ outcome = "none" /\ faults = 0

Exit(o) ==
  /\ pc' = "off" /\ plan' = << >> /\ step' = 0 /\ closing' = FALSE
  /\ outcome' = o

Spawn ==
  /\ pc = "off" /\ outcome # "ok"
  /\ pc' = "validate"
  /\ UNCHANGED <<ledger, files, memory, outcome, faults>>

(* The checkpoint found, but its step not restored.                        *)
ValidateForgetsStep(policy) ==
  /\ pc = "validate"
  /\ IF Accepted(policy)
     THEN /\ plan' = LedgerPlan(~Fresh)
          /\ pc' = "plan"
          /\ UNCHANGED <<step, closing, outcome>>
     ELSE Exit("refused")
  /\ UNCHANGED <<ledger, files, faults>>

(* train: validate_run_start, then the ledger is read and its plan made.   *)
Validate(policy) ==
  /\ pc = "validate"
  /\ IF Accepted(policy)
     THEN /\ plan' = LedgerPlan(~Fresh)
          /\ step' = IF Fresh THEN 0 ELSE ckpt
          /\ pc' = "plan"
          /\ UNCHANGED <<closing, outcome>>
     ELSE Exit("refused")
  /\ UNCHANGED <<ledger, files, faults>>

(* RunLedger.append: an illegal transition raises.                         *)
LedgerAppend(e, next, raise) ==
  IF MayFollow(Types, e.type)
  THEN ledger' = Append(ledger, e) /\ pc' = next
  ELSE pc' = raise /\ UNCHANGED ledger

(* A refusal here, as an append that raises, finds the caller's ledger     *)
(* variable still unset: nothing is retained.                              *)
Prepare ==
  /\ pc = "plan"
  /\ IF plan = << >>
     THEN pc' = "mkdir" /\ UNCHANGED <<ledger, memory, outcome>>
     ELSE IF Head(plan).type = "refused"
     THEN Exit("refused") /\ UNCHANGED ledger
     ELSE /\ LedgerAppend(Head(plan), "plan", "exit")
          /\ plan' = Tail(plan)
          /\ UNCHANGED <<step, closing, outcome>>
  /\ UNCHANGED <<files, faults>>

(* prepare_output: out_dir, snapshots, then config.yaml if it is missing.  *)
MakeOutput ==
  /\ \/ pc = "mkdir" /\ made' = made \cup {"dir"} /\ pc' = "mksnap"
     \/ pc = "mksnap" /\ made' = made \cup {"snapshots"} /\ pc' = "config"
     \/ /\ pc = "config"
        /\ pc' = IF "config" \in made THEN "train" ELSE "write config"
        /\ UNCHANGED made
     \/ /\ pc = "write config"
        /\ made' = made \cup {"config"} /\ pc' = "train"
  /\ UNCHANGED <<ledger, temps, ckpt, log, snaps, memory, outcome, faults>>

(* train_steps: one optimizer step, its log row when due, its snapshot     *)
(* when due, and a checkpoint when enough time has passed.                 *)
TrainStep ==
  /\ pc = "train"
  /\ IF step < MaxSteps
     THEN step' = step + 1 /\ pc' = "log" /\ UNCHANGED closing
     ELSE closing' = TRUE /\ pc' = "write ckpt" /\ UNCHANGED step
  /\ UNCHANGED <<ledger, files, plan, outcome, faults>>

AppendLog ==
  /\ pc = "log"
  /\ log' = IF step % LogEvery = 0 \/ step = MaxSteps
            THEN Append(log, step) ELSE log
  /\ pc' = IF step % SnapEvery = 0 THEN "snapshot" ELSE "tick"
  /\ UNCHANGED <<ledger, made, temps, ckpt, snaps, memory, outcome, faults>>

(* save_snapshot refuses a snapshot that exists.                           *)
SaveSnapshot ==
  /\ \/ /\ pc = "snapshot"
        /\ pc' = IF step \in snaps THEN "raise" ELSE "write snapshot"
        /\ UNCHANGED snaps
     \/ /\ pc = "write snapshot"
        /\ snaps' = snaps \cup {step}
        /\ pc' = "tick"
  /\ UNCHANGED <<ledger, made, temps, ckpt, log, memory, outcome, faults>>

Tick ==
  /\ pc = "tick"
  /\ pc' \in {"train", "write ckpt"}
  /\ UNCHANGED <<ledger, files, memory, outcome, faults>>

(* save_ckpt: the file is replaced first, then its event is appended.      *)
SaveCkpt ==
  /\ pc = "write ckpt"
  /\ ckpt' = step
  /\ pc' = IF Ledgered THEN "record" ELSE IF closing THEN "complete" ELSE "train"
  /\ UNCHANGED <<ledger, made, temps, log, snaps, memory, outcome, faults>>

RecordCkpt ==
  /\ pc = "record"
  /\ LedgerAppend(EventAt("checkpointed", step),
                  IF closing THEN "complete" ELSE "train", "raise")
  /\ UNCHANGED <<files, memory, outcome, faults>>

Complete ==
  /\ pc = "complete"
  /\ IF Ledgered
     THEN LedgerAppend(EventAt("completed", step), "done", "raise")
     ELSE pc' = "done" /\ UNCHANGED ledger
  /\ UNCHANGED <<files, memory, outcome, faults>>

Finish ==
  /\ pc = "done"
  /\ Exit("ok")
  /\ UNCHANGED <<ledger, files, faults>>

(* _retain_training_failure, for an exception after the ledger is in hand. *)
Retain ==
  /\ pc \in {"raise", "exit"}
  /\ Exit("failed")
  /\ ledger' = IF /\ Ledgered /\ pc = "raise" /\ ledger # << >>
                  /\ Latest \notin {"failed", "excluded", "completed"}
               THEN Append(ledger, Event("failed")) ELSE ledger
  /\ UNCHANGED <<files, faults>>

-----------------------------------------------------------------------------
Working == pc \notin {"off", "validate", "raise", "exit", "done"}

(* Anything in the loop may raise.  atomic_write_stream removes its        *)
(* temporary on the way out.                                               *)
Raise ==
  /\ Working /\ faults < MaxFaults
  /\ faults' = faults + 1
  /\ pc' = IF pc = "plan" THEN "exit" ELSE "raise"
  /\ UNCHANGED <<ledger, files, memory, outcome>>

(* A kill (timeout, preemption, out of memory) runs no handler: inside an  *)
(* atomic write it leaves the temporary where it was.                      *)
Kill ==
  /\ pc # "off" /\ faults < MaxFaults
  /\ faults' = faults + 1
  /\ temps' \in {temps} \cup
       (IF pc \in {"write config", "write snapshot", "write ckpt"}
        THEN {temps \cup {"temporary"}} ELSE {})
  /\ Exit("killed")
  /\ UNCHANGED <<ledger, made, ckpt, log, snaps>>

Process ==
  \/ \E policy \in Policies : Validate(policy)
  \/ Prepare \/ MakeOutput \/ TrainStep \/ AppendLog \/ SaveSnapshot \/ Tick
  \/ SaveCkpt \/ RecordCkpt \/ Complete \/ Finish \/ Retain

Next == Spawn \/ Process \/ Raise \/ Kill

Spec == Init /\ [][Next]_vars

(* The scheduler starts the next process; one that is not stopped runs on. *)
FairSpec == Spec /\ WF_vars(Spawn) /\ WF_vars(Process)

-----------------------------------------------------------------------------
EventRecords == [type : EventTypes, step : 0..NoStep]

PlanRecords == [type : EventTypes \cup {"refused"}, step : 0..NoStep]

(* Every variable holds a value of its kind; no refusal is in the ledger.  *)
TypeOK ==
  /\ ledger \in Seq(EventRecords) /\ plan \in Seq(PlanRecords)
  /\ made \subseteq {"dir", "snapshots", "config"}
  /\ temps \subseteq {"temporary"}
  /\ ckpt \in 0..NoStep
  /\ log \in Seq(1..MaxSteps) /\ snaps \subseteq 1..MaxSteps
  /\ pc \in {"off", "validate", "plan", "mkdir", "mksnap", "config",
             "write config", "train", "log", "snapshot", "write snapshot",
             "tick", "write ckpt", "record", "complete", "done", "raise",
             "exit"}
  /\ step \in 0..MaxSteps /\ closing \in BOOLEAN
  /\ outcome \in {"none", "ok", "refused", "failed", "killed"}
  /\ faults \in 0..MaxFaults

(* The trainer never asks the ledger for a transition it does not allow,   *)
(* whatever the processes before it had appended when they stopped         *)
(* (trainer.py _prepare_training_ledger, save_ckpt, train).                *)
AppendsLegal ==
  /\ pc = "plan" /\ plan # << >> /\ Head(plan).type # "refused" =>
       MayFollow(Types, Head(plan).type)
  /\ pc = "record" => MayFollow(Types, "checkpointed")
  /\ pc = "complete" /\ Ledgered => MayFollow(Types, "completed")

(* ckpt.pt is never behind the ledger: a resume is never refused as a      *)
(* rollback, and the recorded steps never decrease (trainer.py save_ckpt). *)
LedgerNotAhead ==
  /\ \A s \in Recorded : ckpt # NoStep /\ s <= ckpt
  /\ \A i, j \in 1..Len(ledger) :
       i < j /\ ledger[i].type = "checkpointed" /\ ledger[j].type = "checkpointed"
         => ledger[i].step <= ledger[j].step

(* A run that finishes has the log and the snapshots of a run that was     *)
(* never interrupted: each due row once, in order, and each due snapshot;  *)
(* and until then the ledger takes every event it is given and is never    *)
(* ahead of the checkpoint (_validate_resume_inventory, save_ckpt).        *)
ExactHistory ==
  /\ AppendsLegal /\ LedgerNotAhead
  /\ outcome = "ok" =>
       /\ ckpt = MaxSteps
       /\ \A i, j \in 1..Len(log) : i < j => log[i] < log[j]
       /\ Rows = {s \in 1..MaxSteps : s % LogEvery = 0 \/ s = MaxSteps}
       /\ snaps = {s \in 1..MaxSteps : s % SnapEvery = 0}
       /\ Ledgered => Latest = "completed" /\ MaxSteps \in Recorded

(* Once the faults are over, the run is finished, or refused for good: no  *)
(* process after that ends in an exception.                                *)
Settles == <>[](pc = "off" => outcome \in {"ok", "refused"})

=============================================================================
