------------------------------- MODULE PairRun -------------------------------
(***************************************************************************)
(* msctl, its Slurm jobs and scripts/run_135m_pair.py: the two arms of a   *)
(* pair, dense and split90, are trained side by side in one job, first for *)
(* the canaries that a preflight receipt freezes, then for the protected   *)
(* run, which resumes only from checkpoints at one common step and ends in *)
(* a pair receipt and the pair's evidence.                                 *)
(*                                                                         *)
(* The job is preempted and requeued, or told to end; a trainer dies.  To  *)
(* kill an arm's runner leaves its trainer running until Slurm ends the    *)
(* job.  One job of the pair is submitted at a time.  The frozen hashes,   *)
(* the GPU names and the memory check of the evidence are left out: they   *)
(* hold throughout.  The data cursor goes with the step.                   *)
(***************************************************************************)
EXTENDS Naturals, FiniteSets

CONSTANTS Canaries,       \* of "functional", "resume", "throughput"
          Limit,          \* mode -> the last step
          MaxInterrupts   \* bound on preemptions, signals and deaths

Arms      == {"dense", "split90"}
Modes     == Canaries \cup {"protected"}
Protected == "protected"

ASSUME PairAssumption ==
  /\ Canaries \subseteq {"functional", "resume", "throughput"}
  /\ Limit \in [Modes -> Nat \ {0}]
  /\ "resume" \in Canaries => Limit["resume"] = 2
  /\ MaxInterrupts \in Nat

VARIABLES
  mode, pc,      \* the job: what it runs, and the script's next step
  runner,        \* arm -> run_arm: "none", a stage, "ok" or "failed"
  trainer,       \* arm -> run_train.py: "none", "run", "ok" or "failed"
  target, step,  \* arm -> its max_steps, and the updates done
  began,         \* arm -> the step it began at
  ckpt,          \* mode, arm -> step of ckpt.pt, 0 if there is none
  status,        \* mode, arm -> the arm's evidence
  evidence,      \* mode -> the pair's evidence
  receipt,       \* the pair checkpoint receipt: arm -> step, or 0s
  preflight,     \* the preflight receipt exists
  interrupts

vars == <<mode, pc, runner, trainer, target, step, began, ckpt, status,
          evidence, receipt, preflight, interrupts>>
procs  == <<runner, trainer, target, step, began>>
store  == <<ckpt, status, evidence, receipt, preflight>>

Zero == [a \in Arms |-> 0]
None == [a \in Arms |-> "none"]

-----------------------------------------------------------------------------
Init ==
  /\ mode = Protected /\ pc = "ended"
  /\ runner = None /\ trainer = None
  /\ target = Zero /\ step = Zero /\ began = Zero
  /\ ckpt = [m \in Modes |-> Zero] /\ status = [m \in Modes |-> None]
  /\ evidence = [m \in Modes |-> "none"]
  /\ receipt = Zero /\ preflight = FALSE
  /\ interrupts = 0

(* msctl submit: a protected job needs the preflight receipt.  A job that  *)
(* has completed may be submitted again.                                   *)
Submit(m) ==
  /\ pc = "ended" /\ runner = None
  /\ m = Protected => preflight
  /\ mode' = m /\ pc' = "check"
  /\ UNCHANGED <<procs, store, interrupts>>

(* build_preflight_receipt: once, from three completed canaries.           *)
BuildPreflight ==
  /\ ~preflight
  /\ \A m \in Canaries :
       /\ evidence[m] = "completed"
       /\ \A a \in Arms : status[m][a] = "completed"
  /\ preflight' = TRUE
  /\ UNCHANGED <<mode, pc, procs, ckpt, status, evidence, receipt, interrupts>>

(* Any two checkpoints taken for a common one.                             *)
CheckBoth ==
  /\ pc = "check"
  /\ pc' = IF mode = Protected /\ Cardinality({a \in Arms : ckpt[mode][a] = 0}) = 1
           THEN "ended" ELSE "launch"
  /\ UNCHANGED <<mode, procs, store, interrupts>>

(* check_135m_pair_resume.py: both checkpoints at one step, or neither.    *)
Check ==
  /\ pc = "check"
  /\ pc' = IF mode = Protected /\ ckpt[mode]["dense"] # ckpt[mode]["split90"]
           THEN "ended" ELSE "launch"
  /\ UNCHANGED <<mode, procs, store, interrupts>>

Launch ==
  /\ pc = "launch"
  /\ runner' = [a \in Arms |-> "stage"]
  /\ trainer' = None /\ began' = Zero /\ step' = Zero /\ target' = Zero
  /\ pc' = "wait dense"
  /\ UNCHANGED <<mode, store, interrupts>>

-----------------------------------------------------------------------------
(* --resume: the first stage of the resume canary starts afresh.           *)
Resume(a, k) == IF mode = "resume" /\ k = 1 THEN 0 ELSE ckpt[mode][a]

Start(a, k) ==
  /\ runner' = [runner EXCEPT ![a] = IF k = 1 THEN "first" ELSE "last"]
  /\ trainer' = [trainer EXCEPT ![a] = "run"]
  /\ target' = [target EXCEPT ![a] = IF k = 1 THEN 1 ELSE Limit[mode]]
  /\ step' = [step EXCEPT ![a] = Resume(a, k)]
  /\ began' = [began EXCEPT ![a] = Resume(a, k)]

(* run_arm: the stages, one in every mode but the resume canary.           *)
StartStage(a) ==
  /\ \/ runner[a] = "stage" /\ Start(a, IF mode = "resume" THEN 1 ELSE 2)
     \/ runner[a] = "first" /\ trainer[a] = "ok" /\ Start(a, 2)
  /\ UNCHANGED <<mode, pc, store, interrupts>>

(* The arm's evidence, and the exit code with it.                          *)
ArmStatus(a) ==
  IF trainer[a] = "ok" /\ ckpt[mode][a] = Limit[mode] THEN "completed" ELSE "failed"

FinishArm(a) ==
  /\ \/ runner[a] = "first" /\ trainer[a] = "failed"
     \/ runner[a] = "last" /\ trainer[a] \in {"ok", "failed"}
  /\ status' = [status EXCEPT ![mode][a] = ArmStatus(a)]
  /\ runner' = [runner EXCEPT ![a] =
                  IF ArmStatus(a) = "completed" THEN "ok" ELSE "failed"]
  /\ UNCHANGED <<mode, pc, trainer, target, step, began, ckpt, evidence,
                 receipt, preflight, interrupts>>

(* The checkpoint after the loop left out.                                 *)
TrainWithoutLastSave(a) ==
  /\ trainer[a] = "run"
  /\ \/ /\ step[a] < target[a]
        /\ step' = [step EXCEPT ![a] = @ + 1]
        /\ UNCHANGED <<ckpt, trainer>>
     \/ /\ step[a] >= target[a]
        /\ trainer' = [trainer EXCEPT ![a] = "ok"]
        /\ UNCHANGED <<step, ckpt>>
  /\ UNCHANGED <<mode, pc, runner, target, began, status, evidence, receipt,
                 preflight, interrupts>>

(* train_steps: ckpt.pt by the clock and after the loop.                   *)
Train(a) ==
  /\ trainer[a] = "run"
  /\ \/ /\ step[a] < target[a]
        /\ step' = [step EXCEPT ![a] = @ + 1]
        /\ \/ ckpt' = [ckpt EXCEPT ![mode][a] = step[a] + 1]
           \/ UNCHANGED ckpt
        /\ UNCHANGED trainer
     \/ /\ step[a] >= target[a]
        /\ ckpt' = [ckpt EXCEPT ![mode][a] = step[a]]
        /\ trainer' = [trainer EXCEPT ![a] = "ok"]
        /\ UNCHANGED step
  /\ UNCHANGED <<mode, pc, runner, target, began, status, evidence, receipt,
                 preflight, interrupts>>

TrainerDies(a) ==
  /\ trainer[a] = "run" /\ interrupts < MaxInterrupts
  /\ interrupts' = interrupts + 1
  /\ trainer' = [trainer EXCEPT ![a] = "failed"]
  /\ UNCHANGED <<mode, pc, runner, target, step, began, store>>

-----------------------------------------------------------------------------
Exited(a) == runner[a] \in {"ok", "failed"}

(* The script waits for dense, then for split90; a failed dense takes      *)
(* split90's runner with it.                                               *)
Wait ==
  /\ \/ /\ pc = "wait dense" /\ Exited("dense")
        /\ pc' = "wait split90"
        /\ runner' = IF runner["dense"] = "failed" /\ ~Exited("split90")
                     THEN [runner EXCEPT !["split90"] = "failed"] ELSE runner
     \/ /\ pc = "wait split90" /\ Exited("split90")
        /\ pc' = "finalize"
        /\ UNCHANGED runner
  /\ UNCHANGED <<mode, trainer, target, step, began, store, interrupts>>

(* The batch script is told to end: both runners are killed.               *)
Terminate ==
  /\ pc \in {"wait dense", "wait split90"} /\ interrupts < MaxInterrupts
  /\ interrupts' = interrupts + 1
  /\ runner' = [a \in Arms |-> IF Exited(a) THEN runner[a] ELSE "failed"]
  /\ UNCHANGED <<mode, pc, trainer, target, step, began, store>>

Passed == \A a \in Arms : runner[a] = "ok" /\ status[mode][a] = "completed"

(* finalize: a protected pair that passed gets its receipt, which nothing  *)
(* replaces, and then its evidence; any other outcome the evidence alone.  *)
Finalize ==
  /\ \/ /\ pc = "finalize" /\ Passed /\ mode = Protected
        /\ IF receipt = Zero /\ \A a \in Arms : ckpt[mode][a] = Limit[mode]
           THEN receipt' = ckpt[mode] /\ pc' = "evidence"
           ELSE pc' = "ended" /\ UNCHANGED receipt
        /\ UNCHANGED evidence
     \/ /\ \/ pc = "evidence"
           \/ pc = "finalize" /\ ~(Passed /\ mode = Protected)
        /\ evidence' = [evidence EXCEPT ![mode] =
                          IF Passed THEN "completed" ELSE "failed"]
        /\ pc' = "ended"
        /\ UNCHANGED receipt
  /\ UNCHANGED <<mode, procs, ckpt, status, preflight, interrupts>>

(* Slurm ends every process of a job with it.                              *)
EndJob ==
  /\ pc = "ended" /\ runner # None
  /\ runner' = None /\ trainer' = None
  /\ step' = Zero /\ target' = Zero /\ began' = Zero
  /\ UNCHANGED <<mode, pc, store, interrupts>>

(* --requeue: the job starts over.                                         *)
Preempt ==
  /\ pc # "check" /\ (pc # "ended" \/ runner # None)
  /\ interrupts < MaxInterrupts
  /\ interrupts' = interrupts + 1
  /\ pc' = "check"
  /\ runner' = None /\ trainer' = None
  /\ step' = Zero /\ target' = Zero /\ began' = Zero
  /\ UNCHANGED <<mode, store>>

Job == Check \/ Launch \/ Wait \/ Finalize \/ EndJob
Arm(a) == StartStage(a) \/ FinishArm(a) \/ Train(a)

Next ==
  \/ Job \/ Preempt \/ Terminate \/ BuildPreflight
  \/ \E a \in Arms : Arm(a) \/ TrainerDies(a)
  \/ \E m \in Modes : Submit(m)

Spec == Init /\ [][Next]_vars

(* What runs keeps running, and a mode without complete evidence is        *)
(* submitted again.                                                        *)
FairSpec ==
  /\ Spec
  /\ WF_vars(Job) /\ WF_vars(BuildPreflight)
  /\ \A a \in Arms : WF_vars(Arm(a))
  /\ \A m \in Modes : SF_vars(Submit(m) /\ evidence[m] # "completed")

-----------------------------------------------------------------------------
(* Every variable holds a value of its kind.                               *)
TypeOK ==
  /\ mode \in Modes
  /\ pc \in {"check", "launch", "wait dense", "wait split90", "finalize", "evidence", "ended"}
  /\ runner \in [Arms -> {"none", "stage", "first", "last", "ok", "failed"}]
  /\ trainer \in [Arms -> {"none", "run", "ok", "failed"}]
  /\ {step, target, began} \subseteq [Arms -> 0..Limit[mode]]
  /\ ckpt \in [Modes -> [Arms -> Nat]]
  /\ \A m \in Modes, a \in Arms : ckpt[m][a] <= Limit[m]
  /\ status \in [Modes -> [Arms -> {"none", "completed", "failed"}]]
  /\ evidence \in [Modes -> {"none", "completed", "failed"}]
  /\ receipt \in [Arms -> Nat] /\ preflight \in BOOLEAN
  /\ interrupts \in 0..MaxInterrupts

(* The arms of a protected run train from one common step, whatever their  *)
(* checkpoints were when the job before was interrupted                    *)
(* (check_135m_pair_resume.py).                                            *)
PairedStart ==
  mode = Protected /\ (\A a \in Arms : trainer[a] # "none") =>
    began["dense"] = began["split90"]

(* Complete evidence of the protected run stands for a receipt, both arms' *)
(* checkpoints were at the last step when it was written, and no later job *)
(* trains them from an earlier one (run_135m_pair.py finalize).            *)
CompletedIsPaired ==
  /\ PairedStart
  /\ evidence[Protected] = "completed" => \A a \in Arms : receipt[a] = Limit[Protected]
  /\ receipt # Zero => ckpt[Protected] = receipt

(* The checkpoints are apart, or a receipt without its evidence is in the  *)
(* way: no later job can complete.                                         *)
Wedged ==
  \/ ckpt[Protected]["dense"] # ckpt[Protected]["split90"]
  \/ receipt # Zero /\ evidence[Protected] # "completed"

(* Canaries, preflight and protected run come to completion after the last *)
(* interruption, unless it left the pair wedged (msctl/operations.py       *)
(* submit, resume).                                                        *)
PairCompletes == <>[](evidence[Protected] = "completed" \/ Wedged)
=============================================================================
