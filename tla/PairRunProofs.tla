----------------------------- MODULE PairRunProofs -----------------------------
(***************************************************************************)
(* Proofs about PairRun for any canaries, any lengths of the runs and any  *)
(* number of interruptions.                                                *)
(*                                                                         *)
(* An arm starts from the checkpoint it finds, and the other may have been *)
(* trained meanwhile: that both began at one step follows from what the    *)
(* check saw before either was launched, which CommonStart carries until   *)
(* each has begun.  A receipt is over two checkpoints at the last step, so *)
(* a trainer that a later job starts has nothing to do (Receipted).        *)
(***************************************************************************)
EXTENDS PairRun, TLAPS

Last == [a \in Arms |-> Limit[Protected]]

(* What a job leaves behind when its processes end, and what it has before *)
(* it launches them.                                                       *)
AtRest == trainer = None /\ step = Zero /\ target = Zero /\ began = Zero

Stages ==
  /\ runner = None \/ \A a \in Arms : runner[a] # "none"
  /\ runner = None => AtRest
  /\ pc \in {"check", "launch"} => runner = None
  /\ pc \notin {"check", "launch", "ended"} => runner # None
  /\ \A a \in Arms : /\ runner[a] = "stage" => trainer[a] = "none"
                     /\ runner[a] = "first" => mode = "resume"
                     /\ runner[a] = "ok" => trainer[a] = "ok"

(* The check saw both checkpoints at the step c: an arm that has begun     *)
(* began there, and the other still has that checkpoint.                   *)
BeganAt(c, a) == IF trainer[a] = "none" THEN ckpt[Protected][a] = c ELSE began[a] = c

CommonStart ==
  mode = Protected /\ (pc = "launch" \/ runner # None) =>
    \E c \in Nat : \A a \in Arms : BeganAt(c, a)

Receipted ==
  /\ receipt # Zero => receipt = Last /\ ckpt[Protected] = Last
  /\ pc = "evidence" => mode = Protected /\ receipt = Last
  /\ evidence[Protected] = "completed" => receipt = Last
  /\ receipt # Zero /\ mode = Protected =>
       \A a \in Arms : trainer[a] = "run" => step[a] = Limit[Protected]

PairInv == TypeOK /\ Stages /\ CommonStart /\ Receipted

-----------------------------------------------------------------------------
LEMMA Limits ==
  /\ Protected \in Modes /\ Protected # "resume"
  /\ \A m \in Modes : Limit[m] \in Nat /\ Limit[m] >= 1
  /\ Last \in [Arms -> Nat] /\ Last # Zero /\ Zero \in [Arms -> Nat]
  /\ MaxInterrupts \in Nat
<1>1. Protected \in Modes /\ Protected # "resume"
  BY DEF Protected, Modes
<1>2. \A m \in Modes : Limit[m] \in Nat /\ Limit[m] >= 1
  BY PairAssumption
<1>3. Last \in [Arms -> Nat] /\ Zero \in [Arms -> Nat]
  BY <1>1, <1>2 DEF Last, Zero
<1>4. Last["dense"] # Zero["dense"]
  BY <1>1, <1>2 DEF Last, Zero, Arms
<1>5. MaxInterrupts \in Nat
  BY PairAssumption
<1> QED BY <1>1, <1>2, <1>3, <1>4, <1>5

LEMMA ZeroFits == ASSUME NEW m \in Modes PROVE Zero \in [Arms -> 0..Limit[m]]
<1>1. 0 \in 0..Limit[m]
  BY Limits
<1> QED BY <1>1 DEF Zero

LEMMA PairInit == Init => PairInv
<1> SUFFICES ASSUME Init PROVE PairInv
  OBVIOUS
<1>1. TypeOK
  <2>1. {step, target, began} \subseteq [Arms -> 0..Limit[mode]]
    BY Limits, ZeroFits DEF Init
  <2>2. /\ ckpt \in [Modes -> [Arms -> Nat]]
        /\ \A m \in Modes, a \in Arms : ckpt[m][a] <= Limit[m]
    BY Limits DEF Init, Zero
  <2>3. interrupts \in 0..MaxInterrupts
    BY Limits DEF Init
  <2> QED BY <2>1, <2>2, <2>3, Limits DEF Init, TypeOK, None
<1>2. Stages
  BY DEF Init, Stages, AtRest, None
<1>3. CommonStart
  BY DEF Init, CommonStart
<1>4. Receipted
  BY Limits DEF Init, Receipted, None
<1> QED BY <1>1, <1>2, <1>3, <1>4 DEF PairInv

-----------------------------------------------------------------------------
(* The steps of the job.                                                   *)
LEMMA RestFollows ==
  ASSUME PairInv, mode' \in Modes, runner' = None, AtRest',
         pc' \in {"check", "ended"}, UNCHANGED store, interrupts' \in 0..MaxInterrupts
  PROVE  PairInv'
<1>1. TypeOK'
  <2>1. {step', target', began'} \subseteq [Arms -> 0..Limit[mode']]
    BY ZeroFits DEF AtRest
  <2>2. runner' \in [Arms -> {"none", "stage", "first", "last", "ok", "failed"}]
        /\ trainer' \in [Arms -> {"none", "run", "ok", "failed"}]
    BY DEF AtRest, None
  <2> QED BY <2>1, <2>2 DEF PairInv, TypeOK, store
<1>2. Stages'
  BY DEF Stages, AtRest, None
<1>3. CommonStart'
  BY DEF CommonStart, None
<1>4. Receipted'
  <2>1. \A a \in Arms : trainer'[a] # "run"
    BY DEF AtRest, None
  <2> QED BY <2>1 DEF PairInv, Receipted, store
<1> QED BY <1>1, <1>2, <1>3, <1>4 DEF PairInv

LEMMA CountFits ==
  ASSUME PairInv, interrupts < MaxInterrupts, interrupts' = interrupts + 1
  PROVE  interrupts' \in 0..MaxInterrupts
<1>1. MaxInterrupts \in Nat /\ interrupts \in 0..MaxInterrupts
  BY Limits DEF PairInv, TypeOK
<1> QED BY <1>1

LEMMA SubmitKept == ASSUME PairInv, NEW m \in Modes, Submit(m) PROVE PairInv'
<1>1. AtRest' /\ runner' = None /\ mode' = m /\ pc' = "check"
  BY DEF PairInv, Stages, AtRest, Submit, procs
<1> QED BY <1>1, RestFollows DEF Submit, PairInv, TypeOK

LEMMA EndJobKept == ASSUME PairInv, EndJob PROVE PairInv'
<1>1. AtRest' /\ runner' = None /\ mode' \in Modes /\ pc' = "ended"
  BY DEF PairInv, TypeOK, AtRest, EndJob
<1> QED BY <1>1, RestFollows DEF EndJob, PairInv, TypeOK

LEMMA PreemptKept == ASSUME PairInv, Preempt PROVE PairInv'
<1>1. AtRest' /\ runner' = None /\ mode' \in Modes /\ pc' = "check"
  BY DEF PairInv, TypeOK, AtRest, Preempt
<1> QED BY <1>1, CountFits, RestFollows DEF Preempt

LEMMA BuildPreflightKept == ASSUME PairInv, BuildPreflight PROVE PairInv'
<1>1. UNCHANGED <<mode, pc, procs, ckpt, status, evidence, receipt, interrupts>>
  BY DEF BuildPreflight
<1>2. TypeOK'
  <2>1. preflight' \in BOOLEAN
    BY DEF BuildPreflight
  <2> QED BY <1>1, <2>1 DEF PairInv, TypeOK, procs
<1>3. Stages' /\ CommonStart' /\ Receipted'
  BY <1>1 DEF PairInv, Stages, AtRest, CommonStart, BeganAt, Receipted, procs
<1> QED BY <1>2, <1>3 DEF PairInv

LEMMA CheckKept == ASSUME PairInv, Check PROVE PairInv'
<1>1. /\ pc = "check" /\ pc' \in {"ended", "launch"}
      /\ UNCHANGED <<mode, procs, store, interrupts>>
      /\ mode = Protected /\ pc' = "launch" =>
           ckpt[Protected]["dense"] = ckpt[Protected]["split90"]
  BY DEF Check
<1>2. TypeOK'
  BY <1>1 DEF PairInv, TypeOK, procs, store
<1>3. Stages'
  BY <1>1 DEF PairInv, Stages, AtRest, procs
<1>4. CommonStart'
  <2>1. CASE mode = Protected /\ pc' = "launch"
    <3>1. \A a \in Arms : trainer'[a] = "none"
      BY <1>1 DEF PairInv, Stages, AtRest, None, procs
    <3>2. ckpt[Protected]["dense"] \in Nat
      <4>1. ckpt[Protected] \in [Arms -> Nat]
        BY Limits DEF PairInv, TypeOK
      <4> QED BY <4>1 DEF Arms
    <3>3. PICK c \in Nat : c = ckpt[Protected]["dense"]
      BY <3>2
    <3>4. \A a \in Arms : ckpt'[Protected][a] = c
      BY <1>1, <2>1, <3>3 DEF Arms, store
    <3>5. \A a \in Arms : BeganAt(c, a)'
      BY <3>1, <3>4 DEF BeganAt
    <3> QED BY <3>5 DEF CommonStart
  <2>2. CASE ~ (mode = Protected /\ pc' = "launch")
    <3>1. runner' = None
      BY <1>1 DEF PairInv, Stages, procs
    <3> QED BY <1>1, <2>2, <3>1 DEF CommonStart
  <2> QED BY <2>1, <2>2
<1>5. Receipted'
  BY <1>1 DEF PairInv, Receipted, procs, store
<1> QED BY <1>2, <1>3, <1>4, <1>5 DEF PairInv

LEMMA LaunchKept == ASSUME PairInv, Launch PROVE PairInv'
<1>1. /\ pc = "launch" /\ pc' = "wait dense" /\ runner' = [a \in Arms |-> "stage"]
      /\ AtRest' /\ trainer = None /\ mode' = mode
      /\ UNCHANGED <<ckpt, status, evidence, receipt, preflight, interrupts>>
  BY DEF PairInv, Stages, AtRest, Launch, store
<1>2. TypeOK'
  <2>1. {step', target', began'} \subseteq [Arms -> 0..Limit[mode']]
    BY <1>1, ZeroFits DEF AtRest, PairInv, TypeOK
  <2>2. trainer' \in [Arms -> {"none", "run", "ok", "failed"}]
    BY <1>1 DEF AtRest, None
  <2> QED BY <1>1, <2>1, <2>2 DEF PairInv, TypeOK
<1>3. Stages'
  BY <1>1 DEF Stages, AtRest, None, Arms
<1>4. CommonStart'
  <2>1. \A c, a : a \in Arms /\ BeganAt(c, a) => BeganAt(c, a)'
    BY <1>1 DEF BeganAt, AtRest, None
  <2> QED BY <1>1, <2>1 DEF PairInv, CommonStart
<1>5. Receipted'
  <2>1. \A a \in Arms : trainer'[a] # "run"
    BY <1>1 DEF AtRest, None
  <2> QED BY <1>1, <2>1 DEF PairInv, Receipted
<1> QED BY <1>2, <1>3, <1>4, <1>5 DEF PairInv

(* Runners end, in the script's hands or by a signal; the trainers run on. *)
LEMMA RunnersKept ==
  ASSUME PairInv, runner # None, pc' \notin {"check", "launch", "evidence"},
         UNCHANGED <<mode, trainer, target, step, began, store>>,
         runner' \in [Arms -> {"none", "stage", "first", "last", "ok", "failed"}],
         \A a \in Arms : runner'[a] \in {runner[a], "failed"},
         interrupts' \in 0..MaxInterrupts,
         pc' \in {"wait dense", "wait split90", "finalize", "ended"}
  PROVE  PairInv'
<1>1. TypeOK'
  BY DEF PairInv, TypeOK, store
<1>2. \A a \in Arms : runner'[a] # "none"
  BY DEF PairInv, Stages
<1>3. runner' # None
  BY <1>2 DEF None, Arms
<1>4. Stages'
  BY <1>2, <1>3 DEF PairInv, Stages
<1>5. CommonStart'
  BY DEF PairInv, CommonStart, BeganAt, store
<1>6. Receipted'
  BY DEF PairInv, Receipted, store
<1> QED BY <1>1, <1>4, <1>5, <1>6 DEF PairInv

LEMMA WaitKept == ASSUME PairInv, Wait PROVE PairInv'
<1>1. /\ pc' \in {"wait split90", "finalize"}
      /\ \E a \in Arms : runner[a] # "none"
      /\ runner' \in {runner, [runner EXCEPT !["split90"] = "failed"]}
      /\ UNCHANGED <<mode, trainer, target, step, began, store, interrupts>>
  BY DEF Wait, Exited, Arms
<1>2. runner # None
  BY <1>1 DEF None
<1>3. /\ runner' \in [Arms -> {"none", "stage", "first", "last", "ok", "failed"}]
      /\ \A a \in Arms : runner'[a] \in {runner[a], "failed"}
  BY <1>1 DEF PairInv, TypeOK
<1>4. interrupts' \in 0..MaxInterrupts
  BY <1>1 DEF PairInv, TypeOK
<1> QED BY <1>1, <1>2, <1>3, <1>4, RunnersKept

LEMMA TerminateKept == ASSUME PairInv, Terminate PROVE PairInv'
<1>1. runner # None
  BY DEF PairInv, Stages, Terminate
<1>2. /\ runner' \in [Arms -> {"none", "stage", "first", "last", "ok", "failed"}]
      /\ \A a \in Arms : runner'[a] \in {runner[a], "failed"}
  BY DEF PairInv, TypeOK, Terminate
<1>3. /\ UNCHANGED <<mode, trainer, target, step, began, store>>
      /\ pc' \in {"wait dense", "wait split90"}
  BY DEF Terminate
<1> QED BY <1>1, <1>2, <1>3, CountFits, RunnersKept DEF Terminate

(* A receipt is made of two checkpoints at the last step, whose trainers   *)
(* have ended.                                                             *)
LEMMA FinalizeKept == ASSUME PairInv, Finalize PROVE PairInv'
<1>1. /\ pc \in {"finalize", "evidence"} /\ pc' \in {"evidence", "ended"}
      /\ UNCHANGED <<mode, procs, ckpt, status, preflight, interrupts>>
      /\ runner # None
  BY DEF PairInv, Stages, Finalize
<1>2. \/ receipt' = receipt
      \/ /\ receipt' = ckpt[mode] /\ mode = Protected /\ Passed
         /\ \A a \in Arms : ckpt[mode][a] = Limit[mode]
  BY DEF Finalize
<1>3. \/ receipt' = receipt
      \/ /\ receipt' = Last /\ ckpt[Protected] = Last /\ mode = Protected
         /\ \A a \in Arms : trainer[a] # "run"
  <2>1. CASE receipt' = ckpt[mode] /\ mode = Protected /\ Passed
             /\ \A a \in Arms : ckpt[mode][a] = Limit[mode]
    <3>1. ckpt[Protected] \in [Arms -> Nat]
      BY Limits DEF PairInv, TypeOK
    <3>2. ckpt[Protected] = Last
      BY <2>1, <3>1 DEF Last
    <3>3. \A a \in Arms : trainer[a] = "ok"
      BY <2>1 DEF Passed, PairInv, Stages
    <3> QED BY <2>1, <3>2, <3>3
  <2> QED BY <1>2, <2>1
<1>4. TypeOK'
  <2>1. receipt' \in [Arms -> Nat]
    BY <1>3, Limits DEF PairInv, TypeOK
  <2>2. evidence' \in [Modes -> {"none", "completed", "failed"}]
    BY DEF Finalize, PairInv, TypeOK
  <2> QED BY <1>1, <2>1, <2>2 DEF PairInv, TypeOK, procs
<1>5. Stages'
  BY <1>1 DEF PairInv, Stages, AtRest, procs
<1>6. CommonStart'
  BY <1>1 DEF PairInv, CommonStart, BeganAt, procs
<1>7. Receipted'
  <2>1. receipt' # Zero => receipt' = Last /\ ckpt'[Protected] = Last
    BY <1>1, <1>3 DEF PairInv, Receipted
  <2>2. pc' = "evidence" => mode' = Protected /\ receipt' = Last
    <3>1. SUFFICES ASSUME pc' = "evidence" PROVE mode' = Protected /\ receipt' = Last
      OBVIOUS
    <3>2. mode = Protected /\ receipt = Zero /\ receipt' = ckpt[mode]
          /\ \A a \in Arms : ckpt[mode][a] = Limit[mode]
      BY <3>1 DEF Finalize
    <3>3. ckpt[Protected] \in [Arms -> Nat]
      BY Limits DEF PairInv, TypeOK
    <3>4. ckpt[Protected] = Last
      BY <3>2, <3>3 DEF Last
    <3> QED BY <1>1, <3>2, <3>4
  <2>3. evidence'[Protected] = "completed" => receipt' = Last
    <3>1. CASE UNCHANGED evidence
      BY <1>3, <3>1 DEF PairInv, Receipted
    <3>2. CASE mode # Protected /\ evidence' = [evidence EXCEPT ![mode] =
                                      IF Passed THEN "completed" ELSE "failed"]
      <4>1. evidence'[Protected] = evidence[Protected]
        BY <3>2, Limits DEF PairInv, TypeOK
      <4> QED BY <1>3, <4>1 DEF PairInv, Receipted
    <3>3. CASE pc = "evidence" /\ UNCHANGED receipt
      BY <3>3 DEF PairInv, Receipted
    <3>4. CASE mode = Protected /\ ~ Passed
               /\ evidence' = [evidence EXCEPT ![mode] =
                                 IF Passed THEN "completed" ELSE "failed"]
      BY <3>4, Limits DEF PairInv, TypeOK
    <3> QED BY <3>1, <3>2, <3>3, <3>4 DEF Finalize
  <2>4. receipt' # Zero /\ mode' = Protected =>
          \A a \in Arms : trainer'[a] = "run" => step'[a] = Limit[Protected]
    BY <1>1, <1>3 DEF PairInv, Receipted, procs
  <2> QED BY <2>1, <2>2, <2>3, <2>4 DEF Receipted
<1> QED BY <1>4, <1>5, <1>6, <1>7 DEF PairInv

-----------------------------------------------------------------------------
(* The steps of an arm.  A stage begins at the arm's checkpoint, which in  *)
(* the protected run is the common one.                                    *)
LEMMA StartKept ==
  ASSUME PairInv, NEW a \in Arms, NEW k \in {1, 2}, Start(a, k),
         k = 1 => mode = "resume",
         \/ runner[a] = "stage"
         \/ runner[a] = "first" /\ trainer[a] = "ok",
         UNCHANGED <<mode, pc, store, interrupts>>
  PROVE  PairInv'
<1> DEFINE from == Resume(a, k)
           stage == IF k = 1 THEN "first" ELSE "last"
           goal  == IF k = 1 THEN 1 ELSE Limit[mode]
<1>1. /\ runner' = [runner EXCEPT ![a] = stage] /\ stage \in {"first", "last"}
      /\ trainer' = [trainer EXCEPT ![a] = "run"]
      /\ target' = [target EXCEPT ![a] = goal]
      /\ step' = [step EXCEPT ![a] = from] /\ began' = [began EXCEPT ![a] = from]
  BY DEF Start
<1>2. from \in 0..Limit[mode] /\ goal \in 0..Limit[mode]
  <2>1. mode \in Modes /\ Limit[mode] \in Nat /\ Limit[mode] >= 1
    BY Limits DEF PairInv, TypeOK
  <2>2. ckpt[mode][a] \in Nat /\ ckpt[mode][a] <= Limit[mode]
    BY <2>1 DEF PairInv, TypeOK
  <2> QED BY <2>1, <2>2 DEF Resume
<1>3. mode = Protected => k = 2 /\ from = ckpt[Protected][a]
  BY Limits DEF Resume
<1> HIDE DEF from, goal, stage
<1>4. TypeOK'
  <2>1. target' \in [Arms -> 0..Limit[mode]] /\ step' \in [Arms -> 0..Limit[mode]]
        /\ began' \in [Arms -> 0..Limit[mode]]
    BY <1>1, <1>2 DEF PairInv, TypeOK
  <2>2. /\ runner' \in [Arms -> {"none", "stage", "first", "last", "ok", "failed"}]
        /\ trainer' \in [Arms -> {"none", "run", "ok", "failed"}]
    BY <1>1 DEF PairInv, TypeOK
  <2> QED BY <2>1, <2>2 DEF PairInv, TypeOK, store
<1>5. Stages'
  <2>1. runner # None
    BY DEF None
  <2>2. \A b \in Arms : runner'[b] # "none"
    BY <1>1, <2>1 DEF PairInv, Stages, TypeOK
  <2>3. runner' # None
    BY <2>2 DEF None
  <2>4. pc' \notin {"check", "launch"}
    BY <2>1 DEF PairInv, Stages
  <2>5. \A b \in Arms : /\ runner'[b] = "stage" => trainer'[b] = "none"
                        /\ runner'[b] = "first" => mode' = "resume"
                        /\ runner'[b] = "ok" => trainer'[b] = "ok"
    BY <1>1 DEF PairInv, Stages, TypeOK, stage
  <2> QED BY <2>2, <2>3, <2>4, <2>5 DEF Stages
<1>6. CommonStart'
  <2>1. SUFFICES ASSUME mode = Protected
                 PROVE  \E c \in Nat : \A b \in Arms : BeganAt(c, b)'
    BY DEF CommonStart
  <2>2. runner # None
    BY DEF None
  <2>3. PICK c \in Nat : \A b \in Arms : BeganAt(c, b)
    BY <2>1, <2>2 DEF PairInv, CommonStart
  <2>4. runner[a] = "stage" /\ trainer[a] = "none"
    BY <2>1, Limits DEF PairInv, Stages
  <2>5. from = c
    BY <1>3, <2>1, <2>3, <2>4 DEF BeganAt
  <2>6. \A b \in Arms : BeganAt(c, b)'
    BY <1>1, <2>3, <2>5 DEF BeganAt, PairInv, TypeOK, store
  <2> QED BY <2>6
<1>7. Receipted'
  <2>1. receipt # Zero /\ mode = Protected => step'[a] = Limit[Protected]
    BY <1>1, <1>3 DEF PairInv, Receipted, TypeOK, Last
  <2>2. \A b \in Arms \ {a} : trainer'[b] = trainer[b] /\ step'[b] = step[b]
    BY <1>1 DEF PairInv, TypeOK
  <2> QED BY <2>1, <2>2 DEF PairInv, Receipted, store
<1> QED BY <1>4, <1>5, <1>6, <1>7 DEF PairInv

LEMMA StartStageKept == ASSUME PairInv, NEW a \in Arms, StartStage(a) PROVE PairInv'
<1>1. CASE runner[a] = "stage" /\ Start(a, IF mode = "resume" THEN 1 ELSE 2)
  BY <1>1, StartKept DEF StartStage
<1>2. CASE runner[a] = "first" /\ trainer[a] = "ok" /\ Start(a, 2)
  BY <1>2, StartKept DEF StartStage
<1> QED BY <1>1, <1>2 DEF StartStage

LEMMA FinishArmKept == ASSUME PairInv, NEW a \in Arms, FinishArm(a) PROVE PairInv'
<1>1. /\ runner[a] \in {"first", "last"}
      /\ runner' \in {[runner EXCEPT ![a] = "ok"], [runner EXCEPT ![a] = "failed"]}
      /\ runner'[a] = "ok" => trainer[a] = "ok"
      /\ UNCHANGED <<mode, pc, trainer, target, step, began, ckpt, evidence,
                     receipt, preflight, interrupts>>
  BY DEF FinishArm, ArmStatus, PairInv, TypeOK
<1>2. TypeOK'
  <2>1. status' \in [Modes -> [Arms -> {"none", "completed", "failed"}]]
    <3>1. ArmStatus(a) \in {"none", "completed", "failed"}
      BY DEF ArmStatus
    <3> QED BY <3>1 DEF FinishArm, PairInv, TypeOK
  <2>2. runner' \in [Arms -> {"none", "stage", "first", "last", "ok", "failed"}]
    BY <1>1 DEF PairInv, TypeOK
  <2> QED BY <1>1, <2>1, <2>2 DEF PairInv, TypeOK
<1>3. runner # None
  BY <1>1 DEF None
<1>4. \A b \in Arms : runner'[b] # "none" /\ (b # a => runner'[b] = runner[b])
  BY <1>1, <1>3 DEF PairInv, Stages, TypeOK
<1>5. runner' # None
  BY <1>4 DEF None, Arms
<1>6. Stages'
  <2>1. pc' \notin {"check", "launch"}
    BY <1>1, <1>3 DEF PairInv, Stages
  <2>2. runner'[a] \in {"ok", "failed"}
    BY <1>1 DEF PairInv, TypeOK
  <2>3. \A b \in Arms : /\ runner'[b] = "stage" => trainer'[b] = "none"
                        /\ runner'[b] = "first" => mode' = "resume"
                        /\ runner'[b] = "ok" => trainer'[b] = "ok"
    BY <1>1, <1>4, <2>2 DEF PairInv, Stages
  <2> QED BY <1>4, <1>5, <2>1, <2>3 DEF Stages
<1>7. CommonStart'
  BY <1>1, <1>3 DEF PairInv, CommonStart, BeganAt
<1>8. Receipted'
  BY <1>1 DEF PairInv, Receipted
<1> QED BY <1>2, <1>6, <1>7, <1>8 DEF PairInv

(* What a trainer writes: the checkpoint of its own mode, and in the       *)
(* protected run under a receipt what is there already.                    *)
LEMMA TrainKept == ASSUME PairInv, NEW a \in Arms, Train(a) PROVE PairInv'
<1>1. /\ trainer[a] = "run" /\ trainer' \in {trainer, [trainer EXCEPT ![a] = "ok"]}
      /\ UNCHANGED <<mode, pc, runner, target, began, status, evidence, receipt,
                     preflight, interrupts>>
  BY DEF Train
<1>2. runner # None /\ runner[a] # "ok" /\ runner[a] # "stage"
  BY <1>1 DEF PairInv, Stages, AtRest, None
<1>3. PICK s \in 0..Limit[mode] :
        /\ step' = step \/ step' = [step EXCEPT ![a] = s]
        /\ ckpt' = ckpt \/ ckpt' = [ckpt EXCEPT ![mode][a] = s]
        /\ receipt # Zero /\ mode = Protected => s = Limit[Protected] /\ step' = step
  <2>1. step[a] \in 0..Limit[mode] /\ target[a] \in 0..Limit[mode]
        /\ mode \in Modes /\ Limit[mode] \in Nat
    BY Limits DEF PairInv, TypeOK
  <2>2. receipt # Zero /\ mode = Protected => step[a] = Limit[Protected]
    BY <1>1 DEF PairInv, Receipted
  <2>3. CASE step[a] < target[a]
    <3>1. step[a] + 1 \in 0..Limit[mode]
      BY <2>1, <2>3
    <3>2. ~ (receipt # Zero /\ mode = Protected)
      BY <2>1, <2>2, <2>3
    <3>3. /\ step' = [step EXCEPT ![a] = step[a] + 1]
          /\ ckpt' = ckpt \/ ckpt' = [ckpt EXCEPT ![mode][a] = step[a] + 1]
      BY <2>1, <2>3 DEF Train
    <3> QED BY <3>1, <3>2, <3>3
  <2>4. CASE ~ (step[a] < target[a])
    <3>1. step' = step /\ ckpt' = [ckpt EXCEPT ![mode][a] = step[a]]
      BY <2>4 DEF Train
    <3> QED BY <2>1, <2>2, <3>1
  <2> QED BY <2>3, <2>4
<1>4. \A m \in Modes, b \in Arms :
        ckpt'[m][b] = ckpt[m][b] \/ (m = mode /\ b = a /\ ckpt'[m][b] = s)
  <2>1. ckpt \in [Modes -> [Arms -> Nat]] /\ mode \in Modes
    BY DEF PairInv, TypeOK
  <2>2. CASE ckpt' = ckpt
    BY <2>2
  <2>3. CASE ckpt' = [ckpt EXCEPT ![mode][a] = s]
    BY <2>1, <2>3
  <2> QED BY <1>3, <2>2, <2>3
<1>5. TypeOK'
  <2>1. step' \in [Arms -> 0..Limit[mode]]
    BY <1>3 DEF PairInv, TypeOK
  <2>2. mode \in Modes /\ s \in Nat /\ s <= Limit[mode]
    <3>1. mode \in Modes /\ Limit[mode] \in Nat
      BY Limits DEF PairInv, TypeOK
    <3> QED BY <3>1
  <2>3. ckpt' \in [Modes -> [Arms -> Nat]]
    <3>1. ckpt \in [Modes -> [Arms -> Nat]]
      BY DEF PairInv, TypeOK
    <3> QED BY <1>3, <2>2, <3>1
  <2>4. \A m \in Modes, b \in Arms : ckpt'[m][b] <= Limit[m]
    BY <1>4, <2>2 DEF PairInv, TypeOK
  <2>5. trainer' \in [Arms -> {"none", "run", "ok", "failed"}]
    BY <1>1 DEF PairInv, TypeOK
  <2> QED BY <1>1, <2>1, <2>3, <2>4, <2>5 DEF PairInv, TypeOK
<1>6. Stages'
  <2>1. \A b \in Arms : trainer'[b] = trainer[b] \/ b = a
    BY <1>1 DEF PairInv, TypeOK
  <2>2. \A b \in Arms : /\ runner'[b] = "stage" => trainer'[b] = "none"
                        /\ runner'[b] = "first" => mode' = "resume"
                        /\ runner'[b] = "ok" => trainer'[b] = "ok"
    BY <1>1, <1>2, <2>1 DEF PairInv, Stages
  <2> QED BY <1>1, <1>2, <2>2 DEF PairInv, Stages
<1>7. CommonStart'
  <2>1. SUFFICES ASSUME mode = Protected
                 PROVE  \E c \in Nat : \A b \in Arms : BeganAt(c, b)'
    BY <1>1 DEF CommonStart
  <2>2. PICK c \in Nat : \A b \in Arms : BeganAt(c, b)
    BY <1>2, <2>1 DEF PairInv, CommonStart
  <2>3. ASSUME NEW b \in Arms PROVE BeganAt(c, b)'
    <3>1. CASE b = a
      <4>1. trainer'[a] # "none"
        BY <1>1 DEF PairInv, TypeOK
      <4> QED BY <1>1, <2>2, <3>1, <4>1 DEF BeganAt
    <3>2. CASE b # a
      <4>1. trainer'[b] = trainer[b]
        BY <1>1, <3>2 DEF PairInv, TypeOK
      <4>2. ckpt'[Protected][b] = ckpt[Protected][b]
        BY <1>4, <3>2, Limits
      <4> QED BY <1>1, <2>2, <4>1, <4>2 DEF BeganAt
    <3> QED BY <3>1, <3>2
  <2> QED BY <2>3
<1>8. Receipted'
  <2>1. receipt # Zero => ckpt'[Protected] = Last
    <3>1. SUFFICES ASSUME receipt # Zero PROVE ckpt'[Protected] = Last
      OBVIOUS
    <3>2. ckpt[Protected] = Last
      BY <3>1 DEF PairInv, Receipted
    <3>3. \A b \in Arms : ckpt'[Protected][b] = Last[b]
      BY <1>3, <1>4, <3>1, <3>2, Limits DEF Last
    <3>4. ckpt'[Protected] \in [Arms -> Nat]
      BY <1>5, Limits DEF TypeOK
    <3> QED BY <3>3, <3>4, Limits
  <2>2. receipt # Zero /\ mode = Protected =>
          \A b \in Arms : trainer'[b] = "run" => step'[b] = Limit[Protected]
    BY <1>1, <1>3 DEF PairInv, Receipted, TypeOK
  <2> QED BY <1>1, <2>1, <2>2 DEF PairInv, Receipted
<1> QED BY <1>5, <1>6, <1>7, <1>8 DEF PairInv

LEMMA TrainerDiesKept == ASSUME PairInv, NEW a \in Arms, TrainerDies(a) PROVE PairInv'
<1>1. /\ trainer[a] = "run" /\ trainer' = [trainer EXCEPT ![a] = "failed"]
      /\ UNCHANGED <<mode, pc, runner, target, step, began, store>>
  BY DEF TrainerDies
<1>2. \A b \in Arms : trainer'[b] = IF b = a THEN "failed" ELSE trainer[b]
  BY <1>1 DEF PairInv, TypeOK
<1>3. TypeOK'
  <2>1. interrupts' \in 0..MaxInterrupts
    BY CountFits DEF TrainerDies
  <2>2. trainer' \in [Arms -> {"none", "run", "ok", "failed"}]
    BY <1>1 DEF PairInv, TypeOK
  <2> QED BY <1>1, <2>1, <2>2 DEF PairInv, TypeOK, store
<1>4. Stages'
  <2>1. runner # None
    BY <1>1 DEF PairInv, Stages, AtRest, None
  <2> QED BY <1>1, <1>2, <2>1 DEF PairInv, Stages
<1>5. CommonStart'
  BY <1>1, <1>2 DEF PairInv, CommonStart, BeganAt, store
<1>6. Receipted'
  BY <1>1, <1>2 DEF PairInv, Receipted, store
<1> QED BY <1>3, <1>4, <1>5, <1>6 DEF PairInv

LEMMA PairStep == ASSUME PairInv, [Next]_vars PROVE PairInv'
<1>1. CASE UNCHANGED vars
  <2>1. TypeOK' /\ Stages' /\ CommonStart' /\ Receipted'
    BY <1>1 DEF PairInv, vars, TypeOK, Stages, AtRest, CommonStart, BeganAt, Receipted
  <2> QED BY <2>1 DEF PairInv
<1>2. CASE Next
  BY <1>2, CheckKept, LaunchKept, WaitKept, FinalizeKept, EndJobKept, PreemptKept,
     TerminateKept, BuildPreflightKept, StartStageKept, FinishArmKept, TrainKept,
     TrainerDiesKept, SubmitKept DEF Next, Job, Arm
<1> QED BY <1>1, <1>2

-----------------------------------------------------------------------------
(* Every variable holds a value of its kind.                               *)
THEOREM TypeCorrect == Spec => []TypeOK
<1>1. PairInv => TypeOK
  BY DEF PairInv
<1> QED BY <1>1, PairInit, PairStep, PTL DEF Spec

(* The arms of a protected run train from one common step; complete        *)
(* evidence stands for a receipt of the last step, and no later job moves  *)
(* the checkpoints away from their receipt (run_135m_pair.py finalize,     *)
(* check_135m_pair_resume.py).                                             *)
THEOREM CompletedAlwaysPaired == Spec => []CompletedIsPaired
<1>1. ASSUME PairInv PROVE CompletedIsPaired
  <2>1. PairedStart
    <3>1. SUFFICES ASSUME mode = Protected, \A a \in Arms : trainer[a] # "none"
                   PROVE  began["dense"] = began["split90"]
      BY DEF PairedStart
    <3>2. runner # None
      BY <1>1, <3>1 DEF PairInv, Stages, AtRest, None, Arms
    <3>3. PICK c \in Nat : \A a \in Arms : BeganAt(c, a)
      BY <1>1, <3>1, <3>2 DEF PairInv, CommonStart
    <3> QED BY <3>1, <3>3 DEF BeganAt, Arms
  <2>2. evidence[Protected] = "completed" => \A a \in Arms : receipt[a] = Limit[Protected]
    BY <1>1 DEF PairInv, Receipted, Last
  <2>3. receipt # Zero => ckpt[Protected] = receipt
    BY <1>1 DEF PairInv, Receipted
  <2> QED BY <2>1, <2>2, <2>3 DEF CompletedIsPaired
<1> QED BY <1>1, PairInit, PairStep, PTL DEF Spec
=============================================================================
