------------------------- MODULE RelationalEvaluation -------------------------
(***************************************************************************)
(* The evaluation of a paired relational run of the 160m tier, from a      *)
(* checkpoint to the verdict: scripts/run_relational_evals.py with         *)
(* evals/relational_pairing.py and the publisher of relational_contracts,  *)
(* and scripts/analyze_relational.py over what they leave.                 *)
(*                                                                         *)
(*   trees      run/evals/<checkpoint>/ of both arms, renamed from a       *)
(*              private staging directory under an O_EXCL lock             *)
(*   receipts   evals/pairing-receipt.json of the Split run: one place     *)
(*   reports    evals/guardrail-report.json of the Split run: one place    *)
(*   locks      the .publish.lock files; a kill leaves them                *)
(*   verdicts   the analysis bundle                                        *)
(*                                                                         *)
(* A checkpoint is its arm and its multiple of tokens per parameter; one   *)
(* is trained at each.  A file's bytes are what they are computed from:    *)
(* the checkpoint and the identity, which is the version of the            *)
(* evaluator's sources and that of the data when the call began.  Scores,  *)
(* formats, symbolic links and directories swapped under a call are left   *)
(* out, as are the staging directories a kill leaves, which nobody reads.  *)
(***************************************************************************)
EXTENDS Naturals, FiniteSets

CONSTANTS
  Evaluators,      \* processes that run the evaluation
  Analysts,        \* processes that run the analysis
  Multiples,       \* of tokens per parameter at which checkpoints are frozen
  Frozen,          \* the one the run manifest freezes
  Controls,        \* how many causal controls there are; the first is "correct"
  MaxKills,        \* bound on kills
  MaxChanges       \* bound on changes of the sources and the data

ASSUME StudyAssumption ==
  /\ Multiples \subseteq Nat \ {0} /\ Frozen \in Multiples
  /\ Controls \in Nat \ {0} /\ MaxKills \in Nat /\ MaxChanges \in Nat

VARIABLES
  env,             \* the sources and the data as they are
  trees, receipts, reports, locks, verdicts,
  pc, own,         \* an evaluator's step and its local variables
  loaded,          \* what an analyst has loaded, none or one pair
  kills, changes

vars == <<env, trees, receipts, reports, locks, verdicts, pc, own, loaded,
          kills, changes>>

Arms  == {"split", "dense"}
Modes == {"memory_on", "memory_off"}
Matrix == Modes \X (1..Controls)
Identities == [evaluator : 0..MaxChanges, data : 0..MaxChanges]
Parts == {"control-transformations", "guardrail", "exact-matrix-manifest"}

TreeLock(a, m) == <<"tree", a, m>>
ReceiptLock    == <<"receipt", "split", 0>>
ReportLock     == <<"report", "split", 0>>

Idle == [arm |-> "none", mult |-> 0,
         id |-> [evaluator |-> 0, data |-> 0],
         cells |-> {}, parts |-> {}, history |-> {}, done |-> 0]

Init ==
  /\ env = [evaluator |-> 0, data |-> 0]
  /\ trees = {} /\ receipts = {} /\ reports = {} /\ locks = {} /\ verdicts = {}
  /\ pc = [e \in Evaluators |-> "idle"] /\ own = [e \in Evaluators |-> Idle]
  /\ loaded = [a \in Analysts |-> {}]
  /\ kills = 0 /\ changes = 0

published == <<trees, receipts, reports, verdicts>>
bounds    == <<kills, changes>>

HasTree(a, m) == \E t \in trees : t.arm = a /\ t.mult = m

(* A tree holds a cell for each memory mode and control and its three      *)
(* files, under one identity: what every reader of a tree checks first.    *)
CellsWhole(t) == t.cells = Matrix
Whole(t) == CellsWhole(t) /\ t.parts = Parts

Goto(e, next) == pc' = [pc EXCEPT ![e] = next]

(* The call returns or raises; its staging directory is removed.           *)
Leave(e) == pc' = [pc EXCEPT ![e] = "idle"] /\ own' = [own EXCEPT ![e] = Idle]

-----------------------------------------------------------------------------
(* main: load the checkpoint, bind the inputs by their digests, refuse a   *)
(* checkpoint whose tree is there.  The Dense checkpoint a Split call      *)
(* names is read only when its receipt is built, and is chosen there.      *)
StartOn(e, a, m) ==
  /\ pc[e] = "idle" /\ ~ HasTree(a, m)
  /\ own' = [own EXCEPT ![e] = [Idle EXCEPT !.arm = a, !.mult = m, !.id = env]]
  /\ Goto(e, "decode")
  /\ UNCHANGED <<env, published, locks, loaded, bounds>>

Start(e) == \E a \in Arms, m \in Multiples : StartOn(e, a, m)

(* The frozen checkpoints of this run evaluated under this identity; a     *)
(* tree of another identity is passed over.                                *)
History(e) == {t.mult : t \in {s \in trees : /\ s.arm = own[e].arm
                                             /\ s.mult # own[e].mult
                                             /\ s.id = own[e].id /\ Whole(s)}}

InOrderOrFirst(e) == History(e) = {k \in Multiples : k <= own[e].mult}

InOrder(e) == History(e) = {k \in Multiples : k < own[e].mult}

(* One control: its items are decoded with and without memory, and the two *)
(* cells published in the staging directory.  After the first one the      *)
(* evaluator looks at the checkpoints before this one.                     *)
PublishCells(e) ==
  /\ pc[e] = "decode" /\ own[e].done < Controls
  /\ IF own[e].done = 0 /\ ~ InOrder(e)
     THEN Leave(e)
     ELSE /\ own' = [own EXCEPT
                       ![e].cells = @ \cup (Modes \X {own[e].done + 1}),
                       ![e].history = IF own[e].done = 0 THEN History(e) ELSE @,
                       ![e].done = @ + 1]
          /\ UNCHANGED pc
  /\ UNCHANGED <<env, published, locks, loaded, bounds>>

(* The table of transformations, the guardrail measurements and the        *)
(* manifest over all cells.                                                *)
WriteExactMatrixManifest(e) ==
  /\ pc[e] = "decode" /\ own[e].cells = Matrix
  /\ own' = [own EXCEPT ![e].parts = Parts]
  /\ Goto(e, "verify")
  /\ UNCHANGED <<env, published, locks, loaded, bounds>>

BoundInputsHold(e) == env = own[e].id

VerifyBoundInputs(e) ==
  /\ pc[e] = "verify"
  /\ IF BoundInputsHold(e) THEN Goto(e, "look") /\ UNCHANGED own ELSE Leave(e)
  /\ UNCHANGED <<env, published, locks, loaded, bounds>>

-----------------------------------------------------------------------------
(* _promote_checkpoint_tree: look, lock, rename without replacing, unlock. *)
Look(e) ==
  /\ pc[e] = "look"
  /\ IF HasTree(own[e].arm, own[e].mult)
     THEN Leave(e) ELSE Goto(e, "lock") /\ UNCHANGED own
  /\ UNCHANGED <<env, published, locks, loaded, bounds>>

OwnTreeLock(e) == TreeLock(own[e].arm, own[e].mult)

(* O_CREAT | O_EXCL: a lock file that is there is an error, not a wait.    *)
Take(e, lock, next) ==
  IF lock \in locks
  THEN Leave(e) /\ UNCHANGED locks
  ELSE locks' = locks \cup {lock} /\ Goto(e, next) /\ UNCHANGED own

Lock(e) ==
  /\ pc[e] = "lock" /\ Take(e, OwnTreeLock(e), "promote")
  /\ UNCHANGED <<env, published, loaded, bounds>>

StagedTree(e) == [arm |-> own[e].arm, mult |-> own[e].mult, id |-> own[e].id,
                  cells |-> own[e].cells, parts |-> own[e].parts,
                  history |-> own[e].history]

PromoteReplacing(e) ==
  /\ pc[e] = "promote"
  /\ trees' = {t \in trees : t.arm # own[e].arm \/ t.mult # own[e].mult}
                \cup {StagedTree(e)}
  /\ Goto(e, "unlock")
  /\ UNCHANGED <<env, receipts, reports, verdicts, own, locks, loaded, bounds>>

Promote(e) ==
  /\ pc[e] = "promote"
  /\ IF HasTree(own[e].arm, own[e].mult)
     THEN locks' = locks \ {OwnTreeLock(e)} /\ Leave(e) /\ UNCHANGED trees
     ELSE trees' = trees \cup {StagedTree(e)} /\ Goto(e, "unlock")
            /\ UNCHANGED <<own, locks>>
  /\ UNCHANGED <<env, receipts, reports, verdicts, loaded, bounds>>

Unlock(e) ==
  /\ pc[e] = "unlock" /\ locks' = locks \ {OwnTreeLock(e)}
  /\ IF own[e].arm = "split" THEN Goto(e, "pair") /\ UNCHANGED own ELSE Leave(e)
  /\ UNCHANGED <<env, published, loaded, bounds>>

-----------------------------------------------------------------------------
(* publish_checkpoint_pairing_receipt: both trees are validated and must   *)
(* share their multiple and identity; then the one receipt of the run is   *)
(* linked under its final name.  The Dense checkpoint d named by the call  *)
(* may have no tree, or not the one of this checkpoint.                    *)
OwnPair(e) == [mult |-> own[e].mult, id |-> own[e].id]

DenseFitsAnyIdentity(e, d) == \E t \in trees : /\ t.arm = "dense" /\ t.mult = d
                                            /\ t.mult = own[e].mult /\ Whole(t)

DenseFits(e, d) == \E t \in trees : /\ t.arm = "dense" /\ t.mult = d
                                 /\ t.mult = own[e].mult /\ t.id = own[e].id
                                 /\ Whole(t)

BuildReceipt(e) ==
  /\ pc[e] = "pair"
  /\ \E d \in Multiples :
       IF DenseFits(e, d) /\ receipts = {}
       THEN Goto(e, "receipt") /\ UNCHANGED own ELSE Leave(e)
  /\ UNCHANGED <<env, published, locks, loaded, bounds>>

LockReceipt(e) ==
  /\ pc[e] = "receipt" /\ Take(e, ReceiptLock, "link")
  /\ UNCHANGED <<env, published, loaded, bounds>>

LinkReceipt(e) ==
  /\ pc[e] = "link"
  /\ IF receipts = {}
     THEN receipts' = {OwnPair(e)} /\ Goto(e, "linked") /\ UNCHANGED <<own, locks>>
     ELSE locks' = locks \ {ReceiptLock} /\ Leave(e) /\ UNCHANGED receipts
  /\ UNCHANGED <<env, trees, reports, verdicts, loaded, bounds>>

UnlockReceipt(e) ==
  /\ pc[e] = "linked" /\ locks' = locks \ {ReceiptLock} /\ Goto(e, "build")
  /\ UNCHANGED <<env, published, own, loaded, bounds>>

-----------------------------------------------------------------------------
(* publish_confirmatory_guardrail_report: built from both trees and the    *)
(* receipt, which must be the one for these trees; the evaluator's sources *)
(* must be those of the trees, when it is built and again under the lock.  *)
ReportHolds(e) == OwnPair(e) \in receipts /\ env.evaluator = own[e].id.evaluator

BuildReport(e) ==
  /\ pc[e] = "build"
  /\ IF ReportHolds(e) /\ reports = {}
     THEN Goto(e, "report") /\ UNCHANGED own ELSE Leave(e)
  /\ UNCHANGED <<env, published, locks, loaded, bounds>>

LockReport(e) ==
  /\ pc[e] = "report" /\ Take(e, ReportLock, "rename")
  /\ UNCHANGED <<env, published, loaded, bounds>>

RenameReport(e) ==
  /\ pc[e] = "rename"
  /\ IF ReportHolds(e) /\ reports = {}
     THEN reports' = {OwnPair(e)} /\ Goto(e, "reported") /\ UNCHANGED <<own, locks>>
     ELSE locks' = locks \ {ReportLock} /\ Leave(e) /\ UNCHANGED reports
  /\ UNCHANGED <<env, trees, receipts, verdicts, loaded, bounds>>

UnlockReport(e) ==
  /\ pc[e] = "reported" /\ locks' = locks \ {ReportLock} /\ Leave(e)
  /\ UNCHANGED <<env, published, loaded, bounds>>

-----------------------------------------------------------------------------
(* A call is killed anywhere: what it has published and its lock stay.     *)
Kill(e) ==
  /\ pc[e] # "idle" /\ kills < MaxKills /\ kills' = kills + 1
  /\ Leave(e)
  /\ UNCHANGED <<env, published, locks, loaded, changes>>

(* Somebody edits the evaluator's sources or the data.                     *)
Change ==
  /\ changes < MaxChanges /\ changes' = changes + 1
  /\ \E f \in {"evaluator", "data"} : env' = [env EXCEPT ![f] = @ + 1]
  /\ UNCHANGED <<published, locks, pc, own, loaded, kills>>

-----------------------------------------------------------------------------
(* The analysis: an eval directory that holds anything but trees, receipt  *)
(* and report is refused; of each arm the tree of the frozen multiple is   *)
(* selected, and receipt and report must be those of exactly these two.    *)
FrozenPairs == {[mult |-> Frozen, id |-> t.id] : t \in {s \in trees : s.mult = Frozen}}

BoundPair(p) ==
  /\ p \in receipts /\ p \in reports
  /\ \A a \in Arms : \E t \in trees : /\ t.arm = a /\ t.mult = p.mult
                                        /\ t.id = p.id

LoadCompleteRuns(a) ==
  /\ loaded[a] = {} /\ locks = {} /\ \A t \in trees : Whole(t)
  /\ \E p \in FrozenPairs : BoundPair(p) /\ loaded' = [loaded EXCEPT ![a] = {p}]
  /\ UNCHANGED <<env, published, locks, pc, own, bounds>>

(* The bundle is renamed into place unless one is there.                   *)
PublishAnalysis(a) ==
  /\ loaded[a] # {} /\ verdicts = {} /\ verdicts' = loaded[a]
  /\ UNCHANGED <<env, trees, receipts, reports, locks, pc, own, loaded,
                 bounds>>

Process(e) ==
  \/ PublishCells(e) \/ WriteExactMatrixManifest(e) \/ VerifyBoundInputs(e)
  \/ Look(e) \/ Lock(e) \/ Promote(e) \/ Unlock(e)
  \/ BuildReceipt(e) \/ LockReceipt(e) \/ LinkReceipt(e) \/ UnlockReceipt(e)
  \/ BuildReport(e) \/ LockReport(e) \/ RenameReport(e) \/ UnlockReport(e)

Next ==
  \/ \E e \in Evaluators : Start(e) \/ Process(e) \/ Kill(e)
  \/ \E a \in Analysts : LoadCompleteRuns(a) \/ PublishAnalysis(a)
  \/ Change

Spec == Init /\ [][Next]_vars

(* A call that runs goes on; the operator evaluates each checkpoint again  *)
(* until its tree is there.                                                *)
Pending(a, m) == \E e \in Evaluators : StartOn(e, a, m)

FairSpec ==
  /\ Spec
  /\ \A e \in Evaluators : WF_vars(Process(e))
  /\ \A a \in Arms, m \in Multiples : SF_vars(Pending(a, m))

-----------------------------------------------------------------------------
(* Every tree on disk is whole and is preceded by the trees of all smaller *)
(* multiples of its arm, of its identity: the history its milestones were  *)
(* computed from is there to be seen, whatever calls raced and whenever    *)
(* the sources or the data changed (_milestone_crossings_for_cell).        *)
TreesInOrder ==
  \A t \in trees :
    /\ Whole(t) /\ t.history = {k \in Multiples : k < t.mult}
    /\ \A s \in trees : s.arm = t.arm /\ s.mult = t.mult => s = t
    /\ \A k \in t.history :
         \E s \in trees : s.arm = t.arm /\ s.mult = k /\ s.id = t.id

(* A receipt, a report and a verdict are about two trees that are there,   *)
(* of both arms, one multiple and one identity, each with its history; a   *)
(* report needs the receipt and a verdict both                             *)
(* (publish_checkpoint_pairing_receipt,                                    *)
(* build_confirmatory_guardrail_report, _validate_bound_guardrail_report). *)
ReceiptStands ==
  /\ TreesInOrder
  /\ \A p \in receipts : \A a \in Arms :
       \E t \in trees : t.arm = a /\ t.mult = p.mult /\ t.id = p.id
  /\ reports \subseteq receipts /\ verdicts \subseteq reports
  /\ \A p \in verdicts : p.mult = Frozen

Holds(e, lock) ==
  \/ lock = OwnTreeLock(e) /\ pc[e] \in {"promote", "unlock"}
  \/ lock = ReceiptLock /\ pc[e] \in {"link", "linked"}
  \/ lock = ReportLock /\ pc[e] \in {"rename", "reported"}

Orphaned(lock) == lock \in locks /\ \A e \in Evaluators : ~ Holds(e, lock)

(* Each checkpoint gets its tree, unless a killed call left the lock of    *)
(* its tree or of an earlier one, or an earlier one is there under another *)
(* identity, after which the order can never be met again                  *)
(* (_promote_checkpoint_tree, _milestone_crossings_for_cell).              *)
Wedged(a, m) ==
  \/ \E k \in Multiples : k <= m /\ Orphaned(TreeLock(a, k))
  \/ \E t \in trees : t.arm = a /\ t.mult < m /\ t.id # env

TreesUnlessWedged ==
  \A a \in Arms, m \in Multiples : <>(HasTree(a, m) \/ Wedged(a, m))

(* The run directory and the bundle are what the study promises: each      *)
(* checkpoint once and in order, one receipt after both trees, one report  *)
(* after it, one verdict about it, and nothing withdrawn or replaced.      *)
Both(p) == {[arm |-> a, mult |-> p.mult, id |-> p.id] : a \in Arms}

Study == INSTANCE AbstractStudy WITH
  evaluated <- {[arm |-> t.arm, mult |-> t.mult, id |-> t.id] : t \in trees},
  receipts  <- {Both(p) : p \in receipts},
  reports   <- {Both(p) : p \in reports},
  verdicts  <- {Both(p) : p \in verdicts}

ImplementsAbstractStudy == Study!ASpec

(* The run's one receipt is the one the analysis asks for: that of the     *)
(* frozen pair (publish_checkpoint_pairing_receipt's "their one canonical  *)
(* receipt").                                                              *)
ReceiptIsFrozen == \A p \in receipts : p.mult = Frozen
=============================================================================
