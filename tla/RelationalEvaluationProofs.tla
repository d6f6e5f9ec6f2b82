---------------------- MODULE RelationalEvaluationProofs ----------------------
(***************************************************************************)
(* Proofs about RelationalEvaluation for any number of evaluators and      *)
(* analysts, any multiples and controls, and any number of kills and       *)
(* changes of the sources and the data; about the controls of              *)
(* RelationalControls for any item, any graph and any choice of the seed;  *)
(* and about the batches of RelationalDecoding for any items and batch     *)
(* size.                                                                   *)
(***************************************************************************)
EXTENDS RelationalEvaluation, RelationalControls, FiniteSetTheorems, SequenceTheorems,
        WellFoundedInduction, TLAPS

-----------------------------------------------------------------------------
(* The inductive invariant.                                                *)

Pcs == {"idle", "decode", "verify", "look", "lock", "promote", "unlock", "pair",
        "receipt", "link", "linked", "build", "report", "rename", "reported"}
Complete  == {"verify", "look", "lock", "promote"}
Receipted == {"receipt", "link", "linked", "build", "report", "rename", "reported"}
Paired    == Receipted \cup {"pair"}
Promoted  == Paired \cup {"unlock"}

Below(m)         == {k \in Multiples : k < m}
TreeOf(a, m, id) == \E t \in trees : t.arm = a /\ t.mult = m /\ t.id = id

OwnType == [arm : Arms \cup {"none"}, mult : Nat, id : Identities,
            cells : SUBSET Matrix, parts : SUBSET Parts, history : SUBSET Nat,
            done : 0..Controls]
TreeType == [arm : Arms, mult : Multiples, id : Identities,
             cells : SUBSET Matrix, parts : SUBSET Parts, history : SUBSET Nat]
PairType == [mult : Multiples, id : Identities]

TypeInv ==
  /\ changes \in Nat /\ changes <= MaxChanges
  /\ env \in Identities /\ env.evaluator <= changes /\ env.data <= changes
  /\ own \in [Evaluators -> OwnType] /\ pc \in [Evaluators -> Pcs]
  /\ trees \subseteq TreeType
  /\ loaded \in [Analysts -> SUBSET PairType]

(* What a call has done so far, in its staging directory and out of it.    *)
Ordered(e) ==
  /\ own[e].history = Below(own[e].mult)
  /\ \A k \in Below(own[e].mult) : TreeOf(own[e].arm, k, own[e].id)

CallInv(e) ==
  /\ pc[e] # "idle" => own[e].arm \in Arms /\ own[e].mult \in Multiples
  /\ own[e].done = 0 => own[e].cells = {}
  /\ own[e].done # 0 => Ordered(e)
  /\ pc[e] \in Complete => own[e].cells = Matrix /\ own[e].parts = Parts
  /\ pc[e] \in Promoted => TreeOf(own[e].arm, own[e].mult, own[e].id)
  /\ pc[e] \in Paired => own[e].arm = "split"
  /\ pc[e] \in Receipted => TreeOf("dense", own[e].mult, own[e].id)

(* A receipt is about two trees that are there, and is the only one.       *)
PairInv ==
  /\ receipts \subseteq PairType
  /\ \A p \in receipts : \A a \in Arms : TreeOf(a, p.mult, p.id)
  /\ \A p, q \in receipts : p = q
  /\ reports \subseteq receipts /\ verdicts \subseteq reports
  /\ \A p \in verdicts : p.mult = Frozen

(* An analyst has loaded nothing or the one frozen pair that is reported.  *)
LoadInv ==
  \A a \in Analysts : /\ loaded[a] \subseteq reports
                      /\ \A p \in loaded[a] : p.mult = Frozen

StudyInv ==
  TypeInv /\ TreesInOrder /\ PairInv /\ LoadInv /\ \A e \in Evaluators : CallInv(e)

-----------------------------------------------------------------------------
(* The local variables of a call, updated field by field.                  *)
LEMMA BoundOwn ==
  ASSUME NEW r \in OwnType, NEW a \in Arms, NEW m \in Nat, NEW id \in Identities
  PROVE  [r EXCEPT !.arm = a, !.mult = m, !.id = id] \in OwnType
<1> DEFINE r1 == [r EXCEPT !.arm = a]
           r2 == [r1 EXCEPT !.mult = m]
           r3 == [r2 EXCEPT !.id = id]
<1>1. r1 \in OwnType
  BY DEF OwnType
<1>2. r2 \in OwnType
  <2> HIDE DEF r1
  <2> QED  BY <1>1 DEF OwnType
<1>3. r3 \in OwnType
  <2> HIDE DEF r2
  <2> QED  BY <1>2 DEF OwnType
<1>4. r3 = [r EXCEPT !.arm = a, !.mult = m, !.id = id]
  BY Zenon
<1> HIDE DEF r3
<1> QED  BY <1>3, <1>4

(* The same, by a control that was decoded.                                *)
LEMMA DecodedOwn ==
  ASSUME NEW r \in OwnType, NEW c \in SUBSET Matrix, NEW h \in SUBSET Nat,
         NEW n \in 0..Controls
  PROVE  [r EXCEPT !.cells = c, !.history = h, !.done = n] \in OwnType
<1> DEFINE r1 == [r EXCEPT !.cells = c]
           r2 == [r1 EXCEPT !.history = h]
           r3 == [r2 EXCEPT !.done = n]
<1>1. r1 \in OwnType
  BY DEF OwnType
<1>2. r2 \in OwnType
  <2> HIDE DEF r1
  <2> QED  BY <1>1 DEF OwnType
<1>3. r3 \in OwnType
  <2> HIDE DEF r2
  <2> QED  BY <1>2 DEF OwnType
<1>4. r3 = [r EXCEPT !.cells = c, !.history = h, !.done = n]
  BY Zenon
<1> HIDE DEF r3
<1> QED  BY <1>3, <1>4

(* What a call has before it starts.                                       *)
LEMMA IdleOwn == Idle \in OwnType
  BY StudyAssumption DEF Idle, OwnType, Identities, Matrix, Modes, Parts

-----------------------------------------------------------------------------
(* Nothing is published and nobody has started.                            *)
LEMMA StudyInit == ASSUME Init PROVE StudyInv
<1> USE DEF Init
<1>1. Idle \in OwnType
  BY IdleOwn
<1>2. TypeInv
  BY <1>1, StudyAssumption DEF TypeInv, Identities, Pcs
<1>3. TreesInOrder /\ PairInv /\ LoadInv
  BY DEF TreesInOrder, PairInv, LoadInv
<1>4. \A e \in Evaluators : CallInv(e)
  BY DEF CallInv, Idle, Complete, Promoted, Paired, Receipted
<1> QED  BY <1>2, <1>3, <1>4 DEF StudyInv

(* Trees are never taken away.                                             *)
LEMMA TreesStay ==
  ASSUME trees \subseteq trees', NEW a, NEW m, NEW id, TreeOf(a, m, id)
  PROVE  TreeOf(a, m, id)'
  BY DEF TreeOf

(* What a call has done stays done while others go on.                     *)
LEMMA OtherCalls ==
  ASSUME trees \subseteq trees', NEW f \in Evaluators, CallInv(f),
         pc'[f] = pc[f], own'[f] = own[f]
  PROVE  CallInv(f)'
  BY TreesStay DEF CallInv, Ordered, Below, TreeOf

(* A call that ends has done nothing yet.                                  *)
LEMMA LeaveKeeps ==
  ASSUME TypeInv, NEW e \in Evaluators, Leave(e)
  PROVE  /\ CallInv(e)' /\ own' \in [Evaluators -> OwnType] /\ pc' \in [Evaluators -> Pcs]
         /\ \A f \in Evaluators \ {e} : pc'[f] = pc[f] /\ own'[f] = own[f]
<1>1. Idle \in OwnType
  BY IdleOwn
<1>2. own'[e] = Idle /\ pc'[e] = "idle"
  BY DEF Leave, TypeInv
<1>3. CallInv(e)'
  BY <1>2 DEF CallInv, Idle, Complete, Promoted, Paired, Receipted
<1> QED  BY <1>1, <1>3 DEF Leave, TypeInv, Pcs

(* The frame of a step of one call that publishes nothing.                 *)
LEMMA QuietStep ==
  ASSUME StudyInv, NEW e \in Evaluators, UNCHANGED <<env, published, loaded, changes>>,
         own' \in [Evaluators -> OwnType], pc' \in [Evaluators -> Pcs],
         \A f \in Evaluators \ {e} : pc'[f] = pc[f] /\ own'[f] = own[f],
         CallInv(e)'
  PROVE  StudyInv'
<1>1. UNCHANGED <<trees, receipts, reports, verdicts>>
  BY DEF published
<1>2. TypeInv' /\ TreesInOrder' /\ PairInv' /\ LoadInv'
  BY <1>1 DEF StudyInv, TypeInv, TreesInOrder, PairInv, LoadInv, TreeOf
<1>3. \A f \in Evaluators : CallInv(f)'
  BY <1>1, OtherCalls DEF StudyInv
<1> QED  BY <1>2, <1>3 DEF StudyInv

(* A call that returns or raises without publishing.                       *)
LEMMA LeaveStep ==
  ASSUME StudyInv, NEW e \in Evaluators, UNCHANGED <<env, published, loaded, changes>>,
         Leave(e)
  PROVE  StudyInv'
  BY LeaveKeeps, QuietStep DEF StudyInv

(* A call goes on to its next step with nothing more in hand.              *)
LEMMA GoOnStep ==
  ASSUME StudyInv, NEW e \in Evaluators, NEW s \in Pcs \ {"idle"}, pc[e] # "idle",
         UNCHANGED <<env, published, loaded, changes, own>>, Goto(e, s),
         s \in Complete => pc[e] \in Complete,
         s \in Promoted => TreeOf(own[e].arm, own[e].mult, own[e].id),
         s \in Paired => own[e].arm = "split",
         s \in Receipted => TreeOf("dense", own[e].mult, own[e].id)
  PROVE  StudyInv'
<1>1. pc'[e] = s /\ pc' \in [Evaluators -> Pcs] /\ own' = own /\ trees' = trees
  BY DEF Goto, StudyInv, TypeInv, published
<1>2. \A f \in Evaluators \ {e} : pc'[f] = pc[f]
  BY DEF Goto, StudyInv, TypeInv
<1>3. CallInv(e)'
  BY <1>1 DEF StudyInv, CallInv, TreeOf, Ordered, Below
<1> QED  BY <1>1, <1>2, <1>3, QuietStep DEF StudyInv, TypeInv

-----------------------------------------------------------------------------
(* Each action keeps the invariant.                                        *)

(* A new call has done nothing and holds nothing.                          *)
LEMMA StartStep ==
  ASSUME StudyInv, NEW e \in Evaluators, Start(e)
  PROVE  StudyInv'
<1>1. PICK a \in Arms, m \in Multiples : StartOn(e, a, m)
  BY DEF Start
<1> DEFINE x == [Idle EXCEPT !.arm = a, !.mult = m, !.id = env]
<1>2. x \in OwnType /\ x.done = 0 /\ x.cells = {} /\ x.arm = a /\ x.mult = m
  <2>1. m \in Nat /\ env \in Identities
    BY StudyAssumption DEF StudyInv, TypeInv
  <2>2. x \in OwnType
    BY <2>1, IdleOwn, BoundOwn
  <2>3. x.done = 0 /\ x.cells = {} /\ x.arm = a /\ x.mult = m
    BY DEF Idle
  <2> QED  BY <2>2, <2>3
<1>3. own' = [own EXCEPT ![e] = x] /\ pc' = [pc EXCEPT ![e] = "decode"]
  BY <1>1 DEF StartOn, Goto
<1>4. own'[e] = x /\ pc'[e] = "decode"
  BY <1>3 DEF StudyInv, TypeInv
<1>5. CallInv(e)'
  BY <1>2, <1>4 DEF CallInv, Complete, Promoted, Paired, Receipted
<1>6. own' \in [Evaluators -> OwnType] /\ pc' \in [Evaluators -> Pcs]
  BY <1>2, <1>3 DEF StudyInv, TypeInv, Pcs
<1>7. \A f \in Evaluators \ {e} : pc'[f] = pc[f] /\ own'[f] = own[f]
  BY <1>3 DEF StudyInv, TypeInv
<1>8. UNCHANGED <<env, published, loaded, changes>>
  BY <1>1 DEF StartOn, bounds
<1> QED  BY <1>5, <1>6, <1>7, <1>8, QuietStep

(* After the first control the earlier checkpoints were looked at.         *)
LEMMA PublishCellsStep ==
  ASSUME StudyInv, NEW e \in Evaluators, PublishCells(e)
  PROVE  StudyInv'
<1>1. UNCHANGED <<env, published, loaded, changes>>
  BY DEF PublishCells, bounds
<1>2. CASE own[e].done = 0 /\ ~ InOrder(e)
  BY <1>1, <1>2, LeaveStep DEF PublishCells
<1>3. CASE ~ (own[e].done = 0 /\ ~ InOrder(e))
  <2> DEFINE x == own'[e]
             n == own[e].done
  <2>1. own[e] \in OwnType /\ n < Controls /\ Controls \in Nat /\ n \in 0..Controls
    BY StudyAssumption DEF PublishCells, StudyInv, TypeInv, OwnType
  <2>2. /\ own' = [own EXCEPT ![e] = [own[e] EXCEPT
                      !.cells = own[e].cells \cup (Modes \X {n + 1}),
                      !.history = IF n = 0 THEN History(e) ELSE own[e].history,
                      !.done = n + 1]]
        /\ UNCHANGED pc
    BY <1>3 DEF PublishCells, StudyInv, TypeInv
  <2>3. /\ x.arm = own[e].arm /\ x.mult = own[e].mult /\ x.id = own[e].id
        /\ x.cells = own[e].cells \cup (Modes \X {n + 1}) /\ x.parts = own[e].parts
        /\ x.history = (IF n = 0 THEN History(e) ELSE own[e].history) /\ x.done = n + 1
    BY <2>1, <2>2 DEF StudyInv, TypeInv, OwnType
  <2>4. History(e) \subseteq Nat
    BY StudyAssumption DEF History, StudyInv, TypeInv, TreeType
  <2>5. Modes \X {n + 1} \subseteq Matrix
    BY <2>1 DEF Matrix
  <2>6. own' \in [Evaluators -> OwnType]
    <3> DEFINE c == own[e].cells \cup (Modes \X {n + 1})
               h == IF n = 0 THEN History(e) ELSE own[e].history
               y == [own[e] EXCEPT !.cells = c, !.history = h, !.done = n + 1]
    <3>1. c \in SUBSET Matrix /\ h \in SUBSET Nat /\ n + 1 \in 0..Controls
      BY <2>1, <2>4, <2>5 DEF OwnType
    <3>2. y \in OwnType
      <4> HIDE DEF c, h
      <4> QED  BY <2>1, <3>1, DecodedOwn
    <3> QED  BY <2>2, <3>2 DEF StudyInv, TypeInv
  <2>7. Ordered(e)'
    <3>1. trees' = trees
      BY <1>1 DEF published
    <3>2. x.history = Below(x.mult) /\ \A k \in Below(x.mult) : TreeOf(x.arm, k, x.id)
      <4>1. CASE n = 0
        <5>1. History(e) = Below(own[e].mult)
          BY <1>3, <4>1 DEF InOrder, Below
        <5>2. \A k \in History(e) : TreeOf(own[e].arm, k, own[e].id)
          BY DEF History, TreeOf
        <5> QED  BY <2>3, <4>1, <5>1, <5>2
      <4>2. CASE n # 0
        BY <2>3, <4>2 DEF StudyInv, CallInv, Ordered
      <4> QED  BY <4>1, <4>2
    <3> QED  BY <3>1, <3>2 DEF Ordered, Below, TreeOf
  <2>8. pc[e] = "decode" /\ pc'[e] = "decode"
    BY <2>2 DEF PublishCells
  <2>9. CallInv(e)'
    BY <2>1, <2>3, <2>7, <2>8 DEF StudyInv, CallInv, Complete, Promoted, Paired, Receipted
  <2>10. \A f \in Evaluators \ {e} : pc'[f] = pc[f] /\ own'[f] = own[f]
    BY <2>2 DEF StudyInv, TypeInv
  <2> QED  BY <1>1, <2>2, <2>6, <2>9, <2>10, QuietStep DEF StudyInv, TypeInv
<1> QED  BY <1>2, <1>3

(* The manifest completes the staging directory.                           *)
LEMMA ManifestStep ==
  ASSUME StudyInv, NEW e \in Evaluators, WriteExactMatrixManifest(e)
  PROVE  StudyInv'
<1> DEFINE x == [own[e] EXCEPT !.parts = Parts]
<1>1. own[e] \in OwnType
  BY DEF StudyInv, TypeInv
<1>2. x \in OwnType /\ x.cells = own[e].cells /\ x.parts = Parts /\ x.done = own[e].done
      /\ x.history = own[e].history /\ x.arm = own[e].arm /\ x.mult = own[e].mult
      /\ x.id = own[e].id
  BY <1>1 DEF OwnType
<1>3. own' = [own EXCEPT ![e] = x] /\ pc' = [pc EXCEPT ![e] = "verify"]
  BY DEF WriteExactMatrixManifest, Goto
<1>4. own'[e] = x /\ pc'[e] = "verify" /\ pc[e] = "decode" /\ own[e].cells = Matrix
  BY <1>3 DEF StudyInv, TypeInv, WriteExactMatrixManifest
<1>5. UNCHANGED <<env, published, loaded, changes>> /\ trees' = trees
  BY DEF WriteExactMatrixManifest, bounds, published
<1>6. CallInv(e)'
  BY <1>2, <1>4, <1>5 DEF StudyInv, CallInv, Ordered, Below, TreeOf,
                          Complete, Promoted, Paired, Receipted
<1>7. own' \in [Evaluators -> OwnType] /\ pc' \in [Evaluators -> Pcs]
  BY <1>2, <1>3 DEF StudyInv, TypeInv, Pcs
<1>8. \A f \in Evaluators \ {e} : pc'[f] = pc[f] /\ own'[f] = own[f]
  BY <1>3 DEF StudyInv, TypeInv
<1> QED  BY <1>5, <1>6, <1>7, <1>8, QuietStep

(* The steps between the effects: a check, a lock taken or given back.     *)
LEMMA CheckStep ==
  ASSUME StudyInv, NEW e \in Evaluators,
         \/ VerifyBoundInputs(e) \/ Look(e) \/ Lock(e) \/ Unlock(e)
         \/ LockReceipt(e) \/ UnlockReceipt(e)
         \/ BuildReport(e) \/ LockReport(e) \/ UnlockReport(e)
  PROVE  StudyInv'
<1>1. UNCHANGED <<env, published, loaded, changes>>
  BY DEF VerifyBoundInputs, Look, Lock, Unlock, LockReceipt, UnlockReceipt,
         BuildReport, LockReport, UnlockReport, bounds
<1>2. CallInv(e)
  BY DEF StudyInv
<1>3. CASE Leave(e)
  BY <1>1, <1>3, LeaveStep
<1>4. CASE VerifyBoundInputs(e) /\ ~ Leave(e)
  BY <1>1, <1>2, <1>4, GoOnStep
     DEF VerifyBoundInputs, Pcs, Complete, Promoted, Paired, Receipted
<1>5. CASE Look(e) /\ ~ Leave(e)
  BY <1>1, <1>2, <1>5, GoOnStep DEF Look, Pcs, Complete, Promoted, Paired, Receipted
<1>6. CASE Lock(e) /\ ~ Leave(e)
  BY <1>1, <1>2, <1>6, GoOnStep DEF Lock, Take, Pcs, Complete, Promoted, Paired, Receipted
<1>7. CASE Unlock(e) /\ ~ Leave(e)
  BY <1>1, <1>2, <1>7, GoOnStep
     DEF Unlock, CallInv, Pcs, Complete, Promoted, Paired, Receipted
<1>8. CASE LockReceipt(e) /\ ~ Leave(e)
  BY <1>1, <1>2, <1>8, GoOnStep
     DEF LockReceipt, Take, CallInv, Pcs, Complete, Promoted, Paired, Receipted
<1>9. CASE UnlockReceipt(e) /\ ~ Leave(e)
  BY <1>1, <1>2, <1>9, GoOnStep
     DEF UnlockReceipt, CallInv, Pcs, Complete, Promoted, Paired, Receipted
<1>10. CASE BuildReport(e) /\ ~ Leave(e)
  BY <1>1, <1>2, <1>10, GoOnStep
     DEF BuildReport, CallInv, Pcs, Complete, Promoted, Paired, Receipted
<1>11. CASE LockReport(e) /\ ~ Leave(e)
  BY <1>1, <1>2, <1>11, GoOnStep
     DEF LockReport, Take, CallInv, Pcs, Complete, Promoted, Paired, Receipted
<1>12. CASE UnlockReport(e)
  BY <1>3, <1>12 DEF UnlockReport
<1> QED
  BY <1>3, <1>4, <1>5, <1>6, <1>7, <1>8, <1>9, <1>10, <1>11, <1>12

(* What a complete staging directory holds is a tree that stands.          *)
LEMMA StagedStands ==
  ASSUME StudyInv, NEW e \in Evaluators, pc[e] = "promote"
  PROVE  /\ StagedTree(e) \in TreeType /\ Whole(StagedTree(e))
         /\ StagedTree(e).history = Below(own[e].mult)
         /\ \A k \in Below(own[e].mult) : TreeOf(own[e].arm, k, own[e].id)
<1>1. own[e] \in OwnType /\ own[e].arm \in Arms /\ own[e].mult \in Multiples
      /\ own[e].cells = Matrix /\ own[e].parts = Parts
  BY DEF StudyInv, TypeInv, CallInv, Complete
<1>2. own[e].done # 0
  <2>1. <<"memory_on", 1>> \in Matrix
    BY StudyAssumption DEF Matrix, Modes
  <2> QED  BY <1>1, <2>1 DEF StudyInv, CallInv
<1>3. Ordered(e)
  BY <1>2 DEF StudyInv, CallInv
<1>4. StagedTree(e) \in TreeType
  BY <1>1 DEF StagedTree, OwnType, TreeType
<1>5. Whole(StagedTree(e))
  BY <1>1 DEF StagedTree, Whole, CellsWhole
<1> QED  BY <1>3, <1>4, <1>5 DEF Ordered, StagedTree

(* The staged tree is added where there was none.                          *)
LEMMA PromoteStep ==
  ASSUME StudyInv, NEW e \in Evaluators, Promote(e)
  PROVE  StudyInv'
<1>1. UNCHANGED <<env, receipts, reports, verdicts, loaded, kills, changes>>
  BY DEF Promote, bounds
<1>2. CASE HasTree(own[e].arm, own[e].mult)
  BY <1>1, <1>2, LeaveStep DEF Promote, published
<1>3. CASE ~ HasTree(own[e].arm, own[e].mult)
  <2> DEFINE t == StagedTree(e)
  <2>1. trees' = trees \cup {t} /\ own' = own /\ pc' = [pc EXCEPT ![e] = "unlock"]
    BY <1>3 DEF Promote, Goto
  <2>2. /\ t \in TreeType /\ Whole(t) /\ t.history = Below(own[e].mult)
        /\ t.arm = own[e].arm /\ t.mult = own[e].mult /\ t.id = own[e].id
        /\ \A k \in Below(own[e].mult) : TreeOf(own[e].arm, k, own[e].id)
    BY StagedStands DEF Promote, StagedTree
  <2> HIDE DEF t
  <2>3. TypeInv'
    BY <1>1, <2>1, <2>2 DEF StudyInv, TypeInv, Pcs
  <2>4. TreesInOrder'
    <3> SUFFICES ASSUME NEW u \in trees'
                 PROVE  /\ Whole(u) /\ u.history = {k \in Multiples : k < u.mult}
                        /\ \A s \in trees' : s.arm = u.arm /\ s.mult = u.mult => s = u
                        /\ \A k \in u.history : TreeOf(u.arm, k, u.id)'
      BY DEF TreesInOrder, Whole, CellsWhole, TreeOf
    <3>1. CASE u \in trees
      <4>1. /\ Whole(u) /\ u.history = {k \in Multiples : k < u.mult}
            /\ \A s \in trees : s.arm = u.arm /\ s.mult = u.mult => s = u
            /\ \A k \in u.history : TreeOf(u.arm, k, u.id)
        BY <3>1 DEF StudyInv, TreesInOrder, TreeOf
      <4>2. ~ (t.arm = u.arm /\ t.mult = u.mult)
        BY <1>3, <2>2, <3>1 DEF HasTree
      <4> QED  BY <2>1, <4>1, <4>2, TreesStay
    <3>2. CASE u = t
      <4>1. \A s \in trees : ~ (s.arm = t.arm /\ s.mult = t.mult)
        BY <1>3, <2>2 DEF HasTree
      <4> QED  BY <2>1, <2>2, <3>2, <4>1, TreesStay DEF Below
    <3> QED  BY <2>1, <3>1, <3>2
  <2>5. PairInv' /\ LoadInv'
    BY <1>1, <2>1 DEF StudyInv, PairInv, LoadInv, TreeOf
  <2>6. CallInv(e)'
    <3>1. pc'[e] = "unlock" /\ pc[e] = "promote"
      BY <2>1 DEF StudyInv, TypeInv, Promote
    <3>2. TreeOf(own[e].arm, own[e].mult, own[e].id)'
      BY <2>1, <2>2 DEF TreeOf
    <3>3. Ordered(e)'
      <4>1. /\ own[e].history = Below(own[e].mult)
            /\ \A k \in Below(own[e].mult) : TreeOf(own[e].arm, k, own[e].id)
        BY <3>1, StagedStands DEF StagedTree
      <4> QED  BY <2>1, <4>1 DEF Ordered, Below, TreeOf
    <3> QED
      BY <2>1, <3>1, <3>2, <3>3 DEF StudyInv, CallInv, Complete, Promoted, Paired, Receipted
  <2>7. \A f \in Evaluators : CallInv(f)'
    BY <2>1, <2>6, OtherCalls DEF StudyInv, TypeInv
  <2> QED  BY <2>3, <2>4, <2>5, <2>7 DEF StudyInv
<1> QED  BY <1>2, <1>3

(* A receipt is built over a dense tree that is there.                     *)
LEMMA BuildReceiptStep ==
  ASSUME StudyInv, NEW e \in Evaluators, BuildReceipt(e)
  PROVE  StudyInv'
<1>1. UNCHANGED <<env, published, loaded, changes>>
  BY DEF BuildReceipt, bounds
<1>2. CASE Leave(e)
  BY <1>1, <1>2, LeaveStep
<1>3. CASE ~ Leave(e)
  <2>1. PICK d \in Multiples : DenseFits(e, d)
    BY <1>3 DEF BuildReceipt
  <2>2. TreeOf("dense", own[e].mult, own[e].id)
    BY <2>1 DEF DenseFits, TreeOf
  <2> QED
    BY <1>1, <1>3, <2>2, GoOnStep
       DEF BuildReceipt, StudyInv, CallInv, Pcs, Complete, Promoted, Paired, Receipted
<1> QED  BY <1>2, <1>3

(* A call goes on when it has published the receipt or the report.         *)
LEMMA PublishedCall ==
  ASSUME StudyInv, NEW e \in Evaluators, NEW s \in Receipted, pc[e] \in Receipted,
         Goto(e, s), UNCHANGED <<own, trees>>
  PROVE  /\ pc' \in [Evaluators -> Pcs] /\ \A f \in Evaluators : CallInv(f)'
<1>1. pc' \in [Evaluators -> Pcs] /\ pc'[e] = s
      /\ \A f \in Evaluators \ {e} : pc'[f] = pc[f]
  BY DEF Goto, StudyInv, TypeInv, Pcs, Receipted
<1>2. CallInv(e)'
  BY <1>1 DEF StudyInv, CallInv, TreeOf, Ordered, Below, Complete, Promoted, Paired, Receipted
<1> QED  BY <1>1, <1>2, OtherCalls DEF StudyInv

(* The receipt is linked where there was none.                             *)
LEMMA LinkReceiptStep ==
  ASSUME StudyInv, NEW e \in Evaluators, LinkReceipt(e)
  PROVE  StudyInv'
<1>1. UNCHANGED <<env, trees, reports, verdicts, loaded, changes>>
  BY DEF LinkReceipt, bounds
<1>2. CASE receipts # {}
  BY <1>1, <1>2, LeaveStep DEF LinkReceipt, published
<1>3. CASE receipts = {}
  <2>1. receipts' = {OwnPair(e)} /\ own' = own /\ Goto(e, "linked") /\ pc[e] = "link"
    BY <1>3 DEF LinkReceipt
  <2>2. pc' \in [Evaluators -> Pcs] /\ \A f \in Evaluators : CallInv(f)'
    BY <1>1, <2>1, PublishedCall DEF Receipted
  <2>3. /\ OwnPair(e) \in PairType
        /\ \A a \in Arms : TreeOf(a, OwnPair(e).mult, OwnPair(e).id)
    BY <2>1 DEF StudyInv, TypeInv, CallInv, OwnPair, OwnType, PairType, Arms,
                Promoted, Paired, Receipted
  <2>4. PairInv'
    BY <1>1, <1>3, <2>1, <2>3 DEF StudyInv, PairInv, TreeOf
  <2>5. TypeInv' /\ TreesInOrder' /\ LoadInv'
    BY <1>1, <2>1, <2>2 DEF StudyInv, TypeInv, TreesInOrder, LoadInv
  <2> QED  BY <2>2, <2>4, <2>5 DEF StudyInv
<1> QED  BY <1>2, <1>3

(* The report is that of the one receipt.                                  *)
LEMMA RenameReportStep ==
  ASSUME StudyInv, NEW e \in Evaluators, RenameReport(e)
  PROVE  StudyInv'
<1>1. UNCHANGED <<env, trees, receipts, verdicts, loaded, changes>>
  BY DEF RenameReport, bounds
<1>2. CASE ~ (ReportHolds(e) /\ reports = {})
  BY <1>1, <1>2, LeaveStep DEF RenameReport, published
<1>3. CASE ReportHolds(e) /\ reports = {}
  <2>1. reports' = {OwnPair(e)} /\ own' = own /\ Goto(e, "reported") /\ pc[e] = "rename"
    BY <1>3 DEF RenameReport
  <2>2. pc' \in [Evaluators -> Pcs] /\ \A f \in Evaluators : CallInv(f)'
    BY <1>1, <2>1, PublishedCall DEF Receipted
  <2>3. PairInv' /\ LoadInv'
    BY <1>1, <1>3, <2>1 DEF StudyInv, PairInv, LoadInv, ReportHolds, TreeOf
  <2>4. TypeInv' /\ TreesInOrder'
    BY <1>1, <2>1, <2>2 DEF StudyInv, TypeInv, TreesInOrder
  <2> QED  BY <2>2, <2>3, <2>4 DEF StudyInv
<1> QED  BY <1>2, <1>3

(* A kill ends a call.                                                     *)
LEMMA KillStep ==
  ASSUME StudyInv, NEW e \in Evaluators, Kill(e)
  PROVE  StudyInv'
  BY LeaveStep DEF Kill

(* The sources or the data change under everybody.                         *)
LEMMA ChangeStep ==
  ASSUME StudyInv, Change
  PROVE  StudyInv'
<1>1. UNCHANGED <<trees, receipts, reports, verdicts, pc, own, loaded>>
  BY DEF Change, published
<1>2. changes' = changes + 1 /\ changes < MaxChanges
  BY DEF Change
<1>3. PICK f \in {"evaluator", "data"} : env' = [env EXCEPT ![f] = env[f] + 1]
  BY DEF Change
<1>4. env' \in Identities /\ env'.evaluator <= changes' /\ env'.data <= changes'
  BY <1>2, <1>3, StudyAssumption DEF StudyInv, TypeInv, Identities
<1>5. TypeInv'
  BY <1>1, <1>2, <1>4, StudyAssumption DEF StudyInv, TypeInv
<1>6. TreesInOrder' /\ PairInv' /\ LoadInv'
  BY <1>1 DEF StudyInv, TreesInOrder, PairInv, LoadInv, TreeOf
<1>7. \A e \in Evaluators : CallInv(e)'
  BY <1>1, OtherCalls DEF StudyInv
<1> QED  BY <1>5, <1>6, <1>7 DEF StudyInv

(* An analyst loads the frozen pair, or decides about it.                  *)
LEMMA AnalystStep ==
  ASSUME StudyInv, NEW a \in Analysts, LoadCompleteRuns(a) \/ PublishAnalysis(a)
  PROVE  StudyInv'
<1>1. UNCHANGED <<env, trees, receipts, reports, pc, own, changes>>
  BY DEF LoadCompleteRuns, PublishAnalysis, published, bounds
<1>2. \A e \in Evaluators : CallInv(e)'
  BY <1>1, OtherCalls DEF StudyInv
<1>3. TreesInOrder'
  BY <1>1 DEF StudyInv, TreesInOrder
<1>4. CASE LoadCompleteRuns(a)
  <2>1. PICK p \in FrozenPairs : BoundPair(p) /\ loaded' = [loaded EXCEPT ![a] = {p}]
    BY <1>4 DEF LoadCompleteRuns
  <2>2. p.mult = Frozen /\ p \in reports /\ p \in PairType
    BY <2>1 DEF FrozenPairs, BoundPair, StudyInv, PairInv
  <2>3. LoadInv' /\ TypeInv'
    BY <1>1, <2>1, <2>2 DEF StudyInv, TypeInv, LoadInv
  <2>4. PairInv'
    BY <1>1, <1>4 DEF LoadCompleteRuns, published, StudyInv, PairInv, TreeOf
  <2> QED  BY <1>2, <1>3, <2>3, <2>4 DEF StudyInv
<1>5. CASE PublishAnalysis(a)
  <2>1. verdicts' = loaded[a] /\ loaded' = loaded
    BY <1>5 DEF PublishAnalysis
  <2>2. PairInv' /\ LoadInv' /\ TypeInv'
    BY <1>1, <2>1 DEF StudyInv, TypeInv, PairInv, LoadInv, TreeOf
  <2> QED  BY <1>2, <1>3, <2>2 DEF StudyInv
<1> QED  BY <1>4, <1>5

(* Every step keeps the invariant.                                         *)
LEMMA StudyStep == StudyInv /\ [Next]_vars => StudyInv'
<1> SUFFICES ASSUME StudyInv, [Next]_vars PROVE StudyInv'
  OBVIOUS
<1>1. CASE UNCHANGED vars
  BY <1>1, OtherCalls DEF vars, StudyInv, TypeInv, TreesInOrder, PairInv, LoadInv, TreeOf
<1>2. ASSUME NEW e \in Evaluators, Start(e) \/ Process(e) \/ Kill(e) PROVE StudyInv'
  BY <1>2, StartStep, PublishCellsStep, ManifestStep, CheckStep, PromoteStep,
     BuildReceiptStep, LinkReceiptStep, RenameReportStep, KillStep DEF Process
<1>3. ASSUME NEW a \in Analysts, LoadCompleteRuns(a) \/ PublishAnalysis(a) PROVE StudyInv'
  BY <1>3, AnalystStep
<1> QED  BY <1>1, <1>2, <1>3, ChangeStep DEF Next

-----------------------------------------------------------------------------
(* Whatever calls raced, whenever they were killed and whenever the        *)
(* sources or the data changed: every receipt, report and verdict is about *)
(* two whole trees that are there, with their history                      *)
(* (publish_checkpoint_pairing_receipt,                                    *)
(* build_confirmatory_guardrail_report, _validate_bound_guardrail_report). *)
THEOREM ReceiptAlwaysStands == Spec => []ReceiptStands
<1>1. StudyInv => ReceiptStands
  BY DEF StudyInv, PairInv, ReceiptStands, TreeOf
<1> QED  BY <1>1, StudyInit, StudyStep, PTL DEF Spec

-----------------------------------------------------------------------------
(* The refinement: each step of the evaluation and of the analysis is a    *)
(* step of AbstractStudy or leaves what was published as it is.            *)

Evaluated == {[arm |-> t.arm, mult |-> t.mult, id |-> t.id] : t \in trees}

(* A pair is the abstract pair of its multiple and identity.               *)
LEMMA PairsAgree ==
  ASSUME NEW p
  PROVE  Both(p) = Study!Pair(p.mult, p.id)
  BY DEF Both, Study!Pair, Study!Evaluation, Arms, Study!Arms

(* An abstract evaluation is a tree on the disk.                           *)
LEMMA EvaluatedIsTree ==
  ASSUME NEW a, NEW m, NEW id
  PROVE  Study!Evaluation(a, m, id) \in Evaluated <=> TreeOf(a, m, id)
  BY DEF Study!Evaluation, Evaluated, TreeOf

(* A step that publishes nothing stutters.                                 *)
LEMMA QuietMaps ==
  ASSUME UNCHANGED published
  PROVE  UNCHANGED Study!avars
  BY DEF published, Study!avars, Both

(* An evaluation is a step of the abstract specification.                  *)
LEMMA EvaluateIsStep ==
  ASSUME NEW a \in Study!Arms, NEW m \in Multiples, NEW id \in Identities,
         Study!Evaluate(a, m, id)
  PROVE  Study!ANext
  BY DEF Study!ANext

(* A promoted tree is an evaluation in its order, or nothing happens.      *)
LEMMA PromoteMaps ==
  ASSUME StudyInv, NEW e \in Evaluators, Promote(e)
  PROVE  [Study!ANext]_(Study!avars)
<1>1. UNCHANGED <<receipts, reports, verdicts>>
  BY DEF Promote
<1>2. CASE HasTree(own[e].arm, own[e].mult)
  BY <1>1, <1>2, QuietMaps DEF Promote, published
<1>3. CASE ~ HasTree(own[e].arm, own[e].mult)
  <2>0. PICK a, m, id : a = own[e].arm /\ m = own[e].mult /\ id = own[e].id
    OBVIOUS
  <2>1. a \in Study!Arms /\ m \in Multiples /\ id \in Identities
    BY <2>0 DEF Promote, StudyInv, TypeInv, CallInv, OwnType, Arms, Study!Arms
  <2>2. \A x \in Evaluated : ~ (x.arm = a /\ x.mult = m)
    BY <1>3, <2>0 DEF HasTree, Evaluated
  <2>3. \A k \in Multiples : k < m => Study!Evaluation(a, k, id) \in Evaluated
    BY <2>0, StagedStands, EvaluatedIsTree DEF Promote, Below
  <2>4. Evaluated' = Evaluated \cup {Study!Evaluation(a, m, id)}
    <3> DEFINE t == StagedTree(e)
    <3>1. trees' = trees \cup {t}
      BY <1>3 DEF Promote
    <3>2. [arm |-> t.arm, mult |-> t.mult, id |-> t.id] = Study!Evaluation(a, m, id)
      BY <2>0 DEF StagedTree, Study!Evaluation
    <3> HIDE DEF t
    <3> QED  BY <3>1, <3>2 DEF Evaluated
  <2>5. Study!Evaluate(a, m, id)
    BY <1>1, <2>2, <2>3, <2>4 DEF Study!Evaluate, Evaluated, Both
  <2> QED  BY <2>1, <2>5, EvaluateIsStep
<1> QED  BY <1>2, <1>3

(* A linked receipt is that of a pair whose arms are evaluated.            *)
LEMMA LinkReceiptMaps ==
  ASSUME StudyInv, NEW e \in Evaluators, LinkReceipt(e)
  PROVE  [Study!ANext]_(Study!avars)
<1>1. UNCHANGED <<trees, reports, verdicts>>
  BY DEF LinkReceipt
<1>2. CASE receipts # {}
  BY <1>1, <1>2, QuietMaps DEF LinkReceipt, published
<1>3. CASE receipts = {}
  <2> DEFINE m == own[e].mult
             id == own[e].id
  <2>1. m \in Multiples /\ id \in Identities
    BY DEF LinkReceipt, StudyInv, TypeInv, CallInv, OwnType
  <2>2. \A a \in Arms : TreeOf(a, m, id)
    BY DEF LinkReceipt, StudyInv, CallInv, Arms, Promoted, Paired, Receipted
  <2>3. Study!Pair(m, id) \subseteq Evaluated
    BY <2>2, EvaluatedIsTree DEF Study!Pair, Arms, Study!Arms
  <2>4. receipts' = {OwnPair(e)} /\ Both(OwnPair(e)) = Study!Pair(m, id)
    BY <1>3, PairsAgree DEF LinkReceipt, OwnPair
  <2>5. {Both(p) : p \in receipts} = {} /\ {Both(p) : p \in receipts'} = {Study!Pair(m, id)}
    BY <1>3, <2>4
  <2>6. Study!Receipt(m, id)
    BY <1>1, <2>3, <2>5 DEF Study!Receipt, Evaluated, Both
  <2> QED  BY <2>1, <2>6 DEF Study!ANext
<1> QED  BY <1>2, <1>3

(* A renamed report is that of the receipt.                                *)
LEMMA RenameReportMaps ==
  ASSUME StudyInv, NEW e \in Evaluators, RenameReport(e)
  PROVE  [Study!ANext]_(Study!avars)
<1>1. UNCHANGED <<trees, receipts, verdicts>>
  BY DEF RenameReport
<1>2. CASE ~ (ReportHolds(e) /\ reports = {})
  BY <1>1, <1>2, QuietMaps DEF RenameReport, published
<1>3. CASE ReportHolds(e) /\ reports = {}
  <2>1. receipts = {OwnPair(e)} /\ reports' = receipts
    BY <1>3 DEF RenameReport, ReportHolds, StudyInv, PairInv
  <2>2. Study!ReportPair
    BY <1>1, <1>3, <2>1 DEF Study!ReportPair, Both
  <2> QED  BY <2>2 DEF Study!ANext
<1> QED  BY <1>2, <1>3

(* A verdict is about the reported pair of the frozen multiple.            *)
LEMMA PublishAnalysisMaps ==
  ASSUME StudyInv, NEW a \in Analysts, PublishAnalysis(a)
  PROVE  [Study!ANext]_(Study!avars)
<1>1. UNCHANGED <<trees, receipts, reports>>
  BY DEF PublishAnalysis
<1>2. PICK p \in loaded[a] : TRUE
  BY DEF PublishAnalysis
<1>3. loaded[a] = {p} /\ p.mult = Frozen /\ p \in reports /\ p.id \in Identities
  BY DEF StudyInv, LoadInv, PairInv, PairType
<1>4. verdicts = {} /\ verdicts' = {p} /\ Both(p) = Study!Pair(Frozen, p.id)
  BY <1>3, PairsAgree DEF PublishAnalysis
<1>5. Study!Decide(p.id)
  BY <1>1, <1>3, <1>4 DEF Study!Decide, Both
<1> QED  BY <1>3, <1>5 DEF Study!ANext

(* Every step is a step of the abstract specification or a stutter.        *)
LEMMA StepMaps == StudyInv /\ [Next]_vars => [Study!ANext]_(Study!avars)
<1> SUFFICES ASSUME StudyInv, [Next]_vars PROVE [Study!ANext]_(Study!avars)
  OBVIOUS
<1>1. CASE UNCHANGED vars
  BY <1>1, QuietMaps DEF vars, published
<1>2. ASSUME NEW e \in Evaluators, Start(e) \/ Kill(e) PROVE UNCHANGED published
  BY <1>2 DEF Start, StartOn, Kill
<1>3. ASSUME NEW e \in Evaluators, Process(e),
             ~ Promote(e), ~ LinkReceipt(e), ~ RenameReport(e)
      PROVE  UNCHANGED published
  BY <1>3 DEF Process, PublishCells, WriteExactMatrixManifest, VerifyBoundInputs, Look,
              Lock, Unlock, BuildReceipt, LockReceipt, UnlockReceipt, BuildReport,
              LockReport, UnlockReport
<1>4. ASSUME NEW a \in Analysts, LoadCompleteRuns(a) PROVE UNCHANGED published
  BY <1>4 DEF LoadCompleteRuns
<1>5. CASE Change
  BY <1>5, QuietMaps DEF Change
<1> QED
  BY <1>1, <1>2, <1>3, <1>4, <1>5, QuietMaps, PromoteMaps, LinkReceiptMaps,
     RenameReportMaps, PublishAnalysisMaps DEF Next

(* The run directory and the bundle are what the study promises, for every *)
(* number of calls, kills and changes: each checkpoint is evaluated once   *)
(* and in order, a pair is receipted once after both of its trees, the     *)
(* report is that of the receipt and the verdict that of the report.       *)
THEOREM StudyImplementsAbstract == Spec => ImplementsAbstractStudy
<1>1. Init => Study!AInit
  BY DEF Init, Study!AInit
<1>2. Spec => []StudyInv
  BY StudyInit, StudyStep, PTL DEF Spec
<1> QED  BY <1>1, <1>2, StepMaps, PTL DEF Spec, ImplementsAbstractStudy, Study!ASpec

-----------------------------------------------------------------------------
(* The controls.  The trace of an item is a recursive function over its    *)
(* actions: a table that exists by induction and of which the trace is the *)
(* last entry.                                                             *)

(* Induction over the naturals, as a set.                                  *)
LEMMA Induct ==
  ASSUME NEW S, 0 \in S, \A n \in Nat : n \in S => n + 1 \in S
  PROVE  Nat \subseteq S
<1> DEFINE T == Nat \ S
<1> SUFFICES ASSUME T # {} PROVE FALSE OBVIOUS
<1>1. PICK x \in T : \A y \in T : <<y, x>> \notin OpToRel(<, Nat)
  <2>1. T \subseteq Nat OBVIOUS
  <2>2. IsWellFoundedOn(OpToRel(<, Nat), Nat) BY NatLessThanWellFounded
  <2> HIDE DEF T
  <2> QED BY <2>1, <2>2, WFMin
<1>2. \A y \in T : ~ (y < x)
  BY <1>1 DEF OpToRel
<1>3. x \in Nat /\ x \notin S
  OBVIOUS
<1>4. x = 0 \/ (x - 1 \in Nat /\ x - 1 < x)
  BY <1>3
<1>5. x - 1 \in Nat => x - 1 \in S
  BY <1>2, <1>3
<1>6. x = (x - 1) + 1 BY <1>3
<1>7. x - 1 \in Nat => x \in S
  BY <1>5, <1>6
<1> QED BY <1>3, <1>4, <1>7

-----------------------------------------------------------------------------
(* What a graph answers.                                                   *)
LEMMA LookupThere ==
  ASSUME NEW store, NEW r \in store, \A q \in store : q.at = r.at => q = r
  PROVE  Lookup(store, r.at) = r
BY DEF Lookup

(* An address without a row is a miss.                                     *)
LEMMA LookupMisses ==
  ASSUME NEW store, NEW at, \A q \in store : q.at # at
  PROVE  Lookup(store, at) = Miss
BY DEF Lookup

(* No row of a graph is the row of a miss.                                 *)
LEMMA RowIsNoMiss == \A r \in RowType : r # Miss /\ r.at \in (Nat \ {0}) \X Nat
<1> SUFFICES ASSUME NEW r \in RowType PROVE r # Miss /\ r.at \in (Nat \ {0}) \X Nat OBVIOUS
<1>1. r.at \in (Nat \ {0}) \X Nat BY DEF RowType
<1>2. Len(r.at) = 2 /\ Len(<< >>) = 0 BY <1>1
<1> QED BY <1>1, <1>2 DEF Miss

(* A lookup in a sound graph finds the row of the address or misses.       *)
LEMMA LookupFinds ==
  ASSUME NEW graph, GraphIsSound(graph), NEW at
  PROVE  \/ Lookup(graph, at) = Miss /\ \A r \in graph : r.at # at
         \/ Lookup(graph, at) \in graph /\ Lookup(graph, at).at = at
BY DEF Lookup

-----------------------------------------------------------------------------
(* The trace as a table over the number of actions gone by.                *)
IsTable(item, store, g) ==
  g = [k \in 0..Len(item.gold) |->
         IF k = 0 THEN TraceStart(item) ELSE TraceStep(store, g[k - 1], item.gold[k])]
Table(item, store) == CHOOSE g : IsTable(item, store, g)

(* The table exists: there is one that is right up to each action.         *)
LEMMA TableExists ==
  ASSUME NEW item, NEW store, Len(item.gold) \in Nat
  PROVE  \E g : IsTable(item, store, g)
<1> DEFINE F(g, k) == IF k = 0 THEN TraceStart(item) ELSE TraceStep(store, g[k - 1], item.gold[k])
           Good == {m \in Nat : \E g : g = [k \in 0..m |-> F(g, k)]}
<1>1. 0 \in Good
  <2> DEFINE g == [k \in 0..0 |-> TraceStart(item)]
  <2>1. g = [k \in 0..0 |-> F(g, k)] OBVIOUS
  <2> QED BY <2>1
<1>2. ASSUME NEW m \in Nat, m \in Good PROVE m + 1 \in Good
  <2>1. PICK g : g = [k \in 0..m |-> F(g, k)] BY <1>2
  <2> DEFINE h == [k \in 0..(m + 1) |-> IF k <= m THEN g[k] ELSE F(g, k)]
  <2>2. ASSUME NEW k \in 0..(m + 1) PROVE h[k] = F(h, k)
    <3>1. CASE k <= m
      <4>1. k \in 0..m /\ h[k] = g[k] BY <3>1
      <4>2. g[k] = F(g, k) BY <2>1, <4>1
      <4>3. k # 0 => k - 1 \in 0..(m + 1) /\ k - 1 <= m BY <3>1
      <4>4. k # 0 => h[k - 1] = g[k - 1] BY <4>3
      <4> HIDE DEF h
      <4> QED BY <4>1, <4>2, <4>4
    <3>2. CASE ~(k <= m)
      <4>1. h[k] = F(g, k) BY <3>2
      <4>3. k - 1 \in 0..(m + 1) /\ k - 1 <= m /\ k # 0 BY <3>2
      <4>4. h[k - 1] = g[k - 1] BY <4>3
      <4> HIDE DEF h
      <4> QED BY <4>1, <4>3, <4>4
    <3> QED BY <3>1, <3>2
  <2>3. h = [k \in 0..(m + 1) |-> h[k]] OBVIOUS
  <2> HIDE DEF h, F
  <2>4. h = [k \in 0..(m + 1) |-> F(h, k)] BY <2>2, <2>3
  <2> QED BY <2>4
<1>3. Nat \subseteq Good
  <2> HIDE DEF Good
  <2> QED BY <1>1, <1>2, Induct
<1>4. Len(item.gold) \in Good BY <1>3
<1> QED BY <1>4 DEF IsTable

(* The trace is the last entry of the table.                               *)
LEMMA TraceIsTable == \A item, store : OracleTrace(item, store) = Table(item, store)[Len(item.gold)]
BY DEF OracleTrace, Table, IsTable

(* Each entry of the table is a step from the one before.                  *)
LEMMA TableSteps ==
  ASSUME NEW item, NEW store, Len(item.gold) \in Nat
  PROVE  /\ Table(item, store)[0] = TraceStart(item)
         /\ \A k \in 1..Len(item.gold) :
              Table(item, store)[k] = TraceStep(store, Table(item, store)[k - 1], item.gold[k])
<1> DEFINE g == Table(item, store)
           n == Len(item.gold)
<1>0. IsTable(item, store, Table(item, store)) BY TableExists DEF Table
<1>1. g = [k \in 0..n |-> IF k = 0 THEN TraceStart(item) ELSE TraceStep(store, g[k - 1], item.gold[k])]
  BY <1>0 DEF IsTable
<1> HIDE DEF g, n
<1>2. n \in Nat BY DEF n
<1>3. g[0] = TraceStart(item) BY <1>1, <1>2
<1>4. \A k \in 1..n : k \in 0..n /\ k # 0 BY <1>2
<1>5. \A k \in 1..n : g[k] = TraceStep(store, g[k - 1], item.gold[k]) BY <1>1, <1>4
<1> QED BY <1>3, <1>5 DEF g, n

-----------------------------------------------------------------------------
(* What the trace keeps: its slots name entities of the world, its rows    *)
(* are of the world, as long as none is missed.                            *)
ActionType(item) == [slot : DOMAIN item.slots, edge : Nat, read : BOOLEAN, halt : BOOLEAN]

TraceKeeps(item, graph, t) ==
  /\ t.ok \in BOOLEAN
  /\ t.slots \in [DOMAIN item.slots -> Entities(item, ControlRows(item, graph)) \cup {Nowhere}]
  /\ t.rows \in Seq(ControlRows(item, graph) \cup {Miss})
  /\ t.ok => t.rows \in Seq(ControlRows(item, graph))

(* The facts about an item and its graph that the proofs need.             *)
LEMMA SoundFacts ==
  ASSUME NEW item, NEW graph, IsSound(item, graph)
  PROVE  LET rows == ControlRows(item, graph)
             ents == Entities(item, rows)
         IN  /\ rows \subseteq graph /\ graph \subseteq RowType /\ rows # {}
             /\ \A r, q \in graph : r.at = q.at => r = q
             /\ \A r \in graph \ rows : r.at[1] \notin ents
             /\ \A r \in rows : r.at[1] \in ents
             /\ \A r \in graph : r.at[1] \in Nat \ {0} /\ r.at[2] \in Nat /\ r.target \in Nat
             /\ \A r \in rows : r.target = Nowhere \/ r.target \in ents
             /\ ents \subseteq Nat \ {0} /\ IsFiniteSet(graph) /\ IsFiniteSet(rows)
             /\ item.slots \in [DOMAIN item.slots -> ents \cup {Nowhere}]
             /\ item.slots \in [DOMAIN item.slots -> Nat]
             /\ Len(item.gold) \in Nat
             /\ \A k \in 1..Len(item.gold) : item.gold[k] \in ActionType(item)
<1> DEFINE rows == ControlRows(item, graph)
           ents == Entities(item, rows)
<1>1. /\ IsFiniteSet(graph) /\ \A r \in graph : r \in RowType
      /\ \A r, q \in graph : r.at = q.at => r = q
  BY DEF IsSound, GraphIsSound
<1>2. /\ item.slots \in Seq(Nat) /\ rows # {}
      /\ item.gold \in Seq([slot : Nat \ {0}, edge : Nat, read : BOOLEAN, halt : BOOLEAN])
      /\ \A k \in DOMAIN item.gold : item.gold[k].slot \in DOMAIN item.slots
      /\ \A r \in graph \ rows : r.at[1] \notin ents
  BY DEF IsSound, ItemIsSound, ItemType
<1>3. rows \subseteq graph BY DEF ControlRows
<1>4. IsFiniteSet(rows) BY <1>1, <1>3, FS_Subset
<1>5. \A r \in graph : r.at[1] \in Nat \ {0} /\ r.at[2] \in Nat /\ r.target \in Nat
  <2> SUFFICES ASSUME NEW r \in graph PROVE r.at[1] \in Nat \ {0} /\ r.at[2] \in Nat /\ r.target \in Nat
    OBVIOUS
  <2>1. r \in RowType BY <1>1
  <2>2. r.at \in (Nat \ {0}) \X Nat /\ r.target \in Nat BY <2>1 DEF RowType
  <2> QED BY <2>2
<1>6. item.slots \in [DOMAIN item.slots -> Nat] BY <1>2, SeqDef
<1>7. ToSet(item.slots) = {item.slots[k] : k \in DOMAIN item.slots}
  BY DEF ToSet
<1>8. \A k \in DOMAIN item.slots : item.slots[k] \in Nat BY <1>6
<1>9. ents = ({r.at[1] : r \in rows} \cup {r.target : r \in rows} \cup {item.slots[k] : k \in DOMAIN item.slots})
               \ {Nowhere}
  BY <1>7 DEF Entities
<1>10. ents \subseteq Nat \ {0} BY <1>3, <1>5, <1>8, <1>9 DEF Nowhere
<1>11. \A r \in rows : r.at[1] \in ents
  BY <1>3, <1>5, <1>9 DEF Nowhere
<1>12. \A r \in rows : r.target = Nowhere \/ r.target \in ents
  BY <1>3, <1>5, <1>9 DEF Nowhere
<1>13. \A k \in DOMAIN item.slots : item.slots[k] \in ents \cup {Nowhere}
  BY <1>9
<1>14. item.slots \in [DOMAIN item.slots -> ents \cup {Nowhere}]
  BY <1>6, <1>13
<1>15. /\ Len(item.gold) \in Nat
       /\ \A k \in 1..Len(item.gold) : item.gold[k] \in ActionType(item)
  <2>1. Len(item.gold) \in Nat /\ DOMAIN item.gold = 1..Len(item.gold) BY <1>2
  <2>2. ASSUME NEW k \in 1..Len(item.gold) PROVE item.gold[k] \in ActionType(item)
    <3>1. item.gold[k] \in [slot : Nat \ {0}, edge : Nat, read : BOOLEAN, halt : BOOLEAN]
      <4> DEFINE A == [slot : Nat \ {0}, edge : Nat, read : BOOLEAN, halt : BOOLEAN]
      <4>1. item.gold \in Seq(A) BY <1>2
      <4> HIDE DEF A
      <4>2. item.gold[k] \in A BY <4>1, ElementOfSeq
      <4> QED BY <4>2 DEF A
    <3>2. item.gold[k].slot \in DOMAIN item.slots BY <1>2, <2>1
    <3> QED BY <3>1, <3>2 DEF ActionType
  <2> QED BY <2>1, <2>2
<1>16. graph \subseteq RowType BY <1>1
<1> QED BY <1>1, <1>2, <1>3, <1>4, <1>5, <1>6, <1>10, <1>11, <1>12, <1>14, <1>15, <1>16

(* The trace starts so.                                                    *)
LEMMA TraceStartKeeps ==
  ASSUME NEW item, NEW graph, IsSound(item, graph)
  PROVE  TraceKeeps(item, graph, TraceStart(item))
BY SoundFacts DEF TraceKeeps, TraceStart

(* A step keeps it: a row that answers an entity of the world is of the    *)
(* world.                                                                  *)
LEMMA TraceStepKeeps ==
  ASSUME NEW item, NEW graph, IsSound(item, graph), NEW t, TraceKeeps(item, graph, t),
         NEW a \in ActionType(item)
  PROVE  TraceKeeps(item, graph, TraceStep(graph, t, a))
<1> DEFINE rows == ControlRows(item, graph)
           ents == Entities(item, rows)
           u == TraceStep(graph, t, a)
           row == IF t.ok /\ t.slots[a.slot] # Nowhere
                  THEN Lookup(graph, <<t.slots[a.slot], a.edge>>) ELSE Miss
<1>1. CASE ~ a.read BY <1>1 DEF TraceStep
<1>2. CASE a.read
  <2>1. row \in rows \/ row = Miss
    <3>1. CASE t.ok /\ t.slots[a.slot] # Nowhere
      <4> DEFINE at == <<t.slots[a.slot], a.edge>>
      <4>1. row = Lookup(graph, at) BY <3>1
      <4>2. t.slots[a.slot] \in ents BY <3>1 DEF TraceKeeps, ActionType
      <4>3. CASE Lookup(graph, at) # Miss
        <5>1. Lookup(graph, at) \in graph /\ Lookup(graph, at).at = at
          BY <4>3, LookupFinds DEF IsSound
        <5>2. at[1] = t.slots[a.slot] OBVIOUS
        <5> HIDE DEF at
        <5>3. Lookup(graph, at) \in rows
          <6>1. Lookup(graph, at).at[1] \in ents BY <5>1, <5>2, <4>2
          <6> HIDE DEF rows, ents
          <6> QED BY <5>1, <6>1, SoundFacts DEF rows, ents
        <5> QED BY <4>1, <5>3
      <4> QED BY <4>1, <4>3
    <3> QED BY <3>1
  <2>2. row.target = Nowhere \/ row.target \in ents
    BY <2>1, SoundFacts DEF Miss
  <2>3. /\ u.ok = (row # Miss) /\ u.rows = Append(t.rows, row)
        /\ u.slots = IF row.target = Nowhere THEN t.slots
                     ELSE [t.slots EXCEPT ![a.slot] = row.target]
    BY <1>2 DEF TraceStep
  <2>4. /\ t.slots \in [DOMAIN item.slots -> ents \cup {Nowhere}]
        /\ t.rows \in Seq(rows \cup {Miss})
        /\ t.ok => t.rows \in Seq(rows)
    BY DEF TraceKeeps
  <2> HIDE DEF u, row, ents, rows
  <2>5. u.slots \in [DOMAIN item.slots -> ents \cup {Nowhere}]
    BY <2>2, <2>3, <2>4
  <2>6. u.rows \in Seq(rows \cup {Miss}) BY <2>1, <2>3, <2>4
  <2>7. u.ok => t.ok BY <2>3 DEF row
  <2>8. u.ok => row \in rows BY <2>1, <2>3
  <2>9. u.ok => u.rows \in Seq(rows) BY <2>3, <2>4, <2>7, <2>8
  <2>10. u.ok \in BOOLEAN BY <2>3
  <2> QED BY <2>5, <2>6, <2>9, <2>10 DEF TraceKeeps, u, rows, ents
<1>3. a.read \in BOOLEAN BY DEF ActionType
<1> QED BY <1>1, <1>2, <1>3

(* So every trace of a sound item keeps it.                                *)
LEMMA TraceAlwaysKeeps ==
  ASSUME NEW item, NEW graph, IsSound(item, graph), NEW k \in 0..Len(item.gold)
  PROVE  TraceKeeps(item, graph, Table(item, graph)[k])
<1> DEFINE g == Table(item, graph)
           n == Len(item.gold)
           Good == {m \in Nat : m <= n => TraceKeeps(item, graph, g[m])}
<1>1. n \in Nat /\ \A m \in 1..n : item.gold[m] \in ActionType(item) BY SoundFacts
<1>2. g[0] = TraceStart(item) /\ \A m \in 1..n : g[m] = TraceStep(graph, g[m - 1], item.gold[m])
  BY <1>1, TableSteps
<1> HIDE DEF g, n
<1>3. 0 \in Good BY <1>2, TraceStartKeeps
<1>4. ASSUME NEW m \in Nat, m \in Good PROVE m + 1 \in Good
  <2>1. SUFFICES ASSUME m + 1 <= n PROVE TraceKeeps(item, graph, g[m + 1]) OBVIOUS
  <2>2. m + 1 \in 1..n /\ m <= n /\ (m + 1) - 1 = m BY <1>1, <2>1
  <2>3. g[m + 1] = TraceStep(graph, g[m], item.gold[m + 1]) BY <1>2, <2>2
  <2>4. item.gold[m + 1] \in ActionType(item) BY <1>1, <2>2
  <2>5. TraceKeeps(item, graph, g[m]) BY <1>4, <2>2
  <2> QED BY <2>3, <2>4, <2>5, TraceStepKeeps
<1>5. Nat \subseteq Good
  <2> HIDE DEF Good
  <2> QED BY <1>3, <1>4, Induct
<1>6. k \in Nat /\ k <= n BY <1>1 DEF n
<1> QED BY <1>5, <1>6 DEF g

-----------------------------------------------------------------------------
(* The oracle answers a sound item, and not one whose trace misses.        *)
LEMMA OracleMisses ==
  ASSUME NEW item, NEW store, ~ OracleTrace(item, store).ok
  PROVE  OracleAnswer(item, store) = "none"
BY DEF OracleAnswer

(* A trace that does not miss has an answer.                               *)
LEMMA OracleAnswers ==
  ASSUME NEW item, NEW store, OracleTrace(item, store).ok,
         item.task \in {"composition", "ordering", "equality"}
  PROVE  OracleAnswer(item, store) # "none"
<1> DEFINE t == OracleTrace(item, store)
           n == SumFunction([k \in DOMAIN t.rows |-> t.rows[k].value])
<1>1. t.ok OBVIOUS
<1>2. OracleAnswer(item, store) =
        CASE ~ t.ok -> "none"
        [] t.ok /\ item.task = "composition" -> ResidueName(n)
        [] t.ok /\ item.task = "ordering" ->
             (IF t.rows[1].value < t.rows[2].value THEN "slot_0" ELSE "slot_1")
        [] t.ok /\ item.task = "equality" ->
             (IF t.rows[1].value = t.rows[2].value THEN "yes" ELSE "no")
  BY DEF OracleAnswer
<1> HIDE DEF t, n
<1>3. CASE item.task = "composition"
  <2>1. OracleAnswer(item, store) = ResidueName(n) BY <1>1, <1>2, <1>3
  <2>2. ResidueName(n) # "none" BY DEF ResidueName
  <2> QED BY <2>1, <2>2
<1>4. CASE item.task = "ordering" BY <1>1, <1>2, <1>4
<1>5. CASE item.task = "equality" BY <1>1, <1>2, <1>5
<1> QED BY <1>3, <1>4, <1>5

(* A sound item is answered, from rows of its world.                       *)
LEMMA SoundTrace ==
  ASSUME NEW item, NEW graph, IsSound(item, graph)
  PROVE  /\ OracleTrace(item, graph).ok
         /\ OracleTrace(item, graph).rows \in Seq(ControlRows(item, graph))
         /\ OracleAnswer(item, graph) # "none"
<1>1. OracleTrace(item, graph).ok /\ item.task \in {"composition", "ordering", "equality"}
  BY DEF IsSound, ItemIsSound, ItemType
<1>2. Len(item.gold) \in 0..Len(item.gold)
  BY SoundFacts
<1>3. TraceKeeps(item, graph, OracleTrace(item, graph)) BY <1>2, TraceIsTable, TraceAlwaysKeeps
<1> QED BY <1>1, <1>3, OracleAnswers DEF TraceKeeps

(* The rows of the path are rows of the item's world.                      *)
LEMMA PathRows ==
  ASSUME NEW item, NEW graph, IsSound(item, graph)
  PROVE  /\ ToSet(OracleTrace(item, graph).rows) \subseteq ControlRows(item, graph)
         /\ \A at \in Path(OracleTrace(item, graph)) : \E q \in ControlRows(item, graph) : q.at = at
BY SoundTrace DEF ToSet, Path

-----------------------------------------------------------------------------
(* Without one row of its path, a trace misses.                            *)
Without(graph, at) == {r \in graph : r.at # at}
Avoids(t, at) == \A j \in 1..Len(t.rows) : t.rows[j].at # at

(* A trace that has missed has missed for good.                            *)
LEMMA MissStays ==
  ASSUME NEW store, NEW t, ~ t.ok, NEW a
  PROVE  ~ TraceStep(store, t, a).ok
BY DEF TraceStep

(* A trace that has not read an address steps the same without its row, or *)
(* misses.                                                                 *)
LEMMA StepMisses ==
  ASSUME NEW item, NEW graph, IsSound(item, graph), NEW t, TraceKeeps(item, graph, t),
         NEW a \in ActionType(item), NEW at, Avoids(t, at)
  PROVE  \/ ~ TraceStep(Without(graph, at), t, a).ok
         \/ /\ TraceStep(Without(graph, at), t, a) = TraceStep(graph, t, a)
            /\ Avoids(TraceStep(graph, t, a), at)
<1> DEFINE x == <<t.slots[a.slot], a.edge>>
           row == IF t.ok /\ t.slots[a.slot] # Nowhere THEN Lookup(graph, x) ELSE Miss
           low == IF t.ok /\ t.slots[a.slot] # Nowhere
                  THEN Lookup(Without(graph, at), x) ELSE Miss
           u == TraceStep(graph, t, a)
           w == TraceStep(Without(graph, at), t, a)
<1>1. CASE ~ a.read BY <1>1 DEF TraceStep
<1>2. CASE a.read
  <2>1. /\ u = [ok |-> row # Miss, rows |-> Append(t.rows, row),
                slots |-> IF row.target = Nowhere THEN t.slots
                          ELSE [t.slots EXCEPT ![a.slot] = row.target]]
        /\ w = [ok |-> low # Miss, rows |-> Append(t.rows, low),
                slots |-> IF low.target = Nowhere THEN t.slots
                          ELSE [t.slots EXCEPT ![a.slot] = low.target]]
    BY <1>2 DEF TraceStep
  <2>2. low = Miss \/ (low = row /\ row.at # at)
    <3>1. CASE ~(t.ok /\ t.slots[a.slot] # Nowhere) BY <3>1
    <3>2. CASE t.ok /\ t.slots[a.slot] # Nowhere
      <4> HIDE DEF x
      <4>1. row = Lookup(graph, x) /\ low = Lookup(Without(graph, at), x) BY <3>2
      <4>2. GraphIsSound(graph) BY DEF IsSound
      <4>3. CASE Lookup(graph, x) = Miss /\ \A r \in graph : r.at # x
        <5>1. \A q \in Without(graph, at) : q.at # x BY <4>3 DEF Without
        <5> QED BY <4>1, <5>1, LookupMisses
      <4>4. CASE Lookup(graph, x) \in graph /\ Lookup(graph, x).at = x
        <5>1. CASE x = at
          <6>1. \A q \in Without(graph, at) : q.at # x BY <5>1 DEF Without
          <6> QED BY <4>1, <6>1, LookupMisses
        <5>2. CASE x # at
          <6>1. row \in Without(graph, at) /\ row.at = x BY <4>1, <4>4, <5>2 DEF Without
          <6>2. \A q \in Without(graph, at) : q.at = row.at => q = row
            BY <4>1, <4>4, <4>2 DEF GraphIsSound, Without
          <6>3. Lookup(Without(graph, at), row.at) = row
            <7> HIDE DEF row
            <7> QED BY <6>1, <6>2, LookupThere
          <6> QED BY <4>1, <6>1, <6>3, <5>2
        <5> QED BY <5>1, <5>2
      <4> QED BY <4>2, <4>3, <4>4, LookupFinds
    <3> QED BY <3>1, <3>2
  <2>3. t.rows \in Seq(ControlRows(item, graph) \cup {Miss}) BY DEF TraceKeeps
  <2> HIDE DEF u, w, row, low
  <2>4. CASE low = Miss
    <3>1. ~ w.ok BY <2>1, <2>4
    <3> QED BY <3>1 DEF w
  <2>5. CASE low = row /\ row.at # at
    <3>1. u = w BY <2>1, <2>5
    <3>2. u.rows = Append(t.rows, row) BY <2>1
    <3>3. ASSUME NEW j \in 1..Len(u.rows) PROVE u.rows[j].at # at
      <4>1. Len(u.rows) = Len(t.rows) + 1 /\ Len(t.rows) \in Nat
            /\ u.rows[Len(t.rows) + 1] = row /\ \A i \in 1..Len(t.rows) : u.rows[i] = t.rows[i]
        BY <2>3, <3>2
      <4>2. j = Len(t.rows) + 1 \/ j \in 1..Len(t.rows) BY <4>1
      <4> QED BY <2>5, <4>1, <4>2 DEF Avoids
    <3> QED BY <3>1, <3>3 DEF Avoids, u, w
  <2> QED BY <2>2, <2>4, <2>5
<1>3. a.read \in BOOLEAN BY DEF ActionType
<1> QED BY <1>1, <1>2, <1>3

(* So the deletion of a row on the path leaves no answer (explicit_miss).  *)
LEMMA TraceMisses ==
  ASSUME NEW item, NEW graph, IsSound(item, graph), NEW at \in Path(OracleTrace(item, graph))
  PROVE  OracleAnswer(item, Without(graph, at)) = "none"
<1> DEFINE g == Table(item, graph)
           h == Table(item, Without(graph, at))
           n == Len(item.gold)
           Good == {m \in Nat : m <= n => (~ h[m].ok \/ (h[m] = g[m] /\ Avoids(g[m], at)))}
<1>1. n \in Nat /\ \A m \in 1..n : item.gold[m] \in ActionType(item) BY SoundFacts
<1>2. /\ g[0] = TraceStart(item) /\ h[0] = TraceStart(item)
      /\ \A m \in 1..n : /\ g[m] = TraceStep(graph, g[m - 1], item.gold[m])
                         /\ h[m] = TraceStep(Without(graph, at), h[m - 1], item.gold[m])
  BY <1>1, TableSteps
<1>3. \A m \in 0..n : TraceKeeps(item, graph, g[m]) BY TraceAlwaysKeeps
<1>4. OracleTrace(item, graph) = g[n] /\ OracleTrace(item, Without(graph, at)) = h[n] BY TraceIsTable
<1> HIDE DEF g, h, n
<1>5. 0 \in Good
  <2>1. Avoids(TraceStart(item), at) BY DEF Avoids, TraceStart
  <2> QED BY <1>2, <2>1
<1>6. ASSUME NEW m \in Nat, m \in Good PROVE m + 1 \in Good
  <2>1. SUFFICES ASSUME m + 1 <= n
                 PROVE  ~ h[m + 1].ok \/ (h[m + 1] = g[m + 1] /\ Avoids(g[m + 1], at))
    OBVIOUS
  <2>2. m + 1 \in 1..n /\ m <= n /\ (m + 1) - 1 = m /\ m \in 0..n BY <1>1, <2>1
  <2>3. /\ g[m + 1] = TraceStep(graph, g[m], item.gold[m + 1])
        /\ h[m + 1] = TraceStep(Without(graph, at), h[m], item.gold[m + 1])
    BY <1>2, <2>2
  <2>4. CASE ~ h[m].ok BY <2>3, <2>4, MissStays
  <2>5. CASE h[m] = g[m] /\ Avoids(g[m], at)
    <3>1. item.gold[m + 1] \in ActionType(item) /\ TraceKeeps(item, graph, g[m]) BY <1>1, <1>3, <2>2
    <3> QED BY <2>3, <2>5, <3>1, StepMisses
  <2> QED BY <1>6, <2>2, <2>4, <2>5
<1>7. Nat \subseteq Good
  <2> HIDE DEF Good
  <2> QED BY <1>5, <1>6, Induct
<1>8. ~ h[n].ok \/ Avoids(g[n], at) BY <1>1, <1>7
<1>9. ~ Avoids(g[n], at)
  <2>1. at \in {r.at : r \in ToSet(g[n].rows)} BY <1>4 DEF Path
  <2>2. g[n].rows \in Seq(ControlRows(item, graph)) BY <1>4, SoundTrace
  <2>3. PICK j \in 1..Len(g[n].rows) : g[n].rows[j].at = at BY <2>1, <2>2 DEF ToSet
  <2> QED BY <2>3 DEF Avoids
<1> QED BY <1>4, <1>8, <1>9, OracleMisses

-----------------------------------------------------------------------------
(* A renaming: injective on the entities of the world, and onto nothing    *)
(* that another world reads from.                                          *)
IsRenaming(item, graph, m) ==
  LET ents == Entities(item, ControlRows(item, graph))
  IN  /\ m \in [ents -> Nat \ {0}]
      /\ \A a, b \in ents : m[a] = m[b] => a = b
      /\ \A r \in graph \ ControlRows(item, graph) : \A e \in ents : r.at[1] # m[e]

(* A renamed row is at the renamed source, with the renamed target.        *)
LEMMA RemapRowIs ==
  ASSUME NEW item, NEW graph, IsSound(item, graph), NEW m, IsRenaming(item, graph, m),
         NEW r \in ControlRows(item, graph)
  PROVE  /\ RemapRow(r, m).at = <<m[r.at[1]], r.at[2]>>
         /\ RemapRow(r, m).target = IF r.target = Nowhere THEN Nowhere ELSE m[r.target]
         /\ RemapRow(r, m).value = r.value
         /\ RemapRow(r, m) # Miss
         /\ m[r.at[1]] \in Nat \ {0}
<1>1. r \in RowType /\ r.at[1] \in Entities(item, ControlRows(item, graph)) /\ r.at[2] \in Nat
  BY SoundFacts
<1>2. m[r.at[1]] \in Nat \ {0} BY <1>1 DEF IsRenaming
<1>3. /\ RemapRow(r, m).at = <<m[r.at[1]], r.at[2]>>
      /\ RemapRow(r, m).target = IF r.target = Nowhere THEN Nowhere ELSE m[r.target]
      /\ RemapRow(r, m).value = r.value
  BY <1>1 DEF RemapRow, RowType
<1>4. RemapRow(r, m) # Miss
  <2> DEFINE z == RemapRow(r, m)
  <2>1. z.at = <<m[r.at[1]], r.at[2]>> BY <1>3
  <2> HIDE DEF z
  <2>2. Len(z.at) = 2 BY <2>1
  <2>3. Len(Miss.at) = 0 BY DEF Miss
  <2>4. z # Miss BY <2>2, <2>3
  <2> QED BY <2>4 DEF z
<1> QED BY <1>2, <1>3, <1>4

(* Both halves of a renamed store.                                         *)
LEMMA RemapStoreIs ==
  ASSUME NEW item, NEW graph, IsSound(item, graph), NEW m, IsRenaming(item, graph, m)
  PROVE  LET rows == ControlRows(item, graph)
         IN  RemapStore(graph, rows, m) = {RemapRow(r, m) : r \in rows} \cup (graph \ rows)
<1> DEFINE rows == ControlRows(item, graph)
           ents == Entities(item, rows)
           images == {m[e] : e \in DOMAIN m}
           scoped == {r.at[1] : r \in rows}
<1>1. /\ rows \subseteq graph /\ \A r \in rows : r.at[1] \in ents
      /\ \A r \in graph \ rows : r.at[1] \notin ents
  BY SoundFacts
<1>2. DOMAIN m = ents /\ \A r \in graph \ rows : \A e \in ents : r.at[1] # m[e]
  BY DEF IsRenaming
<1>3. RemapStore(graph, rows, m) = {RemapRow(r, m) : r \in {r \in graph : r.at[1] \in scoped}}
                                     \cup {r \in graph : r.at[1] \notin images \cup scoped}
  BY DEF RemapStore
<1> HIDE DEF rows, ents
<1>4. {r \in graph : r.at[1] \in scoped} = rows
  BY <1>1
<1>5. {r \in graph : r.at[1] \notin images \cup scoped} = graph \ rows
  BY <1>1, <1>2
<1> QED BY <1>3, <1>4, <1>5 DEF rows

(* A renamed store answers at a renamed address with the renamed row, and  *)
(* of the other worlds with the row there was.                             *)
LEMMA RemapLookup ==
  ASSUME NEW item, NEW graph, IsSound(item, graph), NEW m, IsRenaming(item, graph, m)
  PROVE  LET rows == ControlRows(item, graph)
             moved == RemapStore(graph, rows, m)
         IN  /\ \A r \in rows : Lookup(moved, <<m[r.at[1]], r.at[2]>>) = RemapRow(r, m)
             /\ \A r \in graph \ rows : Lookup(moved, r.at) = r
<1> DEFINE rows == ControlRows(item, graph)
           ents == Entities(item, rows)
           moved == RemapStore(graph, rows, m)
<1>1. /\ rows \subseteq graph /\ \A r \in rows : r.at[1] \in ents
      /\ \A r, q \in graph : r.at = q.at => r = q
      /\ \A r \in graph : r.at \in (Nat \ {0}) \X Nat
  BY SoundFacts, RowIsNoMiss
<1>2. moved = {RemapRow(r, m) : r \in rows} \cup (graph \ rows)
  BY RemapStoreIs
<1>3. \A r \in rows : RemapRow(r, m).at = <<m[r.at[1]], r.at[2]>> BY RemapRowIs
<1>4. /\ \A a, b \in ents : m[a] = m[b] => a = b
      /\ \A r \in graph \ rows : \A e \in ents : r.at[1] # m[e]
  BY DEF IsRenaming
<1> HIDE DEF rows, ents, moved
<1>5. ASSUME NEW r \in rows PROVE Lookup(moved, <<m[r.at[1]], r.at[2]>>) = RemapRow(r, m)
  <2> DEFINE z == RemapRow(r, m)
  <2>1. z \in moved /\ z.at = <<m[r.at[1]], r.at[2]>> BY <1>2, <1>3
  <2>2. ASSUME NEW q \in moved, q.at = z.at PROVE q = z
    <3>1. CASE q \in graph \ rows
      <4>1. q.at[1] = m[r.at[1]] BY <2>1, <2>2
      <4> QED BY <1>1, <1>4, <3>1, <4>1
    <3>2. CASE \E p \in rows : q = RemapRow(p, m)
      <4>1. PICK p \in rows : q = RemapRow(p, m) BY <3>2
      <4>2. <<m[p.at[1]], p.at[2]>> = <<m[r.at[1]], r.at[2]>> BY <1>3, <2>1, <2>2, <4>1
      <4>3. m[p.at[1]] = m[r.at[1]] /\ p.at[2] = r.at[2] BY <4>2
      <4>4. p.at[1] = r.at[1] BY <1>1, <1>4, <4>3
      <4>5. p.at \in (Nat \ {0}) \X Nat /\ r.at \in (Nat \ {0}) \X Nat BY <1>1
      <4>6. p.at = r.at BY <4>3, <4>4, <4>5
      <4> QED BY <1>1, <4>1, <4>6
    <3> QED BY <1>2, <3>1, <3>2
  <2> HIDE DEF z
  <2>3. Lookup(moved, z.at) = z BY <2>1, <2>2, LookupThere
  <2> QED BY <2>1, <2>3 DEF z
<1>6. ASSUME NEW r \in graph \ rows PROVE Lookup(moved, r.at) = r
  <2>1. r \in moved BY <1>2
  <2>2. ASSUME NEW q \in moved, q.at = r.at PROVE q = r
    <3>1. CASE q \in graph \ rows BY <1>1, <2>2, <3>1
    <3>2. CASE \E p \in rows : q = RemapRow(p, m)
      <4>1. PICK p \in rows : q = RemapRow(p, m) BY <3>2
      <4>2. q.at[1] = m[p.at[1]] BY <1>3, <4>1
      <4> QED BY <1>1, <1>4, <2>2, <4>2
    <3> QED BY <1>2, <3>1, <3>2
  <2> QED BY <2>1, <2>2, LookupThere
<1> QED BY <1>5, <1>6 DEF rows, moved

(* A renamed item differs in its slots.                                    *)
LEMMA RemapItemIs ==
  ASSUME NEW item, NEW graph, IsSound(item, graph), NEW m
  PROVE  /\ RemapItem(item, m).gold = item.gold /\ RemapItem(item, m).task = item.task
         /\ RemapItem(item, m).slots =
              [k \in DOMAIN item.slots |-> IF item.slots[k] = Nowhere THEN item.slots[k]
                                           ELSE m[item.slots[k]]]
<1>1. item \in ItemType BY DEF IsSound, ItemIsSound
<1> QED BY <1>1 DEF RemapItem, ItemType

-----------------------------------------------------------------------------
(* A trace of the renamed item in the renamed store: the same, renamed.    *)
MapsTo(item, graph, m, t, w) ==
  /\ w.ok
  /\ w.slots = [k \in DOMAIN item.slots |->
                  IF t.slots[k] = Nowhere THEN Nowhere ELSE m[t.slots[k]]]
  /\ w.rows \in Seq({RemapRow(r, m) : r \in ControlRows(item, graph)})
  /\ Len(w.rows) = Len(t.rows)
  /\ \A j \in 1..Len(t.rows) : w.rows[j].value = t.rows[j].value

(* A step of a trace and a step of the renamed trace stay images of each   *)
(* other.                                                                  *)
LEMMA TraceStepMaps ==
  ASSUME NEW item, NEW graph, IsSound(item, graph), NEW m, IsRenaming(item, graph, m),
         NEW t, NEW w, TraceKeeps(item, graph, t), MapsTo(item, graph, m, t, w),
         NEW a \in ActionType(item), TraceStep(graph, t, a).ok
  PROVE  MapsTo(item, graph, m, TraceStep(graph, t, a),
                TraceStep(RemapStore(graph, ControlRows(item, graph), m), w, a))
<1> DEFINE rows == ControlRows(item, graph)
           ents == Entities(item, rows)
           moved == RemapStore(graph, rows, m)
           u == TraceStep(graph, t, a)
           x == TraceStep(moved, w, a)
           s == t.slots[a.slot]
           row == IF t.ok /\ s # Nowhere THEN Lookup(graph, <<s, a.edge>>) ELSE Miss
           new == IF w.ok /\ w.slots[a.slot] # Nowhere
                  THEN Lookup(moved, <<w.slots[a.slot], a.edge>>) ELSE Miss
<1>1. CASE ~ a.read BY <1>1 DEF TraceStep
<1>2. CASE a.read
  <2>1. /\ u = [ok |-> row # Miss, rows |-> Append(t.rows, row),
                slots |-> IF row.target = Nowhere THEN t.slots
                          ELSE [t.slots EXCEPT ![a.slot] = row.target]]
        /\ x = [ok |-> new # Miss, rows |-> Append(w.rows, new),
                slots |-> IF new.target = Nowhere THEN w.slots
                          ELSE [w.slots EXCEPT ![a.slot] = new.target]]
    BY <1>2 DEF TraceStep
  <2>2. row # Miss
    <3>1. u.ok OBVIOUS
    <3>2. u.ok = (row # Miss)
      <4> HIDE DEF u, row
      <4> QED BY <2>1
    <3> QED BY <3>1, <3>2
  <2>3. t.ok /\ s # Nowhere /\ row = Lookup(graph, <<s, a.edge>>) BY <2>2
  <2>4. row \in graph /\ row.at = <<s, a.edge>>
    <3> DEFINE at == <<s, a.edge>>
    <3>1. row = Lookup(graph, at) BY <2>3
    <3> HIDE DEF at, row
    <3>2. row \in graph /\ row.at = at BY <2>2, <3>1, LookupFinds DEF IsSound
    <3> QED BY <3>2 DEF at
  <2>5. /\ t.slots \in [DOMAIN item.slots -> ents \cup {Nowhere}]
        /\ t.rows \in Seq(rows \cup {Miss}) /\ a.slot \in DOMAIN item.slots
    BY DEF TraceKeeps, ActionType
  <2>6. s \in ents BY <2>3, <2>5
  <2>7. row \in rows
    <3>1. row.at[1] = s BY <2>4
    <3> HIDE DEF row, s
    <3> QED BY <2>4, <2>6, <3>1, SoundFacts
  <2>8. m \in [ents -> Nat \ {0}] BY DEF IsRenaming
  <2>9. w.ok /\ w.slots[a.slot] = m[s] /\ m[s] # Nowhere
    BY <2>3, <2>5, <2>6, <2>8 DEF MapsTo, Nowhere
  <2>10. new = RemapRow(row, m)
    <3>1. new = Lookup(moved, <<m[s], a.edge>>) BY <2>9
    <3>2. row.at[1] = s /\ row.at[2] = a.edge BY <2>4
    <3>3. Lookup(moved, <<m[row.at[1]], row.at[2]>>) = RemapRow(row, m)
      <4> HIDE DEF row
      <4> QED BY <2>7, RemapLookup
    <3> QED BY <3>1, <3>2, <3>3
  <2>11. /\ new.target = IF row.target = Nowhere THEN Nowhere ELSE m[row.target]
         /\ new.value = row.value /\ new # Miss
         /\ row.target = Nowhere \/ row.target \in ents
    <3> HIDE DEF row, new
    <3> QED BY <2>7, <2>10, RemapRowIs, SoundFacts
  <2>12. new \in {RemapRow(r, m) : r \in rows}
    <3> HIDE DEF row, new, rows
    <3> QED BY <2>7, <2>10
  <2>13. /\ w.slots = [k \in DOMAIN item.slots |->
                         IF t.slots[k] = Nowhere THEN Nowhere ELSE m[t.slots[k]]]
         /\ w.rows \in Seq({RemapRow(r, m) : r \in rows})
         /\ Len(w.rows) = Len(t.rows)
         /\ \A j \in 1..Len(t.rows) : w.rows[j].value = t.rows[j].value
    BY DEF MapsTo
  <2> DEFINE D == DOMAIN item.slots
             R == {RemapRow(r, m) : r \in rows}
             Q == rows \cup {Miss}
  <2>14. row \in Q BY <2>7
  <2> HIDE DEF row, new, moved, rows, ents, u, x, D, R, Q, s
  <2>15. /\ x.ok /\ u.rows = Append(t.rows, row) /\ x.rows = Append(w.rows, new)
         /\ u.slots = IF row.target = Nowhere THEN t.slots
                      ELSE [t.slots EXCEPT ![a.slot] = row.target]
         /\ x.slots = IF new.target = Nowhere THEN w.slots
                      ELSE [w.slots EXCEPT ![a.slot] = new.target]
    BY <2>1, <2>11
  <2>16. t.rows \in Seq(Q) /\ w.rows \in Seq(R) /\ new \in R BY <2>5, <2>12, <2>13 DEF Q, R
  <2>17. x.rows \in Seq(R) /\ Len(x.rows) = Len(u.rows)
         /\ Len(u.rows) = Len(t.rows) + 1 /\ Len(t.rows) \in Nat
    BY <2>13, <2>14, <2>15, <2>16
  <2>18. ASSUME NEW j \in 1..Len(u.rows) PROVE x.rows[j].value = u.rows[j].value
    <3>1. j = Len(t.rows) + 1 \/ j \in 1..Len(t.rows) BY <2>17
    <3>2. CASE j = Len(t.rows) + 1
      <4>1. x.rows[j] = new /\ u.rows[j] = row BY <2>13, <2>14, <2>15, <2>16, <3>2
      <4> QED BY <4>1, <2>11
    <3>3. CASE j \in 1..Len(t.rows)
      <4>1. x.rows[j] = w.rows[j] /\ u.rows[j] = t.rows[j] BY <2>13, <2>14, <2>15, <2>16, <3>3
      <4> QED BY <4>1, <2>13, <3>3
    <3> QED BY <3>1, <3>2, <3>3
  <2>19. x.slots = [k \in D |-> IF u.slots[k] = Nowhere THEN Nowhere ELSE m[u.slots[k]]]
    <3>0. w.slots = [k \in D |-> IF t.slots[k] = Nowhere THEN Nowhere ELSE m[t.slots[k]]]
          /\ t.slots \in [D -> ents \cup {Nowhere}] /\ a.slot \in D
      BY <2>5, <2>13 DEF D
    <3>1. CASE row.target = Nowhere BY <2>11, <2>15, <3>0, <3>1
    <3>2. CASE row.target # Nowhere
      <4>1. row.target \in ents /\ new.target = m[row.target] /\ m[row.target] # Nowhere
        BY <2>8, <2>11, <3>2 DEF Nowhere
      <4>2. x.slots = [w.slots EXCEPT ![a.slot] = new.target]
            /\ u.slots = [t.slots EXCEPT ![a.slot] = row.target]
        BY <2>15, <3>2, <4>1
      <4> QED BY <3>0, <3>2, <4>1, <4>2
    <3> QED BY <3>1, <3>2
  <2>20. MapsTo(item, graph, m, u, x)
    BY <2>15, <2>17, <2>18, <2>19 DEF MapsTo, D, R, rows
  <2> QED BY <2>20 DEF u, x, moved, rows
<1>3. a.read \in BOOLEAN BY DEF ActionType
<1> QED BY <1>1, <1>2, <1>3

(* Induction over the subsets of a finite set: a subset is in as soon as it*)
(* is with any one element taken away.                                     *)
LEMMA SetInduct ==
  ASSUME NEW S, IsFiniteSet(S), NEW P, {} \in P,
         \A s \in SUBSET S : s # {} /\ (\A y \in s : s \ {y} \in P) => s \in P
  PROVE  S \in P
<1> DEFINE Good == {n \in Nat : \A s \in SUBSET S : Cardinality(s) = n => s \in P}
<1>1. ASSUME NEW s \in SUBSET S
      PROVE  /\ Cardinality(s) \in Nat
             /\ (Cardinality(s) = 0) = (s = {})
             /\ \A y \in s : Cardinality(s \ {y}) = Cardinality(s) - 1
  BY FS_Subset, FS_CardinalityType, FS_EmptySet, FS_RemoveElement
<1>2. 0 \in Good BY <1>1
<1>3. ASSUME NEW n \in Nat, n \in Good PROVE n + 1 \in Good
  <2>1. ASSUME NEW s \in SUBSET S, Cardinality(s) = n + 1 PROVE s \in P
    <3>1. s # {}
      <4>1. Cardinality(s) # 0 BY <2>1
      <4> QED BY <4>1, <1>1
    <3>2. ASSUME NEW y \in s PROVE s \ {y} \in P
      <4>1. s \ {y} \in SUBSET S /\ Cardinality(s \ {y}) = n BY <1>1, <2>1
      <4> QED BY <4>1, <1>3
    <3> QED BY <3>1, <3>2
  <2> QED BY <2>1
<1>4. Nat \subseteq Good
  <2> HIDE DEF Good
  <2> QED BY <1>2, <1>3, Induct
<1> QED BY <1>4, <1>1

(* The length of a sequence given by its elements.                         *)
LEMMA LenIs ==
  ASSUME NEW n \in Nat, NEW s, s = [i \in 1..n |-> s[i]]
  PROVE  Len(s) = n /\ DOMAIN s = 1..n
<1> DEFINE T == {s[i] : i \in 1..n}
<1>1. s \in [1..n -> T] OBVIOUS
<1> HIDE DEF T
<1> QED BY <1>1, LenProperties, SeqDef

(* A quotient and a remainder are unique.                                  *)
LEMMA DivModUnique ==
  ASSUME NEW d \in Nat \ {0}, NEW q \in Nat, NEW r \in Nat, r < d
  PROVE  (d * q + r) \div d = q /\ (d * q + r) % d = r
OBVIOUS

-----------------------------------------------------------------------------
(* The renamed trace does not miss, so the renamed item is answered as     *)
(* before.                                                                 *)
LEMMA TraceMaps ==
  ASSUME NEW item, NEW graph, IsSound(item, graph), NEW m, IsRenaming(item, graph, m)
  PROVE  MapsTo(item, graph, m, OracleTrace(item, graph),
                OracleTrace(RemapItem(item, m), RemapStore(graph, ControlRows(item, graph), m)))
<1> DEFINE moved == RemapStore(graph, ControlRows(item, graph), m)
           new == RemapItem(item, m)
           g == Table(item, graph)
           h == Table(new, moved)
           n == Len(item.gold)
           Good == {j \in Nat : j <= n /\ g[j].ok => MapsTo(item, graph, m, g[j], h[j])}
<1>1. n \in Nat /\ \A j \in 1..n : item.gold[j] \in ActionType(item) BY SoundFacts
<1>2. /\ new.gold = item.gold
      /\ new.slots = [k \in DOMAIN item.slots |-> IF item.slots[k] = Nowhere THEN item.slots[k]
                                                  ELSE m[item.slots[k]]]
  BY RemapItemIs
<1> HIDE DEF new, moved
<1>3. /\ g[0] = TraceStart(item) /\ h[0] = TraceStart(new)
      /\ \A j \in 1..n : /\ g[j] = TraceStep(graph, g[j - 1], item.gold[j])
                         /\ h[j] = TraceStep(moved, h[j - 1], item.gold[j])
  BY <1>1, <1>2, TableSteps
<1>4. \A j \in 0..n : TraceKeeps(item, graph, g[j]) BY TraceAlwaysKeeps
<1>5. OracleTrace(item, graph) = g[n] /\ OracleTrace(new, moved) = h[n] BY <1>2, TraceIsTable
<1> HIDE DEF g, h, n
<1>6. 0 \in Good
  <2>1. MapsTo(item, graph, m, TraceStart(item), TraceStart(new))
    <3> DEFINE R == {RemapRow(r, m) : r \in ControlRows(item, graph)}
    <3>1. << >> \in Seq(R) /\ Len(<< >>) = 0 OBVIOUS
    <3>2. new.slots = [k \in DOMAIN item.slots |-> IF item.slots[k] = Nowhere THEN Nowhere
                                                   ELSE m[item.slots[k]]]
      BY <1>2
    <3> HIDE DEF R
    <3> QED BY <3>1, <3>2 DEF TraceStart, MapsTo, R
  <2> QED BY <1>3, <2>1
<1>7. ASSUME NEW j \in Nat, j \in Good PROVE j + 1 \in Good
  <2>1. SUFFICES ASSUME j + 1 <= n, g[j + 1].ok PROVE MapsTo(item, graph, m, g[j + 1], h[j + 1])
    OBVIOUS
  <2>2. j + 1 \in 1..n /\ j <= n /\ (j + 1) - 1 = j /\ j \in 0..n BY <1>1, <2>1
  <2>3. /\ g[j + 1] = TraceStep(graph, g[j], item.gold[j + 1])
        /\ h[j + 1] = TraceStep(moved, h[j], item.gold[j + 1])
    BY <1>3, <2>2
  <2>4. g[j].ok BY <2>1, <2>3, MissStays
  <2>5. MapsTo(item, graph, m, g[j], h[j]) BY <1>7, <2>2, <2>4
  <2>6. item.gold[j + 1] \in ActionType(item) /\ TraceKeeps(item, graph, g[j]) BY <1>1, <1>4, <2>2
  <2> QED BY <2>1, <2>3, <2>5, <2>6, TraceStepMaps DEF moved
<1>8. Nat \subseteq Good
  <2> HIDE DEF Good
  <2> QED BY <1>6, <1>7, Induct
<1>9. g[n].ok BY <1>5, SoundTrace
<1>10. MapsTo(item, graph, m, g[n], h[n]) BY <1>1, <1>8, <1>9
<1> QED BY <1>5, <1>10 DEF new, moved

(* A renamed item is answered in the renamed store as it was               *)
(* (entity_rename, graph_isomorphism).                                     *)
LEMMA RenamedAnswer ==
  ASSUME NEW item, NEW graph, IsSound(item, graph), NEW m, IsRenaming(item, graph, m)
  PROVE  OracleAnswer(RemapItem(item, m), RemapStore(graph, ControlRows(item, graph), m))
           = OracleAnswer(item, graph)
<1> DEFINE moved == RemapStore(graph, ControlRows(item, graph), m)
           new == RemapItem(item, m)
           t == OracleTrace(item, graph)
           w == OracleTrace(new, moved)
           v == [k \in DOMAIN t.rows |-> t.rows[k].value]
           x == [k \in DOMAIN w.rows |-> w.rows[k].value]
<1>1. MapsTo(item, graph, m, t, w) /\ t.ok /\ t.rows \in Seq(ControlRows(item, graph))
  BY TraceMaps, SoundTrace
<1>2. new.task = item.task BY RemapItemIs
<1>3. /\ item.task \in {"composition", "ordering", "equality"}
      /\ item.task # "composition" => Len(t.rows) = 2
  BY DEF IsSound, ItemIsSound, ItemType
<1>4. /\ w.ok /\ \A j \in 1..Len(t.rows) : w.rows[j].value = t.rows[j].value
      /\ DOMAIN w.rows = 1..Len(t.rows) /\ DOMAIN t.rows = 1..Len(t.rows)
  <2> DEFINE R == {RemapRow(r, m) : r \in ControlRows(item, graph)}
  <2>1. /\ w.ok /\ w.rows \in Seq(R) /\ Len(w.rows) = Len(t.rows)
        /\ \A j \in 1..Len(t.rows) : w.rows[j].value = t.rows[j].value
    BY <1>1 DEF MapsTo
  <2> HIDE DEF R, t, w
  <2> QED BY <1>1, <2>1
<1>5. /\ OracleAnswer(item, graph) =
           CASE ~ t.ok -> "none"
           [] t.ok /\ item.task = "composition" -> ResidueName(SumFunction(v))
           [] t.ok /\ item.task = "ordering" ->
                (IF t.rows[1].value < t.rows[2].value THEN "slot_0" ELSE "slot_1")
           [] t.ok /\ item.task = "equality" ->
                (IF t.rows[1].value = t.rows[2].value THEN "yes" ELSE "no")
      /\ OracleAnswer(new, moved) =
           CASE ~ w.ok -> "none"
           [] w.ok /\ new.task = "composition" -> ResidueName(SumFunction(x))
           [] w.ok /\ new.task = "ordering" ->
                (IF w.rows[1].value < w.rows[2].value THEN "slot_0" ELSE "slot_1")
           [] w.ok /\ new.task = "equality" ->
                (IF w.rows[1].value = w.rows[2].value THEN "yes" ELSE "no")
  BY DEF OracleAnswer
<1>6. x = v BY <1>4
<1> HIDE DEF t, w, v, x, new, moved
<1>7. CASE item.task = "composition"
  <2>1. OracleAnswer(item, graph) = ResidueName(SumFunction(v)) BY <1>1, <1>5, <1>7
  <2>2. OracleAnswer(new, moved) = ResidueName(SumFunction(x)) BY <1>2, <1>4, <1>5, <1>7
  <2> QED BY <1>6, <2>1, <2>2 DEF new, moved
<1>8. CASE item.task # "composition"
  <2>1. w.rows[1].value = t.rows[1].value /\ w.rows[2].value = t.rows[2].value
    BY <1>3, <1>4, <1>8
  <2>2. CASE item.task = "ordering"
    <3>1. OracleAnswer(item, graph) =
            (IF t.rows[1].value < t.rows[2].value THEN "slot_0" ELSE "slot_1")
      BY <1>1, <1>5, <2>2
    <3>2. OracleAnswer(new, moved) =
            (IF w.rows[1].value < w.rows[2].value THEN "slot_0" ELSE "slot_1")
      BY <1>2, <1>4, <1>5, <2>2
    <3> QED BY <2>1, <3>1, <3>2 DEF new, moved
  <2>3. CASE item.task = "equality"
    <3>1. OracleAnswer(item, graph) =
            (IF t.rows[1].value = t.rows[2].value THEN "yes" ELSE "no")
      BY <1>1, <1>5, <2>3
    <3>2. OracleAnswer(new, moved) =
            (IF w.rows[1].value = w.rows[2].value THEN "yes" ELSE "no")
      BY <1>2, <1>4, <1>5, <2>3
    <3> QED BY <2>1, <3>1, <3>2 DEF new, moved
  <2> QED BY <1>3, <1>8, <2>2, <2>3
<1> QED BY <1>7, <1>8

-----------------------------------------------------------------------------
(* An order of a finite set has each of its elements once.                 *)
LEMMA OrderIs ==
  ASSUME NEW S, IsFiniteSet(S), NEW o \in SetToSeqs(S)
  PROVE  /\ Cardinality(S) \in Nat /\ Len(o) = Cardinality(S) /\ DOMAIN o = 1..Cardinality(S)
         /\ \A k \in 1..Cardinality(S) : o[k] \in S
         /\ \A j, k \in 1..Cardinality(S) : o[j] = o[k] => j = k
         /\ \A e \in S : \E k \in 1..Cardinality(S) : o[k] = e
<1> DEFINE n == Cardinality(S)
<1>1. n \in Nat BY FS_CardinalityType
<1>2. o \in [1..n -> S] /\ \A i, j \in 1..n : i # j => o[i] # o[j] BY DEF SetToSeqs
<1> HIDE DEF n
<1>3. o \in Injection(1..n, S) BY <1>2 DEF Injection, IsInjective
<1>4. Cardinality(1..n) = n BY <1>1, FS_Interval
<1>5. o \in Surjection(1..n, S)
  <2>1. Cardinality(1..n) = Cardinality(S) BY <1>4 DEF n
  <2> QED BY <1>3, <2>1, FS_Injection
<1>6. \A e \in S : \E k \in 1..n : o[k] = e BY <1>5 DEF Surjection
<1>7. Len(o) = n /\ DOMAIN o = 1..n
  <2>1. o = [i \in 1..n |-> o[i]] BY <1>2
  <2> QED BY <1>1, <2>1, LenIs
<1> QED BY <1>1, <1>2, <1>6, <1>7 DEF n

(* The element some places further on, around the end.                     *)
LEMMA DonorIs ==
  ASSUME NEW o, NEW n \in Nat \ {0}, Len(o) = n, NEW k \in 1..n, NEW shift \in 1..(n - 1)
  PROVE  Donor(o, shift, k) = o[IF k + shift <= n THEN k + shift ELSE k + shift - n]
<1> DEFINE a == k - 1 + shift
<1>1. CASE k + shift <= n
  <2>1. a \in Nat /\ a < n /\ a = n * 0 + a BY <1>1
  <2> HIDE DEF a
  <2>2. a % n = a BY <2>1, DivModUnique
  <2>3. a + 1 = k + shift BY DEF a
  <2> QED BY <1>1, <2>2, <2>3 DEF Donor, a
<1>2. CASE ~(k + shift <= n)
  <2>1. a - n \in Nat /\ a - n < n /\ a = n * 1 + (a - n) BY <1>2
  <2> HIDE DEF a
  <2>2. a % n = a - n BY <2>1, DivModUnique
  <2>3. (a - n) + 1 = k + shift - n BY DEF a
  <2> QED BY <1>2, <2>2, <2>3 DEF Donor, a
<1> QED BY <1>1, <1>2

(* The largest of finitely many numbers.                                   *)
LEMMA MaxIs ==
  ASSUME NEW S, S \subseteq Nat, IsFiniteSet(S), S # {}
  PROVE  Max(S) \in S /\ \A y \in S : y <= Max(S)
<1> DEFINE P == {s \in SUBSET S : s # {} => \E x \in s : \A y \in s : x >= y}
<1>1. {} \in P OBVIOUS
<1>2. ASSUME NEW s \in SUBSET S, s # {}, \A y \in s : s \ {y} \in P PROVE s \in P
  <2>1. PICK y \in s : TRUE BY <1>2
  <2>2. CASE s \ {y} = {}
    <3>1. \A z \in s : z = y /\ y \in Nat BY <2>2
    <3> QED BY <2>1, <3>1
  <2>3. CASE s \ {y} # {}
    <3>1. PICK x \in s \ {y} : \A z \in s \ {y} : x >= z BY <1>2, <2>1, <2>3
    <3>2. x \in Nat /\ y \in Nat /\ s \subseteq Nat BY <2>1
    <3>3. CASE x >= y BY <3>1, <3>3
    <3>4. CASE ~(x >= y)
      <4>1. \A z \in s : y >= z BY <3>1, <3>2, <3>4
      <4> QED BY <2>1, <4>1
    <3> QED BY <3>3, <3>4
  <2> QED BY <2>2, <2>3
<1>3. S \in P
  <2> HIDE DEF P
  <2> QED BY <1>1, <1>2, SetInduct
<1>4. Max(S) \in S /\ \A y \in S : Max(S) >= y BY <1>3 DEF Max
<1>5. \A y \in S : y \in Nat /\ Max(S) \in Nat BY <1>4
<1> QED BY <1>4, <1>5

-----------------------------------------------------------------------------
(* Both mappings are renamings.                                            *)
At(o, e) == CHOOSE k \in DOMAIN o : o[k] = e

IsRotation(S, o, shift, m) == m \in [S -> {m[e] : e \in S}] /\ \A e \in S : m[e] = Donor(o, shift, At(o, e))
IsShift(S, o, top, m) == m \in [S -> {m[e] : e \in S}] /\ \A e \in S : m[e] = top + At(o, e)

(* A mapping of an isomorphism is a rotation of an order of the entities.  *)
LEMMA RotationIs ==
  ASSUME NEW S, NEW top, NEW m \in Mappings(S, TRUE, top)
  PROVE  \E o \in SetToSeqs(S), shift \in 1..(Cardinality(S) - 1) :
           IsRotation(S, o, shift, m)
<1>1. m \in {[e \in S |-> Donor(o, shift, At(o, e))] :
               o \in SetToSeqs(S), shift \in 1..(Cardinality(S) - 1)}
  BY DEF Mappings, At
<1> QED BY <1>1 DEF IsRotation, IsShift

(* A mapping of a renaming is a shift of an order past the largest         *)
(* identity.                                                               *)
LEMMA FreshIs ==
  ASSUME NEW S, NEW top, NEW m \in Mappings(S, FALSE, top)
  PROVE  \E o \in SetToSeqs(S) :
           IsShift(S, o, top, m)
<1>1. m \in {[e \in S |-> top + At(o, e)] : o \in SetToSeqs(S)}
  BY DEF Mappings, At
<1> QED BY <1>1 DEF IsRotation, IsShift

(* The place of an entity in an order.                                     *)
LEMMA AtIs ==
  ASSUME NEW S, IsFiniteSet(S), NEW o \in SetToSeqs(S), NEW e \in S
  PROVE  At(o, e) \in 1..Cardinality(S) /\ o[At(o, e)] = e
BY OrderIs DEF At

(* The image of a finite set of rows under a field.                        *)
LEMMA SourcesFinite ==
  ASSUME NEW rows, IsFiniteSet(rows)
  PROVE  IsFiniteSet({r.at[1] : r \in rows}) /\ IsFiniteSet({r.target : r \in rows})
<1>1. IsFiniteSet({r.at[1] : r \in rows})
  <2> DEFINE f == [r \in rows |-> r.at[1]]
             T == {r.at[1] : r \in rows}
  <2>1. f \in Surjection(rows, T) BY DEF Surjection
  <2> QED BY <2>1, FS_Surjection
<1>2. IsFiniteSet({r.target : r \in rows})
  <2> DEFINE f == [r \in rows |-> r.target]
             T == {r.target : r \in rows}
  <2>1. f \in Surjection(rows, T) BY DEF Surjection
  <2> QED BY <2>1, FS_Surjection
<1> QED BY <1>1, <1>2

(* A world has finitely many entities.                                     *)
LEMMA EntitiesFinite ==
  ASSUME NEW item, NEW graph, IsSound(item, graph)
  PROVE  IsFiniteSet(Entities(item, ControlRows(item, graph)))
<1> DEFINE rows == ControlRows(item, graph)
           A == {r.at[1] : r \in rows}
           B == {r.target : r \in rows}
           C == ToSet(item.slots)
<1>1. IsFiniteSet(A) /\ IsFiniteSet(B) BY SoundFacts, SourcesFinite
<1>2. IsFiniteSet(C)
  <2>1. item.slots \in Seq(Nat) BY DEF IsSound, ItemIsSound, ItemType
  <2>2. Len(item.slots) \in Nat /\ DOMAIN item.slots = 1..Len(item.slots) BY <2>1
  <2>3. IsFiniteSet(DOMAIN item.slots) BY <2>2, FS_Interval
  <2>4. C = {item.slots[k] : k \in DOMAIN item.slots} BY DEF ToSet
  <2>5. item.slots \in Surjection(DOMAIN item.slots, C)
    <3>1. item.slots = [k \in DOMAIN item.slots |-> item.slots[k]] BY <2>1
    <3> QED BY <2>4, <3>1 DEF Surjection
  <2> QED BY <2>3, <2>5, FS_Surjection
<1> HIDE DEF A, B, C
<1>3. IsFiniteSet(A \cup B) BY <1>1, FS_Union
<1>4. IsFiniteSet((A \cup B) \cup C) BY <1>2, <1>3, FS_Union
<1>5. IsFiniteSet(((A \cup B) \cup C) \ {Nowhere}) BY <1>4, FS_Subset
<1> QED BY <1>5 DEF Entities, A, B, C

(* A rotation renames the entities among themselves.                       *)
LEMMA RotationRenames ==
  ASSUME NEW item, NEW graph, IsSound(item, graph), NEW top,
         NEW m \in Mappings(Entities(item, ControlRows(item, graph)), TRUE, top)
  PROVE  IsRenaming(item, graph, m)
<1> DEFINE ents == Entities(item, ControlRows(item, graph))
           n == Cardinality(ents)
<1>1. PICK o \in SetToSeqs(ents), shift \in 1..(n - 1) :
        IsRotation(ents, o, shift, m)
  BY RotationIs
<1>2. /\ IsFiniteSet(ents) /\ ents \subseteq Nat \ {0}
      /\ \A r \in graph \ ControlRows(item, graph) : r.at[1] \notin ents
  BY SoundFacts, EntitiesFinite
<1>3. /\ n \in Nat /\ Len(o) = n
      /\ \A k \in 1..n : o[k] \in ents
      /\ \A j, k \in 1..n : o[j] = o[k] => j = k
  BY <1>2, OrderIs
<1> DEFINE Turn(k) == IF k + shift <= n THEN k + shift ELSE k + shift - n
<1>4. \A e \in ents : At(o, e) \in 1..n /\ o[At(o, e)] = e BY <1>2, AtIs
<1> HIDE DEF n, ents
<1>5. n \in Nat \ {0} BY <1>3
<1>6. \A k \in 1..n : Turn(k) \in 1..n BY <1>5
<1>7. \A j, k \in 1..n : Turn(j) = Turn(k) => j = k BY <1>5
<1>8. \A e \in ents : m[e] = o[Turn(At(o, e))]
  <2> SUFFICES ASSUME NEW e \in ents PROVE m[e] = o[Turn(At(o, e))] OBVIOUS
  <2>1. m[e] = Donor(o, shift, At(o, e)) BY <1>1 DEF IsRotation
  <2> DEFINE k == At(o, e)
  <2>2. k \in 1..n BY <1>4
  <2> HIDE DEF k
  <2>3. Donor(o, shift, k) = o[Turn(k)] BY <1>3, <1>5, <2>2, DonorIs
  <2> QED BY <2>1, <2>3 DEF k
<1> HIDE DEF Turn
<1>9. \A e \in ents : m[e] \in ents BY <1>3, <1>4, <1>6, <1>8
<1>10. ASSUME NEW a \in ents, NEW b \in ents, m[a] = m[b] PROVE a = b
  <2>1. Turn(At(o, a)) = Turn(At(o, b)) BY <1>3, <1>4, <1>6, <1>8, <1>10
  <2>2. At(o, a) = At(o, b) BY <1>4, <1>7, <2>1
  <2> QED BY <1>4, <2>2
<1>11. m \in [ents -> Nat \ {0}] BY <1>1, <1>2, <1>9 DEF IsRotation
<1> QED BY <1>2, <1>9, <1>10, <1>11 DEF IsRenaming, ents

(* A shift renames the entities to identities that no row has.             *)
LEMMA FreshRenames ==
  ASSUME NEW item, NEW graph, IsSound(item, graph), NEW top,
         top = Max({r.at[1] : r \in graph} \cup {r.target : r \in graph}
                     \cup Entities(item, ControlRows(item, graph))),
         NEW m \in Mappings(Entities(item, ControlRows(item, graph)), FALSE, top)
  PROVE  IsRenaming(item, graph, m)
<1> DEFINE ents == Entities(item, ControlRows(item, graph))
           n == Cardinality(ents)
           A == {r.at[1] : r \in graph}
           B == {r.target : r \in graph}
           V == A \cup B \cup ents
<1>1. PICK o \in SetToSeqs(ents) :
        IsShift(ents, o, top, m)
  BY FreshIs
<1>2. /\ IsFiniteSet(ents) /\ ents \subseteq Nat \ {0} /\ IsFiniteSet(graph)
      /\ \A r \in graph : r.at[1] \in Nat /\ r.target \in Nat
      /\ ControlRows(item, graph) \subseteq graph /\ ControlRows(item, graph) # {}
  BY SoundFacts, EntitiesFinite
<1>3. \A e \in ents : At(o, e) \in 1..n /\ o[At(o, e)] = e BY <1>2, AtIs
<1>4. n \in Nat BY <1>2, FS_CardinalityType
<1>5. top \in V /\ \A y \in V : y <= top
  <2>1. IsFiniteSet(A) /\ IsFiniteSet(B) BY <1>2, SourcesFinite
  <2>2. V \subseteq Nat /\ V # {} BY <1>2
  <2> HIDE DEF A, B, ents
  <2>3. IsFiniteSet(A \cup B) BY <2>1, FS_Union
  <2>4. IsFiniteSet(V) BY <1>2, <2>3, FS_Union
  <2>5. top = Max(V) BY DEF A, B, ents
  <2> HIDE DEF V
  <2> QED BY <2>2, <2>4, <2>5, MaxIs
<1>6. top \in Nat BY <1>2, <1>5
<1>7. \A r \in graph : r.at[1] \in Nat /\ r.at[1] <= top
  <2>1. \A r \in graph : r.at[1] \in V OBVIOUS
  <2> HIDE DEF V
  <2> QED BY <1>2, <1>5, <2>1
<1> HIDE DEF ents, n, V
<1>8. \A e \in ents : m[e] = top + At(o, e) /\ At(o, e) \in Nat \ {0}
  BY <1>1, <1>3, <1>4 DEF IsShift
<1>9. m \in [ents -> Nat \ {0}] BY <1>1, <1>6, <1>8 DEF IsShift
<1>10. ASSUME NEW a \in ents, NEW b \in ents, m[a] = m[b] PROVE a = b
  <2>1. At(o, a) = At(o, b) BY <1>6, <1>8, <1>10
  <2> QED BY <1>3, <2>1
<1>11. ASSUME NEW r \in graph, NEW e \in ents PROVE r.at[1] # m[e]
  <2> DEFINE x == r.at[1]
             k == At(o, e)
  <2>1. x \in Nat /\ x <= top /\ k \in Nat \ {0} /\ m[e] = top + k BY <1>7, <1>8
  <2> HIDE DEF x, k
  <2>2. top + k # x BY <1>6, <2>1
  <2> QED BY <2>1, <2>2 DEF x
<1> QED BY <1>9, <1>10, <1>11 DEF IsRenaming, ents

(* A run of one payload in an order of a kind is no longer than the        *)
(* largest group.                                                          *)
LEMMA RunIsShort ==
  ASSUME NEW K, IsFiniteSet(K), NEW o \in Grouped(K),
         NEW a \in 1..Cardinality(K), NEW b \in 1..Cardinality(K), a <= b,
         Payload(o[a]) = Payload(o[b])
  PROVE  Largest(K) \in Nat /\ b - a + 1 <= Largest(K)
<1> DEFINE n == Cardinality(K)
           G == {r \in K : Payload(r) = Payload(o[b])}
           sizes == {GroupSize(K, r) : r \in K}
           f == [j \in a..b |-> o[j]]
<1>1. o \in SetToSeqs(K) BY DEF Grouped
<1>2. /\ n \in Nat /\ DOMAIN o = 1..n
      /\ \A k \in 1..n : o[k] \in K
      /\ \A j, k \in 1..n : o[j] = o[k] => j = k
  BY <1>1, OrderIs
<1>3. \A j \in a..b : j \in 1..n BY <1>2
<1>4. \A j \in a..b : Payload(o[j]) = Payload(o[b])
  <2> SUFFICES ASSUME NEW j \in a..b PROVE Payload(o[j]) = Payload(o[b])
    OBVIOUS
  <2>1. CASE j = a \/ j = b BY <2>1
  <2>2. CASE a < j /\ j < b
    <3>1. j \in DOMAIN o /\ a \in DOMAIN o /\ b \in DOMAIN o BY <1>2, <1>3
    <3>2. Payload(o[j]) = Payload(o[a]) BY <2>2, <3>1 DEF Grouped
    <3> QED BY <3>2
  <2>3. a <= j /\ j <= b /\ j \in Int /\ a \in Int /\ b \in Int BY <1>2
  <2> QED BY <2>1, <2>2, <2>3
<1>5. IsFiniteSet(G) /\ Cardinality(G) \in Nat BY FS_Subset, FS_CardinalityType
<1>6. f \in Injection(a..b, G)
  <2>1. \A j \in a..b : f[j] \in G BY <1>2, <1>3, <1>4
  <2>2. \A i, j \in a..b : f[i] = f[j] => i = j BY <1>2, <1>3
  <2> HIDE DEF G
  <2> QED BY <2>1, <2>2 DEF Injection, IsInjective
<1>7. Cardinality(a..b) = b - a + 1 BY <1>2, FS_Interval
<1>8. b - a + 1 <= Cardinality(G)
  <2> HIDE DEF f, G
  <2> QED BY <1>5, <1>6, <1>7, FS_Injection
<1>9. sizes \subseteq Nat
  <2> SUFFICES ASSUME NEW r \in K PROVE GroupSize(K, r) \in Nat OBVIOUS
  <2> QED BY FS_Subset, FS_CardinalityType DEF GroupSize
<1>10. IsFiniteSet(sizes)
  <2> DEFINE s == [r \in K |-> GroupSize(K, r)]
  <2>1. s \in Surjection(K, sizes) BY DEF Surjection
  <2> HIDE DEF s, sizes
  <2> QED BY <2>1, FS_Surjection
<1>11. Cardinality(G) \in sizes
  <2>1. Cardinality(G) = GroupSize(K, o[b]) BY DEF GroupSize
  <2>2. o[b] \in K BY <1>2
  <2> QED BY <2>1, <2>2
<1>12. Largest(K) = Max(sizes) BY DEF Largest
<1> HIDE DEF sizes, G
<1>13. Max(sizes) \in sizes /\ Cardinality(G) <= Max(sizes) BY <1>9, <1>10, <1>11, MaxIs
<1>14. Largest(K) \in Nat /\ Cardinality(G) <= Largest(K) BY <1>9, <1>12, <1>13
<1> HIDE DEF n
<1> QED BY <1>2, <1>5, <1>8, <1>14 DEF n

(* One largest group further, a row meets another payload.                 *)
LEMMA DonorDiffers ==
  ASSUME NEW K, IsFiniteSet(K), CanShuffle(K), NEW o \in Grouped(K),
         NEW k \in 1..Cardinality(K)
  PROVE  \E d \in 1..Cardinality(K) :
           Donor(o, Largest(K), k) = o[d] /\ Payload(o[d]) # Payload(o[k])
<1> DEFINE n == Cardinality(K)
           L == Largest(K)
           d == IF k + L <= n THEN k + L ELSE k + L - n
<1>1. o \in SetToSeqs(K) BY DEF Grouped
<1>2. n \in Nat /\ Len(o) = n BY <1>1, OrderIs
<1>3. n >= 2 /\ 2 * L <= n BY DEF CanShuffle
<1>4. L \in Nat /\ k - k + 1 <= L BY RunIsShort, <1>2
<1>5. n \in Nat \ {0} /\ k \in 1..n BY <1>2, <1>3
<1> HIDE DEF n, L
<1>6. L \in 1..(n - 1) BY <1>3, <1>4, <1>5
<1>7. Donor(o, L, k) = o[d] BY <1>2, <1>5, <1>6, DonorIs
<1>8. d \in 1..n BY <1>5, <1>6
<1>9. ASSUME Payload(o[d]) = Payload(o[k]) PROVE FALSE
  <2>1. CASE k + L <= n
    <3>1. d = k + L BY <2>1
    <3>2. k <= d /\ Payload(o[k]) = Payload(o[d]) BY <1>5, <1>6, <1>9, <3>1
    <3>3. d - k + 1 <= L BY <1>5, <1>8, <3>2, RunIsShort DEF n, L
    <3> QED BY <1>5, <1>6, <3>1, <3>3
  <2>2. CASE ~ (k + L <= n)
    <3>1. d = k + L - n BY <2>2
    <3>2. d <= k BY <1>5, <1>6, <3>1
    <3>3. k - d + 1 <= L BY <1>5, <1>8, <1>9, <3>2, RunIsShort DEF n, L
    <3> QED BY <1>3, <1>5, <1>6, <3>1, <3>3
  <2> QED BY <2>1, <2>2
<1> QED BY <1>7, <1>8, <1>9 DEF n, L

(* A shuffled kind has a row at each of its addresses, and no row finds its*)
(* own payload.                                                            *)
IsShuffle(K, s) ==
  /\ \A r \in K : \E q \in s : q.at = r.at /\ Payload(q) # Payload(r)
  /\ \A q \in s : \E r \in K : q.at = r.at
  /\ \A p, q \in s : p.at = q.at => p = q

(* Every shuffle of a kind of rows is one.                                 *)
LEMMA ShuffleIs ==
  ASSUME NEW K, K \subseteq RowType, IsFiniteSet(K), \A r, q \in K : r.at = q.at => r = q,
         K # {} => CanShuffle(K), NEW s \in Shuffles(K)
  PROVE  IsShuffle(K, s)
<1>1. CASE K = {}
  <2>1. s = {} BY <1>1 DEF Shuffles
  <2> QED BY <1>1, <2>1 DEF IsShuffle
<1>2. CASE K # {}
  <2> DEFINE n == Cardinality(K)
             L == Largest(K)
  <2>1. PICK o \in Grouped(K) :
          s = {[o[k] EXCEPT !.target = Donor(o, L, k).target,
                            !.value = Donor(o, L, k).value] : k \in DOMAIN o}
    BY <1>2 DEF Shuffles
  <2>2. o \in SetToSeqs(K) BY DEF Grouped
  <2>3. /\ DOMAIN o = 1..n
        /\ \A k \in 1..n : o[k] \in K
        /\ \A j, k \in 1..n : o[j] = o[k] => j = k
        /\ \A e \in K : \E k \in 1..n : o[k] = e
    BY <2>2, OrderIs
  <2> DEFINE new(k) == [o[k] EXCEPT !.target = Donor(o, L, k).target,
                                    !.value = Donor(o, L, k).value]
  <2>4. s = {new(k) : k \in 1..n} BY <2>1, <2>3
  <2>5. ASSUME NEW k \in 1..n
        PROVE  new(k).at = o[k].at /\ Payload(new(k)) # Payload(o[k])
    <3>1. o[k] \in RowType BY <2>3
    <3>2. PICK d \in 1..n : Donor(o, L, k) = o[d] /\ Payload(o[d]) # Payload(o[k])
      BY <1>2, DonorDiffers
    <3>3. o[d] \in RowType BY <2>3
    <3>4. /\ new(k).at = o[k].at /\ new(k).target = Donor(o, L, k).target
          /\ new(k).value = Donor(o, L, k).value
      BY <3>1 DEF RowType
    <3>5. Payload(new(k)) = Payload(o[d]) BY <3>2, <3>4 DEF Payload
    <3> QED BY <3>2, <3>4, <3>5
  <2> HIDE DEF new, n
  <2>6. \A r \in K : \E q \in s : q.at = r.at /\ Payload(q) # Payload(r)
    BY <2>3, <2>4, <2>5
  <2>7. \A q \in s : \E r \in K : q.at = r.at BY <2>3, <2>4, <2>5
  <2>8. ASSUME NEW p \in s, NEW q \in s, p.at = q.at PROVE p = q
    <3>1. PICK i \in 1..n : p = new(i) BY <2>4
    <3>2. PICK j \in 1..n : q = new(j) BY <2>4
    <3>3. o[i].at = o[j].at BY <2>5, <2>8, <3>1, <3>2
    <3>4. i = j BY <2>3, <3>3
    <3> QED BY <3>1, <3>2, <3>4
  <2> QED BY <2>6, <2>7, <2>8 DEF IsShuffle
<1> QED BY <1>1, <1>2

(* Shuffled returns leave the other worlds and change every answer of the  *)
(* world.                                                                  *)
LEMMA ShuffledLookup ==
  ASSUME NEW item, NEW graph, IsSound(item, graph),
         \A k \in Kinds(ControlRows(item, graph)) : CanShuffle(k),
         NEW s \in ShuffledStores(graph, ControlRows(item, graph))
  PROVE  /\ \A r \in graph \ ControlRows(item, graph) : Lookup(s, r.at) = r
         /\ \A r \in ControlRows(item, graph) : Payload(Lookup(s, r.at)) # Payload(r)
<1> DEFINE rows == ControlRows(item, graph)
           E == {r \in rows : IsEntity(r)}
           L == {r \in rows : ~ IsEntity(r)}
<1>1. /\ rows \subseteq graph /\ graph \subseteq RowType /\ IsFiniteSet(rows)
      /\ \A r, q \in graph : r.at = q.at => r = q
  BY SoundFacts
<1>2. PICK e \in Shuffles(E), l \in Shuffles(L) : s = (graph \ rows) \cup e \cup l
  BY DEF ShuffledStores
<1>3. (E # {} => CanShuffle(E)) /\ (L # {} => CanShuffle(L)) BY DEF Kinds
<1>4. IsFiniteSet(E) /\ IsFiniteSet(L) BY <1>1, FS_Subset
<1>5. rows = E \cup L /\ E \cap L = {} OBVIOUS
<1> HIDE DEF E, L, rows
<1>6. IsShuffle(E, e)
  <2>1. E \subseteq RowType /\ (\A r, q \in E : r.at = q.at => r = q) BY <1>1, <1>5
  <2> QED BY <1>2, <1>3, <1>4, <2>1, ShuffleIs
<1>7. IsShuffle(L, l)
  <2>1. L \subseteq RowType /\ (\A r, q \in L : r.at = q.at => r = q) BY <1>1, <1>5
  <2> QED BY <1>2, <1>3, <1>4, <2>1, ShuffleIs
<1>8. \A q \in e : \E r \in E : q.at = r.at BY <1>6 DEF IsShuffle
<1>9. \A q \in l : \E r \in L : q.at = r.at BY <1>7 DEF IsShuffle
<1>10. \A p, q \in s : p.at = q.at => p = q
  <2>1. \A p, q \in e : p.at = q.at => p = q BY <1>6 DEF IsShuffle
  <2>2. \A p, q \in l : p.at = q.at => p = q BY <1>7 DEF IsShuffle
  <2>3. \A p \in e, q \in l : p.at # q.at BY <1>1, <1>5, <1>8, <1>9
  <2>4. \A p \in e, q \in graph \ rows : p.at # q.at BY <1>1, <1>5, <1>8
  <2>5. \A p \in l, q \in graph \ rows : p.at # q.at BY <1>1, <1>5, <1>9
  <2> QED BY <1>1, <1>2, <2>1, <2>2, <2>3, <2>4, <2>5
<1>11. ASSUME NEW r \in graph \ rows PROVE Lookup(s, r.at) = r
  <2>1. r \in s BY <1>2
  <2>2. \A q \in s : q.at = r.at => q = r BY <1>10, <2>1
  <2> QED BY <2>1, <2>2, LookupThere
<1>12. ASSUME NEW r \in rows PROVE Payload(Lookup(s, r.at)) # Payload(r)
  <2>1. \E q \in s : q.at = r.at /\ Payload(q) # Payload(r)
    BY <1>2, <1>5, <1>6, <1>7 DEF IsShuffle
  <2>2. PICK q \in s : q.at = r.at /\ Payload(q) # Payload(r) BY <2>1
  <2>3. Lookup(s, q.at) = q BY <1>10, LookupThere
  <2> QED BY <2>2, <2>3
<1> QED BY <1>11, <1>12 DEF rows

(* Replacing or deleting a row of the world leaves the other worlds' rows. *)
LEMMA PatchedLookup ==
  ASSUME NEW item, NEW graph, IsSound(item, graph), NEW c,
         NEW q \in ControlRows(item, graph), c.at = q.at,
         NEW r \in graph \ ControlRows(item, graph)
  PROVE  Lookup(Patch(graph, c), r.at) = r
<1>1. /\ q \in graph /\ \A x, y \in graph : x.at = y.at => x = y BY SoundFacts
<1>2. r.at # c.at BY <1>1
<1>3. r \in Patch(graph, c) BY <1>2 DEF Patch
<1>4. \A x \in Patch(graph, c) : x.at = r.at => x = r BY <1>1, <1>2 DEF Patch
<1> QED BY <1>3, <1>4, LookupThere

(* The deletion of a row of the world leaves the other worlds as they are. *)
LEMMA WithoutLookup ==
  ASSUME NEW item, NEW graph, IsSound(item, graph),
         NEW q \in ControlRows(item, graph),
         NEW r \in graph \ ControlRows(item, graph)
  PROVE  Lookup(Without(graph, q.at), r.at) = r
<1>1. /\ q \in graph /\ \A x, y \in graph : x.at = y.at => x = y BY SoundFacts
<1>2. r.at # q.at BY <1>1
<1>3. r \in Without(graph, q.at) BY <1>2 DEF Without
<1>4. \A x \in Without(graph, q.at) : x.at = r.at => x = r BY <1>1 DEF Without
<1> QED BY <1>3, <1>4, LookupThere

(* A candidate is at the address of the row it edits.                      *)
LEMMA CandidateAt ==
  ASSUME NEW rows, NEW r \in RowType, NEW c \in SemanticCandidates(r, rows)
  PROVE  c.at = r.at
<1>1. \/ \E v : c = [r EXCEPT !.value = v]
      \/ \E e : c = [r EXCEPT !.target = e]
      \/ \E d \in rows : c = [r EXCEPT !.target = d.target, !.value = d.value]
  BY DEF SemanticCandidates
<1>2. CASE \E v : c = [r EXCEPT !.value = v] BY <1>2 DEF RowType
<1>3. CASE \E e : c = [r EXCEPT !.target = e] BY <1>3 DEF RowType
<1>4. CASE \E d \in rows : c = [r EXCEPT !.target = d.target, !.value = d.value]
  BY <1>4 DEF RowType
<1> QED BY <1>1, <1>2, <1>3, <1>4

Relevant(item, graph) == Edits(item, graph, TRUE)

(* A relevant edit is at an address of the world and changes the answer.   *)
LEMMA RelevantEdits ==
  ASSUME NEW item, NEW graph, IsSound(item, graph), NEW c \in Relevant(item, graph)
  PROVE  /\ \E q \in ControlRows(item, graph) : c.at = q.at
         /\ OracleAnswer(item, Patch(graph, c)) \notin {"none", OracleAnswer(item, graph)}
<1> DEFINE rows == ControlRows(item, graph)
           eligible == ToSet(OracleTrace(item, graph).rows)
<1>1. eligible \subseteq rows BY PathRows
<1>2. rows \subseteq RowType BY SoundFacts
<1>3. PICK r \in eligible : c \in SemanticCandidates(r, rows) BY DEF Relevant, Edits
<1>4. c.at = r.at BY <1>1, <1>2, <1>3, CandidateAt
<1>5. OracleAnswer(item, Patch(graph, c)) \notin {"none", OracleAnswer(item, graph)} BY DEF Relevant, Edits
<1> QED BY <1>1, <1>3, <1>4, <1>5

(* An irrelevant edit is at an address of the world and keeps the answer.  *)
LEMMA IrrelevantEdits ==
  ASSUME NEW item, NEW graph, IsSound(item, graph), NEW c \in Edits(item, graph, FALSE)
  PROVE  /\ \E q \in ControlRows(item, graph) : c.at = q.at
         /\ OracleAnswer(item, Patch(graph, c)) = OracleAnswer(item, graph)
<1> DEFINE rows == ControlRows(item, graph)
           eligible == {r \in rows : r.at \notin Path(OracleTrace(item, graph))}
<1>1. eligible \subseteq rows OBVIOUS
<1>2. rows \subseteq RowType BY SoundFacts
<1>3. PICK r \in eligible : c \in SemanticCandidates(r, rows) BY DEF Edits
<1>4. c.at = r.at BY <1>1, <1>2, <1>3, CandidateAt
<1>5. OracleAnswer(item, Patch(graph, c)) = OracleAnswer(item, graph) BY DEF Edits
<1> QED BY <1>1, <1>3, <1>4, <1>5

(* What a control promises of a view.                                      *)
Promised(item, graph, control, v) ==
  /\ Effect(OracleAnswer(item, graph), OracleAnswer(v.item, v.store)) \in ExpectedEffects(control)
  /\ \A r \in graph \ ControlRows(item, graph) : Lookup(v.store, r.at) = r
  /\ control = "shuffled_returns" =>
       \A r \in ControlRows(item, graph) : Payload(Lookup(v.store, r.at)) # Payload(r)

(* The controls that leave item and store keep their promise.              *)
LEMMA SamePromised ==
  ASSUME NEW item, NEW graph, IsSound(item, graph), NEW v, v.item = item, v.store = graph,
         NEW control \in {"correct", "no_query", "handle_swap", "gold_path", "gold_returns"}
  PROVE  Promised(item, graph, control, v)
<1>1. OracleAnswer(item, graph) # "none" BY SoundTrace
<1>2. Effect(OracleAnswer(item, graph), OracleAnswer(v.item, v.store)) = "unchanged"
  BY <1>1 DEF Effect
<1>3. "unchanged" \in ExpectedEffects(control) BY DEF ExpectedEffects
<1>4. ASSUME NEW r \in graph \ ControlRows(item, graph) PROVE Lookup(v.store, r.at) = r
  <2>1. \A q \in graph : q.at = r.at => q = r BY SoundFacts
  <2> QED BY <2>1, LookupThere
<1> QED BY <1>2, <1>3, <1>4 DEF Promised

(* Shuffled returns keep theirs.                                           *)
LEMMA ShuffledPromised ==
  ASSUME NEW item, NEW graph, IsSound(item, graph), NEW v, v.item = item,
         \A k \in Kinds(ControlRows(item, graph)) : CanShuffle(k),
         v.store \in ShuffledStores(graph, ControlRows(item, graph))
  PROVE  Promised(item, graph, "shuffled_returns", v)
<1>1. Effect(OracleAnswer(item, graph), OracleAnswer(v.item, v.store))
        \in ExpectedEffects("shuffled_returns")
  BY DEF Effect, ExpectedEffects
<1> QED BY <1>1, ShuffledLookup DEF Promised

(* A relevant edit changes the answer.                                     *)
LEMMA RelevantPromised ==
  ASSUME NEW item, NEW graph, IsSound(item, graph), NEW v, v.item = item,
         NEW c \in Relevant(item, graph), v.store = Patch(graph, c)
  PROVE  Promised(item, graph, "relevant_edge", v)
<1>1. OracleAnswer(item, graph) # "none" BY SoundTrace
<1>2. Effect(OracleAnswer(item, graph), OracleAnswer(v.item, v.store)) = "changed"
  BY <1>1, RelevantEdits DEF Effect
<1>3. PICK q \in ControlRows(item, graph) : c.at = q.at BY RelevantEdits
<1>4. ASSUME NEW r \in graph \ ControlRows(item, graph) PROVE Lookup(v.store, r.at) = r
  BY <1>3, PatchedLookup
<1> QED BY <1>2, <1>4 DEF Promised, ExpectedEffects

(* An irrelevant edit does not.                                            *)
LEMMA IrrelevantPromised ==
  ASSUME NEW item, NEW graph, IsSound(item, graph), NEW v, v.item = item,
         NEW c \in Edits(item, graph, FALSE), v.store = Patch(graph, c)
  PROVE  Promised(item, graph, "irrelevant_edge", v)
<1>1. OracleAnswer(item, graph) # "none" BY SoundTrace
<1>2. Effect(OracleAnswer(item, graph), OracleAnswer(v.item, v.store)) = "unchanged"
  BY <1>1, IrrelevantEdits DEF Effect
<1>3. PICK q \in ControlRows(item, graph) : c.at = q.at BY IrrelevantEdits
<1>4. ASSUME NEW r \in graph \ ControlRows(item, graph) PROVE Lookup(v.store, r.at) = r
  BY <1>3, PatchedLookup
<1> QED BY <1>2, <1>4 DEF Promised, ExpectedEffects

(* An explicit miss leaves none.                                           *)
LEMMA MissPromised ==
  ASSUME NEW item, NEW graph, IsSound(item, graph), NEW v, v.item = item,
         NEW at \in Path(OracleTrace(item, graph)), v.store = {r \in graph : r.at # at}
  PROVE  Promised(item, graph, "explicit_miss", v)
<1>1. v.store = Without(graph, at) BY DEF Without
<1>2. OracleAnswer(item, Without(graph, at)) = "none" BY TraceMisses
<1>3. Effect(OracleAnswer(item, graph), OracleAnswer(v.item, v.store)) = "miss"
  BY <1>1, <1>2 DEF Effect
<1>4. PICK q \in ControlRows(item, graph) : q.at = at BY PathRows
<1>5. ASSUME NEW r \in graph \ ControlRows(item, graph) PROVE Lookup(v.store, r.at) = r
  <2>1. Lookup(Without(graph, q.at), r.at) = r BY WithoutLookup
  <2> QED BY <1>1, <1>4, <2>1
<1> QED BY <1>3, <1>5 DEF Promised, ExpectedEffects

(* A renamed view is answered as the item is.                              *)
LEMMA RenamedPromised ==
  ASSUME NEW item, NEW graph, IsSound(item, graph), NEW v,
         NEW m, IsRenaming(item, graph, m), v.item = RemapItem(item, m),
         v.store = RemapStore(graph, ControlRows(item, graph), m),
         NEW control \in {"entity_rename", "graph_isomorphism"}
  PROVE  Promised(item, graph, control, v)
<1>1. OracleAnswer(item, graph) # "none" BY SoundTrace
<1>2. OracleAnswer(v.item, v.store) = OracleAnswer(item, graph) BY RenamedAnswer
<1>3. Effect(OracleAnswer(item, graph), OracleAnswer(v.item, v.store)) = "unchanged"
  BY <1>1, <1>2 DEF Effect
<1>4. \A r \in graph \ ControlRows(item, graph) : Lookup(v.store, r.at) = r BY RemapLookup
<1> QED BY <1>3, <1>4 DEF Promised, ExpectedEffects

(* Every view of every control keeps the control's promise.                *)
LEMMA ViewsArePromised ==
  ASSUME NEW item, NEW graph, IsSound(item, graph), NEW control \in ControlIds,
         NEW v \in Views(item, graph, control)
  PROVE  Promised(item, graph, control, v)
<1> DEFINE rows == ControlRows(item, graph)
           ents == Entities(item, rows)
           top == Max({r.at[1] : r \in graph} \cup {r.target : r \in graph} \cup ents)
<1>1. \A i, s, x : View(i, s, x).item = i /\ View(i, s, x).store = s BY DEF View
<1>2. CASE control \in {"correct", "no_query", "handle_swap"}
  <2>1. v = View(item, graph, {}) BY <1>2 DEF Views
  <2> QED BY <1>1, <1>2, <2>1, SamePromised
<1>3. CASE control = "gold_path"
  <2>1. v = [View(item, graph, {}) EXCEPT !.acts = item.gold, !.returns = GoldReturns(item, graph)]
    BY <1>3 DEF Views
  <2>2. v.item = item /\ v.store = graph BY <2>1 DEF View
  <2> QED BY <1>3, <2>2, SamePromised
<1>4. CASE control = "gold_returns"
  <2>1. v = [View(item, graph, {}) EXCEPT !.returns = GoldReturns(item, graph)]
    BY <1>4 DEF Views
  <2>2. v.item = item /\ v.store = graph BY <2>1 DEF View
  <2> QED BY <1>4, <2>2, SamePromised
<1>5. CASE control = "shuffled_returns"
  <2>1. v \in IF \A k \in Kinds(rows) : CanShuffle(k)
              THEN {View(item, s, {}) : s \in ShuffledStores(graph, rows)} ELSE {}
    BY <1>5 DEF Views
  <2>2. \A k \in Kinds(rows) : CanShuffle(k) BY <2>1
  <2>3. PICK s \in ShuffledStores(graph, rows) : v = View(item, s, {}) BY <2>1
  <2>4. v.item = item /\ v.store = s BY <1>1, <2>3
  <2> QED BY <1>5, <2>2, <2>3, <2>4, ShuffledPromised
<1>6. CASE control \in {"relevant_edge", "irrelevant_edge"}
  <2>1. v \in {View(item, Patch(graph, c), {c.at}) :
                 c \in Edits(item, graph, control = "relevant_edge")}
    BY <1>6 DEF Views
  <2>2. PICK c \in Edits(item, graph, control = "relevant_edge") :
          v = View(item, Patch(graph, c), {c.at})
    BY <2>1
  <2>3. v.item = item /\ v.store = Patch(graph, c) BY <1>1, <2>2
  <2>4. CASE control = "relevant_edge"
    <3>1. c \in Relevant(item, graph) BY <2>2, <2>4 DEF Relevant
    <3> QED BY <2>3, <2>4, <3>1, RelevantPromised
  <2>5. CASE control = "irrelevant_edge"
    <3>1. c \in Edits(item, graph, FALSE) BY <2>2, <2>5
    <3> QED BY <2>3, <2>5, <3>1, IrrelevantPromised
  <2> QED BY <1>6, <2>4, <2>5
<1>7. CASE control = "explicit_miss"
  <2>1. v \in {View(item, {r \in graph : r.at # at}, {at}) : at \in Path(OracleTrace(item, graph))}
    BY <1>7 DEF Views
  <2>2. PICK at \in Path(OracleTrace(item, graph)) :
          v = View(item, {r \in graph : r.at # at}, {at})
    BY <2>1
  <2>3. v.item = item /\ v.store = {r \in graph : r.at # at} BY <1>1, <2>2
  <2> QED BY <1>7, <2>2, <2>3, MissPromised
<1>8. CASE control \in {"entity_rename", "graph_isomorphism"}
  <2>1. v \in IF Cardinality(ents) < 2 THEN {}
              ELSE {View(RemapItem(item, m), RemapStore(graph, rows, m), {}) :
                      m \in Mappings(ents, control = "graph_isomorphism", top)}
    BY <1>8 DEF Views
  <2>2. PICK m \in Mappings(ents, control = "graph_isomorphism", top) :
          v = View(RemapItem(item, m), RemapStore(graph, rows, m), {})
    BY <2>1
  <2>3. IsRenaming(item, graph, m)
    <3>1. CASE control = "graph_isomorphism"
      <4>1. m \in Mappings(ents, TRUE, top) BY <2>2, <3>1
      <4> QED BY <4>1, RotationRenames
    <3>2. CASE control = "entity_rename"
      <4>1. m \in Mappings(ents, FALSE, top) BY <2>2, <3>2
      <4> QED BY <4>1, FreshRenames
    <3> QED BY <1>8, <3>1, <3>2
  <2>4. v.item = RemapItem(item, m) /\ v.store = RemapStore(graph, rows, m) BY <1>1, <2>2
  <2> QED BY <1>8, <2>3, <2>4, RenamedPromised
<1> QED BY <1>2, <1>3, <1>4, <1>5, <1>6, <1>7, <1>8 DEF ControlIds

(* Whatever the item, the graph and the seed, every control has the effect *)
(* on the oracle that it promises: the checks at the end of                *)
(* build_control_view never stop an evaluation of a sound item.            *)
THEOREM ControlsAlwaysKeep ==
  ASSUME input.of = "controls" =>
           input.control \in ControlIds /\ IsSound(input.item, input.graph)
  PROVE  ControlsKeepTheirPromise
<1> SUFFICES ASSUME input.of = "controls", NEW v \in ViewsOf(input)
             PROVE  /\ Effect(Before(input), OracleAnswer(v.item, v.store))
                         \in ExpectedEffects(input.control)
                    /\ \A r \in input.graph \ ControlRows(input.item, input.graph) :
                         Lookup(v.store, r.at) = r
                    /\ ShufflesAreDeranged(input, v)
  BY DEF ControlsKeepTheirPromise
<1>1. v \in Views(input.item, input.graph, input.control) BY DEF ViewsOf
<1>2. Promised(input.item, input.graph, input.control, v) BY <1>1, ViewsArePromised
<1> QED BY <1>2 DEF Promised, Before, ShufflesAreDeranged

-----------------------------------------------------------------------------
(* The decoding.  Items and batches take their steps in tables like that   *)
(* of a trace: the course of an item decoded by itself, and the batches    *)
(* that a chunk has become.                                                *)
(* A finite set of numbers has an ascending order.                         *)
LEMMA AscendingIs ==
  ASSUME NEW S, S \subseteq Nat, IsFiniteSet(S)
  PROVE  Ascending(S) \in SetToSeqs(S)
<1> DEFINE Ordered0(o) == \A j, k \in DOMAIN o : j < k => o[j] < o[k]
           P == {s \in SUBSET S : \E o \in SetToSeqs(s) : Ordered0(o)}
<1>1. {} \in P
  <2>1. Cardinality({}) = 0 BY FS_EmptySet
  <2> DEFINE o == [k \in 1..0 |-> k]
  <2>2. o \in SetToSeqs({}) BY <2>1 DEF SetToSeqs
  <2>3. Ordered0(o) OBVIOUS
  <2> QED BY <2>2, <2>3
<1>2. ASSUME NEW s \in SUBSET S, s # {}, \A y \in s : s \ {y} \in P
      PROVE  s \in P
  <2> DEFINE n == Cardinality(s)
             m == Max(s)
  <2>1. IsFiniteSet(s) /\ s \subseteq Nat BY FS_Subset
  <2>2. m \in s /\ \A y \in s : y <= m BY <1>2, <2>1, MaxIs
  <2>3. n \in Nat /\ Cardinality(s \ {m}) = n - 1 /\ n - 1 \in Nat
    <3>1. Cardinality(s \ {m}) = n - 1 BY <2>1, <2>2, FS_RemoveElement
    <3>2. IsFiniteSet(s \ {m}) BY <2>1, FS_Subset
    <3> QED BY <2>1, <3>1, <3>2, FS_CardinalityType
  <2>4. PICK o \in SetToSeqs(s \ {m}) : Ordered0(o) BY <1>2, <2>2
  <2> HIDE DEF n, m
  <2> DEFINE q == [k \in 1..n |-> IF k = n THEN m ELSE o[k]]
  <2>5. /\ DOMAIN o = 1..(n - 1)
        /\ \A k \in 1..(n - 1) : o[k] \in s \ {m}
        /\ \A j, k \in 1..(n - 1) : j # k => o[j] # o[k]
    BY <2>3, <2>4 DEF SetToSeqs
  <2>6. \A k \in 1..n : k # n => k \in 1..(n - 1) BY <2>3
  <2>7. \A k \in 1..n : q[k] \in s BY <2>2, <2>5, <2>6
  <2>8. \A j, k \in 1..n : j # k => q[j] # q[k] BY <2>5, <2>6
  <2>9. q \in SetToSeqs(s)
    <3>1. q \in [1..n -> s] BY <2>7
    <3> HIDE DEF q
    <3> QED BY <2>8, <3>1 DEF SetToSeqs, n
  <2>10. Ordered0(q)
    <3> SUFFICES ASSUME NEW j \in 1..n, NEW k \in 1..n, j < k PROVE q[j] < q[k]
      OBVIOUS
    <3>1. j \in 1..(n - 1) BY <2>3
    <3>2. q[j] = o[j]
      <4>1. j # n BY <2>3
      <4> QED BY <4>1
    <3>5. o[j] \in s \ {m} BY <2>5, <3>1
    <3>6. o[j] \in Nat /\ m \in Nat /\ o[j] < m
      <4> DEFINE x == o[j]
      <4>1. x \in s /\ x # m BY <3>5
      <4>2. x \in Nat /\ m \in Nat BY <2>1, <2>2, <4>1
      <4>3. x <= m BY <2>2, <4>1
      <4> HIDE DEF x
      <4>4. x < m BY <4>1, <4>2, <4>3
      <4> QED BY <4>2, <4>4 DEF x
    <3>3. CASE k = n BY <3>2, <3>3, <3>6
    <3>4. CASE k # n BY <2>4, <2>5, <2>6, <3>1, <3>2, <3>4
    <3> QED BY <3>3, <3>4
  <2> QED BY <2>9, <2>10
<1>3. S \in P
  <2> HIDE DEF P
  <2> QED BY <1>1, <1>2, SetInduct
<1> QED BY <1>3 DEF Ascending

(* The decoding of an item as a table over its steps.                      *)
IsDecoding(item, steps, d) ==
  d = [s \in 0..steps |-> IF s = 0 THEN FreshDecode(item) ELSE DecodeStep(item, d[s - 1], s)]
Course(item, steps) == CHOOSE d : IsDecoding(item, steps, d)

(* The table exists: there is one that is right up to each step.           *)
LEMMA DecodingExists ==
  ASSUME NEW item, NEW steps \in Nat
  PROVE  \E d : IsDecoding(item, steps, d)
<1> DEFINE F(g, k) == IF k = 0 THEN FreshDecode(item) ELSE DecodeStep(item, g[k - 1], k)
           Good == {m \in Nat : \E g : g = [k \in 0..m |-> F(g, k)]}
<1>1. 0 \in Good
  <2> DEFINE g == [k \in 0..0 |-> FreshDecode(item)]
  <2>1. g = [k \in 0..0 |-> F(g, k)] OBVIOUS
  <2> QED BY <2>1
<1>2. ASSUME NEW m \in Nat, m \in Good PROVE m + 1 \in Good
  <2>1. PICK g : g = [k \in 0..m |-> F(g, k)] BY <1>2
  <2> DEFINE h == [k \in 0..(m + 1) |-> IF k <= m THEN g[k] ELSE F(g, k)]
  <2>2. ASSUME NEW k \in 0..(m + 1) PROVE h[k] = F(h, k)
    <3>1. CASE k <= m
      <4>1. k \in 0..m /\ h[k] = g[k] BY <3>1
      <4>2. g[k] = F(g, k) BY <2>1, <4>1
      <4>3. k # 0 => k - 1 \in 0..(m + 1) /\ k - 1 <= m BY <3>1
      <4>4. k # 0 => h[k - 1] = g[k - 1] BY <4>3
      <4> HIDE DEF h
      <4> QED BY <4>1, <4>2, <4>4
    <3>2. CASE ~(k <= m)
      <4>1. h[k] = F(g, k) BY <3>2
      <4>3. k - 1 \in 0..(m + 1) /\ k - 1 <= m /\ k # 0 BY <3>2
      <4>4. h[k - 1] = g[k - 1] BY <4>3
      <4> HIDE DEF h
      <4> QED BY <4>1, <4>3, <4>4
    <3> QED BY <3>1, <3>2
  <2>3. h = [k \in 0..(m + 1) |-> h[k]] OBVIOUS
  <2> HIDE DEF h, F
  <2>4. h = [k \in 0..(m + 1) |-> F(h, k)] BY <2>2, <2>3
  <2> QED BY <2>4
<1>3. Nat \subseteq Good
  <2> HIDE DEF Good
  <2> QED BY <1>1, <1>2, Induct
<1> QED BY <1>3 DEF IsDecoding

(* The decoding is the last entry of the table.                            *)
LEMMA AloneIsDecoding == \A item, steps : Alone(item, steps) = Course(item, steps)[steps]
BY DEF Alone, Course, IsDecoding

(* Each entry of the table is a step from the one before.                  *)
LEMMA DecodingSteps ==
  ASSUME NEW item, NEW steps \in Nat
  PROVE  /\ Course(item, steps)[0] = FreshDecode(item)
         /\ \A s \in 1..steps :
              Course(item, steps)[s] = DecodeStep(item, Course(item, steps)[s - 1], s)
<1> DEFINE d == Course(item, steps)
<1>1. IsDecoding(item, steps, d) BY DecodingExists DEF Course
<1> HIDE DEF d
<1>2. d[0] = FreshDecode(item) BY <1>1 DEF IsDecoding
<1>3. \A s \in 1..steps : d[s] = DecodeStep(item, d[s - 1], s) BY <1>1 DEF IsDecoding
<1> QED BY <1>2, <1>3 DEF d

(* A state is a record of its fields.                                      *)
IsState(t) ==
  /\ t = [slots |-> t.slots, actions |-> t.actions, rows |-> t.rows, answers |-> t.answers,
          misses |-> t.misses, halt |-> t.halt, bad |-> t.bad]
  /\ t.bad \in BOOLEAN

(* A fresh state is one.                                                   *)
LEMMA FreshIsState == \A item : IsState(FreshState(item))
BY DEF IsState, FreshState

(* A return leaves a state, and what it says of forced returns.            *)
LEMMA ReturnedIsState ==
  ASSUME NEW t, IsState(t), NEW a, NEW row
  PROVE  IsState(Returned(t, a, row)) /\ Returned(t, a, row).bad = t.bad
<1> DEFINE acts == Append(t.actions, a)
           rows == Append(t.rows, row)
           misses == IF a.read /\ row = Miss THEN t.misses + 1 ELSE t.misses
           halt == IF a.halt /\ t.halt = 0 THEN Len(t.actions) + 1 ELSE t.halt
           slots == IF row # Miss /\ row.target # Nowhere
                    THEN [t.slots EXCEPT ![a.slot] = row.target] ELSE t.slots
<1>1. Returned(t, a, row) =
        [t EXCEPT !.actions = acts, !.rows = rows, !.misses = misses, !.halt = halt, !.slots = slots]
  BY DEF IsState, Returned
<1> HIDE DEF acts, rows, misses, halt, slots
<1>2. Returned(t, a, row) =
        [slots |-> slots, actions |-> acts, rows |-> rows, answers |-> t.answers,
         misses |-> misses, halt |-> halt, bad |-> t.bad]
  BY <1>1 DEF IsState
<1> QED BY <1>2 DEF IsState

(* So does an answer.                                                      *)
LEMMA AnsweredIsState ==
  ASSUME NEW t, IsState(t), NEW item
  PROVE  IsState(Answered(t, item)) /\ Answered(t, item).bad = t.bad
<1> DEFINE answers == Append(t.answers, item.qid)
<1>1. Answered(t, item) = [t EXCEPT !.answers = answers] BY DEF IsState, Answered
<1> HIDE DEF answers
<1>2. Answered(t, item) =
        [slots |-> t.slots, actions |-> t.actions, rows |-> t.rows, answers |-> answers,
         misses |-> t.misses, halt |-> t.halt, bad |-> t.bad]
  BY <1>1 DEF IsState
<1> QED BY <1>2 DEF IsState

(* A forced return that is the store's is what the read returns; a return  *)
(* that is not marks the state for good.                                   *)
LEMMA ForcedStep ==
  ASSUME NEW t, IsState(t), NEW a, NEW row, NEW store, \A r \in store : r.at[1] # Nowhere
  PROVE  LET u == ApplyForcedReturn(t, a, row, store, TRUE)
         IN  /\ IsState(u) /\ (t.bad => u.bad)
             /\ ~ u.bad => u = ApplyAction(t, a, store)
<1> DEFINE u == ApplyForcedReturn(t, a, row, store, TRUE)
           w == Returned(t, a, row)
           at == Address(t, a)
           due == IF a.read THEN Lookup(store, at) ELSE Miss
           free == IF a.read /\ t.slots[a.slot] # Nowhere THEN Lookup(store, at) ELSE Miss
           x == (t.bad \/ row # due)
<1>1. u = [w EXCEPT !.bad = x] BY DEF ApplyForcedReturn
<1>2. ApplyAction(t, a, store) = Returned(t, a, free) BY DEF ApplyAction
<1>3. due = free
  <2>1. CASE t.slots[a.slot] = Nowhere
    <3>1. at[1] = Nowhere BY <2>1 DEF Address
    <3>2. \A r \in store : r.at # at BY <3>1
    <3>3. Lookup(store, at) = Miss BY <3>2, LookupMisses
    <3> QED BY <2>1, <3>3
  <2> QED BY <2>1
<1>4. IsState(w) /\ w.bad = t.bad BY ReturnedIsState
<1>5. x \in BOOLEAN /\ t.bad \in BOOLEAN /\ (t.bad => x) /\ (~ x => row = due /\ ~ t.bad)
  BY DEF IsState
<1> HIDE DEF u, w, at, due, free, x
<1>6. u = [slots |-> w.slots, actions |-> w.actions, rows |-> w.rows, answers |-> w.answers,
           misses |-> w.misses, halt |-> w.halt, bad |-> x]
  BY <1>1, <1>4 DEF IsState
<1>7. u.bad = x BY <1>6
<1>8. IsState(u) BY <1>5, <1>6 DEF IsState
<1>9. t.bad => u.bad BY <1>5, <1>7
<1>10. ASSUME ~ u.bad PROVE u = ApplyAction(t, a, store)
  <2>1. row = due /\ x = FALSE /\ t.bad = FALSE BY <1>5, <1>7, <1>10
  <2>2. u = w BY <1>4, <1>6, <2>1 DEF IsState
  <2>3. w = Returned(t, a, free) BY <1>3, <2>1 DEF w
  <2> QED BY <1>2, <2>2, <2>3
<1> QED BY <1>8, <1>9, <1>10 DEF u

(* Without its returns, an item reads from the store they are sealed to.   *)
Freed(item) == [item EXCEPT !.returns = << >>, !.store = item.validation]

(* An item freed of its returns differs in them and in the store it reads. *)
LEMMA FreedIs ==
  ASSUME NEW item \in DecodedType
  PROVE  /\ Freed(item).qid = item.qid /\ Freed(item).slots = item.slots
         /\ Freed(item).acts = item.acts /\ Freed(item).returns = << >>
         /\ Freed(item).store = item.validation
BY DEF Freed, DecodedType

(* No row of the store of an item starts at an empty slot.                 *)
LEMMA NoRowNowhere ==
  ASSUME NEW item \in DecodedType
  PROVE  \A r \in item.validation : r.at[1] # Nowhere
<1>1. item.validation \subseteq RowTypes BY DEF DecodedType
<1>2. \A r \in RowTypes : r.at[1] \in Nat \ {0} BY DEF RowTypes
<1> QED BY <1>1, <1>2 DEF Nowhere

(* So a step under forced returns is a step of the freed item as long as no*)
(* return was wrong.                                                       *)
LEMMA ForcedDecodeStep ==
  ASSUME NEW item \in DecodedType, item.acts # << >>, item.returns # << >>,
         NEW d, NEW e, NEW s, IsState(d.state), ~ d.state.bad => d.state = e.state
  PROVE  LET u == DecodeStep(item, d, s)
             w == DecodeStep(Freed(item), e, s)
         IN  IsState(u.state) /\ (~ u.state.bad => u.state = w.state)
<1> DEFINE t == d.state
           a == item.acts[s]
           row == IF a.read THEN item.returns[d.taken + 1] ELSE Miss
           x == ApplyForcedReturn(t, a, row, item.validation, TRUE)
           y == ApplyAction(e.state, a, item.validation)
           u == DecodeStep(item, d, s)
           w == DecodeStep(Freed(item), e, s)
<1>1. Chosen(item, t, s) = a /\ Chosen(Freed(item), e.state, s) = a
  BY FreedIs DEF Chosen
<1>2. u.state = Answered(ActAndReturn(item, t, d.taken, s), item)
  BY DEF DecodeStep
<1>3. w.state = Answered(ActAndReturn(Freed(item), e.state, e.taken, s), Freed(item))
  BY DEF DecodeStep
<1>4. ActAndReturn(item, t, d.taken, s) = ApplyForcedReturn(t, a, row, item.validation, item.acts # << >>)
  BY <1>1 DEF ActAndReturn
<1>5. ApplyForcedReturn(t, a, row, item.validation, item.acts # << >>) = x
  BY DEF ApplyForcedReturn
<1>6. ActAndReturn(Freed(item), e.state, e.taken, s) = y
  BY <1>1, FreedIs DEF ActAndReturn
<1>7. \A z : Answered(z, Freed(item)) = Answered(z, item) BY FreedIs DEF Answered
<1>8. IsState(x) /\ (t.bad => x.bad) /\ (~ x.bad => x = ApplyAction(t, a, item.validation))
  BY NoRowNowhere, ForcedStep
<1> HIDE DEF x, y, u, w, row, a
<1>9. u.state = Answered(x, item) /\ w.state = Answered(y, item)
  BY <1>2, <1>3, <1>4, <1>5, <1>6, <1>7
<1>10. IsState(u.state) /\ u.state.bad = x.bad BY <1>8, <1>9, AnsweredIsState
<1>11. ASSUME ~ u.state.bad PROVE u.state = w.state
  <2>1. ~ x.bad /\ ~ t.bad BY <1>8, <1>10, <1>11
  <2>2. x = y BY <1>8, <2>1 DEF y
  <2> QED BY <1>9, <2>2
<1> QED BY <1>10, <1>11 DEF u, w

(* Replayed actions with sealed returns leave what reading them does.      *)
LEMMA ForcedIsAlwaysFree ==
  ASSUME NEW item \in DecodedType, NEW steps \in Nat
  PROVE  ForcedIsFree(item, steps)
<1> SUFFICES ASSUME item.acts # << >>, item.returns # << >>, ~ Alone(item, steps).state.bad
             PROVE  Alone(item, steps).state = Alone(Freed(item), steps).state
  BY DEF ForcedIsFree, Freed
<1> DEFINE d == Course(item, steps)
           e == Course(Freed(item), steps)
           Good == {s \in Nat : s <= steps => IsState(d[s].state) /\ (~ d[s].state.bad => d[s].state = e[s].state)}
<1>1. /\ d[0] = FreshDecode(item) /\ e[0] = FreshDecode(Freed(item))
      /\ \A s \in 1..steps : d[s] = DecodeStep(item, d[s - 1], s)
      /\ \A s \in 1..steps : e[s] = DecodeStep(Freed(item), e[s - 1], s)
  BY DecodingSteps
<1> HIDE DEF d, e
<1>2. 0 \in Good
  <2>1. d[0].state = FreshState(item) /\ e[0].state = FreshState(Freed(item))
    BY <1>1 DEF FreshDecode
  <2>2. FreshState(Freed(item)) = FreshState(item) BY FreedIs DEF FreshState
  <2> QED BY <2>1, <2>2, FreshIsState
<1>3. ASSUME NEW s \in Nat, s \in Good PROVE s + 1 \in Good
  <2> SUFFICES ASSUME s + 1 <= steps
               PROVE  /\ IsState(d[s + 1].state)
                      /\ ~ d[s + 1].state.bad => d[s + 1].state = e[s + 1].state
    OBVIOUS
  <2>1. s + 1 \in 1..steps /\ (s + 1) - 1 = s /\ s <= steps OBVIOUS
  <2>2. d[s + 1] = DecodeStep(item, d[s], s + 1) /\ e[s + 1] = DecodeStep(Freed(item), e[s], s + 1)
    BY <1>1, <2>1
  <2>3. IsState(d[s].state) /\ (~ d[s].state.bad => d[s].state = e[s].state) BY <1>3, <2>1
  <2> QED BY <2>2, <2>3, ForcedDecodeStep
<1>4. Nat \subseteq Good
  <2> HIDE DEF Good
  <2> QED BY <1>2, <1>3, Induct
<1>5. ~ d[steps].state.bad => d[steps].state = e[steps].state BY <1>4
<1> QED BY <1>5, AloneIsDecoding DEF d, e

(* A batch after s steps has, of each of its items, what the item decoded  *)
(* by itself has then.                                                     *)
IsBatch(b, n) ==
  /\ b = [indexes |-> b.indexes, items |-> b.items, states |-> b.states,
          taken |-> b.taken, caches |-> b.caches]
  /\ DOMAIN b.indexes = 1..n /\ DOMAIN b.items = 1..n /\ DOMAIN b.states = 1..n
  /\ DOMAIN b.taken = 1..n /\ DOMAIN b.caches = 1..n

IsRow(i, item, state, taken, cache, items, steps, s) ==
  /\ i \in DOMAIN items /\ item = items[i]
  /\ state = Course(items[i], steps)[s].state /\ taken = Course(items[i], steps)[s].taken
  /\ cache = Course(items[i], steps)[s].cache

BatchKeeps(b, items, steps, s) ==
  /\ \E n \in Nat : IsBatch(b, n)
  /\ \A k \in DOMAIN b.indexes :
       IsRow(b.indexes[k], b.items[k], b.states[k], b.taken[k], b.caches[k], items, steps, s)

(* What an action and its return make of each row of a batch.              *)
LEMMA ReturnIs ==
  ASSUME NEW b, NEW n \in Nat, IsBatch(b, n), NEW s
  PROVE  LET c == BatchReturn(b, s)
         IN  /\ IsBatch(c, n)
             /\ \A k \in 1..n :
                  /\ c.indexes[k] = b.indexes[k] /\ c.items[k] = b.items[k]
                  /\ c.states[k] = ActAndReturn(b.items[k], b.states[k], b.taken[k], s)
                  /\ c.taken[k] = Taken(b.items[k], b.states[k], b.taken[k], s)
                  /\ c.caches[k] = b.caches[k]
<1> DEFINE states == [k \in DOMAIN b.states |->
                        ActAndReturn(b.items[k], b.states[k], b.taken[k], s)]
           taken == [k \in DOMAIN b.taken |-> Taken(b.items[k], b.states[k], b.taken[k], s)]
           c == BatchReturn(b, s)
<1>1. c = [b EXCEPT !.states = states, !.taken = taken] BY DEF IsBatch, BatchReturn
<1>2. /\ DOMAIN states = 1..n /\ DOMAIN taken = 1..n
      /\ \A k \in 1..n : /\ states[k] = ActAndReturn(b.items[k], b.states[k], b.taken[k], s)
                         /\ taken[k] = Taken(b.items[k], b.states[k], b.taken[k], s)
  BY DEF IsBatch
<1> HIDE DEF states, taken, c
<1>3. c = [indexes |-> b.indexes, items |-> b.items, states |-> states,
           taken |-> taken, caches |-> b.caches]
  BY <1>1 DEF IsBatch
<1>4. IsBatch(c, n) BY <1>2, <1>3 DEF IsBatch
<1>5. /\ c.indexes = b.indexes /\ c.items = b.items /\ c.states = states
      /\ c.taken = taken /\ c.caches = b.caches
  BY <1>3
<1> QED BY <1>2, <1>4, <1>5 DEF c

(* What a part of a batch has of the rows that were selected.              *)
LEMMA SubgroupIs ==
  ASSUME NEW b, NEW n \in Nat, IsBatch(b, n), NEW m \in Nat, NEW o,
         DOMAIN o = 1..m, \A k \in 1..m : o[k] \in 1..n
  PROVE  LET p == Subgroup(b, o)
         IN  /\ IsBatch(p, m)
             /\ \A k \in 1..m :
                  /\ p.indexes[k] = b.indexes[o[k]] /\ p.items[k] = b.items[o[k]]
                  /\ p.states[k] = b.states[o[k]] /\ p.taken[k] = b.taken[o[k]]
                  /\ p.caches[k] = b.caches[o[k]]
<1> DEFINE p == Subgroup(b, o)
<1>1. DOMAIN b = {"indexes", "items", "states", "taken", "caches"} BY DEF IsBatch
<1>2. /\ DOMAIN p = {"indexes", "items", "states", "taken", "caches"}
      /\ p.indexes = [k \in 1..m |-> b.indexes[o[k]]]
      /\ p.items = [k \in 1..m |-> b.items[o[k]]]
      /\ p.states = [k \in 1..m |-> b.states[o[k]]]
      /\ p.taken = [k \in 1..m |-> b.taken[o[k]]]
      /\ p.caches = [k \in 1..m |-> b.caches[o[k]]]
  BY <1>1 DEF Subgroup
<1>3. p = [f \in {"indexes", "items", "states", "taken", "caches"} |-> p[f]]
  BY <1>1 DEF Subgroup
<1> HIDE DEF p
<1>4. p = [indexes |-> p.indexes, items |-> p.items, states |-> p.states,
           taken |-> p.taken, caches |-> p.caches]
  BY <1>3
<1>5. IsBatch(p, m) BY <1>2, <1>4 DEF IsBatch
<1> QED BY <1>2, <1>5 DEF p

(* What the end of a step makes of each row of a batch.                    *)
LEMMA FinishIs ==
  ASSUME NEW b, NEW n \in Nat, IsBatch(b, n)
  PROVE  LET c == FinishBatchStep(b)
         IN  /\ IsBatch(c, n)
             /\ \A k \in 1..n :
                  /\ c.indexes[k] = b.indexes[k] /\ c.items[k] = b.items[k]
                  /\ c.states[k] = Answered(b.states[k], b.items[k])
                  /\ c.taken[k] = b.taken[k]
                  /\ c.caches[k] = Fed(b.caches[k], b.states[k], b.items[k])
<1> DEFINE states == [k \in DOMAIN b.states |-> Answered(b.states[k], b.items[k])]
           caches == [k \in DOMAIN b.caches |-> Fed(b.caches[k], b.states[k], b.items[k])]
           c == FinishBatchStep(b)
<1>1. c = [b EXCEPT !.states = states, !.caches = caches] BY DEF IsBatch, FinishBatchStep
<1>2. /\ DOMAIN states = 1..n /\ DOMAIN caches = 1..n
      /\ \A k \in 1..n : /\ states[k] = Answered(b.states[k], b.items[k])
                         /\ caches[k] = Fed(b.caches[k], b.states[k], b.items[k])
  BY DEF IsBatch
<1> HIDE DEF states, caches, c
<1>3. c = [indexes |-> b.indexes, items |-> b.items, states |-> states,
           taken |-> b.taken, caches |-> caches]
  BY <1>1 DEF IsBatch
<1>4. IsBatch(c, n) BY <1>2, <1>3 DEF IsBatch
<1>5. /\ c.indexes = b.indexes /\ c.items = b.items /\ c.states = states
      /\ c.taken = b.taken /\ c.caches = caches
  BY <1>3
<1> QED BY <1>2, <1>4, <1>5 DEF c

(* A row that takes a step is where its item is after it.                  *)
LEMMA RowSteps ==
  ASSUME NEW i, NEW item, NEW state, NEW taken, NEW cache, NEW items, NEW steps \in Nat,
         NEW s \in 1..steps, IsRow(i, item, state, taken, cache, items, steps, s - 1)
  PROVE  IsRow(i, item, Answered(ActAndReturn(item, state, taken, s), item),
               Taken(item, state, taken, s),
               Fed(cache, ActAndReturn(item, state, taken, s), item), items, steps, s)
<1> DEFINE d == Course(items[i], steps)
<1>1. d[s] = DecodeStep(items[i], d[s - 1], s) BY DecodingSteps
<1>2. /\ i \in DOMAIN items /\ item = items[i] /\ state = d[s - 1].state
      /\ taken = d[s - 1].taken /\ cache = d[s - 1].cache
  BY DEF IsRow
<1> HIDE DEF d
<1>3. /\ d[s].state = Answered(ActAndReturn(item, state, taken, s), item)
      /\ d[s].taken = Taken(item, state, taken, s)
      /\ d[s].cache = Fed(cache, ActAndReturn(item, state, taken, s), item)
  BY <1>1, <1>2 DEF DecodeStep
<1> QED BY <1>2, <1>3 DEF IsRow, d

(* A part of a batch after a step has rows of it that took the step.       *)
LEMMA PartKeeps ==
  ASSUME NEW items, NEW steps \in Nat, NEW s \in 1..steps, NEW b, BatchKeeps(b, items, steps, s - 1),
         NEW p \in PartitionReturns(BatchReturn(b, s))
  PROVE  BatchKeeps(FinishBatchStep(p), items, steps, s)
<1>1. PICK n \in Nat : IsBatch(b, n) BY DEF BatchKeeps
<1> DEFINE c == BatchReturn(b, s)
           Same(k) == {j \in DOMAIN c.states : Key(c, j) = Key(c, k)}
<1>2. /\ IsBatch(c, n)
      /\ \A k \in 1..n :
           /\ c.indexes[k] = b.indexes[k] /\ c.items[k] = b.items[k]
           /\ c.states[k] = ActAndReturn(b.items[k], b.states[k], b.taken[k], s)
           /\ c.taken[k] = Taken(b.items[k], b.states[k], b.taken[k], s)
           /\ c.caches[k] = b.caches[k]
  BY <1>1, ReturnIs
<1>3. PICK k0 \in DOMAIN c.states : p = Subgroup(c, Ascending(Same(k0)))
  BY DEF PartitionReturns
<1> HIDE DEF c
<1>4. Same(k0) \subseteq 1..n BY <1>2 DEF IsBatch
<1> DEFINE S == Same(k0)
           m == Cardinality(S)
           o == Ascending(S)
           q == FinishBatchStep(p)
<1> HIDE DEF Same
<1>5. IsFiniteSet(S) /\ S \subseteq Nat
  <2>1. IsFiniteSet(1..n) BY FS_Interval
  <2> QED BY <1>4, <2>1, FS_Subset
<1>6. m \in Nat /\ o \in [1..m -> 1..n]
  <2>1. o \in SetToSeqs(S) BY <1>5, AscendingIs
  <2> HIDE DEF o, S
  <2>2. m \in Nat BY <1>5, FS_CardinalityType
  <2>3. o \in [1..m -> S] BY <2>1 DEF SetToSeqs
  <2> QED BY <1>4, <2>2, <2>3 DEF S
<1>7. p = Subgroup(c, o) BY <1>3
<1> HIDE DEF o, m, S
<1>8. /\ IsBatch(p, m)
      /\ \A k \in 1..m :
           /\ p.indexes[k] = c.indexes[o[k]] /\ p.items[k] = c.items[o[k]]
           /\ p.states[k] = c.states[o[k]] /\ p.taken[k] = c.taken[o[k]]
           /\ p.caches[k] = c.caches[o[k]]
  <2>1. DOMAIN o = 1..m /\ \A k \in 1..m : o[k] \in 1..n BY <1>6
  <2> QED BY <1>2, <1>6, <1>7, <2>1, SubgroupIs
<1>9. /\ IsBatch(q, m)
      /\ \A k \in 1..m :
           /\ q.indexes[k] = p.indexes[k] /\ q.items[k] = p.items[k]
           /\ q.states[k] = Answered(p.states[k], p.items[k])
           /\ q.taken[k] = p.taken[k]
           /\ q.caches[k] = Fed(p.caches[k], p.states[k], p.items[k])
  BY <1>6, <1>8, FinishIs
<1> HIDE DEF q
<1>10. ASSUME NEW k \in 1..m
       PROVE  IsRow(q.indexes[k], q.items[k], q.states[k], q.taken[k], q.caches[k], items, steps, s)
  <2> DEFINE j == o[k]
  <2>1. j \in 1..n BY <1>6
  <2> HIDE DEF j
  <2>2. IsRow(b.indexes[j], b.items[j], b.states[j], b.taken[j], b.caches[j], items, steps, s - 1)
    BY <1>1, <2>1 DEF BatchKeeps, IsBatch
  <2>3. /\ q.indexes[k] = b.indexes[j] /\ q.items[k] = b.items[j]
        /\ q.states[k] = Answered(ActAndReturn(b.items[j], b.states[j], b.taken[j], s), b.items[j])
        /\ q.taken[k] = Taken(b.items[j], b.states[j], b.taken[j], s)
        /\ q.caches[k] = Fed(b.caches[j], ActAndReturn(b.items[j], b.states[j], b.taken[j], s), b.items[j])
    BY <1>2, <1>8, <1>9, <2>1 DEF j
  <2>4. IsRow(b.indexes[j], b.items[j],
              Answered(ActAndReturn(b.items[j], b.states[j], b.taken[j], s), b.items[j]),
              Taken(b.items[j], b.states[j], b.taken[j], s),
              Fed(b.caches[j], ActAndReturn(b.items[j], b.states[j], b.taken[j], s), b.items[j]),
              items, steps, s)
    BY <2>2, RowSteps
  <2> QED BY <2>3, <2>4
<1>11. DOMAIN q.indexes = 1..m BY <1>9 DEF IsBatch
<1> QED BY <1>6, <1>9, <1>10, <1>11 DEF BatchKeeps, q

(* An item is in a batch.                                                 *)
HasItem(b, i) == \E k \in DOMAIN b.indexes : b.indexes[k] = i

(* No row of a batch is lost when it splits.                               *)
LEMMA PartsCover ==
  ASSUME NEW items, NEW steps \in Nat, NEW s \in 1..steps, NEW b, BatchKeeps(b, items, steps, s - 1),
         NEW i, HasItem(b, i)
  PROVE  \E p \in PartitionReturns(BatchReturn(b, s)) : HasItem(FinishBatchStep(p), i)
<1>0. PICK j \in DOMAIN b.indexes : b.indexes[j] = i BY DEF HasItem
<1>1. PICK n \in Nat : IsBatch(b, n) BY DEF BatchKeeps
<1> DEFINE c == BatchReturn(b, s)
           S == {k \in DOMAIN c.states : Key(c, k) = Key(c, j)}
           m == Cardinality(S)
           o == Ascending(S)
           p == Subgroup(c, o)
           q == FinishBatchStep(p)
<1>2. IsBatch(c, n) /\ \A k \in 1..n : c.indexes[k] = b.indexes[k] BY <1>1, ReturnIs
<1>3. j \in 1..n /\ DOMAIN c.states = 1..n BY <1>1, <1>2 DEF IsBatch
<1>4. p \in PartitionReturns(c) BY <1>3 DEF PartitionReturns
<1> HIDE DEF c
<1>5. S \subseteq 1..n /\ j \in S BY <1>3
<1>6. IsFiniteSet(S) /\ S \subseteq Nat
  <2>1. IsFiniteSet(1..n) BY FS_Interval
  <2> QED BY <1>5, <2>1, FS_Subset
<1> HIDE DEF S
<1>7. o \in SetToSeqs(S) BY <1>6, AscendingIs
<1> HIDE DEF o
<1>8. m \in Nat /\ \E k \in 1..m : o[k] = j BY <1>5, <1>6, <1>7, OrderIs
<1>9. o \in [1..m -> 1..n]
  <2>1. o \in [1..m -> S] BY <1>7 DEF SetToSeqs
  <2> QED BY <1>5, <2>1
<1> HIDE DEF m
<1>10. IsBatch(p, m) /\ \A k \in 1..m : p.indexes[k] = c.indexes[o[k]]
  <2>1. DOMAIN o = 1..m /\ \A k \in 1..m : o[k] \in 1..n BY <1>9
  <2>2. p = Subgroup(c, o) OBVIOUS
  <2> HIDE DEF p
  <2> QED BY <1>2, <1>8, <2>1, <2>2, SubgroupIs
<1> HIDE DEF p
<1>11. IsBatch(q, m) /\ \A k \in 1..m : q.indexes[k] = p.indexes[k] BY <1>8, <1>10, FinishIs
<1> HIDE DEF q
<1>12. DOMAIN q.indexes = 1..m BY <1>11 DEF IsBatch
<1>13. HasItem(q, i)
  BY <1>0, <1>2, <1>3, <1>8, <1>10, <1>11, <1>12 DEF HasItem
<1> QED BY <1>4, <1>13 DEF q, c

(* The batches of a chunk as a table over the steps.                       *)
IsSplit(indexes, items, steps, g) ==
  g = [s \in 0..steps |-> IF s = 0 THEN {FirstBatch(indexes, items)} ELSE NextBatches(g[s - 1], s)]
Split(indexes, items, steps) == CHOOSE g : IsSplit(indexes, items, steps, g)

(* The table exists.                                                       *)
LEMMA SplitExists ==
  ASSUME NEW indexes, NEW items, NEW steps \in Nat
  PROVE  \E g : IsSplit(indexes, items, steps, g)
<1> DEFINE F(g, k) == IF k = 0 THEN {FirstBatch(indexes, items)} ELSE NextBatches(g[k - 1], k)
           Good == {m \in Nat : \E g : g = [k \in 0..m |-> F(g, k)]}
<1>1. 0 \in Good
  <2> DEFINE g == [k \in 0..0 |-> {FirstBatch(indexes, items)}]
  <2>1. g = [k \in 0..0 |-> F(g, k)] OBVIOUS
  <2> QED BY <2>1
<1>2. ASSUME NEW m \in Nat, m \in Good PROVE m + 1 \in Good
  <2>1. PICK g : g = [k \in 0..m |-> F(g, k)] BY <1>2
  <2> DEFINE h == [k \in 0..(m + 1) |-> IF k <= m THEN g[k] ELSE F(g, k)]
  <2>2. ASSUME NEW k \in 0..(m + 1) PROVE h[k] = F(h, k)
    <3>1. CASE k <= m
      <4>1. k \in 0..m /\ h[k] = g[k] BY <3>1
      <4>2. g[k] = F(g, k) BY <2>1, <4>1
      <4>3. k # 0 => k - 1 \in 0..(m + 1) /\ k - 1 <= m BY <3>1
      <4>4. k # 0 => h[k - 1] = g[k - 1] BY <4>3
      <4> HIDE DEF h
      <4> QED BY <4>1, <4>2, <4>4
    <3>2. CASE ~(k <= m)
      <4>1. h[k] = F(g, k) BY <3>2
      <4>3. k - 1 \in 0..(m + 1) /\ k - 1 <= m /\ k # 0 BY <3>2
      <4>4. h[k - 1] = g[k - 1] BY <4>3
      <4> HIDE DEF h
      <4> QED BY <4>1, <4>3, <4>4
    <3> QED BY <3>1, <3>2
  <2>3. h = [k \in 0..(m + 1) |-> h[k]] OBVIOUS
  <2> HIDE DEF h, F
  <2>4. h = [k \in 0..(m + 1) |-> F(h, k)] BY <2>2, <2>3
  <2> QED BY <2>4
<1>3. Nat \subseteq Good
  <2> HIDE DEF Good
  <2> QED BY <1>1, <1>2, Induct
<1> QED BY <1>3 DEF IsSplit

(* The batches decoded are the last entry of the table.                    *)
LEMMA BatchIsSplit ==
  \A indexes, items, steps : DecodeBatch(indexes, items, steps) = Split(indexes, items, steps)[steps]
BY DEF DecodeBatch, Split, IsSplit

(* Each entry of the table is a step from the one before.                  *)
LEMMA SplitSteps ==
  ASSUME NEW indexes, NEW items, NEW steps \in Nat
  PROVE  LET g == Split(indexes, items, steps)
         IN  /\ g[0] = {FirstBatch(indexes, items)}
             /\ \A s \in 1..steps : g[s] = NextBatches(g[s - 1], s)
<1> DEFINE g == Split(indexes, items, steps)
<1>1. IsSplit(indexes, items, steps, g) BY SplitExists DEF Split
<1> HIDE DEF g
<1>2. g[0] = {FirstBatch(indexes, items)} BY <1>1 DEF IsSplit
<1>3. ASSUME NEW s \in 1..steps PROVE g[s] = NextBatches(g[s - 1], s)
  <2>1. s \in 0..steps /\ s # 0 OBVIOUS
  <2> QED BY <1>1, <2>1 DEF IsSplit
<1> QED BY <1>2, <1>3 DEF g

(* The first batch of a chunk keeps.                                       *)
LEMMA FirstKeeps ==
  ASSUME NEW items, NEW steps \in Nat, NEW n \in Nat, NEW indexes, DOMAIN indexes = 1..n,
         \A k \in 1..n : indexes[k] \in DOMAIN items
  PROVE  BatchKeeps(FirstBatch(indexes, items), items, steps, 0)
<1> DEFINE b == FirstBatch(indexes, items)
<1>1. /\ b.indexes = indexes /\ b.items = [k \in DOMAIN indexes |-> items[indexes[k]]]
      /\ b.states = [k \in DOMAIN indexes |-> FreshState(items[indexes[k]])]
      /\ b.taken  = [k \in DOMAIN indexes |-> 0]
      /\ b.caches = [k \in DOMAIN indexes |-> <<items[indexes[k]].qid>>]
  BY DEF FirstBatch
<1>2. b = [indexes |-> b.indexes, items |-> b.items, states |-> b.states,
           taken |-> b.taken, caches |-> b.caches]
  BY <1>1 DEF FirstBatch
<1> HIDE DEF b
<1>3. IsBatch(b, n) BY <1>1, <1>2 DEF IsBatch
<1>4. ASSUME NEW k \in 1..n
      PROVE  IsRow(b.indexes[k], b.items[k], b.states[k], b.taken[k], b.caches[k], items, steps, 0)
  <2> DEFINE d == Course(items[indexes[k]], steps)
  <2>1. d[0] = FreshDecode(items[indexes[k]]) BY DecodingSteps
  <2> HIDE DEF d
  <2>2. /\ d[0].state = FreshState(items[indexes[k]]) /\ d[0].taken = 0
        /\ d[0].cache = <<items[indexes[k]].qid>>
    BY <2>1 DEF FreshDecode
  <2>3. /\ b.indexes[k] = indexes[k] /\ b.items[k] = items[indexes[k]]
        /\ b.states[k] = FreshState(items[indexes[k]])
        /\ b.taken[k] = 0 /\ b.caches[k] = <<items[indexes[k]].qid>>
    BY <1>1
  <2> QED BY <2>2, <2>3 DEF IsRow, d
<1> QED BY <1>1, <1>3, <1>4 DEF BatchKeeps, b

(* After any number of steps, every batch that a chunk has become keeps,   *)
(* and every item of the chunk is in one.                                  *)
LEMMA SplitKeeps ==
  ASSUME NEW items, NEW steps \in Nat, NEW n \in Nat, NEW indexes, DOMAIN indexes = 1..n,
         \A k \in 1..n : indexes[k] \in DOMAIN items
  PROVE  /\ \A b \in DecodeBatch(indexes, items, steps) : BatchKeeps(b, items, steps, steps)
         /\ \A j \in 1..n : \E b \in DecodeBatch(indexes, items, steps) : HasItem(b, indexes[j])
<1> DEFINE g == Split(indexes, items, steps)
           Kept(s) == \A b \in g[s] : BatchKeeps(b, items, steps, s)
           Covered(s) == \A j \in 1..n : \E b \in g[s] : HasItem(b, indexes[j])
           Good == {s \in Nat : s <= steps => Kept(s) /\ Covered(s)}
<1>1. g[0] = {FirstBatch(indexes, items)} /\ \A s \in 1..steps : g[s] = NextBatches(g[s - 1], s)
  BY SplitSteps
<1> HIDE DEF g
<1>2. 0 \in Good
  <2>1. Kept(0) BY <1>1, FirstKeeps
  <2>2. FirstBatch(indexes, items).indexes = indexes BY DEF FirstBatch
  <2>3. Covered(0) BY <1>1, <2>2 DEF HasItem
  <2> QED BY <2>1, <2>3
<1>3. ASSUME NEW s \in Nat, s \in Good PROVE s + 1 \in Good
  <2> SUFFICES ASSUME s + 1 <= steps PROVE Kept(s + 1) /\ Covered(s + 1) OBVIOUS
  <2>1. s + 1 \in 1..steps /\ (s + 1) - 1 = s /\ s <= steps OBVIOUS
  <2>2. g[s + 1] = NextBatches(g[s], s + 1) BY <1>1, <2>1
  <2>3. Kept(s) /\ Covered(s) BY <1>3, <2>1
  <2>4. ASSUME NEW b \in g[s + 1] PROVE BatchKeeps(b, items, steps, s + 1)
    <3>1. PICK a \in g[s] : \E p \in PartitionReturns(BatchReturn(a, s + 1)) : b = FinishBatchStep(p)
      BY <2>2 DEF NextBatches
    <3>2. PICK p \in PartitionReturns(BatchReturn(a, s + 1)) : b = FinishBatchStep(p) BY <3>1
    <3>3. BatchKeeps(a, items, steps, (s + 1) - 1) BY <2>1, <2>3
    <3>4. BatchKeeps(FinishBatchStep(p), items, steps, s + 1) BY <2>1, <3>3, PartKeeps
    <3> QED BY <3>2, <3>4
  <2>5. ASSUME NEW j \in 1..n PROVE \E b \in g[s + 1] : HasItem(b, indexes[j])
    <3>1. PICK a \in g[s] : HasItem(a, indexes[j]) BY <2>3
    <3>2. BatchKeeps(a, items, steps, (s + 1) - 1) BY <2>1, <2>3
    <3>3. PICK p \in PartitionReturns(BatchReturn(a, s + 1)) : HasItem(FinishBatchStep(p), indexes[j])
      BY <2>1, <3>1, <3>2, PartsCover
    <3>4. FinishBatchStep(p) \in g[s + 1] BY <2>2 DEF NextBatches
    <3> QED BY <3>3, <3>4
  <2> QED BY <2>4, <2>5
<1>4. Nat \subseteq Good
  <2> HIDE DEF Good
  <2> QED BY <1>2, <1>3, Induct
<1>5. Kept(steps) /\ Covered(steps) BY <1>4
<1> QED BY <1>5, BatchIsSplit DEF g

(* A product grows with its first factor.                                  *)
LEMMA ProductUp ==
  ASSUME NEW a \in Nat, NEW b \in Nat, NEW c \in Nat, a <= b
  PROVE  a * c <= b * c /\ a * c \in Nat
OBVIOUS

(* A quotient and its remainder.                                           *)
LEMMA DivMod ==
  ASSUME NEW a \in Nat, NEW d \in Nat \ {0}
  PROVE  /\ a \div d \in Nat /\ a % d \in Nat /\ a % d < d
         /\ a = d * (a \div d) + (a % d)
OBVIOUS

(* The least of two numbers.                                               *)
LEMMA MinOfTwo ==
  ASSUME NEW a \in Nat, NEW b \in Nat
  PROVE  Min({a, b}) = IF a <= b THEN a ELSE b
<1> DEFINE m == IF a <= b THEN a ELSE b
<1>1. m \in {a, b} /\ \A y \in {a, b} : m <= y OBVIOUS
<1>2. \A x \in {a, b} : (\A y \in {a, b} : x <= y) => x = m OBVIOUS
<1> HIDE DEF m
<1>3. Min({a, b}) = m BY <1>1, <1>2 DEF Min
<1> QED BY <1>3 DEF m

(* Every place of a bucket is in the cut that its number names.            *)
LEMMA CutOf ==
  ASSUME NEW n \in Nat, NEW d \in Nat \ {0}, NEW x \in 1..n
  PROVE  LET c == ((x - 1) \div d) + 1
         IN  /\ c \in 1..((n + d - 1) \div d)
             /\ (c - 1) * d + 1 <= x /\ x <= c * d
<1> DEFINE k == (x - 1) \div d
           q == (n + d - 1) \div d
<1>1. x - 1 \in Nat /\ n + d - 1 \in Nat OBVIOUS
<1>2. k \in Nat /\ d * k <= x - 1 /\ x - 1 < d * k + d
  BY <1>1, DivMod
<1>3. q \in Nat /\ n + d - 1 < d * q + d
  BY <1>1, DivMod
<1> HIDE DEF k, q
<1>4. (k + 1 - 1) * d = d * k /\ (k + 1) * d = d * k + d BY <1>2
<1>5. k < q
  <2> SUFFICES ASSUME q <= k PROVE FALSE BY <1>2, <1>3
  <2>1. q * d <= k * d BY <1>2, <1>3, ProductUp
  <2> DEFINE dk == d * k
             dq == d * q
  <2>2. dq <= dk /\ dk \in Nat /\ dq \in Nat BY <1>2, <1>3, <2>1
  <2>3. dk <= x - 1 /\ n + d - 1 < dq + d BY <1>2, <1>3
  <2> HIDE DEF dk, dq
  <2> QED BY <2>2, <2>3
<1>6. (k + 1 - 1) * d + 1 <= x /\ x <= (k + 1) * d
  <2> DEFINE dk == d * k
             lo == (k + 1 - 1) * d
             hi == (k + 1) * d
  <2>1. lo = dk /\ hi = dk + d /\ dk \in Nat /\ dk <= x - 1 /\ x - 1 < dk + d BY <1>2, <1>4
  <2> HIDE DEF dk, lo, hi
  <2>2. lo + 1 <= x /\ x <= hi BY <2>1
  <2> QED BY <2>2 DEF lo, hi
<1>7. k + 1 \in 1..q BY <1>2, <1>3, <1>5
<1> QED BY <1>6, <1>7 DEF k, q

(* The elements of a part of a sequence of numbers.                        *)
LEMMA SubSeqIs ==
  ASSUME NEW b, NEW lo \in Int, NEW hi \in Int, \A i \in lo..hi : b[i] \in Nat
  PROVE  /\ SubSeq(b, lo, hi) \in Seq(Nat)
         /\ Len(SubSeq(b, lo, hi)) = IF lo <= hi THEN hi - lo + 1 ELSE 0
         /\ \A i \in 1..(hi - lo + 1) : SubSeq(b, lo, hi)[i] = b[lo + i - 1]
BY SubSeqProperties

(* A cut has places of its bucket.                                         *)
LEMMA CutIs ==
  ASSUME NEW b, NEW n \in Nat, b \in Seq(Nat), Len(b) = n, NEW d \in Nat \ {0},
         NEW c \in 1..((n + d - 1) \div d)
  PROVE  LET lo == (c - 1) * d + 1
             hi == Min({n, c * d})
             s  == SubSeq(b, lo, hi)
         IN  /\ Len(s) \in Nat /\ DOMAIN s = 1..Len(s)
             /\ \A k \in 1..Len(s) : \E x \in 1..n : s[k] = b[x]
             /\ \A x \in 1..n : lo <= x /\ x <= c * d => \E k \in 1..Len(s) : s[k] = b[x]
<1> DEFINE lo == (c - 1) * d + 1
           top == c * d
           hi == Min({n, top})
           s  == SubSeq(b, lo, hi)
<1>1. (n + d - 1) \div d \in Nat
  <2>1. n + d - 1 \in Nat OBVIOUS
  <2> QED BY <2>1, DivMod
<1>2. c \in Nat /\ c - 1 \in Nat /\ c >= 1 BY <1>1
<1>3. top \in Nat BY <1>2
<1>4. lo \in Nat /\ lo >= 1 BY <1>2, ProductUp
<1> HIDE DEF top, lo
<1>5. hi = (IF n <= top THEN n ELSE top) BY <1>3, MinOfTwo
<1> HIDE DEF hi
<1>6. hi \in Nat /\ hi <= n /\ hi <= top /\ (hi = n \/ hi = top) BY <1>3, <1>5
<1>7. \A i \in lo..hi : i \in 1..n BY <1>4, <1>6
<1>8. \A i \in 1..n : b[i] \in Nat OBVIOUS
<1>9. /\ s \in Seq(Nat) /\ Len(s) = IF lo <= hi THEN hi - lo + 1 ELSE 0
      /\ \A i \in 1..(hi - lo + 1) : s[i] = b[lo + i - 1]
  <2>1. \A i \in lo..hi : b[i] \in Nat BY <1>7, <1>8
  <2>2. lo \in Int /\ hi \in Int BY <1>4, <1>6
  <2> QED BY <2>1, <2>2, SubSeqIs
<1> HIDE DEF s
<1>10. Len(s) \in Nat /\ DOMAIN s = 1..Len(s) BY <1>9
<1>11. ASSUME NEW k \in 1..Len(s) PROVE \E x \in 1..n : s[k] = b[x]
  <2>1. lo <= hi /\ k \in 1..(hi - lo + 1) BY <1>4, <1>6, <1>9
  <2>2. lo + k - 1 \in 1..n BY <1>4, <1>6, <2>1
  <2> QED BY <1>9, <2>1, <2>2
<1>12. ASSUME NEW x \in 1..n, lo <= x, x <= top PROVE \E k \in 1..Len(s) : s[k] = b[x]
  <2>1. x <= hi BY <1>6, <1>12
  <2> DEFINE k == x - lo + 1
  <2>2. k \in 1..(hi - lo + 1) /\ lo + k - 1 = x /\ Len(s) = hi - lo + 1
    BY <1>4, <1>6, <1>9, <1>12, <2>1
  <2> HIDE DEF k
  <2> QED BY <1>9, <2>2
<1> QED BY <1>10, <1>11, <1>12 DEF s, lo, hi, top

(* The items of one prompt length, in order of their places.               *)
OfPrompt(items, p) == {i \in DOMAIN items : items[i].prompt = p}

(* A bucket is a list of places of items, and has each item of its length. *)
LEMMA BucketIs ==
  ASSUME NEW T, NEW items \in Seq(T), NEW p
  PROVE  LET b == Ascending(OfPrompt(items, p))
         IN  /\ b \in Seq(Nat) /\ Len(b) \in Nat
             /\ \A k \in 1..Len(b) : b[k] \in DOMAIN items
             /\ \A i \in DOMAIN items : items[i].prompt = p => \E k \in 1..Len(b) : b[k] = i
<1> DEFINE S == OfPrompt(items, p)
           b == Ascending(S)
           n == Cardinality(S)
<1>1. DOMAIN items = 1..Len(items) /\ Len(items) \in Nat OBVIOUS
<1>2. S \subseteq DOMAIN items /\ \A i \in DOMAIN items : items[i].prompt = p => i \in S
  BY DEF OfPrompt
<1> HIDE DEF S
<1>3. IsFiniteSet(S) /\ S \subseteq Nat
  <2>1. IsFiniteSet(1..Len(items)) BY <1>1, FS_Interval
  <2> QED BY <1>1, <1>2, <2>1, FS_Subset
<1>4. b \in SetToSeqs(S) BY <1>3, AscendingIs
<1> HIDE DEF b
<1>5. /\ n \in Nat /\ Len(b) = n /\ \A k \in 1..n : b[k] \in S
      /\ \A i \in S : \E k \in 1..n : b[k] = i
  BY <1>3, <1>4, OrderIs
<1>6. b \in Seq(Nat)
  <2>1. b \in [1..n -> S] BY <1>4 DEF SetToSeqs
  <2> HIDE DEF n
  <2>2. b \in [1..n -> Nat] BY <1>3, <2>1
  <2> QED BY <1>5, <2>2
<1> HIDE DEF n
<1> QED BY <1>2, <1>5, <1>6 DEF b, S

(* A cut of a bucket.                                                      *)
CutAt(b, c, batch) == SubSeq(b, (c - 1) * batch + 1, Min({Len(b), c * batch}))

(* The chunks are the cuts of the buckets.                                 *)
LEMMA ChunksAreCuts ==
  ASSUME NEW items, NEW batch
  PROVE  Chunks(items, batch) =
           UNION {{CutAt(Ascending(OfPrompt(items, items[i].prompt)), c, batch) :
                     c \in 1..((Len(Ascending(OfPrompt(items, items[i].prompt))) + batch - 1) \div batch)} :
                   i \in DOMAIN items}
BY DEF Chunks, CutAt, OfPrompt

(* A chunk is a list of places of items.                                   *)
IsChunk(c, items) ==
  \E n \in Nat : DOMAIN c = 1..n /\ \A k \in 1..n : c[k] \in DOMAIN items

ChunkHas(c, i) == \E k \in DOMAIN c : c[k] = i

(* Every chunk is one, and every item is in one.                           *)
LEMMA ChunksAre ==
  ASSUME NEW T, NEW items \in Seq(T), NEW batch \in Nat \ {0}
  PROVE  /\ \A c \in Chunks(items, batch) : IsChunk(c, items)
         /\ \A i \in DOMAIN items : \E c \in Chunks(items, batch) : ChunkHas(c, i)
<1> DEFINE Bucket(i) == Ascending(OfPrompt(items, items[i].prompt))
           Cuts(i) == 1..((Len(Bucket(i)) + batch - 1) \div batch)
<1>1. ASSUME NEW i \in DOMAIN items
      PROVE  /\ Bucket(i) \in Seq(Nat) /\ Len(Bucket(i)) \in Nat
             /\ \A k \in 1..Len(Bucket(i)) : Bucket(i)[k] \in DOMAIN items
             /\ \E k \in 1..Len(Bucket(i)) : Bucket(i)[k] = i
  <2> DEFINE p == items[i].prompt
             b == Ascending(OfPrompt(items, p))
  <2>1. p = items[i].prompt /\ b = Bucket(i) OBVIOUS
  <2> HIDE DEF p, Bucket
  <2>2. /\ b \in Seq(Nat) /\ Len(b) \in Nat
        /\ \A k \in 1..Len(b) : b[k] \in DOMAIN items
        /\ \A j \in DOMAIN items : items[j].prompt = p => \E k \in 1..Len(b) : b[k] = j
    BY BucketIs
  <2> HIDE DEF b
  <2>3. \E k \in 1..Len(b) : b[k] = i BY <2>1, <2>2
  <2> QED BY <2>1, <2>2, <2>3
<1>2. Chunks(items, batch) = UNION {{CutAt(Bucket(i), c, batch) : c \in Cuts(i)} : i \in DOMAIN items}
  BY ChunksAreCuts
<1>3. ASSUME NEW i \in DOMAIN items, NEW c \in Cuts(i)
      PROVE  LET s == CutAt(Bucket(i), c, batch)
             IN  /\ Len(s) \in Nat /\ DOMAIN s = 1..Len(s)
                 /\ \A k \in 1..Len(s) : \E x \in 1..Len(Bucket(i)) : s[k] = Bucket(i)[x]
                 /\ \A x \in 1..Len(Bucket(i)) :
                      (c - 1) * batch + 1 <= x /\ x <= c * batch =>
                        \E k \in 1..Len(s) : s[k] = Bucket(i)[x]
  <2> DEFINE b == Bucket(i)
             n == Len(b)
  <2>1. b \in Seq(Nat) /\ n \in Nat /\ c \in 1..((n + batch - 1) \div batch) BY <1>1
  <2> HIDE DEF Bucket
  <2> HIDE DEF b
  <2>2. LET s == SubSeq(b, (c - 1) * batch + 1, Min({n, c * batch}))
        IN  /\ Len(s) \in Nat /\ DOMAIN s = 1..Len(s)
            /\ \A k \in 1..Len(s) : \E x \in 1..n : s[k] = b[x]
            /\ \A x \in 1..n : (c - 1) * batch + 1 <= x /\ x <= c * batch =>
                                 \E k \in 1..Len(s) : s[k] = b[x]
    BY <2>1, CutIs
  <2> QED BY <2>2 DEF CutAt, b
<1>4. ASSUME NEW s \in Chunks(items, batch) PROVE IsChunk(s, items)
  <2>1. PICK i \in DOMAIN items : s \in {CutAt(Bucket(i), c, batch) : c \in Cuts(i)} BY <1>2
  <2>2. PICK c \in Cuts(i) : s = CutAt(Bucket(i), c, batch) BY <2>1
  <2>3. /\ Len(s) \in Nat /\ DOMAIN s = 1..Len(s)
        /\ \A k \in 1..Len(s) : \E x \in 1..Len(Bucket(i)) : s[k] = Bucket(i)[x]
    BY <1>3, <2>2
  <2>4. \A x \in 1..Len(Bucket(i)) : Bucket(i)[x] \in DOMAIN items BY <1>1
  <2> HIDE DEF Bucket
  <2>5. \A k \in 1..Len(s) : s[k] \in DOMAIN items BY <2>3, <2>4
  <2> QED BY <2>3, <2>5 DEF IsChunk
<1>5. ASSUME NEW i \in DOMAIN items PROVE \E s \in Chunks(items, batch) : ChunkHas(s, i)
  <2> DEFINE n == Len(Bucket(i))
  <2>1. PICK x \in 1..n : Bucket(i)[x] = i BY <1>1
  <2> DEFINE c == ((x - 1) \div batch) + 1
             s == CutAt(Bucket(i), c, batch)
  <2>2. n \in Nat BY <1>1
  <2> HIDE DEF n
  <2>3. c \in 1..((n + batch - 1) \div batch) /\ (c - 1) * batch + 1 <= x /\ x <= c * batch
    BY <2>2, CutOf
  <2> HIDE DEF c
  <2>4. c \in Cuts(i) BY <2>3 DEF n
  <2>5. DOMAIN s = 1..Len(s) /\ \E k \in 1..Len(s) : s[k] = Bucket(i)[x]
    BY <1>3, <2>3, <2>4 DEF n
  <2>6. s \in Chunks(items, batch) BY <1>2, <2>4
  <2> HIDE DEF s, Bucket
  <2>7. ChunkHas(s, i) BY <2>1, <2>5 DEF ChunkHas
  <2> QED BY <2>6, <2>7
<1> QED BY <1>4, <1>5

(* An outcome of the batches is an item's own, at its place.               *)
LEMMA BatchedIsAlone ==
  ASSUME NEW items \in Seq(DecodedType), NEW batch \in Nat \ {0}, NEW steps \in Nat,
         NEW x \in DecodeItems(items, batch, steps)
  PROVE  \E i \in DOMAIN items : x = DecodedByItself(i, items[i], steps)
<1>1. PICK c \in Chunks(items, batch) : \E b \in DecodeBatch(c, items, steps) :
        \E k \in DOMAIN b.indexes : x = Outcome(b.indexes[k], b.states[k], b.taken[k], b.caches[k])
  BY DEF DecodeItems
<1>2. PICK b \in DecodeBatch(c, items, steps) :
        \E k \in DOMAIN b.indexes : x = Outcome(b.indexes[k], b.states[k], b.taken[k], b.caches[k])
  BY <1>1
<1>3. PICK k \in DOMAIN b.indexes : x = Outcome(b.indexes[k], b.states[k], b.taken[k], b.caches[k])
  BY <1>2
<1>4. PICK n \in Nat : DOMAIN c = 1..n /\ \A j \in 1..n : c[j] \in DOMAIN items
  BY ChunksAre DEF IsChunk
<1>5. BatchKeeps(b, items, steps, steps) BY <1>4, SplitKeeps
<1>6. IsRow(b.indexes[k], b.items[k], b.states[k], b.taken[k], b.caches[k], items, steps, steps)
  BY <1>5 DEF BatchKeeps
<1> DEFINE i == b.indexes[k]
           d == Alone(items[i], steps)
<1>7. d = Course(items[i], steps)[steps] BY AloneIsDecoding
<1> HIDE DEF d
<1>8. /\ i \in DOMAIN items /\ b.states[k] = d.state /\ b.taken[k] = d.taken /\ b.caches[k] = d.cache
  BY <1>6, <1>7 DEF IsRow
<1>9. x = Outcome(i, d.state, d.taken, d.cache) BY <1>3, <1>8
<1>10. DecodedByItself(i, items[i], steps) = Outcome(i, d.state, d.taken, d.cache)
  BY DEF DecodedByItself, d
<1> QED BY <1>8, <1>9, <1>10

(* Every item's own outcome is one of the batches'.                        *)
LEMMA AloneIsBatched ==
  ASSUME NEW items \in Seq(DecodedType), NEW batch \in Nat \ {0}, NEW steps \in Nat,
         NEW i \in DOMAIN items
  PROVE  DecodedByItself(i, items[i], steps) \in DecodeItems(items, batch, steps)
<1>1. PICK c \in Chunks(items, batch) : ChunkHas(c, i) BY ChunksAre
<1>2. PICK n \in Nat : DOMAIN c = 1..n /\ \A j \in 1..n : c[j] \in DOMAIN items
  BY ChunksAre DEF IsChunk
<1>3. PICK j \in 1..n : c[j] = i BY <1>1, <1>2 DEF ChunkHas
<1>4. PICK b \in DecodeBatch(c, items, steps) : HasItem(b, i)
  <2>1. \A h \in 1..n : \E b \in DecodeBatch(c, items, steps) : HasItem(b, c[h])
    BY <1>2, SplitKeeps
  <2> QED BY <1>3, <2>1
<1>5. PICK k \in DOMAIN b.indexes : b.indexes[k] = i BY <1>4 DEF HasItem
<1>6. BatchKeeps(b, items, steps, steps) BY <1>2, SplitKeeps
<1>7. IsRow(i, b.items[k], b.states[k], b.taken[k], b.caches[k], items, steps, steps)
  BY <1>5, <1>6 DEF BatchKeeps
<1> DEFINE d == Alone(items[i], steps)
<1>8. d = Course(items[i], steps)[steps] BY AloneIsDecoding
<1> HIDE DEF d
<1>9. b.states[k] = d.state /\ b.taken[k] = d.taken /\ b.caches[k] = d.cache
  BY <1>7, <1>8 DEF IsRow
<1>10. DecodedByItself(i, items[i], steps)
         = Outcome(b.indexes[k], b.states[k], b.taken[k], b.caches[k])
  BY <1>5, <1>9 DEF DecodedByItself, d
<1>11. b \in UNION {DecodeBatch(h, items, steps) : h \in Chunks(items, batch)} BY <1>1, <1>4
<1> QED BY <1>5, <1>10, <1>11 DEF DecodeItems

(* However items are batched and batches split, each is decoded as by      *)
(* itself, and a replay with the store's own returns changes nothing:      *)
(* decode_items and _apply_forced_return, for any number of items, any     *)
(* batch size, any steps, stores, actions and choices.                     *)
THEOREM DecodedAlwaysAlone ==
  ASSUME input.of = "decoding" => DecodingIsSound(input)
  PROVE  DecodedAlone
<1> SUFFICES ASSUME input.of = "decoding"
             PROVE  /\ DecodeItems(input.items, input.batch, input.steps) =
                         {DecodedByItself(i, input.items[i], input.steps) : i \in DOMAIN input.items}
                    /\ \A i \in DOMAIN input.items : ForcedIsFree(input.items[i], input.steps)
  BY DEF DecodedAlone
<1> DEFINE items == input.items
           batch == input.batch
           steps == input.steps
<1>1. items \in Seq(DecodedType) /\ batch \in Nat \ {0} /\ steps \in Nat BY DEF DecodingIsSound
<1> HIDE DEF items, batch, steps
<1>2. ASSUME NEW x \in DecodeItems(items, batch, steps)
      PROVE  x \in {DecodedByItself(i, items[i], steps) : i \in DOMAIN items}
  BY <1>1, BatchedIsAlone
<1>3. ASSUME NEW x \in {DecodedByItself(i, items[i], steps) : i \in DOMAIN items}
      PROVE  x \in DecodeItems(items, batch, steps)
  BY <1>1, AloneIsBatched
<1>4. DecodeItems(items, batch, steps) = {DecodedByItself(i, items[i], steps) : i \in DOMAIN items}
  BY <1>2, <1>3
<1>5. \A i \in DOMAIN items : ForcedIsFree(items[i], steps)
  <2>1. \A i \in DOMAIN items : items[i] \in DecodedType BY <1>1
  <2> QED BY <1>1, <2>1, ForcedIsAlwaysFree
<1> QED BY <1>4, <1>5 DEF items, batch, steps
=============================================================================
