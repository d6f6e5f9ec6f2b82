--------------------------- MODULE RunLedgerProofs ---------------------------
(***************************************************************************)
(* Proofs about RunLedger for any number of appenders and readers, any     *)
(* identifiers, and any number of events, kills and power cuts.            *)
(***************************************************************************)
EXTENDS RunLedger, FiniteSetTheorems, SequenceTheorems, TLAPS

(* An empty run directory loads (ledger.py _load_events).                  *)
LEMMA EmptyChain == LegalChain({})
  BY FS_EmptySet DEF LegalChain

(* What append builds under the lock extends the chain it has loaded by    *)
(* one (ledger.py append, from the load to LedgerEvent.create).            *)
LEMMA NextEventExtends ==
  ASSUME NEW S, NEW t, NEW i, MayAppend(S, t, i)
  PROVE  LegalChain(S \cup {NextEvent(S, t, i)})
<1> DEFINE n == Cardinality(S)
           x == NextEvent(S, t, i)
<1>1. IsFiniteSet(S) /\ LegalChain(S)
  BY DEF MayAppend, LegalChain
<1>2. n \in Nat
  BY <1>1, FS_CardinalityType
<1>3. x.seq = n /\ x.type = t
  BY DEF NextEvent
<1>4. \A e \in S : e.seq \in 0..(n - 1)
  BY <1>1 DEF LegalChain
<1>5. x \notin S
  BY <1>2, <1>3, <1>4
<1>6. IsFiniteSet(S \cup {x}) /\ Cardinality(S \cup {x}) = n + 1
  BY <1>1, <1>5, FS_AddElement
<1>7. {e.seq : e \in S \cup {x}} = 0..(Cardinality(S \cup {x}) - 1)
  <2>1. {e.seq : e \in S} = 0..(n - 1)
    BY <1>1 DEF LegalChain
  <2>2. {e.seq : e \in S \cup {x}} = {e.seq : e \in S} \cup {n}
    BY <1>3
  <2>3. (0..(n - 1)) \cup {n} = 0..n
    BY <1>2
  <2> QED  BY <1>2, <1>6, <2>1, <2>2, <2>3
<1>8. \A e, f \in S \cup {x} : e.seq = f.seq \/ e.id = f.id => e = f
  <2>1. \A e \in S : e.seq # x.seq /\ e.id # x.id
    BY <1>2, <1>3, <1>4 DEF MayAppend
  <2> QED  BY <1>1, <2>1 DEF LegalChain
<1>9. \A e \in S \cup {x} : e.seq = 0 => e.type = "planned" /\ e.prev = << >>
  <2>1. ASSUME n = 0  PROVE x.type = "planned" /\ x.prev = << >>
    <3>1. S = {}
      BY <1>1, <2>1, FS_EmptySet
    <3> QED  BY <1>3, <2>1, <3>1 DEF MayAppend, NextEvent
  <2> QED  BY <1>1, <1>3, <2>1 DEF LegalChain
<1>10. \A e, f \in S \cup {x} : f.seq = e.seq + 1 =>
         f.type \in Transitions[e.type] /\ f.prev = Digest(e)
  <2> SUFFICES ASSUME NEW e \in S \cup {x}, NEW f \in S \cup {x},
                      f.seq = e.seq + 1
               PROVE  f.type \in Transitions[e.type] /\ f.prev = Digest(e)
    OBVIOUS
  <2>1. CASE e = x
    BY <1>2, <1>3, <1>4, <2>1
  <2>2. CASE e \in S /\ f \in S
    BY <1>1, <2>2 DEF LegalChain
  <2>3. CASE e \in S /\ f = x
    <3>1. e.seq = n - 1 /\ S # {} /\ n # 0
      BY <1>2, <1>3, <1>4, <2>3
    <3>2. t \in Transitions[e.type]
      BY <2>3, <3>1 DEF MayAppend
    <3>3. e = CHOOSE d \in S : d.seq = n - 1
      BY <1>1, <2>3, <3>1 DEF LegalChain
    <3>4. x.prev = Digest(CHOOSE d \in S : d.seq = n - 1)
      BY <3>1 DEF NextEvent
    <3> QED  BY <1>3, <2>3, <3>2, <3>3, <3>4
  <2> QED  BY <2>1, <2>2, <2>3
<1> QED  BY <1>6, <1>7, <1>8, <1>9, <1>10 DEF LegalChain

-----------------------------------------------------------------------------
(* What append writes is an event.                                         *)
LEMMA NextEventType ==
  ASSUME NEW S \in SUBSET Events, NEW t \in EventTypes,
         NEW i \in CallerIds \cup {NoId}, MayAppend(S, t, i)
  PROVE  NextEvent(S, t, i) \in Events
<1> DEFINE n == Cardinality(S)
           last == CHOOSE e \in S : e.seq = n - 1
<1>1. n \in Nat
  BY FS_CardinalityType DEF MayAppend, LegalChain
<1>2. (IF i = NoId THEN <<n, t>> ELSE i) \in CallerIds \cup (Nat \X EventTypes)
  BY <1>1
<1>3. (IF n = 0 THEN << >> ELSE Digest(last)) \in Seq(Links)
  <2>1. CASE n = 0
    BY <2>1
  <2>2. CASE n # 0
    <3>1. n - 1 \in {e.seq : e \in S}
      <4>1. {e.seq : e \in S} = 0..(n - 1)
        BY DEF MayAppend, LegalChain
      <4>2. n - 1 \in 0..(n - 1)
        BY <1>1, <2>2
      <4> QED  BY <4>1, <4>2
    <3>2. last \in S
      BY <3>1
    <3>3. last.prev \in Seq(Links) /\ <<last.id, last.type>> \in Links
      BY <3>2 DEF Events, Links
    <3>4. Append(last.prev, <<last.id, last.type>>) \in Seq(Links)
      BY <3>3, AppendProperties
    <3>5. Digest(last) \in Seq(Links)
      BY <3>4 DEF Digest
    <3> QED  BY <2>2, <3>5
  <2> QED  BY <2>1, <2>2
<1> QED  BY <1>1, <1>2, <1>3 DEF NextEvent, Events

LEMMA TypeInit == ASSUME Init PROVE TypeOK
<1> USE DEF Init
<1>1. DiskType /\ BoundType
  BY ConstantsAssumption DEF DiskType, BoundType
<1>2. CallType /\ InFlight
  BY DEF CallType, InFlight, HasEvent, AppendPcs
<1>3. ReadType
  BY DEF ReadType, Listings
<1> QED  BY <1>1, <1>2, <1>3 DEF TypeOK

(* The frame of a step of one append call: it goes from where it is to l,  *)
(* with e in hand.                                                         *)
LEMMA CallFrame ==
  ASSUME CallType, InFlight, NEW p \in Appenders, NEW l \in AppendPcs,
         Goto(p, l),
         lock' \in Appenders \cup {None},
         want' = want \/ \E w \in Wants \cup {None} : want' = [want EXCEPT ![p] = w],
         event' = event \/ \E e \in Events \cup {None} : event' = [event EXCEPT ![p] = e],
         failing' = failing \/ \E f \in BOOLEAN : failing' = [failing EXCEPT ![p] = f],
         l # "idle" => want'[p] \in Wants,
         HasEvent(l, failing'[p]) => event'[p] \in Events
  PROVE  CallType' /\ InFlight'
<1>1. CallType'
  BY DEF CallType, Goto
<1>2. InFlight'
  <2> SUFFICES ASSUME NEW q \in Appenders
               PROVE  /\ pc'[q] # "idle" => want'[q] \in Wants
                      /\ HasEvent(pc'[q], failing'[q]) => event'[q] \in Events
    BY DEF InFlight
  <2>1. CASE q = p
    BY <2>1 DEF CallType, Goto
  <2>2. CASE q # p
    <3>1. /\ pc'[q] = pc[q] /\ want'[q] = want[q]
          /\ event'[q] = event[q] /\ failing'[q] = failing[q]
      BY <2>2 DEF CallType, Goto
    <3> QED  BY <3>1 DEF InFlight
  <2> QED  BY <2>1, <2>2
<1> QED  BY <1>1, <1>2

LEMMA TypeAppendStep ==
  ASSUME TypeOK, NEW p \in Appenders, AppendStep(p)
  PROVE  TypeOK'
<1> USE DEF TypeOK, disk, reader, bounds
<1>1. UNCHANGED bounds /\ UNCHANGED reader => BoundType' /\ ReadType'
  BY DEF BoundType, ReadType
<1>2. UNCHANGED reader /\ UNCHANGED bounds
  BY DEF AppendStep, EnsureDirectory, StatDirectory, MakeDirectory, SyncParent,
     Acquire, Load, Stage, Replace, SyncStaged, Link, SyncLink, Fail, Unstage,
     SyncUnstaged, Unlock
<1> SUFFICES DiskType' /\ CallType' /\ InFlight'
  BY <1>1, <1>2
<1>3. pc[p] # "idle" => want[p] \in Wants
  BY DEF InFlight
<1>4. HasEvent(pc[p], failing[p]) => event[p] \in Events
  BY DEF InFlight
<1>5. CASE EnsureDirectory(p)
  <2>1. pc[p] # "idle" /\ UNCHANGED <<published, synced, dots, acked, lock, want, event, failing>>
    BY <1>5 DEF EnsureDirectory, StatDirectory, MakeDirectory, SyncParent
  <2>2. \E l \in {"stat run", "mkdir ledger", "fsync ledger", "mkdir run",
                 "fsync run", "lock"} : Goto(p, l)
    BY <1>5 DEF EnsureDirectory, StatDirectory, MakeDirectory, SyncParent
  <2>3. CallType' /\ InFlight'
    BY <1>3, <2>1, <2>2, CallFrame DEF CallType, HasEvent, AppendPcs
  <2>4. dir' \in [{"ledger", "run"} -> {"absent", "made", "synced"}]
    BY <1>5 DEF EnsureDirectory, StatDirectory, MakeDirectory, SyncParent, DiskType
  <2> QED  BY <2>1, <2>3, <2>4 DEF DiskType
<1>6. CASE Acquire(p)
  <2>1. CallType' /\ InFlight'
    BY <1>3, <1>6, CallFrame DEF Acquire, CallType, HasEvent, AppendPcs
  <2> QED  BY <1>6, <2>1 DEF Acquire, DiskType
<1>7. CASE Load(p)
  <2> DEFINE x == NextEvent(published, want[p].type, want[p].id)
  <2>1. DiskType'
    BY <1>7 DEF Load, DiskType
  <2>2. CASE MayAppend(published, want[p].type, want[p].id)
    <3>1. want[p].type \in EventTypes /\ want[p].id \in CallerIds \cup {NoId}
      BY <1>3, <1>7 DEF Load, Wants
    <3>2. x \in Events
      BY <2>2, <3>1, NextEventType DEF DiskType
    <3>3. Goto(p, "stage") /\ UNCHANGED <<lock, want, failing>>
          /\ event' = [event EXCEPT ![p] = x] /\ pc[p] = "load"
      BY <1>7, <2>2 DEF Load
    <3> HIDE DEF x
    <3>4. event'[p] = x
      BY <3>3 DEF CallType
    <3>5. CallType' /\ InFlight'
      BY <1>3, <3>2, <3>3, <3>4, CallFrame DEF CallType, AppendPcs
    <3> QED  BY <2>1, <3>5
  <2>3. CASE ~MayAppend(published, want[p].type, want[p].id)
    <3>1. Goto(p, "unlock") /\ UNCHANGED <<lock, want, event>>
          /\ failing' = [failing EXCEPT ![p] = TRUE] /\ pc[p] = "load"
      BY <1>7, <2>3 DEF Load
    <3>2. failing'[p]
      BY <3>1 DEF CallType
    <3>3. CallType' /\ InFlight'
      BY <1>3, <3>1, <3>2, CallFrame DEF CallType, AppendPcs, HasEvent
    <3> QED  BY <2>1, <3>3
  <2> QED  BY <2>2, <2>3
<1>8. ASSUME event[p] \in Events
      PROVE  Temporary(p) \in DotNames /\ Staged(p) \in DotNames
  BY <1>8 DEF Temporary, Staged, DotNames, Events
<1>9. CASE Stage(p) \/ Replace(p) \/ SyncStaged(p) \/ SyncLink(p) \/ Link(p)
           \/ Fail(p) \/ Unstage(p) \/ SyncUnstaged(p)
  <2>1. event[p] \in Events /\ pc[p] # "idle"
    BY <1>4, <1>9 DEF Stage, Replace, SyncStaged, SyncLink, Link, Fail, Unstage,
       SyncUnstaged, HasEvent
  <2>2. UNCHANGED <<lock, want, event, dir, acked>>
    BY <1>9 DEF Stage, Replace, SyncStaged, SyncLink, Link, Fail, Unstage,
       SyncUnstaged
  <2>3. \E l \in AppendPcs \ {"idle"} : Goto(p, l)
    BY <1>9 DEF Stage, Replace, SyncStaged, SyncLink, Link, Fail, Unstage,
       SyncUnstaged, AppendPcs
  <2>4. failing' = failing \/ failing' = [failing EXCEPT ![p] = TRUE]
    BY <1>9 DEF Stage, Replace, SyncStaged, SyncLink, Link, Fail, Unstage,
       SyncUnstaged
  <2>5. CallType' /\ InFlight'
    BY <1>3, <2>1, <2>2, <2>3, <2>4, CallFrame DEF CallType
  <2>6. /\ published' = published \/ published' = published \cup {event[p]}
        /\ synced' = synced \/ synced' = published
        /\ dots' \subseteq dots \cup {Temporary(p), Staged(p)}
    BY <1>9 DEF Stage, Replace, SyncStaged, SyncLink, Link, Fail, Unstage,
       SyncUnstaged
  <2>7. DiskType'
    BY <1>8, <2>1, <2>2, <2>6 DEF DiskType
  <2> QED  BY <2>5, <2>7
<1>10. CASE Unlock(p)
  <2>1. DiskType'
    BY <1>4, <1>10 DEF Unlock, DiskType, HasEvent
  <2>2. CallType' /\ InFlight'
    BY <1>10, CallFrame DEF Unlock, CallType, HasEvent, AppendPcs
  <2> QED  BY <2>1, <2>2
<1> QED
  BY <1>5, <1>6, <1>7, <1>9, <1>10 DEF AppendStep

LEMMA TypeRead ==
  ASSUME TypeOK, NEW r \in Readers, OpenListing(r) \/ ReadStep(r)
  PROVE  TypeOK'
<1> USE DEF TypeOK, disk, call, bounds
<1>1. DiskType' /\ CallType' /\ InFlight' /\ BoundType'
  BY DEF OpenListing, ReadStep, CloseListing, CheckListing, DiskType, CallType,
     InFlight, BoundType
<1>2. CASE OpenListing(r)
  BY <1>1, <1>2 DEF OpenListing, ReadType, DiskType, Listings
<1>3. CASE CloseListing(r)
  <2>1. PICK F \in SUBSET (published \ listing[r].files),
             D \in SUBSET ((dots \ listing[r].dots) \cup (listing[r].dots \ dots)) :
          listing' = [listing EXCEPT ![r] = [files |-> @.files \cup F,
                                             dots |-> (@.dots \cap dots) \cup D]]
    BY <1>3 DEF CloseListing
  <2>2. listing[r].files \cup F \subseteq Events
    BY DEF ReadType, DiskType, Listings
  <2>3. (listing[r].dots \cap dots) \cup D \subseteq DotNames
    BY DEF ReadType, DiskType, Listings
  <2>4. listing' \in [Readers -> Listings]
    BY <2>1, <2>2, <2>3 DEF ReadType, Listings
  <2> QED  BY <1>1, <1>3, <2>4 DEF CloseListing, ReadType
<1>4. CASE CheckListing(r)
  BY <1>1, <1>4 DEF CheckListing, ReadType, Listings
<1> QED  BY <1>2, <1>3, <1>4 DEF ReadStep

LEMMA TypePowerCut ==
  ASSUME TypeOK, PowerCut
  PROVE  TypeOK'
<1>1. PICK lost \in SUBSET {d \in {"ledger", "run"} : dir[d] = "made"} :
        LET gone == IF "ledger" \in lost THEN {"ledger", "run"} ELSE lost
        IN  /\ dir' = [d \in {"ledger", "run"} |->
                        IF d \in gone \/ dir[d] = "absent"
                        THEN "absent" ELSE "synced"]
            /\ IF "run" \in gone
               THEN published' = {} /\ dots' = {}
               ELSE \E kept \in SUBSET (published \ synced), D \in SUBSET dots :
                      published' = synced \cup kept /\ dots' = D
  BY DEF PowerCut
<1>2. dir' \in [{"ledger", "run"} -> {"absent", "made", "synced"}]
  BY <1>1
<1>3. published' \subseteq Events /\ dots' \subseteq DotNames
  BY <1>1 DEF TypeOK, DiskType
<1>4. DiskType'
  BY <1>2, <1>3 DEF PowerCut, TypeOK, DiskType
<1>5. CallType' /\ InFlight'
  BY DEF PowerCut, CallType, InFlight, HasEvent, AppendPcs
<1>6. ReadType'
  BY DEF PowerCut, ReadType, Listings
<1>7. BoundType'
  BY ConstantsAssumption DEF PowerCut, TypeOK, BoundType
<1> QED  BY <1>4, <1>5, <1>6, <1>7 DEF TypeOK

LEMMA TypeStep ==
  ASSUME TypeOK, [Next]_vars
  PROVE  TypeOK'
<1>1. ASSUME NEW p \in Appenders, NEW t \in Requested,
             NEW i \in CallerIds \cup {NoId}, Begin(p, t, i)
      PROVE  TypeOK'
  <2>1. DiskType' /\ ReadType' /\ BoundType'
    BY <1>1 DEF Begin, disk, reader, bounds, TypeOK, DiskType, ReadType, BoundType
  <2>2. CASE UNCHANGED <<pc, want>>
    BY <1>1, <2>1, <2>2 DEF Begin, TypeOK, CallType, InFlight
  <2>3. CASE Goto(p, "stat ledger")
             /\ want' = [want EXCEPT ![p] = [type |-> t, id |-> i]]
    <3>1. [type |-> t, id |-> i] \in Wants
      BY ConstantsAssumption DEF Wants
    <3>2. CallType' /\ InFlight'
      BY <1>1, <2>3, <3>1, CallFrame
         DEF Begin, TypeOK, CallType, HasEvent, AppendPcs
    <3> QED  BY <2>1, <3>2 DEF TypeOK
  <2> QED  BY <1>1, <2>2, <2>3 DEF Begin
<1>2. ASSUME NEW p \in Appenders, Kill(p)
      PROVE  TypeOK'
  <2>1. DiskType' /\ ReadType'
    BY <1>2 DEF Kill, disk, reader, TypeOK, DiskType, ReadType
  <2>2. BoundType'
    BY <1>2, ConstantsAssumption DEF Kill, TypeOK, BoundType
  <2>3. CallType' /\ InFlight'
    BY <1>2, CallFrame DEF Kill, TypeOK, CallType, HasEvent, AppendPcs
  <2> QED  BY <2>1, <2>2, <2>3 DEF TypeOK
<1>3. CASE UNCHANGED vars
  BY <1>3 DEF TypeOK, DiskType, CallType, InFlight, ReadType, BoundType, vars
<1> QED
  BY <1>1, <1>2, <1>3, TypeAppendStep, TypeRead, TypePowerCut DEF Next

(* Every reachable state is well typed, and a call in flight has in hand   *)
(* what its next system call needs (ledger.py append).                     *)
THEOREM TypeCorrect == Spec => []TypeOK
<1>1. Init => TypeOK
  BY TypeInit
<1>2. TypeOK /\ [Next]_vars => TypeOK'
  BY TypeStep
<1> QED  BY <1>1, <1>2, PTL DEF Spec

-----------------------------------------------------------------------------
(* The frame: what no append step outside the lock's holder, no read and   *)
(* no stutter changes.                                                     *)
LEMMA ChainFrame ==
  ASSUME ChainInv, UNCHANGED <<published, synced, lock, pc, event>>
  PROVE  ChainInv'
  BY DEF ChainInv, ChainIntact, LockHeld, NextIsLegal, LinkFromSynced,
         OneUnsynced

(* Moving one process that neither holds nor takes the lock.               *)
LEMMA OutsideLock ==
  ASSUME ChainInv, NEW p \in Appenders, NEW l \in AppendPcs \ HoldingPcs,
         TypeOK, pc[p] \notin HoldingPcs,
         Goto(p, l), UNCHANGED <<published, synced, lock, event>>
  PROVE  ChainInv'
  BY DEF ChainInv, ChainIntact, LockHeld, NextIsLegal, LinkFromSynced,
         OneUnsynced, Goto, HoldingPcs, AppendPcs, TypeOK, CallType

(* Moving the lock's holder, with nothing published, to a place where it   *)
(* is not about to link.                                                   *)
LEMMA UnderLock ==
  ASSUME ChainInv, NEW p \in Appenders,
         NEW l \in HoldingPcs,
         TypeOK, pc[p] \in HoldingPcs,
         Goto(p, l), UNCHANGED <<published, lock, event>>,
         synced' = synced \/ synced' = published,
         l \in {"stage", "replace", "sync staged", "link"} =>
           LegalChain(published \cup {event[p]}),
         l = "link" => synced' = published
  PROVE  ChainInv'
<1>1. LockHeld'
  BY DEF ChainInv, LockHeld, Goto, TypeOK, CallType
<1>2. ChainIntact' /\ OneUnsynced'
  BY DEF ChainInv, ChainIntact, OneUnsynced
<1>3. NextIsLegal' /\ LinkFromSynced'
  <2> SUFFICES ASSUME NEW q \in Appenders
               PROVE  /\ pc'[q] \in {"stage", "replace", "sync staged", "link"} =>
                           LegalChain(published \cup {event[q]})
                      /\ pc'[q] = "link" => synced' = published
    BY DEF NextIsLegal, LinkFromSynced
  <2>1. CASE q = p
    BY <2>1 DEF Goto, TypeOK, CallType
  <2>2. CASE q # p
    <3>1. pc'[q] = pc[q] /\ pc[q] \notin HoldingPcs
      BY <2>2 DEF ChainInv, LockHeld, Goto, TypeOK, CallType
    <3> QED  BY <3>1 DEF HoldingPcs
  <2> QED  BY <2>1, <2>2
<1> QED  BY <1>1, <1>2, <1>3 DEF ChainInv

(* Every step keeps the strengthened invariant.                            *)
LEMMA ChainStep ==
  ASSUME ChainInv, TypeOK, [Next]_vars
  PROVE  ChainInv'
<1> USE ConstantsAssumption DEF TypeOK, CallType
<1>1. ASSUME NEW p \in Appenders, NEW t \in Requested,
             NEW i \in CallerIds \cup {NoId}, Begin(p, t, i)
      PROVE  ChainInv'
  <2>1. UNCHANGED pc => ChainInv'
    BY <1>1, ChainFrame DEF Begin, disk
  <2>2. Goto(p, "stat ledger") => ChainInv'
    BY <1>1, OutsideLock DEF Begin, disk, AppendPcs, HoldingPcs
  <2> QED  BY <1>1, <2>1, <2>2 DEF Begin
<1>2. ASSUME NEW p \in Appenders, EnsureDirectory(p)
      PROVE  ChainInv'
  BY <1>2, OutsideLock DEF EnsureDirectory, StatDirectory, MakeDirectory,
     SyncParent, disk, AppendPcs, HoldingPcs
<1>3. ASSUME NEW p \in Appenders, Acquire(p)
      PROVE  ChainInv'
  <2>1. LockHeld'
    BY <1>3 DEF ChainInv, LockHeld, Acquire, Goto, HoldingPcs
  <2>2. ChainIntact' /\ OneUnsynced' /\ NextIsLegal' /\ LinkFromSynced'
    BY <1>3 DEF ChainInv, ChainIntact, OneUnsynced, NextIsLegal,
       LinkFromSynced, Acquire, Goto, disk
  <2> QED  BY <2>1, <2>2 DEF ChainInv
<1>4. ASSUME NEW p \in Appenders, Load(p)
      PROVE  ChainInv'
  <2>1. pc[p] = "load" /\ lock = p /\ UNCHANGED <<published, synced, lock>>
    BY <1>4 DEF Load, disk, ChainInv, LockHeld, HoldingPcs
  <2>2. LockHeld' /\ ChainIntact' /\ OneUnsynced' /\ LinkFromSynced'
    <3>1. Goto(p, "stage") \/ Goto(p, "unlock")
      BY <1>4 DEF Load
    <3>2. \A q \in Appenders : q # p => pc'[q] = pc[q]
      BY <3>1 DEF Goto
    <3>3. pc'[p] = "stage" \/ pc'[p] = "unlock"
      BY <3>1 DEF Goto
    <3>4. LockHeld'
      BY <2>1, <3>2, <3>3 DEF ChainInv, LockHeld, HoldingPcs
    <3>5. LinkFromSynced'
      BY <2>1, <3>2, <3>3 DEF ChainInv, LinkFromSynced
    <3> QED  BY <2>1, <3>4, <3>5 DEF ChainInv, ChainIntact, OneUnsynced
  <2>3. NextIsLegal'
    <3> SUFFICES ASSUME NEW q \in Appenders,
                        pc'[q] \in {"stage", "replace", "sync staged", "link"}
                 PROVE  LegalChain(published \cup {event'[q]})
      BY <2>1 DEF NextIsLegal
    <3>1. q = p
      BY <1>4, <2>1 DEF Load, Goto, ChainInv, LockHeld, HoldingPcs
    <3>2. MayAppend(published, want[p].type, want[p].id)
      BY <1>4, <3>1 DEF Load, Goto
    <3>3. event' = [event EXCEPT ![p] =
                      NextEvent(published, want[p].type, want[p].id)]
      BY <1>4, <3>2 DEF Load
    <3>4. event'[q] = NextEvent(published, want[p].type, want[p].id)
      BY <3>1, <3>3
    <3> QED  BY <3>2, <3>4, <3>1, NextEventExtends
  <2> QED  BY <2>2, <2>3 DEF ChainInv
<1>5. ASSUME NEW p \in Appenders,
             Stage(p) \/ Replace(p) \/ SyncStaged(p) \/ SyncLink(p)
               \/ Fail(p) \/ Unstage(p) \/ SyncUnstaged(p)
      PROVE  ChainInv'
  <2>1. /\ pc[p] \in HoldingPcs /\ UNCHANGED <<published, lock, event>>
        /\ synced' = synced \/ synced' = published
    BY <1>5 DEF Stage, Replace, SyncStaged, SyncLink, Fail, Unstage,
       SyncUnstaged, HoldingPcs
  <2>2. CASE Stage(p) \/ Replace(p) \/ SyncStaged(p)
    <3>1. LegalChain(published \cup {event[p]})
      BY <2>2 DEF Stage, Replace, SyncStaged, ChainInv, NextIsLegal
    <3>2. \/ Goto(p, "replace") \/ Goto(p, "sync staged")
          \/ Goto(p, "link") /\ synced' = published
      BY <2>2 DEF Stage, Replace, SyncStaged
    <3> QED  BY <2>1, <3>1, <3>2, UnderLock DEF HoldingPcs
  <2>3. CASE SyncLink(p) \/ Fail(p) \/ Unstage(p) \/ SyncUnstaged(p)
    <3>1. Goto(p, "unstage") \/ Goto(p, "sync unstaged") \/ Goto(p, "unlock")
      BY <2>3 DEF SyncLink, Fail, Unstage, SyncUnstaged
    <3> QED  BY <2>1, <3>1, UnderLock DEF HoldingPcs
  <2> QED  BY <1>5, <2>2, <2>3
<1>6. ASSUME NEW p \in Appenders, Link(p)
      PROVE  ChainInv'
  <2>1. /\ pc[p] = "link" /\ UNCHANGED <<synced, lock, event>>
        /\ synced = published /\ LegalChain(published \cup {event[p]})
    BY <1>6 DEF Link, ChainInv, LinkFromSynced, NextIsLegal
  <2>2. CASE Goto(p, "unstage") /\ UNCHANGED published
    BY <2>1, <2>2, UnderLock DEF HoldingPcs
  <2>3. CASE Goto(p, "sync link") /\ published' = published \cup {event[p]}
    <3>1. ChainIntact' /\ OneUnsynced'
      BY <2>1, <2>3 DEF ChainInv, ChainIntact, OneUnsynced
    <3>2. LockHeld'
      BY <2>1, <2>3 DEF ChainInv, LockHeld, Goto, HoldingPcs
    <3>3. \A q \in Appenders :
            pc'[q] \notin {"stage", "replace", "sync staged", "link"}
      BY <2>1, <2>3 DEF ChainInv, LockHeld, Goto, HoldingPcs
    <3> QED  BY <3>1, <3>2, <3>3 DEF ChainInv, NextIsLegal, LinkFromSynced
  <2> QED  BY <1>6, <2>2, <2>3 DEF Link
<1>7. ASSUME NEW p \in Appenders, Unlock(p) \/ Kill(p)
      PROVE  ChainInv'
  <2>1. /\ UNCHANGED <<published, synced>> /\ Goto(p, "idle")
        /\ lock' = IF lock = p THEN None ELSE lock
        /\ \A q \in Appenders : q # p => event'[q] = event[q]
    BY <1>7 DEF Unlock, Kill, disk, ChainInv, LockHeld, HoldingPcs
  <2>2. LockHeld'
    BY <2>1 DEF ChainInv, LockHeld, Goto, HoldingPcs
  <2>3. ChainIntact' /\ OneUnsynced' /\ LinkFromSynced'
    BY <2>1 DEF ChainInv, ChainIntact, OneUnsynced, LinkFromSynced, Goto
  <2>4. NextIsLegal'
    BY <2>1 DEF ChainInv, NextIsLegal, Goto
  <2> QED  BY <2>2, <2>3, <2>4 DEF ChainInv
<1>8. ASSUME NEW r \in Readers, OpenListing(r) \/ ReadStep(r)
      PROVE  ChainInv'
  BY <1>8, ChainFrame DEF OpenListing, ReadStep, CloseListing, CheckListing,
     disk, call
<1>9. CASE PowerCut
  <2>1. published' = {} \/ published' = synced \/ published' = published
    <3>1. published' = {} \/ \E kept \in SUBSET (published \ synced) :
                                published' = synced \cup kept
      BY <1>9 DEF PowerCut
    <3>2. ASSUME NEW kept \in SUBSET (published \ synced)
          PROVE  synced \cup kept = synced \/ synced \cup kept = published
      <4>1. kept = {} \/ kept = published \ synced
        BY DEF ChainInv, OneUnsynced
      <4>2. synced \cup (published \ synced) = published
        BY DEF ChainInv, OneUnsynced
      <4> QED  BY <4>1, <4>2
    <3> QED  BY <3>1, <3>2
  <2>2. ChainIntact' /\ OneUnsynced'
    BY <1>9, <2>1, EmptyChain DEF PowerCut, ChainInv, ChainIntact, OneUnsynced
  <2>3. LockHeld' /\ NextIsLegal' /\ LinkFromSynced'
    BY <1>9 DEF PowerCut, LockHeld, NextIsLegal, LinkFromSynced, HoldingPcs
  <2> QED  BY <2>2, <2>3 DEF ChainInv
<1>10. CASE UNCHANGED vars
  BY <1>10, ChainFrame DEF vars
<1> QED
  BY <1>1, <1>2, <1>3, <1>4, <1>5, <1>6, <1>7, <1>8, <1>9, <1>10
     DEF Next, AppendStep

(* However appenders race, fail and are killed, and wherever the power     *)
(* goes, the ledger on the disk loads (ledger.py append, _load_events).    *)
THEOREM ChainAlwaysIntact == Spec => []ChainIntact
<1>1. Init => ChainInv
  BY EmptyChain, ConstantsAssumption
     DEF Init, ChainInv, ChainIntact, LockHeld, NextIsLegal, LinkFromSynced,
         OneUnsynced, HoldingPcs
<1>2. TypeOK /\ ChainInv /\ [Next]_vars => ChainInv'
  BY ChainStep
<1>3. ChainInv => ChainIntact
  BY DEF ChainInv
<1> QED  BY <1>1, <1>2, <1>3, TypeCorrect, PTL DEF Spec

-----------------------------------------------------------------------------
(* A step of one call that publishes or syncs and acknowledges nothing it  *)
(* has not synced keeps AckedInv.                                          *)
LEMMA AckedFrame ==
  ASSUME AckedInv, TypeOK, NEW p \in Appenders, NEW l \in AppendPcs, Goto(p, l),
         published \subseteq published', synced \subseteq synced',
         synced' \subseteq published', UNCHANGED <<dir, acked>>,
         \A q \in Appenders : q # p => event'[q] = event[q],
         \A q \in Appenders : q # p => failing'[q] = failing[q],
         l = "sync link" => event'[p] \in published',
         ~failing'[p] /\ l \in {"unstage", "sync unstaged", "unlock"} =>
           event'[p] \in synced'
  PROVE  AckedInv'
<1>1. \A q \in Appenders :
        /\ pc'[q] = "sync link" => event'[q] \in published'
        /\ ~failing'[q] /\ pc'[q] \in {"unstage", "sync unstaged", "unlock"} =>
             event'[q] \in synced'
  <2> SUFFICES ASSUME NEW q \in Appenders
               PROVE  /\ pc'[q] = "sync link" => event'[q] \in published'
                      /\ ~failing'[q]
                           /\ pc'[q] \in {"unstage", "sync unstaged", "unlock"}
                         => event'[q] \in synced'
    OBVIOUS
  <2>1. CASE q = p
    BY <2>1 DEF Goto, TypeOK, CallType
  <2>2. CASE q # p
    <3>1. pc'[q] = pc[q]
      BY <2>2 DEF Goto, TypeOK, CallType
    <3> QED  BY <2>2, <3>1 DEF AckedInv
  <2> QED  BY <2>1, <2>2
<1>2. acked' \subseteq synced' /\ dir' = [d \in {"ledger", "run"} |-> "synced"]
  BY DEF AckedInv
<1> QED  BY <1>1, <1>2 DEF AckedInv

LEMMA AckedAppendStep ==
  ASSUME AckedInv, TypeOK, NEW p \in Appenders, AppendStep(p)
  PROVE  AckedInv'
<1> USE DEF disk, TypeOK, CallType, DiskType
<1>1. CASE EnsureDirectory(p)
  <2>1. /\ UNCHANGED <<published, synced, acked, event, failing>>
        /\ \E l \in {"stat run", "mkdir ledger", "fsync ledger", "mkdir run",
                    "fsync run", "lock"} : Goto(p, l)
    BY <1>1 DEF EnsureDirectory, StatDirectory, MakeDirectory, SyncParent
  <2>2. dir' = dir
    BY <1>1 DEF EnsureDirectory, StatDirectory, MakeDirectory, SyncParent,
       AckedInv
  <2> QED  BY <2>1, <2>2, AckedFrame DEF AckedInv, AppendPcs
<1>2. CASE Acquire(p)
  BY <1>2, AckedFrame DEF Acquire, AckedInv, AppendPcs
<1>3. CASE Load(p)
  <2>1. /\ UNCHANGED <<dir, published, synced, acked>>
        /\ \A q \in Appenders : q # p => event'[q] = event[q]
        /\ \A q \in Appenders : q # p => failing'[q] = failing[q]
        /\ Goto(p, "stage") \/ (Goto(p, "unlock") /\ failing'[p])
    <3>1. CASE MayAppend(published, want[p].type, want[p].id)
      <4>1. PICK x : event' = [event EXCEPT ![p] = x]
        BY <1>3, <3>1 DEF Load
      <4>2. /\ UNCHANGED <<dir, published, synced, acked, failing>>
            /\ Goto(p, "stage")
        BY <1>3, <3>1 DEF Load
      <4>3. \A q \in Appenders : q # p => event'[q] = event[q]
        BY <4>1
      <4> QED  BY <4>2, <4>3
    <3>2. CASE ~MayAppend(published, want[p].type, want[p].id)
      BY <1>3, <3>2 DEF Load
    <3> QED  BY <3>1, <3>2
  <2> QED  BY <2>1, AckedFrame DEF AckedInv, AppendPcs
<1>4. CASE Stage(p)
  BY <1>4, AckedFrame DEF Stage, AckedInv, AppendPcs
<1>5. CASE Replace(p)
  BY <1>5, AckedFrame DEF Replace, AckedInv, AppendPcs
<1>6. CASE SyncStaged(p)
  BY <1>6, AckedFrame DEF SyncStaged, AckedInv, AppendPcs
<1>7. CASE Link(p)
  <2>1. /\ UNCHANGED <<dir, synced, acked, event>>
        /\ \A q \in Appenders : q # p => failing'[q] = failing[q]
        /\ \/ Goto(p, "unstage") /\ failing'[p] /\ UNCHANGED published
           \/ Goto(p, "sync link") /\ published' = published \cup {event[p]}
    BY <1>7 DEF Link
  <2> QED  BY <2>1, AckedFrame DEF AckedInv, AppendPcs
<1>8. CASE SyncLink(p)
  <2>1. event[p] \in published
    BY <1>8 DEF SyncLink, AckedInv
  <2> QED  BY <1>8, <2>1, AckedFrame DEF SyncLink, AckedInv, AppendPcs
<1>9. CASE Fail(p)
  <2>1. /\ UNCHANGED <<dir, published, synced, acked, event>>
        /\ \A q \in Appenders : q # p => failing'[q] = failing[q]
        /\ Goto(p, "unstage") /\ failing'[p]
    BY <1>9 DEF Fail
  <2> QED  BY <2>1, AckedFrame DEF AckedInv, AppendPcs
<1>10. CASE Unstage(p)
  <2>1. ~failing[p] => event[p] \in synced
    BY <1>10 DEF Unstage, AckedInv
  <2> QED  BY <1>10, <2>1, AckedFrame DEF Unstage, AckedInv, AppendPcs
<1>11. CASE SyncUnstaged(p)
  <2>1. ~failing[p] => event[p] \in synced
    BY <1>11 DEF SyncUnstaged, AckedInv
  <2>2. /\ UNCHANGED <<dir, published, acked, event>> /\ Goto(p, "unlock")
        /\ \A q \in Appenders : q # p => failing'[q] = failing[q]
        /\ \/ synced' = published /\ failing'[p] = failing[p]
           \/ synced' = synced /\ failing'[p]
    BY <1>11 DEF SyncUnstaged
  <2> QED  BY <2>1, <2>2, AckedFrame DEF AckedInv, AppendPcs
<1>12. CASE Unlock(p)
  <2>1. acked' \subseteq synced
    BY <1>12 DEF Unlock, AckedInv
  <2>2. \A q \in Appenders :
          q # p => pc'[q] = pc[q] /\ event'[q] = event[q] /\ failing'[q] = failing[q]
    BY <1>12 DEF Unlock, Goto
  <2>3. pc'[p] = "idle" /\ UNCHANGED <<dir, published, synced>>
    BY <1>12 DEF Unlock, Goto
  <2> QED  BY <2>1, <2>2, <2>3 DEF AckedInv
<1> QED
  BY <1>1, <1>2, <1>3, <1>4, <1>5, <1>6, <1>7, <1>8, <1>9, <1>10, <1>11,
     <1>12 DEF AppendStep

LEMMA AckedStep ==
  ASSUME AckedInv, TypeOK, [Next]_vars
  PROVE  AckedInv'
<1>1. ASSUME NEW p \in Appenders, NEW t \in Requested,
             NEW i \in CallerIds \cup {NoId}, Begin(p, t, i)
      PROVE  AckedInv'
  <2>1. UNCHANGED <<dir, published, synced, acked, event, failing>>
        /\ (UNCHANGED pc \/ Goto(p, "stat ledger"))
    BY <1>1 DEF Begin, disk
  <2>2. CASE UNCHANGED pc
    BY <2>1, <2>2 DEF AckedInv
  <2>3. CASE Goto(p, "stat ledger")
    BY <2>1, <2>3, AckedFrame DEF AckedInv, AppendPcs
  <2> QED  BY <2>1, <2>2, <2>3
<1>2. ASSUME NEW p \in Appenders, Kill(p)
      PROVE  AckedInv'
  <2>1. /\ UNCHANGED <<dir, published, synced, acked>> /\ Goto(p, "idle")
        /\ \A q \in Appenders : q # p => event'[q] = event[q]
        /\ \A q \in Appenders : q # p => failing'[q] = failing[q]
    BY <1>2 DEF Kill, disk, TypeOK, CallType
  <2> QED  BY <2>1, AckedFrame DEF AckedInv, AppendPcs
<1>3. ASSUME NEW r \in Readers, OpenListing(r) \/ ReadStep(r)
      PROVE  AckedInv'
  BY <1>3 DEF OpenListing, ReadStep, CloseListing, CheckListing, disk, call,
     AckedInv
<1>4. CASE PowerCut
  <2>1. {d \in {"ledger", "run"} : dir[d] = "made"} = {}
    BY DEF AckedInv
  <2>2. /\ dir' = [d \in {"ledger", "run"} |->
                    IF d \in {} \/ dir[d] = "absent" THEN "absent" ELSE "synced"]
        /\ \E kept \in SUBSET (published \ synced) :
             published' = synced \cup kept
    BY <1>4, <2>1 DEF PowerCut
  <2>3. dir' = [d \in {"ledger", "run"} |-> "synced"]
    BY <2>2 DEF AckedInv
  <2>4. acked' \subseteq synced' /\ synced' \subseteq published'
    BY <1>4, <2>2 DEF PowerCut, AckedInv
  <2>5. \A q \in Appenders : pc'[q] = "idle"
    BY <1>4 DEF PowerCut
  <2> QED  BY <2>3, <2>4, <2>5 DEF AckedInv
<1>5. CASE UNCHANGED vars
  BY <1>5 DEF vars, AckedInv
<1> QED  BY <1>1, <1>2, <1>3, <1>4, <1>5, AckedAppendStep DEF Next

(* On a run directory that was durable to begin with, no kill, failure or  *)
(* power cut loses an event whose append returned (ledger.py append).      *)
THEOREM AckedAlwaysKept ==
  ASSUME Provisioned
  PROVE  Spec => []AckedKept
<1>1. Init => AckedInv
  BY DEF Init, AckedInv
<1>2. AckedInv /\ TypeOK /\ [Next]_vars => AckedInv'
  BY AckedStep
<1>3. AckedInv => AckedKept
  BY DEF AckedInv, AckedKept
<1> QED  BY <1>1, <1>2, <1>3, TypeCorrect, PTL DEF Spec

-----------------------------------------------------------------------------
(* One chain inside another is its beginning (ledger.py _load_events).     *)
LEMMA ChainPrefix ==
  ASSUME NEW S, NEW T, LegalChain(S), LegalChain(T), S \subseteq T
  PROVE  S = {e \in T : e.seq < Cardinality(S)}
<1>1. Cardinality(S) \in Nat
  BY FS_CardinalityType DEF LegalChain
<1>2. {e.seq : e \in S} = 0..(Cardinality(S) - 1)
  BY DEF LegalChain
<1>3. ASSUME NEW e \in S  PROVE e \in T /\ e.seq < Cardinality(S)
  <2>1. e.seq \in 0..(Cardinality(S) - 1)
    BY <1>2
  <2> QED  BY <1>1, <2>1
<1>4. ASSUME NEW e \in T, e.seq < Cardinality(S)  PROVE e \in S
  <2>1. Cardinality(T) \in Nat
    BY FS_CardinalityType DEF LegalChain
  <2>2. e.seq \in 0..(Cardinality(T) - 1)
    BY DEF LegalChain
  <2>3. e.seq \in 0..(Cardinality(S) - 1)
    BY <1>1, <1>4, <2>1, <2>2
  <2>4. PICK f \in S : f.seq = e.seq
    BY <1>2, <2>3
  <2> QED  BY <2>4 DEF LegalChain
<1> QED  BY <1>3, <1>4

(* The inductive strengthening of ReadersSeePrefix: what a reader has      *)
(* listed is in the ledger, and what it returned is a chain in the ledger. *)
ReadInv ==
  \A r \in Readers :
    /\ listing[r].files \subseteq published
    /\ view[r] \subseteq published /\ LegalChain(view[r])

(* Only losing power takes an event out of the directory.                  *)
LEMMA PublishedGrows ==
  ASSUME [Next]_vars, ~PowerCut
  PROVE  published \subseteq published'
<1>1. ASSUME NEW p \in Appenders, AppendStep(p)
      PROVE  published \subseteq published'
  <2>1. CASE Link(p)
    BY <2>1 DEF Link
  <2>2. CASE ~Link(p)
    BY <1>1, <2>2 DEF AppendStep, EnsureDirectory, StatDirectory,
       MakeDirectory, SyncParent, Acquire, Load, Stage, Replace, SyncStaged,
       SyncLink, Fail, Unstage, SyncUnstaged, Unlock, disk
  <2> QED  BY <2>1, <2>2
<1>2. ASSUME NEW p \in Appenders, NEW t \in Requested,
             NEW i \in CallerIds \cup {NoId}, Begin(p, t, i)
      PROVE  published \subseteq published'
  BY <1>2 DEF Begin, disk
<1>3. ASSUME NEW p \in Appenders, Kill(p)
      PROVE  published \subseteq published'
  BY <1>3 DEF Kill, disk
<1>4. ASSUME NEW r \in Readers, OpenListing(r) \/ ReadStep(r)
      PROVE  published \subseteq published'
  BY <1>4 DEF OpenListing, ReadStep, CloseListing, CheckListing, disk
<1>5. CASE UNCHANGED vars
  BY <1>5 DEF vars
<1> QED  BY <1>1, <1>2, <1>3, <1>4, <1>5 DEF Next

(* What a reader knows survives whatever it does not do itself, as long as *)
(* the ledger only grows.                                                  *)
LEMMA ReadFrame ==
  ASSUME ReadInv, published \subseteq published', UNCHANGED <<listing, view>>
  PROVE  ReadInv'
  BY DEF ReadInv

(* One reader moves.                                                       *)
LEMMA ReadMove ==
  ASSUME ReadInv, TypeOK, NEW r \in Readers, published' = published,
         NEW F \in SUBSET published, NEW D, NEW V \in SUBSET published,
         LegalChain(V),
         listing' = [listing EXCEPT ![r] = [files |-> F, dots |-> D]],
         view' = [view EXCEPT ![r] = V]
  PROVE  ReadInv'
<1>1. ASSUME NEW q \in Readers
      PROVE  /\ listing'[q].files \subseteq published
             /\ view'[q] \subseteq published /\ LegalChain(view'[q])
  <2>1. CASE q = r
    BY <2>1 DEF TypeOK, ReadType
  <2>2. CASE q # r
    <3>1. listing'[q] = listing[q] /\ view'[q] = view[q]
      BY <2>2 DEF TypeOK, ReadType
    <3> QED  BY <3>1 DEF ReadInv
  <2> QED  BY <2>1, <2>2
<1> QED  BY <1>1 DEF ReadInv

LEMMA ReadInvRead ==
  ASSUME ReadInv, TypeOK, NEW r \in Readers, OpenListing(r) \/ ReadStep(r)
  PROVE  ReadInv'
<1>1. published' = published
  BY DEF OpenListing, ReadStep, CloseListing, CheckListing, disk
<1>2. /\ listing[r].files \subseteq published
      /\ view[r] \subseteq published /\ LegalChain(view[r])
  BY DEF ReadInv
<1>3. view = [view EXCEPT ![r] = view[r]]
  BY DEF TypeOK, ReadType
<1>4. CASE OpenListing(r)
  <2>1. view' = [view EXCEPT ![r] = view[r]]
    BY <1>3, <1>4 DEF OpenListing
  <2> QED  BY <1>1, <1>2, <1>4, <2>1, ReadMove DEF OpenListing
<1>5. CASE CloseListing(r)
  <2>1. PICK F \in SUBSET (published \ listing[r].files),
             D \in SUBSET ((dots \ listing[r].dots) \cup (listing[r].dots \ dots)) :
          listing' = [listing EXCEPT ![r] = [files |-> @.files \cup F,
                                             dots |-> (@.dots \cap dots) \cup D]]
    BY <1>5 DEF CloseListing
  <2> DEFINE G == listing[r].files \cup F
             E == (listing[r].dots \cap dots) \cup D
  <2>2. listing' = [listing EXCEPT ![r] = [files |-> G, dots |-> E]]
    BY <2>1 DEF TypeOK, ReadType
  <2>3. G \in SUBSET published
    BY <1>2
  <2>4. view' = [view EXCEPT ![r] = view[r]]
    BY <1>3, <1>5 DEF CloseListing
  <2> HIDE DEF G, E
  <2> QED  BY <1>1, <1>2, <2>2, <2>3, <2>4, ReadMove
<1>6. CASE CheckListing(r)
  <2>1. listing' = [listing EXCEPT ![r] = [files |-> {}, dots |-> {}]]
    BY <1>6 DEF CheckListing
  <2>2. PICK V \in SUBSET published :
          LegalChain(V) /\ view' = [view EXCEPT ![r] = V]
    BY <1>2, <1>3, <1>6 DEF CheckListing
  <2> QED  BY <1>1, <2>1, <2>2, ReadMove
<1> QED  BY <1>4, <1>5, <1>6 DEF ReadStep

LEMMA ReadInvStep ==
  ASSUME ReadInv, TypeOK, [Next]_vars
  PROVE  ReadInv'
<1>1. CASE PowerCut
  <2>1. \A r \in Readers : listing'[r].files = {} /\ view'[r] = {}
    BY <1>1 DEF PowerCut
  <2> QED  BY <2>1, EmptyChain DEF ReadInv
<1>2. ASSUME NEW r \in Readers, OpenListing(r) \/ ReadStep(r)
      PROVE  ReadInv'
  BY <1>2, ReadInvRead
<1>3. CASE UNCHANGED reader /\ ~PowerCut
  BY <1>3, PublishedGrows, ReadFrame DEF reader
<1>4. ASSUME NEW p \in Appenders, AppendStep(p)
      PROVE  UNCHANGED reader
  BY <1>4 DEF AppendStep, EnsureDirectory, StatDirectory, MakeDirectory,
     SyncParent, Acquire, Load, Stage, Replace, SyncStaged, Link, SyncLink,
     Fail, Unstage, SyncUnstaged, Unlock
<1>5. ASSUME NEW p \in Appenders, NEW t \in Requested,
             NEW i \in CallerIds \cup {NoId}, Begin(p, t, i)
      PROVE  UNCHANGED reader
  BY <1>5 DEF Begin
<1>6. ASSUME NEW p \in Appenders, Kill(p)
      PROVE  UNCHANGED reader
  BY <1>6 DEF Kill
<1>7. CASE UNCHANGED vars
  BY <1>3, <1>7, <1>1 DEF vars, reader
<1> QED  BY <1>1, <1>2, <1>3, <1>4, <1>5, <1>6, <1>7 DEF Next

(* However a lock-free read overlaps appends that come, go and are killed, *)
(* what it returns is a prefix of the ledger (ledger.py events,            *)
(* _load_events).                                                          *)
THEOREM ReadersAlwaysSeePrefix == Spec => []ReadersSeePrefix
<1>1. Init => ReadInv
  BY EmptyChain DEF Init, ReadInv
<1>2. TypeOK /\ ReadInv /\ [Next]_vars => ReadInv'
  BY ReadInvStep
<1>3. ReadInv /\ ChainIntact => ReadersSeePrefix
  BY ChainPrefix DEF ReadInv, ChainIntact, ReadersSeePrefix
<1> QED  BY <1>1, <1>2, <1>3, TypeCorrect, ChainAlwaysIntact, PTL DEF Spec

-----------------------------------------------------------------------------
(* The history of any set of events: History is that of what is published. *)
HistoryOf(S) ==
  [n \in 1..Cardinality(S) |->
     LET e == CHOOSE e \in S : e.seq = n - 1
     IN  [type |-> e.type, id |-> e.id]]

Records == [type : EventTypes, id : CallerIds \cup (Nat \X EventTypes)]

(* A chain's history lists its events in the order of their sequence       *)
(* numbers.                                                                *)
LEMMA HistoryOfChain ==
  ASSUME NEW S \in SUBSET Events, LegalChain(S)
  PROVE  /\ Cardinality(S) \in Nat
         /\ HistoryOf(S) \in Seq(Records)
         /\ Len(HistoryOf(S)) = Cardinality(S)
         /\ \A e \in S :
              /\ e.seq + 1 \in 1..Cardinality(S)
              /\ HistoryOf(S)[e.seq + 1] = [type |-> e.type, id |-> e.id]
         /\ \A n \in 1..Cardinality(S) : \E e \in S : e.seq = n - 1
<1> DEFINE n == Cardinality(S)
           h == HistoryOf(S)
<1>1. n \in Nat
  BY FS_CardinalityType DEF LegalChain
<1>2. {e.seq : e \in S} = 0..(n - 1)
  BY DEF LegalChain
<1>3. ASSUME NEW e \in S
      PROVE  /\ e.seq + 1 \in 1..n
             /\ h[e.seq + 1] = [type |-> e.type, id |-> e.id]
  <2>1. e.seq \in 0..(n - 1)
    BY <1>2
  <2>2. e.seq + 1 \in 1..n /\ (e.seq + 1) - 1 = e.seq
    BY <1>1, <2>1
  <2>3. (CHOOSE f \in S : f.seq = e.seq) = e
    BY DEF LegalChain
  <2> QED  BY <2>2, <2>3 DEF HistoryOf
<1>4. \A i \in 1..n : \E e \in S : e.seq = i - 1
  <2> SUFFICES ASSUME NEW i \in 1..n  PROVE \E e \in S : e.seq = i - 1
    OBVIOUS
  <2>1. i - 1 \in 0..(n - 1)
    BY <1>1
  <2> QED  BY <1>2, <2>1
<1>5. \A i \in 1..n : h[i] \in Records
  <2> SUFFICES ASSUME NEW i \in 1..n  PROVE h[i] \in Records
    OBVIOUS
  <2>1. PICK e \in S : e.seq = i - 1
    BY <1>4
  <2>2. e.seq + 1 = i
    BY <1>1, <2>1
  <2>3. h[i] = [type |-> e.type, id |-> e.id]
    BY <1>3, <2>2
  <2> HIDE DEF h
  <2> QED  BY <2>3 DEF Records, Events
<1>6. h \in [1..n -> Records]
  BY <1>5 DEF HistoryOf
<1>7. h \in Seq(Records)
  BY <1>1, <1>6, SeqDef
<1>8. Len(h) = n
  <2> HIDE DEF h
  <2>1. DOMAIN h = 1..n /\ DOMAIN h = 1..Len(h) /\ Len(h) \in Nat
    BY <1>6, <1>7, LenProperties
  <2> QED  BY <1>1, <2>1
<1> QED  BY <1>1, <1>3, <1>4, <1>7, <1>8

(* One more event at the end of a chain is one more entry at the end of    *)
(* its history.                                                            *)
LEMMA HistoryAppend ==
  ASSUME NEW S \in SUBSET Events, NEW x \in Events, x \notin S,
         LegalChain(S), LegalChain(S \cup {x})
  PROVE  /\ x.seq = Cardinality(S)
         /\ HistoryOf(S \cup {x})
              = Append(HistoryOf(S), [type |-> x.type, id |-> x.id])
<1> DEFINE n == Cardinality(S)
           T == S \cup {x}
           r == [type |-> x.type, id |-> x.id]
<1>1. n \in Nat /\ Cardinality(T) = n + 1
  BY FS_CardinalityType, FS_AddElement DEF LegalChain
<1>2. x.seq = n
  <2>1. n \in 0..(Cardinality(T) - 1)
    BY <1>1
  <2> {e.seq : e \in T} = 0..(Cardinality(T) - 1)
    BY DEF LegalChain
  <2>2. PICK e \in T : e.seq = n
    BY <2>1
  <2>3. \A f \in S : f.seq \in 0..(n - 1)
    BY DEF LegalChain
  <2>4. e \notin S
    BY <1>1, <2>2, <2>3
  <2> QED  BY <2>2, <2>4
<1> DEFINE h == HistoryOf(S)
           g == HistoryOf(T)
<1>3. /\ h \in Seq(Records) /\ Len(h) = n
      /\ \A e \in S : h[e.seq + 1] = [type |-> e.type, id |-> e.id]
      /\ \A i \in 1..n : \E e \in S : e.seq = i - 1
  BY HistoryOfChain
<1>4. /\ g \in Seq(Records) /\ Len(g) = n + 1
      /\ \A e \in T : g[e.seq + 1] = [type |-> e.type, id |-> e.id]
  <2>1. T \in SUBSET Events /\ LegalChain(T)
    OBVIOUS
  <2> HIDE DEF T
  <2> QED  BY <1>1, <2>1, HistoryOfChain
<1>5. r \in Records
  BY DEF Records, Events
<1> HIDE DEF h, g, n, r
<1>6. /\ Append(h, r) \in Seq(Records) /\ Len(Append(h, r)) = n + 1
      /\ \A i \in 1..n : Append(h, r)[i] = h[i]
      /\ Append(h, r)[n + 1] = r
  BY <1>3, <1>5, AppendProperties
<1>7. \A i \in 1..(n + 1) : g[i] = Append(h, r)[i]
  <2> SUFFICES ASSUME NEW i \in 1..(n + 1)  PROVE g[i] = Append(h, r)[i]
    OBVIOUS
  <2>1. CASE i = n + 1
    BY <1>2, <1>4, <1>6, <2>1 DEF n, r
  <2>2. CASE i \in 1..n
    <3>1. PICK e \in S : e.seq = i - 1
      BY <1>3, <2>2
    <3>2. e.seq + 1 = i
      BY <1>1, <2>2, <3>1
    <3>3. g[e.seq + 1] = h[e.seq + 1]
      BY <1>3, <1>4
    <3> QED  BY <1>6, <2>2, <3>2, <3>3
  <2>3. i = n + 1 \/ i \in 1..n
    BY <1>1
  <2> QED  BY <2>1, <2>2, <2>3
<1>8. g = Append(h, r)
  BY <1>4, <1>6, <1>7, SeqEqual
<1> QED  BY <1>2, <1>8 DEF g, h, n, r

(* A chain inside another has a history that the other's begins with.      *)
LEMMA HistoryPrefix ==
  ASSUME NEW S \in SUBSET Events, NEW T \in SUBSET Events, S \subseteq T,
         LegalChain(S), LegalChain(T)
  PROVE  /\ Cardinality(S) <= Cardinality(T)
         /\ HistoryOf(S) = SubSeq(HistoryOf(T), 1, Cardinality(S))
<1> DEFINE n == Cardinality(S)
           h == HistoryOf(S)
           g == HistoryOf(T)
<1>1. n \in Nat /\ Cardinality(T) \in Nat /\ n <= Cardinality(T)
  BY FS_CardinalityType, FS_Subset DEF LegalChain
<1>2. /\ h \in Seq(Records) /\ Len(h) = n
      /\ \A e \in S : h[e.seq + 1] = [type |-> e.type, id |-> e.id]
      /\ \A i \in 1..n : \E e \in S : e.seq = i - 1
  BY HistoryOfChain
<1>3. /\ g \in Seq(Records) /\ Len(g) = Cardinality(T)
      /\ \A e \in T : g[e.seq + 1] = [type |-> e.type, id |-> e.id]
  BY HistoryOfChain
<1> HIDE DEF h, g, n
<1>4. \A i \in 1..n : g[i] \in Records
  BY <1>1, <1>3, ElementOfSeq
<1>5. /\ SubSeq(g, 1, n) \in Seq(Records) /\ Len(SubSeq(g, 1, n)) = n
      /\ \A i \in 1..n : SubSeq(g, 1, n)[i] = g[i]
  <2>1. /\ SubSeq(g, 1, n) \in Seq(Records)
        /\ Len(SubSeq(g, 1, n)) = IF 1 <= n THEN n - 1 + 1 ELSE 0
        /\ \A i \in 1..(n - 1 + 1) : SubSeq(g, 1, n)[i] = g[1 + i - 1]
    BY <1>1, <1>4, SubSeqProperties
  <2> QED  BY <1>1, <2>1
<1>6. \A i \in 1..n : h[i] = SubSeq(g, 1, n)[i]
  <2> SUFFICES ASSUME NEW i \in 1..n  PROVE h[i] = g[i]
    BY <1>5
  <2>1. PICK e \in S : e.seq = i - 1
    BY <1>2
  <2>2. e.seq + 1 = i
    BY <1>1, <2>1
  <2>3. h[e.seq + 1] = g[e.seq + 1]
    BY <1>2, <1>3
  <2> QED  BY <2>2, <2>3
<1>7. h = SubSeq(g, 1, n)
  BY <1>2, <1>5, <1>6, SeqEqual
<1> QED  BY <1>1, <1>7 DEF h, g, n

(* The inductive strengthening the refinement needs: an append works for   *)
(* the type and the ID its caller gave, the derived ID comes from the      *)
(* event's own place, and there is still room for the event it has staged. *)
AskedFor ==
  \A p \in Appenders : pc[p] # "idle" => want[p].type \in Requested

OwnId(e) == e.id \in CallerIds \/ e.id = <<e.seq, e.type>>

StagedAsAsked ==
  \A p \in Appenders :
    pc[p] \in {"stage", "replace", "sync staged", "link"} =>
      event[p].type \in Requested /\ OwnId(event[p])

Room ==
  \A p \in Appenders :
    pc[p] \in {"replace", "sync staged", "link"} =>
      Cardinality(published) < MaxEvents

RequestInv == AskedFor /\ StagedAsAsked /\ Room

(* One process moves; the others keep what they ask for and hold.          *)
LEMMA RequestMove ==
  ASSUME RequestInv, TypeOK, NEW p \in Appenders, NEW l \in AppendPcs,
         Goto(p, l), published' = published,
         \A q \in Appenders : q # p => want'[q] = want[q],
         \A q \in Appenders : q # p => event'[q] = event[q],
         l # "idle" => want'[p].type \in Requested,
         l \in {"stage", "replace", "sync staged", "link"} =>
           event'[p].type \in Requested /\ OwnId(event'[p]),
         l \in {"replace", "sync staged", "link"} =>
           Cardinality(published) < MaxEvents
  PROVE  RequestInv'
<1>1. \A q \in Appenders : q # p => pc'[q] = pc[q]
  BY DEF Goto, TypeOK, CallType
<1>2. pc'[p] = l
  BY DEF Goto, TypeOK, CallType
<1>3. AskedFor'
  BY <1>1, <1>2 DEF RequestInv, AskedFor
<1>4. StagedAsAsked'
  BY <1>1, <1>2 DEF RequestInv, StagedAsAsked, OwnId
<1>5. Room'
  BY <1>1, <1>2 DEF RequestInv, Room
<1> QED  BY <1>3, <1>4, <1>5 DEF RequestInv

(* Past the load, nothing changes what a call asks for or has in hand.     *)
LEMMA RequestAppendStep ==
  ASSUME RequestInv, ChainInv, TypeOK, NEW p \in Appenders, AppendStep(p)
  PROVE  RequestInv'
<1>1. pc[p] # "idle" => want[p].type \in Requested
  BY DEF RequestInv, AskedFor
<1>2. CASE EnsureDirectory(p)
  <2>1. /\ pc[p] # "idle" /\ UNCHANGED <<published, want, event>>
        /\ \E l \in {"stat run", "mkdir ledger", "fsync ledger", "mkdir run",
                    "fsync run", "lock"} : Goto(p, l)
    BY <1>2 DEF EnsureDirectory, StatDirectory, MakeDirectory, SyncParent, disk
  <2> QED  BY <1>1, <2>1, RequestMove DEF AppendPcs
<1>3. CASE Acquire(p)
  BY <1>1, <1>3, RequestMove DEF Acquire, disk, AppendPcs
<1>4. CASE Load(p)
  <2>1. pc[p] = "load" /\ UNCHANGED <<published, want>>
    BY <1>4 DEF Load, disk
  <2>2. CASE MayAppend(published, want[p].type, want[p].id)
    <3> DEFINE x == NextEvent(published, want[p].type, want[p].id)
    <3>1. Goto(p, "stage") /\ event' = [event EXCEPT ![p] = x]
      BY <1>4, <2>2 DEF Load
    <3>2. want[p].id \in CallerIds \cup {NoId}
      BY <2>1 DEF TypeOK, InFlight, Wants
    <3>3. x.type = want[p].type /\ OwnId(x)
      BY <3>2 DEF NextEvent, OwnId
    <3> HIDE DEF x
    <3>4. event'[p] = x /\ \A q \in Appenders : q # p => event'[q] = event[q]
      BY <3>1 DEF TypeOK, CallType
    <3> QED  BY <1>1, <2>1, <3>1, <3>3, <3>4, RequestMove DEF AppendPcs
  <2>3. CASE ~MayAppend(published, want[p].type, want[p].id)
    <3>1. Goto(p, "unlock") /\ UNCHANGED event
      BY <1>4, <2>3 DEF Load
    <3> QED  BY <1>1, <2>1, <3>1, RequestMove DEF AppendPcs
  <2> QED  BY <2>2, <2>3
<1>5. CASE Stage(p) \/ Replace(p) \/ SyncStaged(p)
  <2>1. /\ pc[p] \in {"stage", "replace", "sync staged"}
        /\ UNCHANGED <<published, want, event>>
        /\ \E l \in {"replace", "sync staged", "link"} : Goto(p, l)
    BY <1>5 DEF Stage, Replace, SyncStaged
  <2>2. event[p].type \in Requested /\ OwnId(event[p])
    BY <2>1 DEF RequestInv, StagedAsAsked
  <2>3. Cardinality(published) < MaxEvents
    BY <1>5 DEF Stage, Replace, SyncStaged, RequestInv, Room
  <2> QED  BY <1>1, <2>1, <2>2, <2>3, RequestMove DEF AppendPcs
<1>6. CASE SyncLink(p) \/ Fail(p) \/ Unstage(p) \/ SyncUnstaged(p)
  <2>1. /\ pc[p] # "idle" /\ UNCHANGED <<published, want, event>>
        /\ \E l \in {"unstage", "sync unstaged", "unlock"} : Goto(p, l)
    BY <1>6 DEF SyncLink, Fail, Unstage, SyncUnstaged
  <2> QED  BY <1>1, <2>1, RequestMove DEF AppendPcs
<1>7. CASE Link(p)
  <2>1. /\ pc[p] = "link" /\ UNCHANGED <<want, event, lock>>
        /\ Goto(p, "unstage") \/ Goto(p, "sync link")
    BY <1>7 DEF Link
  <2>2. \A q \in Appenders :
          pc'[q] \notin {"stage", "replace", "sync staged", "link"}
    BY <2>1 DEF Goto, TypeOK, CallType, ChainInv, LockHeld, HoldingPcs
  <2>3. AskedFor'
    BY <1>1, <2>1 DEF Goto, TypeOK, CallType, RequestInv, AskedFor
  <2> QED  BY <2>2, <2>3 DEF RequestInv, StagedAsAsked, Room
<1>8. CASE Unlock(p)
  <2>1. /\ UNCHANGED published /\ Goto(p, "idle")
        /\ \A q \in Appenders : q # p => want'[q] = want[q]
        /\ \A q \in Appenders : q # p => event'[q] = event[q]
    BY <1>8 DEF Unlock, disk
  <2> QED  BY <2>1, RequestMove DEF AppendPcs
<1> QED
  BY <1>2, <1>3, <1>4, <1>5, <1>6, <1>7, <1>8 DEF AppendStep

LEMMA RequestStep ==
  ASSUME RequestInv, ChainInv, TypeOK, [Next]_vars
  PROVE  RequestInv'
<1>1. ASSUME NEW p \in Appenders, NEW t \in Requested,
             NEW i \in CallerIds \cup {NoId}, Begin(p, t, i)
      PROVE  RequestInv'
  <2>1. UNCHANGED <<published, event>>
    BY <1>1 DEF Begin, disk
  <2>2. CASE UNCHANGED <<pc, want>>
    BY <2>1, <2>2 DEF RequestInv, AskedFor, StagedAsAsked, Room, OwnId
  <2>3. CASE Goto(p, "stat ledger")
             /\ want' = [want EXCEPT ![p] = [type |-> t, id |-> i]]
    <3>1. want'[p].type = t /\ \A q \in Appenders : q # p => want'[q] = want[q]
      BY <2>3 DEF TypeOK, CallType
    <3> QED  BY <2>1, <2>3, <3>1, RequestMove DEF AppendPcs
  <2> QED  BY <1>1, <2>2, <2>3 DEF Begin
<1>2. ASSUME NEW p \in Appenders, Kill(p)
      PROVE  RequestInv'
  <2>1. /\ UNCHANGED published /\ Goto(p, "idle")
        /\ \A q \in Appenders : q # p => want'[q] = want[q]
        /\ \A q \in Appenders : q # p => event'[q] = event[q]
    BY <1>2 DEF Kill, disk
  <2> QED  BY <2>1, RequestMove DEF AppendPcs
<1>3. ASSUME NEW r \in Readers, OpenListing(r) \/ ReadStep(r)
      PROVE  RequestInv'
  BY <1>3 DEF OpenListing, ReadStep, CloseListing, CheckListing, disk, call,
     RequestInv, AskedFor, StagedAsAsked, Room, OwnId
<1>4. CASE PowerCut
  <2>1. \A p \in Appenders : pc'[p] = "idle"
    BY <1>4 DEF PowerCut
  <2> QED  BY <2>1 DEF RequestInv, AskedFor, StagedAsAsked, Room
<1>5. CASE UNCHANGED vars
  BY <1>5 DEF vars, RequestInv, AskedFor, StagedAsAsked, Room, OwnId
<1> QED  BY <1>1, <1>2, <1>3, <1>4, <1>5, RequestAppendStep DEF Next

(* Two names for one event vocabulary.                                     *)
LEMMA SameEvents ==
  Abstract!EventTypes = EventTypes /\ Abstract!Transitions = Transitions
  BY DEF Abstract!EventTypes, EventTypes, Abstract!Transitions, Transitions

(* An event that makes a longer chain may follow the history there is.     *)
LEMMA MayFollowHistory ==
  ASSUME NEW S \in SUBSET Events, NEW x \in Events, x.seq = Cardinality(S),
         LegalChain(S), LegalChain(S \cup {x})
  PROVE  Abstract!MayFollow(Abstract!Types(HistoryOf(S)), x.type)
<1> DEFINE n == Cardinality(S)
           h == HistoryOf(S)
           types == Abstract!Types(h)
<1> SUFFICES Abstract!MayFollow(types, x.type)
  OBVIOUS
<1>1. /\ n \in Nat /\ h \in Seq(Records) /\ Len(h) = n
      /\ \A e \in S : e.seq + 1 \in 1..n
                      /\ h[e.seq + 1] = [type |-> e.type, id |-> e.id]
      /\ \A i \in 1..n : \E e \in S : e.seq = i - 1
  BY HistoryOfChain
<1>2. types = [i \in 1..n |-> h[i].type]
  <2> HIDE DEF h
  <2> QED  BY <1>1 DEF Abstract!Types
<1>3. types \in Seq(EventTypes) /\ Len(types) = n
  <2>1. \A i \in 1..n : h[i].type \in EventTypes
    <3> SUFFICES ASSUME NEW i \in 1..n  PROVE h[i].type \in EventTypes
      OBVIOUS
    <3> HIDE DEF h, n
    <3>1. h[i] \in Records
      BY <1>1, ElementOfSeq
    <3> QED  BY <3>1 DEF Records
  <2>2. types \in [1..n -> EventTypes]
    BY <1>2, <2>1
  <2>3. types \in Seq(EventTypes)
    BY <1>1, <2>2, SeqDef
  <2> HIDE DEF types
  <2>4. DOMAIN types = 1..n /\ DOMAIN types = 1..Len(types) /\ Len(types) \in Nat
    BY <2>2, <2>3, LenProperties
  <2> QED  BY <1>1, <2>3, <2>4
<1>4. CASE n = 0
  <2>1. types = << >>
    <3> HIDE DEF types
    <3> QED  BY <1>3, <1>4, EmptySeq
  <2>2. x.type = "planned"
    BY <1>4 DEF LegalChain
  <2> QED  BY <2>1, <2>2 DEF Abstract!MayFollow
<1>5. CASE n # 0
  <2>1. n \in 1..n
    BY <1>1, <1>5
  <2>2. PICK e \in S : e.seq = n - 1
    BY <1>1, <2>1
  <2>3. e.seq + 1 = n
    BY <1>1, <2>2
  <2>4. types[n] = e.type
    <3>1. types[n] = h[n].type
      BY <1>2, <2>1
    <3>2. h[n] = [type |-> e.type, id |-> e.id]
      BY <1>1, <2>3
    <3> HIDE DEF h, n, types
    <3> QED  BY <3>1, <3>2
  <2>5. x.type \in Transitions[e.type]
    BY <2>3 DEF LegalChain
  <2>6. types # << >>
    <3> HIDE DEF types
    <3> QED  BY <1>3, <1>5, EmptySeq
  <2> HIDE DEF types, n
  <2> QED  BY <1>3, <2>4, <2>5, <2>6, SameEvents DEF Abstract!MayFollow
<1> QED  BY <1>4, <1>5

(* The link that publishes an event records it.                            *)
LEMMA LinkMaps ==
  ASSUME TypeOK, ChainInv, RequestInv, ChainInv', NEW p \in Appenders, Link(p)
  PROVE  Abstract!Next \/ UNCHANGED <<History, Acknowledged>>
<1> DEFINE x == event[p]
<1>1. /\ pc[p] = "link" /\ UNCHANGED acked
      /\ UNCHANGED published
         \/ /\ published' = published \cup {x}
            /\ ~\E e \in published : e.seq = x.seq /\ e.id = x.id
  BY DEF Link
<1>2. CASE UNCHANGED published
  BY <1>1, <1>2 DEF History, Acknowledged
<1>3. CASE /\ published' = published \cup {x}
           /\ ~\E e \in published : e.seq = x.seq /\ e.id = x.id
  <2>1. published \in SUBSET Events /\ x \in Events
    BY <1>1 DEF TypeOK, DiskType, InFlight, HasEvent
  <2>2. LegalChain(published) /\ LegalChain(published \cup {x})
    BY <1>3 DEF ChainInv, ChainIntact
  <2>3. x \notin published
    BY <1>3
  <2>4. x.type \in Requested /\ OwnId(x) /\ Cardinality(published) < MaxEvents
    BY <1>1 DEF RequestInv, StagedAsAsked, Room
  <2> HIDE DEF x
  <2>5. /\ x.seq = Cardinality(published)
        /\ HistoryOf(published \cup {x})
             = Append(HistoryOf(published), [type |-> x.type, id |-> x.id])
    BY <2>1, <2>2, <2>3, HistoryAppend
  <2>6. History' = Append(History, [type |-> x.type, id |-> x.id])
    BY <1>3, <2>5 DEF History, HistoryOf
  <2>7. Abstract!MayFollow(Abstract!Types(History), x.type)
    <3>1. History = HistoryOf(published)
      BY DEF History, HistoryOf
    <3> QED  BY <2>1, <2>2, <2>5, <3>1, MayFollowHistory
  <2>8. \A i \in 1..Len(History) : History[i].id # x.id
    <3> SUFFICES ASSUME NEW i \in 1..Cardinality(published)
                 PROVE  HistoryOf(published)[i].id # x.id
      BY <2>1, <2>2, HistoryOfChain DEF History, HistoryOf
    <3>1. PICK e \in published : e.seq = i - 1
      BY <2>1, <2>2, HistoryOfChain
    <3>2. e.seq + 1 = i
      BY <3>1
    <3>3. HistoryOf(published)[i] = [type |-> e.type, id |-> e.id]
      BY <2>1, <2>2, <3>2, HistoryOfChain
    <3>4. e.id # x.id
      BY <2>2, <2>3 DEF LegalChain
    <3> QED  BY <3>3, <3>4
  <2>9. x.type \in Abstract!EventTypes
    BY <2>4, ConstantsAssumption, SameEvents
  <2>10. x.id \in PossibleIds
    <3>1. Cardinality(published) \in Nat /\ x.seq = Cardinality(published)
      BY <2>1, <2>2, <2>5, HistoryOfChain
    <3>2. x.seq \in 0..(MaxEvents - 1)
      BY <2>4, <3>1, ConstantsAssumption
    <3> QED  BY <2>4, <3>2 DEF OwnId, PossibleIds
  <2>11. UNCHANGED Acknowledged
    BY <1>1 DEF Acknowledged
  <2>12. Abstract!Record(x.type, x.id)
    BY <2>6, <2>7, <2>8, <2>11 DEF Abstract!Record
  <2> QED  BY <2>9, <2>10, <2>12 DEF Abstract!Next
<1> QED  BY <1>1, <1>2, <1>3

(* The return of an append that did not fail acknowledges its event.       *)
LEMMA UnlockMaps ==
  ASSUME TypeOK, ChainInv, AckedInv, NEW p \in Appenders, Unlock(p)
  PROVE  Abstract!Next \/ UNCHANGED <<History, Acknowledged>>
<1>1. UNCHANGED published /\ pc[p] = "unlock"
      /\ acked' = IF failing[p] THEN acked ELSE acked \cup {event[p]}
  BY DEF Unlock, disk
<1>2. UNCHANGED History
  BY <1>1 DEF History
<1>3. CASE failing[p]
  BY <1>1, <1>2, <1>3 DEF Acknowledged
<1>4. CASE ~failing[p]
  <2>1. event[p] \in published
    BY <1>1, <1>4 DEF AckedInv
  <2> DEFINE i == event[p].seq + 1
  <2>2. i \in 1..Len(History)
    <3>1. published \in SUBSET Events /\ LegalChain(published)
      BY DEF TypeOK, DiskType, ChainInv, ChainIntact
    <3>2. History = HistoryOf(published)
      BY DEF History, HistoryOf
    <3> QED  BY <2>1, <3>1, <3>2, HistoryOfChain
  <2>3. Acknowledged' = Acknowledged \cup {i}
    BY <1>1, <1>4 DEF Acknowledged
  <2> HIDE DEF i
  <2>4. Abstract!Acknowledge(i)
    BY <1>2, <2>2, <2>3 DEF Abstract!Acknowledge
  <2> QED  BY <2>2, <2>4 DEF Abstract!Next
<1> QED  BY <1>3, <1>4

(* Losing power loses the end of the history, nothing acknowledged.        *)
LEMMA PowerCutMaps ==
  ASSUME TypeOK, ChainInv, AckedInv, ChainInv', AckedInv', PowerCut
  PROVE  Abstract!Next
<1>1. published' \subseteq published
  <2>1. published' = {} \/ \E kept \in SUBSET (published \ synced) :
                              published' = synced \cup kept
    BY DEF PowerCut
  <2> QED  BY <2>1 DEF AckedInv
<1>2. acked' = acked /\ acked \subseteq published'
  BY DEF PowerCut, AckedInv
<1>3. /\ published \in SUBSET Events /\ LegalChain(published)
      /\ LegalChain(published')
  BY DEF TypeOK, DiskType, ChainInv, ChainIntact
<1>4. PICK S \in SUBSET Events : S = published'
  BY <1>1, <1>3
<1> DEFINE n == Cardinality(S)
<1>5. /\ n \in Nat /\ \A e \in S : e.seq + 1 \in 1..n
  BY <1>3, <1>4, HistoryOfChain
<1>6. /\ n <= Cardinality(published)
      /\ HistoryOf(S) = SubSeq(HistoryOf(published), 1, n)
  BY <1>1, <1>3, <1>4, HistoryPrefix
<1>7. History' = HistoryOf(S) /\ History = HistoryOf(published)
  BY <1>4 DEF History, HistoryOf
<1>8. Len(History) = Cardinality(published) /\ Cardinality(published) \in Nat
  BY <1>3, <1>7, HistoryOfChain
<1> HIDE DEF n
<1>9. n \in 0..Len(History)
  BY <1>5, <1>6, <1>8
<1>10. \A i \in Acknowledged : i <= n
  BY <1>2, <1>4, <1>5 DEF Acknowledged
<1>11. UNCHANGED Acknowledged
  BY <1>2 DEF Acknowledged
<1>12. Abstract!LosePower
  BY <1>6, <1>7, <1>9, <1>10, <1>11 DEF Abstract!LosePower
<1> QED  BY <1>12 DEF Abstract!Next

(* Every step of the file system calls is a step of the abstract ledger,   *)
(* or none.                                                                *)
LEMMA LedgerStepMaps ==
  ASSUME TypeOK, ChainInv, AckedInv, RequestInv, ChainInv', AckedInv',
         [Next]_vars
  PROVE  [Abstract!Next]_<<History, Acknowledged>>
<1> SUFFICES Abstract!Next \/ UNCHANGED <<History, Acknowledged>>
  OBVIOUS
<1>1. UNCHANGED <<published, acked>> => UNCHANGED <<History, Acknowledged>>
  BY DEF History, Acknowledged
<1>2. ASSUME NEW p \in Appenders, AppendStep(p), ~Link(p), ~Unlock(p)
      PROVE  UNCHANGED <<published, acked>>
  BY <1>2 DEF AppendStep, EnsureDirectory, StatDirectory, MakeDirectory,
     SyncParent, Acquire, Load, Stage, Replace, SyncStaged, SyncLink, Fail,
     Unstage, SyncUnstaged, disk
<1>3. ASSUME NEW p \in Appenders, NEW t \in Requested,
             NEW i \in CallerIds \cup {NoId}, Begin(p, t, i)
      PROVE  UNCHANGED <<published, acked>>
  BY <1>3 DEF Begin, disk
<1>4. ASSUME NEW p \in Appenders, Kill(p)
      PROVE  UNCHANGED <<published, acked>>
  BY <1>4 DEF Kill, disk
<1>5. ASSUME NEW r \in Readers, OpenListing(r) \/ ReadStep(r)
      PROVE  UNCHANGED <<published, acked>>
  BY <1>5 DEF OpenListing, ReadStep, CloseListing, CheckListing, disk
<1>6. UNCHANGED vars => UNCHANGED <<published, acked>>
  BY DEF vars
<1> QED
  BY <1>1, <1>2, <1>3, <1>4, <1>5, <1>6, LinkMaps, UnlockMaps, PowerCutMaps
     DEF Next

(* On a run directory that was durable to begin with, what the processes   *)
(* do to the directory, one file system call at a time, is the abstract    *)
(* ledger: a link records, a return acknowledges, a power cut loses the    *)
(* end, and nothing else shows (ledger.py append).                         *)
THEOREM LedgerImplementsAbstract ==
  ASSUME Provisioned
  PROVE  Spec => ImplementsAbstractLedger
<1>1. Init => Abstract!Init
  <2> SUFFICES ASSUME Init  PROVE Abstract!Init
    OBVIOUS
  <2>1. published = {} /\ acked = {}
    BY DEF Init
  <2>2. History = HistoryOf({})
    BY <2>1 DEF History, HistoryOf
  <2>3. HistoryOf({}) \in Seq(Records) /\ Len(HistoryOf({})) = 0
    BY EmptyChain, HistoryOfChain, FS_EmptySet
  <2>4. History = << >>
    BY <2>2, <2>3, EmptySeq
  <2> QED  BY <2>1, <2>4 DEF Abstract!Init, Acknowledged
<1>2. Init => ChainInv
  BY EmptyChain, ConstantsAssumption
     DEF Init, ChainInv, ChainIntact, LockHeld, NextIsLegal, LinkFromSynced,
         OneUnsynced, HoldingPcs
<1>3. Init => AckedInv
  BY DEF Init, AckedInv
<1>4. Init => RequestInv
  BY DEF Init, RequestInv, AskedFor, StagedAsAsked, Room
<1>5. TypeOK /\ ChainInv /\ [Next]_vars => ChainInv'
  BY ChainStep
<1>6. TypeOK /\ AckedInv /\ [Next]_vars => AckedInv'
  BY AckedStep
<1>7. TypeOK /\ ChainInv /\ RequestInv /\ [Next]_vars => RequestInv'
  BY RequestStep
<1>8. TypeOK /\ ChainInv /\ ChainInv' /\ AckedInv /\ AckedInv' /\ RequestInv
        /\ [Next]_vars => [Abstract!Next]_<<History, Acknowledged>>
  BY LedgerStepMaps
<1> QED
  BY <1>1, <1>2, <1>3, <1>4, <1>5, <1>6, <1>7, <1>8, TypeCorrect, PTL
     DEF Spec, ImplementsAbstractLedger, Abstract!Spec, Abstract!vars
=============================================================================
