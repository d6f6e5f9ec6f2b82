---------------------------- MODULE ReasoningProofs ----------------------------
(***************************************************************************)
(* Proofs about the reasoning-v3 release, for any evaluators, cells,       *)
(* bundles, predictions, and any number of faults and uploads of the       *)
(* record; and, from the instance S on, about the staging of its corpus.   *)
(***************************************************************************)
EXTENDS ReasoningRelease, CorpusStaging, SequenceTheorems, TLAPS

(* What is known of a signed payload from the moment it is built: an       *)
(* activation names the first versions of objects that are there, a        *)
(* manifest the references all trainers were told, a report the results.   *)
ActivationFits(a) ==
  /\ a.model = 1 /\ a.gold = 1 /\ a.bundle \in Bundles
  /\ Exists(Model(a.bundle)) /\ Exists(Gold(a.bundle))

ManifestStands(m) == m.ckpt = refs /\ \A c \in Cells : refs[c] # 0

ResultStands(p, c) ==
  /\ Exists(Result(c)) /\ p.results[c].version = 1 /\ refs[c] # 0
  /\ Current(Result(c)).record = p.record
  /\ Current(Result(c)).ckpt = refs[c]
  /\ Current(Result(c)).prediction = p.results[c].prediction

ReportFits(p) ==
  /\ Exists(Activation) /\ Current(Activation).record = p.record
  /\ Exists(Manifest) /\ Current(Manifest).record = p.record
  /\ \A c \in Cells : ResultStands(p, c)

(* The inductive invariant.  Every key but the record's has one version at *)
(* most, so that what a call has read is what is there; a call goes by the *)
(* activation under the version of the record that it has read.            *)
OneVersion == \A k \in Keys \ {Record} : Len(store[k]) <= 1

AcksStand ==
  \A a \in acks : a.key # Record /\ a.version = 1 /\ store[a.key] = <<a.payload>>

PublishedFits ==
  /\ Exists(Activation) => ActivationFits(Current(Activation))
  /\ Exists(Manifest) => ManifestStands(Current(Manifest))
  /\ Exists(Report) => ReportFits(Current(Report))

PayloadFits(e) ==
  /\ own[e].payload \in Bodies(Target(e))
  /\ Target(e) = Activation => ActivationFits(own[e].payload)
  /\ Target(e) = Manifest => ManifestStands(own[e].payload)
  /\ Target(e) = Report => ReportFits(own[e].payload)

CallInv(e) ==
  /\ pc[e] # "idle" => task[e] \in Tasks
  /\ pc[e] \in {"model", "gold", "activate"} =>
       task[e] = <<"materialize", "-">> /\ own[e].bundle \in Bundles
  /\ pc[e] \in {"gold", "activate"} => Exists(Model(own[e].bundle))
  /\ pc[e] = "activate" => Exists(Gold(own[e].bundle))
  /\ pc[e] = "load" => task[e] # <<"materialize", "-">>
  /\ pc[e] \in {"manifest", "evaluate", "infer"} =>
       /\ task[e][1] = pc[e]
       /\ Exists(Activation) /\ Current(Activation).record = own[e].record
  /\ pc[e] \in {"put", "recover"} => PayloadFits(e)

ReleaseInv ==
  /\ TypeOK /\ OneVersion /\ AcksStand /\ PublishedFits
  /\ \A e \in Evaluators : CallInv(e)

-----------------------------------------------------------------------------
(* The keys are told apart by their first part, and what one holds goes    *)
(* by it.                                                                  *)
LEMMA KeyKinds ==
  /\ Record \in Keys /\ Bodies(Record) = {"record"}
  /\ Activation \in Keys \ {Record} /\ Bodies(Activation) = Releases
  /\ Manifest \in Keys \ {Record} /\ Bodies(Manifest) = Manifests
  /\ Report \in Keys \ {Record} /\ Bodies(Report) = Reports
  /\ Activation # Manifest /\ Activation # Report /\ Manifest # Report
  BY DEF Keys, Record, Activation, Manifest, Report, Bodies

LEMMA ObjectKinds ==
  /\ \A b \in Bundles : /\ Model(b) \in Keys \ {Record, Activation, Manifest, Report}
                        /\ Gold(b) \in Keys \ {Record, Activation, Manifest, Report}
                        /\ Bodies(Model(b)) = Bundles /\ Bodies(Gold(b)) = Bundles
  /\ \A c \in Cells : /\ Ckpt(c) \in Keys \ {Record, Activation, Manifest, Report}
                      /\ Result(c) \in Keys \ {Record, Activation, Manifest, Report}
                      /\ Bodies(Ckpt(c)) = Cells /\ Bodies(Result(c)) = Results
  BY DEF Keys, Record, Activation, Manifest, Report, Model, Gold, Ckpt, Result, Bodies

(* Where a call's payload goes, by its task.                               *)
LEMMA TargetKinds ==
  ASSUME NEW e \in Evaluators, task[e] \in Tasks
  PROVE  /\ Target(e) \in Keys \ {Record}
         /\ Target(e) = Activation <=> task[e][1] = "materialize"
         /\ Target(e) = Manifest <=> task[e][1] = "manifest"
         /\ Target(e) = Report <=> task[e][1] = "infer"
         /\ task[e][1] = "evaluate" => task[e][2] \in Cells /\ Target(e) = Result(task[e][2])
         /\ Bodies(Target(e)) \subseteq Payloads
<1>1. CASE task[e] = <<"materialize", "-">>
  <2>1. task[e][1] = "materialize"
    BY <1>1
  <2>2. Target(e) = Activation
    BY <2>1 DEF Target
  <2>3. Target(e) \in Keys \ {Record} /\ Bodies(Target(e)) \subseteq Payloads
    BY <2>2, KeyKinds DEF Payloads
  <2>4. /\ Target(e) = Activation <=> task[e][1] = "materialize"
        /\ Target(e) = Manifest <=> task[e][1] = "manifest"
        /\ Target(e) = Report <=> task[e][1] = "infer"
    BY <2>1, <2>2, KeyKinds
  <2> QED  BY <2>1, <2>3, <2>4
<1>2. CASE task[e] = <<"manifest", "-">>
  <2>1. task[e][1] = "manifest"
    BY <1>2
  <2>2. Target(e) = Manifest
    BY <2>1 DEF Target
  <2>3. Target(e) \in Keys \ {Record} /\ Bodies(Target(e)) \subseteq Payloads
    BY <2>2, KeyKinds DEF Payloads
  <2>4. /\ Target(e) = Activation <=> task[e][1] = "materialize"
        /\ Target(e) = Manifest <=> task[e][1] = "manifest"
        /\ Target(e) = Report <=> task[e][1] = "infer"
    BY <2>1, <2>2, KeyKinds
  <2> QED  BY <2>1, <2>3, <2>4
<1>3. CASE task[e] = <<"infer", "-">>
  <2>1. task[e][1] = "infer"
    BY <1>3
  <2>2. Target(e) = Report
    BY <2>1 DEF Target
  <2>3. Target(e) \in Keys \ {Record} /\ Bodies(Target(e)) \subseteq Payloads
    BY <2>2, KeyKinds DEF Payloads
  <2>4. /\ Target(e) = Activation <=> task[e][1] = "materialize"
        /\ Target(e) = Manifest <=> task[e][1] = "manifest"
        /\ Target(e) = Report <=> task[e][1] = "infer"
    BY <2>1, <2>2, KeyKinds
  <2> QED  BY <2>1, <2>3, <2>4
<1>4. ASSUME NEW c \in Cells, task[e] = <<"evaluate", c>>
      PROVE  /\ Target(e) = Result(c) /\ task[e][1] = "evaluate" /\ task[e][2] = c
             /\ Target(e) \in Keys \ {Record, Activation, Manifest, Report}
             /\ Bodies(Target(e)) \subseteq Payloads
  BY <1>4, ObjectKinds DEF Target, Payloads
<1> QED  BY <1>1, <1>2, <1>3, <1>4 DEF Tasks

-----------------------------------------------------------------------------
(* Only absent keys and the record's get a version, and a trainer is told  *)
(* once.                                                                   *)
RefsKept ==
  /\ refs' \in [Cells -> {0, 1}]
  /\ \A c \in Cells : refs[c] # 0 => refs'[c] = refs[c]

Grows ==
  /\ DOMAIN store' = Keys /\ \A k \in Keys : store'[k] \in Seq(Bodies(k))
  /\ \A k \in Keys \ {Record} :
       /\ Len(store'[k]) <= 1
       /\ Exists(k) => store'[k] = store[k]
  /\ RefsKept

LEMMA NewVersionGrows ==
  ASSUME TypeOK, OneVersion, NEW k \in Keys, NEW body \in Bodies(k),
         k = Record \/ ~ Exists(k), store' = NewVersion(k, body), RefsKept
  PROVE  /\ Grows /\ Len(store'[k]) = Len(store[k]) + 1
         /\ ~ Exists(k) => store'[k] = <<body>>
<1>1. store[k] \in Seq(Bodies(k)) /\ DOMAIN store = Keys
  BY DEF TypeOK
<1>2. /\ DOMAIN store' = Keys
      /\ store'[k] = Append(store[k], body)
      /\ \A j \in Keys \ {k} : store'[j] = store[j]
  BY <1>1 DEF NewVersion
<1>3. /\ store'[k] \in Seq(Bodies(k)) /\ Len(store'[k]) = Len(store[k]) + 1
      /\ Len(store[k]) \in Nat
  BY <1>1, <1>2, AppendProperties, LenProperties
<1>4. ~ Exists(k) => store'[k] = <<body>>
  BY <1>1, <1>2 DEF Exists
<1>5. ~ Exists(k) => Len(store'[k]) = 1
  BY <1>4
<1>6. ASSUME NEW j \in Keys
      PROVE  /\ store'[j] \in Seq(Bodies(j))
             /\ j # Record => Len(store'[j]) <= 1 /\ (Exists(j) => store'[j] = store[j])
  <2>1. CASE j = k
    BY <1>3, <1>5, <2>1
  <2>2. CASE j # k
    BY <1>2, <2>2 DEF TypeOK, OneVersion
  <2> QED  BY <2>1, <2>2
<1> QED
  BY <1>2, <1>3, <1>4, <1>6 DEF Grows, TypeOK

LEMMA SameGrows ==
  ASSUME TypeOK, OneVersion, store' = store, refs' = refs  PROVE Grows
  BY DEF Grows, RefsKept, TypeOK, OneVersion

(* A sequence of at most one element that is not empty.                    *)
LEMMA Singleton ==
  ASSUME NEW S, NEW s \in Seq(S), Len(s) <= 1, s # << >>
  PROVE  Len(s) = 1 /\ s = <<s[1]>> /\ s[1] \in S
<1>1. Len(s) = 1
  <2>1. << >> \in Seq(S) /\ Len(<< >>) = 0 /\ Len(s) \in Nat
    BY LenProperties
  <2>2. Len(s) # 0
    BY <2>1, SeqEqual
  <2> QED  BY <2>1, <2>2
<1>2. s[1] \in S
  BY <1>1, ElementOfSeq
<1>3. <<s[1]>> \in Seq(S) /\ Len(<<s[1]>>) = 1 /\ <<s[1]>>[1] = s[1]
  BY <1>2
<1>4. \A i \in 1..Len(s) : s[i] = <<s[1]>>[i]
  BY <1>1, <1>3
<1> QED  BY <1>1, <1>2, <1>3, <1>4, SeqEqual

(* What was read of a key that has one version is what is there.           *)
LEMMA OneVersionRead ==
  ASSUME TypeOK, OneVersion, NEW k \in Keys \ {Record}, Exists(k)
  PROVE  /\ Len(store[k]) = 1 /\ Current(k) = store[k][1]
         /\ store[k] = <<Current(k)>> /\ Current(k) \in Bodies(k)
<1>1. store[k] \in Seq(Bodies(k)) /\ Len(store[k]) <= 1 /\ store[k] # << >>
  BY DEF TypeOK, OneVersion, Exists
<1>2. Len(store[k]) = 1 /\ store[k] = <<store[k][1]>> /\ store[k][1] \in Bodies(k)
  BY <1>1, Singleton
<1>3. Current(k) = store[k][1]
  BY <1>2 DEF Current
<1> QED  BY <1>2, <1>3

(* What is known of a payload stays true.                                  *)
LEMMA GrowsKeeps ==
  ASSUME Grows, NEW k \in Keys \ {Record}, Exists(k)
  PROVE  Exists(k)' /\ Current(k)' = Current(k)
  BY DEF Grows, Exists, Current

LEMMA FitsIsStable ==
  ASSUME Grows, NEW p
  PROVE  /\ ActivationFits(p) => ActivationFits(p)'
         /\ ManifestStands(p) /\ refs \in [Cells -> {0, 1}] => ManifestStands(p)'
         /\ ReportFits(p) => ReportFits(p)'
<1>1. ActivationFits(p) => ActivationFits(p)'
  BY ObjectKinds, GrowsKeeps DEF ActivationFits
<1>2. ASSUME ManifestStands(p), refs \in [Cells -> {0, 1}] PROVE ManifestStands(p)'
  <2>1. refs' = refs
    BY <1>2 DEF Grows, RefsKept, ManifestStands
  <2> QED  BY <1>2, <2>1 DEF ManifestStands
<1>3. ASSUME ReportFits(p) PROVE ReportFits(p)'
  <2>1. /\ Exists(Activation)' /\ Current(Activation)' = Current(Activation)
        /\ Exists(Manifest)' /\ Current(Manifest)' = Current(Manifest)
    BY <1>3, KeyKinds, GrowsKeeps DEF ReportFits
  <2>2. ASSUME NEW c \in Cells PROVE ResultStands(p, c)'
    <3>1. ResultStands(p, c)
      BY <1>3 DEF ReportFits
    <3>2. Exists(Result(c))' /\ Current(Result(c))' = Current(Result(c))
      BY <3>1, ObjectKinds, GrowsKeeps DEF ResultStands
    <3>3. refs'[c] = refs[c]
      BY <3>1 DEF ResultStands, Grows, RefsKept
    <3> QED  BY <3>1, <3>2, <3>3 DEF ResultStands
  <2> QED  BY <1>3, <2>1, <2>2 DEF ReportFits
<1> QED  BY <1>1, <1>2, <1>3

-----------------------------------------------------------------------------
(* What is known of the payload in a call's hands stays true.              *)
LEMMA PayloadKeeps ==
  ASSUME Grows, refs \in [Cells -> {0, 1}], NEW d \in Evaluators,
         task'[d] = task[d], own'[d] = own[d], PayloadFits(d)
  PROVE  PayloadFits(d)'
<1>1. Target(d)' = Target(d) /\ own[d].payload = own'[d].payload
  BY DEF Target
<1>2. PICK p : p = own[d].payload
  OBVIOUS
<1>3. /\ ActivationFits(p) => ActivationFits(p)'
      /\ ManifestStands(p) => ManifestStands(p)'
      /\ ReportFits(p) => ReportFits(p)'
  BY FitsIsStable
<1> QED  BY <1>1, <1>2, <1>3 DEF PayloadFits

(* The calls that a step leaves alone.                                     *)
LEMMA OthersKeep ==
  ASSUME ReleaseInv, Grows, NEW d \in Evaluators,
         pc'[d] = pc[d], task'[d] = task[d], own'[d] = own[d]
  PROVE  CallInv(d)'
<1>1. CallInv(d) /\ refs \in [Cells -> {0, 1}]
  BY DEF ReleaseInv, TypeOK
<1>2. ASSUME NEW b \in Bundles, b = own[d].bundle
      PROVE  /\ Exists(Model(own[d].bundle)) => Exists(Model(own[d].bundle))'
             /\ Exists(Gold(own[d].bundle)) => Exists(Gold(own[d].bundle))'
  <2>1. /\ Exists(Model(b)) => Exists(Model(b))'
        /\ Exists(Gold(b)) => Exists(Gold(b))'
    BY ObjectKinds, GrowsKeeps
  <2> QED  BY <1>2, <2>1
<1>3. ASSUME Exists(Activation)
      PROVE  Exists(Activation)' /\ Current(Activation)' = Current(Activation)
  BY <1>3, KeyKinds, GrowsKeeps
<1>4. PayloadFits(d) => PayloadFits(d)'
  BY <1>1, PayloadKeeps
<1> QED  BY <1>1, <1>2, <1>3, <1>4 DEF CallInv

(* What a step must do to the shared state, whatever it does to its call.  *)
Effects ==
  /\ Grows /\ AcksStand' /\ PublishedFits'
  /\ lost' \in SUBSET Cells /\ faults' \in 0..MaxFaults
  /\ acks' \in SUBSET [key : Keys, version : Nat, payload : Payloads]

LEMMA GrowsOneVersion == ASSUME Grows PROVE OneVersion'
  BY DEF Grows, OneVersion

(* Of the three signed objects, those that are not written stay as they    *)
(* are, and fit.                                                           *)
LEMMA PublishedKeeps ==
  ASSUME ReleaseInv, Grows,
         Exists(Activation)' => Exists(Activation)
           \/ \E p : Current(Activation)' = p /\ ActivationFits(p),
         Exists(Manifest)' => Exists(Manifest)
           \/ \E p : Current(Manifest)' = p /\ ManifestStands(p),
         Exists(Report)' => Exists(Report)
           \/ \E p : Current(Report)' = p /\ ReportFits(p)
  PROVE  PublishedFits'
<1> USE DEF PublishedFits, ReleaseInv
<1>1. refs \in [Cells -> {0, 1}]
  BY DEF TypeOK
<1>2. ASSUME Exists(Activation)'  PROVE ActivationFits(Current(Activation))'
  <2>1. PICK p : Current(Activation)' = p /\ ActivationFits(p)
    BY <1>2, KeyKinds, GrowsKeeps
  <2>2. ActivationFits(p)'
    BY <2>1, FitsIsStable
  <2> QED  BY <2>1, <2>2
<1>3. ASSUME Exists(Manifest)'  PROVE ManifestStands(Current(Manifest))'
  <2>1. PICK p : Current(Manifest)' = p /\ ManifestStands(p)
    BY <1>3, KeyKinds, GrowsKeeps
  <2>2. ManifestStands(p)'
    BY <1>1, <2>1, FitsIsStable
  <2> QED  BY <2>1, <2>2
<1>4. ASSUME Exists(Report)'  PROVE ReportFits(Current(Report))'
  <2>1. PICK p : Current(Report)' = p /\ ReportFits(p)
    BY <1>4, KeyKinds, GrowsKeeps
  <2>2. ReportFits(p)'
    BY <2>1, FitsIsStable
  <2> QED  BY <2>1, <2>2
<1> QED  BY <1>2, <1>3, <1>4

LEMMA AcksKeep ==
  ASSUME ReleaseInv, Grows, acks' = acks  PROVE AcksStand'
<1> SUFFICES ASSUME NEW a \in acks
             PROVE  a.key # Record /\ a.version = 1 /\ store'[a.key] = <<a.payload>>
  BY DEF AcksStand
<1>1. /\ a.key \in Keys \ {Record} /\ a.version = 1 /\ store[a.key] = <<a.payload>>
  BY DEF ReleaseInv, AcksStand, TypeOK
<1>2. Exists(a.key)
  BY <1>1 DEF Exists
<1> QED  BY <1>1, <1>2 DEF Grows

LEMMA QuietEffects ==
  ASSUME ReleaseInv, UNCHANGED <<store, refs, acks>>,
         lost' \in SUBSET Cells, faults' \in 0..MaxFaults
  PROVE  Effects
<1>1. Grows
  BY SameGrows DEF ReleaseInv
<1>2. PublishedFits'
  BY <1>1, PublishedKeeps DEF Exists
<1>3. AcksStand'
  BY <1>1, AcksKeep
<1> QED  BY <1>1, <1>2, <1>3 DEF Effects, ReleaseInv, TypeOK

LEMMA PutPublishes ==
  ASSUME ReleaseInv, NEW k \in Keys, NEW body \in Bodies(k),
         k = Record \/ ~ Exists(k), store' = NewVersion(k, body), RefsKept,
         k = Activation => ActivationFits(body),
         k = Manifest => ManifestStands(body),
         k = Report => ReportFits(body)
  PROVE  Grows /\ PublishedFits' /\ (k # Record => store'[k] = <<body>>)
<1>1. Grows /\ (~ Exists(k) => store'[k] = <<body>>)
  BY NewVersionGrows DEF ReleaseInv
<1>2. \A j \in Keys \ {k} : store'[j] = store[j]
  BY DEF NewVersion, ReleaseInv, TypeOK
<1>3. ASSUME k # Record  PROVE Current(k)' = body
  <2>1. store'[k] = <<body>>
    BY <1>1, <1>3
  <2>2. <<body>>[Len(<<body>>)] = body
    OBVIOUS
  <2> QED  BY <2>1, <2>2 DEF Current
<1>4. PublishedFits'
  BY <1>1, <1>2, <1>3, KeyKinds, PublishedKeeps DEF Exists
<1> QED  BY <1>1, <1>4

LEMMA PutEffects ==
  ASSUME ReleaseInv, NEW k \in Keys, NEW body \in Bodies(k),
         k = Record \/ ~ Exists(k), store' = NewVersion(k, body),
         RefsKept, acks' = acks,
         k = Activation => ActivationFits(body),
         k = Manifest => ManifestStands(body),
         k = Report => ReportFits(body),
         lost' \in SUBSET Cells, faults' \in 0..MaxFaults
  PROVE  Effects
<1>1. Grows /\ PublishedFits'
  BY PutPublishes
<1>2. AcksStand'
  BY <1>1, AcksKeep
<1> QED  BY <1>1, <1>2 DEF Effects, ReleaseInv, TypeOK

-----------------------------------------------------------------------------
(* A call that ends.                                                       *)
LEMMA LeaveKeeps ==
  ASSUME ReleaseInv, Effects, NEW e \in Evaluators, Leave(e)
  PROVE  ReleaseInv'
<1>1. /\ own' \in [Evaluators -> [record : Nat, bundle : Bundles \cup {"none"},
                                payload : Payloads \cup {<< >>}]]
      /\ pc' \in [Evaluators -> {"idle", "authorize", "model", "gold", "activate",
                               "load", "manifest", "evaluate", "infer", "put", "recover"}]
      /\ task' \in [Evaluators -> Tasks \cup {NoTask}]
      /\ pc'[e] = "idle"
      /\ \A d \in Evaluators \ {e} :
           own'[d] = own[d] /\ pc'[d] = pc[d] /\ task'[d] = task[d]
  BY DEF ReleaseInv, TypeOK, Leave, Blank
<1>2. CallInv(e)'
  BY <1>1 DEF CallInv
<1>3. \A d \in Evaluators \ {e} : CallInv(d)'
  BY <1>1, OthersKeep DEF Effects
<1>4. TypeOK'
  BY <1>1 DEF TypeOK, Effects, Grows, RefsKept
<1> QED  BY <1>2, <1>3, <1>4, GrowsOneVersion DEF ReleaseInv, Effects

(* A call that goes on.                                                    *)
LEMMA StepKeeps ==
  ASSUME ReleaseInv, Effects, NEW e \in Evaluators,
         NEW l \in {"idle", "authorize", "model", "gold", "activate", "load",
                    "manifest", "evaluate", "infer", "put", "recover"},
         Step(e, l),
         own' \in [Evaluators -> [record : Nat, bundle : Bundles \cup {"none"},
                                payload : Payloads \cup {<< >>}]],
         \A d \in Evaluators \ {e} : own'[d] = own[d],
         CallInv(e)'
  PROVE  ReleaseInv'
<1>1. /\ pc' \in [Evaluators -> {"idle", "authorize", "model", "gold", "activate",
                               "load", "manifest", "evaluate", "infer", "put", "recover"}]
      /\ task' = task /\ \A d \in Evaluators \ {e} : pc'[d] = pc[d]
  BY DEF ReleaseInv, TypeOK, Step
<1>2. \A d \in Evaluators \ {e} : CallInv(d)'
  BY <1>1, OthersKeep DEF Effects
<1>3. TypeOK'
  BY <1>1 DEF TypeOK, Effects, Grows, RefsKept, ReleaseInv
<1> QED  BY <1>2, <1>3, GrowsOneVersion DEF ReleaseInv, Effects

-----------------------------------------------------------------------------
LEMMA InitEstablishes == ASSUME Init PROVE ReleaseInv
<1> USE DEF Init
<1>1. TypeOK
  <2>1. \A k \in Keys : store[k] \in Seq(Bodies(k))
    BY KeyKinds
  <2> QED
    BY <2>1, ReleaseAssumption DEF TypeOK, Blank
<1>2. \A k \in Keys \ {Record} : store[k] = << >>
  OBVIOUS
<1>3. OneVersion
  BY <1>2 DEF OneVersion
<1>4. PublishedFits
  BY <1>2, KeyKinds DEF PublishedFits, Exists
<1>5. \A e \in Evaluators : CallInv(e)
  BY DEF CallInv
<1> QED  BY <1>1, <1>3, <1>4, <1>5 DEF ReleaseInv, AcksStand

(* A step of the administrator or of a trainer.                            *)
LEMMA OutsideKeeps ==
  ASSUME ReleaseInv, Effects, UNCHANGED <<pc, task, own>>
  PROVE  ReleaseInv'
<1>1. \A e \in Evaluators : CallInv(e)'
  BY OthersKeep DEF Effects
<1>2. TypeOK'
  BY DEF TypeOK, Effects, Grows, RefsKept, ReleaseInv
<1> QED  BY <1>1, <1>2, GrowsOneVersion DEF ReleaseInv, Effects

LEMMA UploadKeeps == ASSUME ReleaseInv, Upload PROVE ReleaseInv'
<1>1. "record" \in Bodies(Record) /\ RefsKept
  BY KeyKinds DEF Upload, RefsKept, ReleaseInv, TypeOK
<1>2. Effects
  BY <1>1, KeyKinds, PutEffects DEF Upload, ReleaseInv, TypeOK
<1> QED  BY <1>2, OutsideKeeps DEF Upload

LEMMA PutCheckpointKeeps ==
  ASSUME ReleaseInv, NEW c \in Cells, PutCheckpoint(c)  PROVE ReleaseInv'
<1>1. /\ Ckpt(c) \in Keys \ {Record, Activation, Manifest, Report}
      /\ c \in Bodies(Ckpt(c))
  BY ObjectKinds
<1>2. RefsKept /\ lost' \in SUBSET Cells /\ faults' \in 0..MaxFaults
  BY ReleaseAssumption DEF PutCheckpoint, Fault, RefsKept, ReleaseInv, TypeOK
<1>3. Effects
  BY <1>1, <1>2, PutEffects DEF PutCheckpoint
<1> QED  BY <1>3, OutsideKeeps DEF PutCheckpoint

LEMMA CallKeeps ==
  ASSUME ReleaseInv, NEW e \in Evaluators, Call(e)  PROVE ReleaseInv'
<1>1. Effects
  BY QuietEffects DEF Call, ReleaseInv, TypeOK
<1>2. /\ pc' \in [Evaluators -> {"idle", "authorize", "model", "gold", "activate",
                               "load", "manifest", "evaluate", "infer", "put", "recover"}]
      /\ task' \in [Evaluators -> Tasks \cup {NoTask}]
      /\ pc'[e] = "authorize" /\ task'[e] \in Tasks
      /\ \A d \in Evaluators \ {e} : pc'[d] = pc[d] /\ task'[d] = task[d]
  BY DEF Call, ReleaseInv, TypeOK
<1>3. CallInv(e)'
  BY <1>2 DEF CallInv
<1>4. \A d \in Evaluators \ {e} : CallInv(d)'
  BY <1>1, <1>2, OthersKeep DEF Effects, Call
<1>5. TypeOK'
  BY <1>1, <1>2 DEF TypeOK, Effects, Grows, RefsKept, ReleaseInv, Call
<1> QED  BY <1>1, <1>3, <1>4, <1>5, GrowsOneVersion DEF ReleaseInv, Effects

LEMMA GiveUpKeeps ==
  ASSUME ReleaseInv, NEW e \in Evaluators, GiveUp(e)  PROVE ReleaseInv'
<1>1. lost' \in SUBSET Cells /\ faults' \in 0..MaxFaults
  BY ReleaseAssumption DEF GiveUp, Fault, ReleaseInv, TypeOK
<1>2. Effects
  BY <1>1, QuietEffects DEF GiveUp
<1> QED  BY <1>2, LeaveKeeps DEF GiveUp

LEMMA TaskKinds ==
  ASSUME NEW e \in Evaluators, task[e] \in Tasks
  PROVE  /\ task[e][1] \in {"materialize", "manifest", "infer", "evaluate"}
         /\ task[e][1] = "materialize" <=> task[e] = <<"materialize", "-">>
  BY DEF Tasks

LEMMA AuthorizeKeeps ==
  ASSUME ReleaseInv, NEW e \in Evaluators, Authorize(e)  PROVE ReleaseInv'
<1>1. Effects
  BY QuietEffects DEF Authorize, ReleaseInv, TypeOK
<1>2. task[e] \in Tasks /\ task' = task /\ Len(store[Record]) \in Nat
  BY KeyKinds, LenProperties DEF Authorize, ReleaseInv, CallInv, Step, TypeOK
<1>3. CASE task[e][1] = "materialize"
  <2>1. PICK b \in Bundles :
          own' = [own EXCEPT ![e].record = Len(store[Record]), ![e].bundle = b]
    BY <1>3 DEF Authorize
  <2>2. /\ own' \in [Evaluators -> [record : Nat, bundle : Bundles \cup {"none"},
                                  payload : Payloads \cup {<< >>}]]
        /\ own'[e].bundle = b
        /\ \A d \in Evaluators \ {e} : own'[d] = own[d]
    BY <1>2, <2>1 DEF ReleaseInv, TypeOK
  <2>3. Step(e, "model")
    BY <1>3 DEF Authorize
  <2>4. pc'[e] = "model"
    BY <2>3 DEF Step, ReleaseInv, TypeOK
  <2>5. CallInv(e)'
    BY <1>2, <1>3, <2>2, <2>4, TaskKinds DEF CallInv
  <2> QED  BY <1>1, <2>2, <2>3, <2>5, StepKeeps
<1>4. CASE task[e][1] # "materialize"
  <2>1. /\ own' = [own EXCEPT ![e].record = Len(store[Record])]
        /\ Step(e, "load")
    BY <1>4 DEF Authorize
  <2>2. /\ own' \in [Evaluators -> [record : Nat, bundle : Bundles \cup {"none"},
                                  payload : Payloads \cup {<< >>}]]
        /\ \A d \in Evaluators \ {e} : own'[d] = own[d]
    BY <1>2, <2>1 DEF ReleaseInv, TypeOK
  <2>3. pc'[e] = "load"
    BY <2>1 DEF Step, ReleaseInv, TypeOK
  <2>4. CallInv(e)'
    BY <1>2, <1>4, <2>3, TaskKinds DEF CallInv
  <2> QED  BY <1>1, <2>1, <2>2, <2>4, StepKeeps
<1> QED  BY <1>3, <1>4

(* An object of the release put, or found to be there already.             *)
LEMMA PutImmutableKeeps ==
  ASSUME ReleaseInv, NEW e \in Evaluators, NEW k \in Keys, NEW body \in Bodies(k),
         k \notin {Record, Activation, Manifest, Report},
         NEW l \in {"gold", "activate"}, PutImmutable(e, k, body, l),
         UNCHANGED <<refs, lost, acks>>,
         Step(e, l) /\ UNCHANGED own /\ Exists(k)' /\ Grows => CallInv(e)'
  PROVE  ReleaseInv'
<1>1. RefsKept /\ lost' \in SUBSET Cells /\ faults \in 0..MaxFaults
  BY DEF RefsKept, ReleaseInv, TypeOK
<1>2. ASSUME faults' \in 0..MaxFaults,
             (store' = NewVersion(k, body) /\ ~ Exists(k)) \/ store' = store
      PROVE  Effects
  <2>1. CASE store' = store
    BY <1>1, <1>2, <2>1, QuietEffects
  <2>2. CASE store' = NewVersion(k, body) /\ ~ Exists(k)
    BY <1>1, <1>2, <2>2, PutEffects
  <2> QED  BY <1>2, <2>1, <2>2
<1>3. CASE ~ Exists(k) /\ Fault /\ Leave(e) /\ store' \in {store, NewVersion(k, body)}
  <2>1. faults' \in 0..MaxFaults
    BY <1>1, <1>3, ReleaseAssumption DEF Fault
  <2> QED  BY <1>2, <1>3, <2>1, LeaveKeeps
<1>4. CASE /\ Step(e, l) /\ UNCHANGED <<own, faults>>
           /\ \/ ~ Exists(k) /\ store' = NewVersion(k, body)
              \/ Exists(k) /\ store' = store
  <2>1. Effects
    BY <1>1, <1>2, <1>4
  <2>2. Exists(k)'
    <3>1. CASE Exists(k) /\ store' = store
      BY <3>1 DEF Exists
    <3>2. CASE ~ Exists(k) /\ store' = NewVersion(k, body)
      <4>1. store'[k] = <<body>>
        BY <1>1, <3>2, NewVersionGrows DEF ReleaseInv
      <4> QED  BY <4>1 DEF Exists
    <3> QED  BY <1>4, <3>1, <3>2
  <2>3. CallInv(e)'
    BY <1>4, <2>1, <2>2 DEF Effects
  <2>4. /\ own' \in [Evaluators -> [record : Nat, bundle : Bundles \cup {"none"},
                                  payload : Payloads \cup {<< >>}]]
        /\ \A d \in Evaluators \ {e} : own'[d] = own[d]
    BY <1>4 DEF ReleaseInv, TypeOK
  <2> QED  BY <1>4, <2>1, <2>3, <2>4, StepKeeps
<1> QED  BY <1>3, <1>4 DEF PutImmutable

LEMMA PutObjectsKeep ==
  ASSUME ReleaseInv, NEW e \in Evaluators, PutModelVisible(e) \/ PutSealedGold(e)
  PROVE  ReleaseInv'
<1>1. PICK b \in Bundles : b = own[e].bundle
  BY DEF ReleaseInv, CallInv, PutModelVisible, PutSealedGold
<1>2. task[e] = <<"materialize", "-">> /\ task[e] \in Tasks
  BY DEF ReleaseInv, CallInv, PutModelVisible, PutSealedGold
<1>3. CASE PutModelVisible(e)
  <2>1. PutImmutable(e, Model(b), b, "gold") /\ UNCHANGED <<refs, lost, acks>>
    BY <1>1, <1>3 DEF PutModelVisible
  <2>2. ASSUME Step(e, "gold"), UNCHANGED own, Exists(Model(b))'
        PROVE  CallInv(e)'
    <3>1. pc'[e] = "gold" /\ task' = task
      BY <2>2 DEF Step, ReleaseInv, TypeOK
    <3>2. Model(own[e].bundle)' = Model(b)
      BY <1>1, <2>2
    <3> QED  BY <1>1, <1>2, <2>2, <3>1, <3>2 DEF CallInv
  <2> QED  BY <2>1, <2>2, ObjectKinds, PutImmutableKeeps
<1>4. CASE PutSealedGold(e)
  <2>1. PutImmutable(e, Gold(b), b, "activate") /\ UNCHANGED <<refs, lost, acks>>
    BY <1>1, <1>4 DEF PutSealedGold
  <2>2. ASSUME Step(e, "activate"), UNCHANGED own, Exists(Gold(b))', Grows
        PROVE  CallInv(e)'
    <3>1. pc'[e] = "activate" /\ task' = task
      BY <2>2 DEF Step, ReleaseInv, TypeOK
    <3>2. Exists(Model(b))
      BY <1>1, <1>4 DEF PutSealedGold, ReleaseInv, CallInv
    <3>3. Exists(Model(b))'
      BY <2>2, <3>2, ObjectKinds, GrowsKeeps
    <3> QED  BY <1>1, <1>2, <2>2, <3>1, <3>3 DEF CallInv
  <2> QED  BY <2>1, <2>2, ObjectKinds, PutImmutableKeeps
<1> QED  BY <1>3, <1>4

-----------------------------------------------------------------------------
(* A payload signed: it goes into the call's hands.                        *)
LEMMA SignKeeps ==
  ASSUME ReleaseInv, NEW e \in Evaluators, NEW p \in Payloads, Sign(e, p),
         task[e] \in Tasks, p \in Bodies(Target(e)),
         Target(e) = Activation => ActivationFits(p),
         Target(e) = Manifest => ManifestStands(p),
         Target(e) = Report => ReportFits(p),
         UNCHANGED <<store, refs, lost, acks, faults>>
  PROVE  ReleaseInv'
<1>1. Effects
  BY QuietEffects DEF ReleaseInv, TypeOK
<1>2. /\ own' \in [Evaluators -> [record : Nat, bundle : Bundles \cup {"none"},
                                payload : Payloads \cup {<< >>}]]
      /\ own'[e].payload = p /\ \A d \in Evaluators \ {e} : own'[d] = own[d]
      /\ pc'[e] = "put" /\ task' = task
  BY DEF Sign, Step, ReleaseInv, TypeOK
<1>3. PayloadFits(e)'
  <2>1. Target(e)' = Target(e)
    BY <1>2 DEF Target
  <2>2. /\ ActivationFits(p) => ActivationFits(p)'
        /\ ManifestStands(p) => ManifestStands(p)'
        /\ ReportFits(p) => ReportFits(p)'
    BY <1>1, FitsIsStable DEF Effects, ReleaseInv, TypeOK
  <2> QED  BY <1>2, <2>1, <2>2 DEF PayloadFits
<1>4. CallInv(e)'
  BY <1>2, <1>3 DEF CallInv
<1> QED  BY <1>1, <1>2, <1>4, StepKeeps DEF Sign

(* A call that leaves without having done anything to what is shared.      *)
LEMMA QuietLeaveKeeps ==
  ASSUME ReleaseInv, NEW e \in Evaluators, Leave(e),
         UNCHANGED <<store, refs, lost, acks, faults>>
  PROVE  ReleaseInv'
<1>1. Effects
  BY QuietEffects DEF ReleaseInv, TypeOK
<1> QED  BY <1>1, LeaveKeeps

LEMMA BuildActivationKeeps ==
  ASSUME ReleaseInv, NEW e \in Evaluators, BuildActivation(e)  PROVE ReleaseInv'
<1>1. PICK b \in Bundles : b = own[e].bundle
  BY DEF BuildActivation, ReleaseInv, CallInv
<1>2. /\ task[e] = <<"materialize", "-">> /\ task[e] \in Tasks
      /\ Exists(Model(b)) /\ Exists(Gold(b))
  BY <1>1 DEF BuildActivation, ReleaseInv, CallInv
<1>3. Len(store[Model(b)]) = 1 /\ Len(store[Gold(b)]) = 1
  BY <1>2, ObjectKinds, OneVersionRead DEF ReleaseInv
<1>4. PICK n \in Nat : n = own[e].record
  BY DEF ReleaseInv, TypeOK
<1> DEFINE p == [record |-> n, bundle |-> b, model |-> 1, gold |-> 1]
<1>5. Sign(e, p) /\ UNCHANGED <<store, refs, lost, acks, faults>>
  BY <1>1, <1>3, <1>4 DEF BuildActivation
<1>6. p \in Releases /\ ActivationFits(p)
  BY <1>2 DEF Releases, ActivationFits
<1>7. Target(e) = Activation /\ Bodies(Target(e)) = Releases
  BY <1>2, TargetKinds, TaskKinds, KeyKinds
<1>8. p \in Payloads
  BY <1>6 DEF Payloads
<1> HIDE DEF p
<1> QED  BY <1>2, <1>5, <1>6, <1>7, <1>8, KeyKinds, SignKeeps

LEMMA LoadKeeps ==
  ASSUME ReleaseInv, NEW e \in Evaluators, Load(e)  PROVE ReleaseInv'
<1>1. CASE Leave(e)
  BY <1>1, QuietLeaveKeeps DEF Load
<1>2. CASE Loadable(e) /\ Step(e, task[e][1]) /\ UNCHANGED own
  <2>1. task[e] \in Tasks /\ task[e] # <<"materialize", "-">>
    BY DEF Load, ReleaseInv, CallInv
  <2>2. task[e][1] \in {"manifest", "evaluate", "infer"}
    BY <2>1, TaskKinds
  <2>3. pc'[e] = task[e][1] /\ task' = task
    BY <1>2 DEF Step, ReleaseInv, TypeOK
  <2>4. /\ Exists(Activation)' /\ Current(Activation)' = Current(Activation)
        /\ Current(Activation).record = own[e].record
    BY <1>2 DEF Load, Loadable, Exists, Current
  <2>5. CallInv(e)'
    BY <1>2, <2>1, <2>2, <2>3, <2>4 DEF CallInv
  <2>6. Effects
    BY QuietEffects DEF Load, ReleaseInv, TypeOK
  <2>7. own' \in [Evaluators -> [record : Nat, bundle : Bundles \cup {"none"},
                                 payload : Payloads \cup {<< >>}]]
    BY <1>2 DEF ReleaseInv, TypeOK
  <2> QED  BY <1>2, <2>2, <2>5, <2>6, <2>7, StepKeeps
<1> QED  BY <1>1, <1>2 DEF Load

LEMMA BuildManifestKeeps ==
  ASSUME ReleaseInv, NEW e \in Evaluators, BuildManifest(e)  PROVE ReleaseInv'
<1>1. CASE Leave(e)
  BY <1>1, QuietLeaveKeeps DEF BuildManifest
<1>2. CASE ~ Leave(e)
  <2>1. PICK n \in Nat : n = own[e].record
    BY DEF ReleaseInv, TypeOK
  <2>2. PICK r \in [Cells -> {0, 1}] : r = refs
    BY DEF ReleaseInv, TypeOK
  <2>3. /\ task[e] \in Tasks /\ task[e][1] = "manifest" /\ Exists(Activation)
        /\ \A c \in Cells : refs[c] # 0
    BY <1>2 DEF BuildManifest, ReleaseInv, CallInv
  <2>4. Len(store[Activation]) = 1
    BY <2>3, KeyKinds, OneVersionRead DEF ReleaseInv
  <2> DEFINE p == [record |-> n, activation |-> 1, ckpt |-> r]
  <2>5. Sign(e, p) /\ UNCHANGED <<store, refs, lost, acks, faults>>
    BY <1>2, <2>1, <2>2, <2>4 DEF BuildManifest
  <2>6. p \in Manifests /\ ManifestStands(p)
    BY <2>2, <2>3 DEF Manifests, ManifestStands
  <2>7. Target(e) = Manifest /\ Bodies(Target(e)) = Manifests
    BY <2>3, TargetKinds, KeyKinds
  <2>8. p \in Payloads
    BY <2>6 DEF Payloads
  <2> HIDE DEF p
  <2> QED  BY <2>3, <2>5, <2>6, <2>7, <2>8, KeyKinds, SignKeeps
<1> QED  BY <1>1, <1>2

LEMMA EvaluateKeeps ==
  ASSUME ReleaseInv, NEW e \in Evaluators, Evaluate(e)  PROVE ReleaseInv'
<1>1. CASE Leave(e)
  BY <1>1, QuietLeaveKeeps DEF Evaluate
<1>2. CASE ManifestFits(e)
  <2>1. PICK n \in Nat : n = own[e].record
    BY DEF ReleaseInv, TypeOK
  <2>2. /\ task[e] \in Tasks /\ task[e][1] = "evaluate" /\ Exists(Activation)
        /\ Exists(Manifest)
    BY <1>2 DEF Evaluate, ReleaseInv, CallInv, ManifestFits
  <2>3. PICK c \in Cells : c = task[e][2] /\ Target(e) = Result(c)
    BY <2>2, TargetKinds
  <2>4. /\ Len(store[Activation]) = 1 /\ Len(store[Manifest]) = 1
        /\ Current(Manifest) \in Manifests
    BY <2>2, KeyKinds, OneVersionRead DEF ReleaseInv
  <2>5. PICK x \in {0, 1} : x = Current(Manifest).ckpt[c]
    BY <2>4 DEF Manifests
  <2>6. PICK q \in Predictions :
          Sign(e, [record |-> own[e].record, activation |-> Len(store[Activation]),
                   manifest |-> Len(store[Manifest]),
                   ckpt |-> Current(Manifest).ckpt[task[e][2]], prediction |-> q])
    BY <1>2 DEF Evaluate
  <2> DEFINE p == [record |-> n, activation |-> 1, manifest |-> 1, ckpt |-> x,
                   prediction |-> q]
  <2>7. Sign(e, p) /\ UNCHANGED <<store, refs, lost, acks, faults>>
    BY <2>1, <2>3, <2>4, <2>5, <2>6 DEF Evaluate
  <2>8. p \in Results
    BY DEF Results
  <2>9. /\ Target(e) \notin {Activation, Manifest, Report}
        /\ Bodies(Target(e)) = Results
    BY <2>3, ObjectKinds
  <2>10. p \in Payloads
    BY <2>8 DEF Payloads
  <2> HIDE DEF p
  <2> QED  BY <2>2, <2>7, <2>8, <2>9, <2>10, SignKeeps
<1> QED  BY <1>1, <1>2 DEF Evaluate

LEMMA InferKeeps ==
  ASSUME ReleaseInv, NEW e \in Evaluators, Infer(e)  PROVE ReleaseInv'
<1>1. CASE Leave(e)
  BY <1>1, QuietLeaveKeeps DEF Infer
<1>2. CASE ManifestFits(e) /\ \A c \in Cells : ResultFits(e, c)
  <2>1. PICK n \in Nat : n = own[e].record
    BY DEF ReleaseInv, TypeOK
  <2>2. /\ task[e] \in Tasks /\ task[e][1] = "infer"
        /\ Exists(Activation) /\ Current(Activation).record = n
        /\ Exists(Manifest) /\ Current(Manifest).record = n
    BY <1>2, <2>1 DEF Infer, ReleaseInv, CallInv, ManifestFits
  <2>3. Current(Manifest).ckpt = refs /\ \A c \in Cells : refs[c] # 0
    BY <2>2 DEF ReleaseInv, PublishedFits, ManifestStands
  <2>4. ASSUME NEW c \in Cells
        PROVE  /\ Exists(Result(c)) /\ Len(store[Result(c)]) = 1
               /\ Current(Result(c)) \in Results
               /\ Current(Result(c)).record = n /\ Current(Result(c)).ckpt = refs[c]
    <3>1. ResultFits(e, c)
      BY <1>2
    <3>2. Result(c) \in Keys \ {Record} /\ Bodies(Result(c)) = Results
      BY ObjectKinds
    <3>3. Exists(Result(c))
      BY <3>1 DEF ResultFits
    <3>4. Len(store[Result(c)]) = 1 /\ Current(Result(c)) \in Results
      BY <3>2, <3>3, OneVersionRead DEF ReleaseInv
    <3> QED  BY <2>1, <2>3, <3>1, <3>3, <3>4 DEF ResultFits
  <2>5. PICK f \in [Cells -> [version : Nat, prediction : Predictions]] :
          f = [c \in Cells |-> [version    |-> Len(store[Result(c)]),
                                prediction |-> Current(Result(c)).prediction]]
    <3>1. ASSUME NEW c \in Cells
          PROVE  [version    |-> Len(store[Result(c)]),
                  prediction |-> Current(Result(c)).prediction]
                   \in [version : Nat, prediction : Predictions]
      BY <2>4 DEF Results
    <3> QED  BY <3>1
  <2> DEFINE p == [record |-> n, results |-> f]
  <2>6. Sign(e, p) /\ UNCHANGED <<store, refs, lost, acks, faults>>
    BY <1>2, <2>1, <2>5 DEF Infer
  <2>7. p \in Reports
    BY DEF Reports
  <2>8. ASSUME NEW c \in Cells
        PROVE  f[c].version = 1 /\ f[c].prediction = Current(Result(c)).prediction
    BY <2>4, <2>5
  <2>9. ReportFits(p)
    BY <2>2, <2>3, <2>4, <2>8 DEF ReportFits, ResultStands
  <2>10. Target(e) = Report /\ Bodies(Target(e)) = Reports
    BY <2>2, TargetKinds, KeyKinds
  <2>11. p \in Payloads
    BY <2>7 DEF Payloads
  <2> HIDE DEF p
  <2> QED  BY <2>2, <2>6, <2>7, <2>9, <2>10, <2>11, KeyKinds, SignKeeps
<1> QED  BY <1>1, <1>2 DEF Infer

-----------------------------------------------------------------------------
(* What a call with a signed payload knows.                                *)
LEMMA PutFacts ==
  ASSUME ReleaseInv, NEW e \in Evaluators, pc[e] \in {"put", "recover"}
  PROVE  /\ task[e] \in Tasks /\ Target(e) \in Keys \ {Record} /\ PayloadFits(e)
         /\ own[e].payload \in Payloads
<1>1. task[e] \in Tasks /\ PayloadFits(e)
  BY DEF ReleaseInv, CallInv
<1> QED  BY <1>1, TargetKinds DEF PayloadFits

(* The publication is told to the caller once it is the one that is there. *)
LEMMA AcknowledgeKeeps ==
  ASSUME ReleaseInv, NEW e \in Evaluators, NEW k \in Keys \ {Record},
         k = Target(e), NEW p \in Payloads, p = own[e].payload,
         Acknowledge(e, k), Grows, PublishedFits', store'[k] = <<p>>,
         UNCHANGED <<lost, faults>>
  PROVE  ReleaseInv'
<1> DEFINE a == [key |-> k, version |-> 1, payload |-> p]
<1>1. Len(<<p>>) = 1
  OBVIOUS
<1>2. acks' = acks \cup {a}
  BY <1>1 DEF Acknowledge
<1>3. acks' \in SUBSET [key : Keys, version : Nat, payload : Payloads]
  BY <1>2 DEF ReleaseInv, TypeOK
<1>4. \A x \in acks : x.key # Record /\ x.version = 1 /\ store'[x.key] = <<x.payload>>
  <2> SUFFICES ASSUME NEW x \in acks
               PROVE  x.key # Record /\ x.version = 1 /\ store'[x.key] = <<x.payload>>
    OBVIOUS
  <2>1. x.key \in Keys \ {Record} /\ x.version = 1 /\ store[x.key] = <<x.payload>>
    BY DEF ReleaseInv, AcksStand, TypeOK
  <2>2. Exists(x.key)
    BY <2>1 DEF Exists
  <2> QED  BY <2>1, <2>2 DEF Grows
<1>5. AcksStand'
  BY <1>2, <1>4 DEF AcksStand
<1>6. Effects
  BY <1>3, <1>5 DEF Effects, ReleaseInv, TypeOK
<1> QED  BY <1>6, LeaveKeeps DEF Acknowledge

LEMMA PutSignedKeeps ==
  ASSUME ReleaseInv, NEW e \in Evaluators, PutSigned(e)  PROVE ReleaseInv'
<1>1. /\ task[e] \in Tasks /\ Target(e) \in Keys \ {Record} /\ PayloadFits(e)
      /\ own[e].payload \in Payloads
  BY PutFacts DEF PutSigned
<1>2. PICK k \in Keys \ {Record} : k = Target(e)
  BY <1>1
<1>3. PICK p \in Payloads : p = own[e].payload
  BY <1>1
<1>4. /\ p \in Bodies(k)
      /\ k = Activation => ActivationFits(p)
      /\ k = Manifest => ManifestStands(p)
      /\ k = Report => ReportFits(p)
  BY <1>1, <1>2, <1>3 DEF PayloadFits
<1>5. RefsKept /\ UNCHANGED <<refs, lost>>
  BY DEF PutSigned, RefsKept, ReleaseInv, TypeOK
<1>6. CASE /\ ~ Exists(k) /\ store' = NewVersion(k, p)
           /\ Acknowledge(e, k) /\ UNCHANGED faults
  <2>1. Grows /\ PublishedFits' /\ store'[k] = <<p>>
    BY <1>4, <1>5, <1>6, PutPublishes
  <2> QED  BY <1>2, <1>3, <1>5, <1>6, <2>1, AcknowledgeKeeps
<1>7. CASE Step(e, "recover") /\ UNCHANGED <<own, acks>>
  <2>1. faults' \in 0..MaxFaults /\ lost' \in SUBSET Cells
    <3>1. faults \in 0..MaxFaults /\ lost \in SUBSET Cells
      BY DEF ReleaseInv, TypeOK
    <3>2. faults' = faults \/ (faults < MaxFaults /\ faults' = faults + 1)
      BY DEF PutSigned, Fault
    <3> QED  BY <1>5, <3>1, <3>2, ReleaseAssumption
  <2>2. ASSUME store' = store  PROVE Effects
    BY <1>5, <1>7, <2>1, <2>2, QuietEffects
  <2>3. ASSUME ~ Exists(k), store' = NewVersion(k, p)  PROVE Effects
    BY <1>4, <1>5, <1>7, <2>1, <2>3, PutEffects
  <2>4. Effects
    BY <1>2, <1>3, <2>2, <2>3 DEF PutSigned
  <2>5. pc'[e] = "recover" /\ task' = task
    BY <1>7 DEF Step, ReleaseInv, TypeOK
  <2>6. PayloadFits(e)'
    BY <1>1, <1>7, <2>4, <2>5, PayloadKeeps DEF Effects, ReleaseInv, TypeOK
  <2>7. CallInv(e)'
    BY <1>1, <2>5, <2>6 DEF CallInv
  <2>8. own' \in [Evaluators -> [record : Nat, bundle : Bundles \cup {"none"},
                                 payload : Payloads \cup {<< >>}]]
    BY <1>7 DEF ReleaseInv, TypeOK
  <2> QED  BY <1>7, <2>4, <2>7, <2>8, StepKeeps
<1> QED  BY <1>2, <1>3, <1>6, <1>7 DEF PutSigned

LEMMA RecoverKeeps ==
  ASSUME ReleaseInv, NEW e \in Evaluators, Recover(e)  PROVE ReleaseInv'
<1>1. Target(e) \in Keys \ {Record} /\ own[e].payload \in Payloads
  BY PutFacts DEF Recover
<1>2. PICK k \in Keys \ {Record} : k = Target(e)
  BY <1>1
<1>3. PICK p \in Payloads : p = own[e].payload
  BY <1>1
<1>4. CASE Leave(e) /\ UNCHANGED acks
  BY <1>4, QuietLeaveKeeps DEF Recover
<1>5. CASE Exists(k) /\ Current(k) = p /\ Acknowledge(e, k)
  <2>1. store' = store /\ UNCHANGED <<refs, lost, faults>>
    BY DEF Recover
  <2>2. store'[k] = <<p>>
    BY <1>5, <2>1, OneVersionRead DEF ReleaseInv
  <2>3. Grows
    BY <2>1, SameGrows DEF ReleaseInv
  <2>4. PublishedFits'
    BY <2>1, <2>3, PublishedKeeps DEF Exists
  <2> QED  BY <1>2, <1>3, <1>5, <2>1, <2>2, <2>3, <2>4, AcknowledgeKeeps
<1> QED  BY <1>2, <1>3, <1>4, <1>5 DEF Recover, SamePayload

-----------------------------------------------------------------------------
LEMMA NextKeeps == ReleaseInv /\ [Next]_vars => ReleaseInv'
<1> SUFFICES ASSUME ReleaseInv, [Next]_vars  PROVE ReleaseInv'
  OBVIOUS
<1>1. ASSUME NEW e \in Evaluators, Work(e)  PROVE ReleaseInv'
  BY <1>1, AuthorizeKeeps, PutObjectsKeep, BuildActivationKeeps, LoadKeeps,
     BuildManifestKeeps, EvaluateKeeps, InferKeeps, PutSignedKeeps, RecoverKeeps
     DEF Work
<1>2. CASE UNCHANGED vars
  <2>1. Effects
    BY <1>2, QuietEffects DEF vars, ReleaseInv, TypeOK
  <2> QED  BY <1>2, <2>1, OutsideKeeps DEF vars
<1> QED
  BY <1>1, <1>2, UploadKeeps, PutCheckpointKeeps, CallKeeps, GiveUpKeeps DEF Next

LEMMA AlwaysInv == Spec => []ReleaseInv
  BY InitEstablishes, NextKeeps, PTL DEF Spec

(* Every variable holds a value of its kind: under each key, versions of   *)
(* what that key is for.                                                   *)
THEOREM TypeCorrect == Spec => []TypeOK
<1>1. ReleaseInv => TypeOK
  BY DEF ReleaseInv
<1> QED  BY <1>1, AlwaysInv, PTL

(* What a caller was told is published is there, and all were told the     *)
(* same, whoever raced whom and whatever answer was lost                   *)
(* (aws_authority.py put_activation, _put_signed_task3).                   *)
THEOREM AcksAlwaysAgree == Spec => []AcksAgree
<1>1. ASSUME ReleaseInv  PROVE AcksAgree
  <2> SUFFICES ASSUME NEW a \in acks
               PROVE  Len(store[a.key]) = a.version /\ Current(a.key) = a.payload
    BY DEF AcksAgree
  <2>1. a.version = 1 /\ store[a.key] = <<a.payload>>
    BY <1>1 DEF ReleaseInv, AcksStand
  <2>2. Len(<<a.payload>>) = 1 /\ <<a.payload>>[1] = a.payload
    OBVIOUS
  <2> QED  BY <2>1, <2>2 DEF Current
<1> QED  BY <1>1, AlwaysInv, PTL

(* A report stands on one whole release, and goes on doing so, though the  *)
(* administrator uploads the record again and calls of any age go on       *)
(* (reporting.py _read_checkpoint_results, sealing.py                      *)
(* _publish_release_to_aws).                                               *)
THEOREM ReportAlwaysStands == Spec => []ReportStands
<1>1. ASSUME ReleaseInv  PROVE ReportStands
  <2>1. ActivationIsWhole
    <3> SUFFICES ASSUME Exists(Activation), NEW a, a = Current(Activation)
                 PROVE  /\ a.model \in DOMAIN store[Model(a.bundle)]
                        /\ a.gold \in DOMAIN store[Gold(a.bundle)]
      BY DEF ActivationIsWhole
    <3>1. ActivationFits(a)
      BY <1>1 DEF ReleaseInv, PublishedFits
    <3>2. ASSUME NEW k \in Keys \ {Record}, Exists(k)  PROVE 1 \in DOMAIN store[k]
      BY <1>1, <3>2, OneVersionRead, LenProperties DEF ReleaseInv, TypeOK
    <3> QED  BY <3>1, <3>2, ObjectKinds DEF ActivationFits
  <2>2. ASSUME Exists(Report)  PROVE ReportFits(Current(Report))
    BY <1>1, <2>2 DEF ReleaseInv, PublishedFits
  <2>3. ASSUME NEW c \in Cells, Exists(Result(c))
        PROVE  store[Result(c)][1] = Current(Result(c))
    BY <1>1, <2>3, ObjectKinds, OneVersionRead DEF ReleaseInv
  <2> QED  BY <2>1, <2>2, <2>3 DEF ReportStands, ReportFits, ResultStands
<1> QED  BY <1>1, AlwaysInv, PTL
-----------------------------------------------------------------------------
(***************************************************************************)
(* The corpus the runs train on is staged beside the release               *)
(* (CorpusStaging), for any objects, uploaders, stagers, kills, rebuilds,  *)
(* S3 errors and power cuts.                                               *)
(*                                                                         *)
(* A published tree is right because nobody but its stager writes to the   *)
(* temporary tree between the verification and the rename: InHand needs    *)
(* that no two stagers have the same number (OwnNumber).  An uploader's    *)
(* answer adds up what it saw at each object while others wrote: Seen      *)
(* holds because an object once named by the manifest stays so, and an     *)
(* uploader that is about to copy does not stand at an object of another   *)
(* name.                                                                   *)
(***************************************************************************)
Named(o) == bucket[o].claims = "frozen"

(* A stager has a number while it works, and no other stager has it.       *)
OwnNumber ==
  /\ \A s \in Stagers : /\ place[s] \in {"idle", "away"} \cup StageSteps
                        /\ pid[s] # 0 <=> place[s] \in StageSteps
  /\ \A s, t \in Stagers : pid[s] = pid[t] /\ pid[s] # 0 => s = t

(* What a stager has under its temporary name.                             *)
InHand ==
  \A s \in Stagers :
    /\ place[s] \in {"download", "verify"} => TempOf(s) \in Trees /\ ~ TempOf(s).receipt
    /\ place[s] = "publish" => TempOf(s) = FrozenTree

(* What an uploader has seen.                                              *)
Seen ==
  \A u \in Uploaders :
    /\ place[u] \in {"idle", "away"} \cup UploadSteps
    /\ place[u] \in {"idle", "away"} => next[u] = 1
    /\ place[u] \in {"head", "copy", "head again"} =>
         \A o \in Objects : o < next[u] => Named(o)
    /\ place[u] \in {"copy", "head again"} => bucket[next[u]].claims # "other"
    /\ place[u] = "end" \/ last[u] = "ok" => \A o \in Objects : Named(o)

StagingInv ==
  /\ StagingAssumption
  /\ StagingTypeOK /\ OwnNumber /\ InHand /\ PublishedIsFrozen /\ Seen

(* No uploader replaces what an object claims to be.                       *)
IdentitiesStay ==
  [][\A o \in Objects : bucket[o] # Absent => bucket'[o].claims = bucket[o].claims
    ]_stagingVars

-----------------------------------------------------------------------------
(* The objects, the trees.                                                 *)
LEMMA ObjectsAre ==
  ASSUME StagingAssumption
  PROVE  /\ ObjectCount \in Nat \ {0}
         /\ Objects = 1..ObjectCount
         /\ 1 \in Objects /\ ObjectCount \in Objects
BY DEF StagingAssumption, Objects

LEMMA TreesAre ==
  ASSUME StagingAssumption
  PROVE  /\ FrozenTree \in Trees /\ FrozenTree # NoTree
         /\ Bare \in Trees /\ ~ Bare.receipt
<1>1. FrozenTree \in Trees /\ Bare \in Trees /\ ~ Bare.receipt
  BY DEF FrozenTree, Bare, Trees, Contents
<1>2. Objects # {}
  BY ObjectsAre
<1>3. FrozenTree.objects = Objects /\ NoTree.objects = {}
  BY DEF FrozenTree, NoTree
<1> QED BY <1>1, <1>2, <1>3

(* A tree that IsWhole is the frozen one.                                  *)
LEMMA WholeIsFrozen ==
  ASSUME NEW t \in Trees, IsWhole(t, FALSE)
  PROVE  [t EXCEPT !.receipt = TRUE] = FrozenTree
<1>1. /\ t = [objects |-> t.objects, receipt |-> t.receipt, bytes |-> t.bytes]
      /\ t.bytes \in [Objects -> Contents]
  BY DEF Trees
<1>2. t.objects = Objects /\ \A o \in Objects : t.bytes[o] = "frozen"
  BY DEF IsWhole, HasNames
<1>3. t.bytes = [o \in Objects |-> "frozen"]
  BY <1>1, <1>2
<1>4. \A v : [t EXCEPT !.receipt = v] =
              [objects |-> t.objects, receipt |-> v, bytes |-> t.bytes]
  BY <1>1
<1> QED BY <1>2, <1>3, <1>4 DEF FrozenTree

LEMMA ReceivedTree ==
  ASSUME NEW t \in Trees, NEW o \in Objects, NEW b \in Contents
  PROVE  Received(t, o, b) \in Trees /\ Received(t, o, b).receipt = t.receipt
<1> DEFINE w == [t EXCEPT !.objects = t.objects \cup {o}]
<1>1. w \in Trees /\ w.receipt = t.receipt
  BY DEF Trees
<1>2. [w.bytes EXCEPT ![o] = b] \in [Objects -> Contents]
  BY <1>1 DEF Trees
<1>3. Received(t, o, b) = [w EXCEPT !.bytes = [w.bytes EXCEPT ![o] = b]]
  BY DEF Received
<1> HIDE DEF w
<1>4. [w EXCEPT !.bytes = [w.bytes EXCEPT ![o] = b]] \in Trees
  BY <1>1, <1>2 DEF Trees
<1>5. [w EXCEPT !.bytes = [w.bytes EXCEPT ![o] = b]].receipt = w.receipt
  BY <1>1 DEF Trees
<1> QED BY <1>1, <1>3, <1>4, <1>5

-----------------------------------------------------------------------------
(* What a step does to the place and the last answer of its process.       *)
Labels  == {"idle", "away"} \cup UploadSteps \cup StageSteps
Answers == {"none", "ok", "error", "killed"}

Sets(p, step, at, how) ==
  /\ place' = [place EXCEPT ![p] = step]
  /\ next' = [next EXCEPT ![p] = at]
  /\ last' = [last EXCEPT ![p] = how]

PlacesTyped ==
  /\ place \in [Processes -> Labels] /\ next \in [Processes -> Objects]
  /\ last \in [Processes -> Answers]

StoresTyped ==
  /\ source \in [Objects -> Contents]
  /\ bucket \in [Objects -> [claims : ManifestKinds, bytes : Contents] \cup {Absent}]
  /\ temp \in [Pids -> Trees \cup {NoTree}] /\ dest \in Trees \cup {NoTree}
  /\ synced \in BOOLEAN /\ cut \in BOOLEAN
  /\ pid \in [Stagers -> Pids \cup {0}]
  /\ failures \in 0..MaxFailures

LEMMA TypeParts == StagingTypeOK <=> PlacesTyped /\ StoresTyped
BY DEF StagingTypeOK, PlacesTyped, StoresTyped, Labels, Answers

LEMMA SetsEffect ==
  ASSUME PlacesTyped, NEW p \in Processes, NEW step \in Labels,
         NEW at \in Objects, NEW how \in Answers, Sets(p, step, at, how)
  PROVE  /\ PlacesTyped'
         /\ place'[p] = step /\ next'[p] = at /\ last'[p] = how
         /\ \A q \in Processes \ {p} :
              place'[q] = place[q] /\ next'[q] = next[q] /\ last'[q] = last[q]
BY DEF PlacesTyped, Sets

LEMMA GotoSets ==
  ASSUME PlacesTyped, NEW p \in Processes, NEW step, Goto(p, step)
  PROVE  Sets(p, step, next[p], last[p]) /\ next[p] \in Objects /\ last[p] \in Answers
BY DEF PlacesTyped, Goto, Sets

LEMMA ReturnSets ==
  ASSUME PlacesTyped, NEW p \in Processes, NEW how, Return(p, how)
  PROVE  Sets(p, "idle", 1, how)
BY DEF PlacesTyped, Return, Sets

LEMMA AdvanceSets ==
  ASSUME StagingAssumption, PlacesTyped, NEW p \in Processes, NEW again, NEW done,
         Advance(p, again, done)
  PROVE  /\ last[p] \in Answers /\ next[p] \in Objects
         /\ \/ next[p] = ObjectCount /\ Sets(p, done, 1, last[p])
            \/ /\ next[p] # ObjectCount /\ next[p] + 1 \in Objects
               /\ Sets(p, again, next[p] + 1, last[p])
<1>1. next[p] \in Objects /\ last[p] \in Answers /\ last' = [last EXCEPT ![p] = last[p]]
  BY DEF PlacesTyped, Advance
<1>1a. ASSUME NEW n \in Nat \ {0}, NEW k \in 1..n
      PROVE  (k < n <=> k # n) /\ (k # n => k + 1 \in 1..n)
  OBVIOUS
<1>4. (next[p] < ObjectCount <=> next[p] # ObjectCount)
      /\ (next[p] # ObjectCount => next[p] + 1 \in Objects)
  BY <1>1, <1>1a, ObjectsAre
<1>2. CASE next[p] = ObjectCount
  <2>1. next' = [next EXCEPT ![p] = 1] /\ place' = [place EXCEPT ![p] = done]
    BY <1>2, <1>4 DEF Advance
  <2> QED BY <1>1, <1>2, <2>1 DEF Sets
<1>3. CASE next[p] # ObjectCount
  <2>1. next' = [next EXCEPT ![p] = next[p] + 1] /\ place' = [place EXCEPT ![p] = again]
    BY <1>1, <1>3, <1>4 DEF Advance
  <2>2. next[p] + 1 \in Objects
    BY <1>3, <1>4
  <2> QED BY <1>1, <1>3, <2>1, <2>2 DEF Sets
<1> QED BY <1>2, <1>3

LEMMA FaultsTyped ==
  ASSUME StagingAssumption, StoresTyped, Failure \/ NoFailure
  PROVE  failures' \in 0..MaxFailures
<1>1. CASE NoFailure
  BY <1>1 DEF NoFailure, StoresTyped
<1>2. CASE Failure
  <2>1. failures \in 0..MaxFailures /\ failures < MaxFailures /\ failures' = failures + 1
    BY <1>2 DEF Failure, StoresTyped
  <2>2. MaxFailures \in Nat
    BY DEF StagingAssumption
  <2> QED BY <2>1, <2>2
<1> QED BY <1>1, <1>2

-----------------------------------------------------------------------------
(* The types are kept.                                                     *)
LEMMA PlacesKept ==
  ASSUME StagingAssumption, StagingTypeOK, StagingNext
  PROVE  PlacesTyped'
<1>0. PlacesTyped /\ 1 \in Objects
  BY TypeParts, ObjectsAre
<1>1. ASSUME NEW p \in Processes, NEW step \in Labels, Goto(p, step)
      PROVE  PlacesTyped'
  BY <1>0, <1>1, GotoSets, SetsEffect
<1>2. ASSUME NEW p \in Processes, NEW how \in Answers, Return(p, how)
      PROVE  PlacesTyped'
  <2>1. Sets(p, "idle", 1, how) /\ "idle" \in Labels
    BY <1>0, <1>2, ReturnSets DEF Labels
  <2> QED BY <1>0, <2>1, SetsEffect
<1>3. ASSUME NEW p \in Processes, NEW again \in Labels, NEW done \in Labels,
             Advance(p, again, done)
      PROVE  PlacesTyped'
  BY <1>0, <1>3, AdvanceSets, SetsEffect
<1>4. /\ {"head", "copy", "head again", "end", "download", "verify",
           "publish", "sync", "look"} \subseteq Labels
      /\ {"error", "ok", "killed"} \subseteq Answers
  BY DEF Labels, Answers, UploadSteps, StageSteps
<1>5. ASSUME NEW u \in Uploaders,
             \/ \E m \in ManifestKinds : UploadCall(u, m)
             \/ HeadObject(u) \/ Copy(u) \/ HeadAgain(u) \/ UploadEnd(u)
      PROVE  PlacesTyped'
  <2>1. u \in Processes
    BY DEF Processes
  <2>2. \/ Goto(u, "head") \/ Goto(u, "copy") \/ Goto(u, "head again")
        \/ Return(u, "error") \/ Return(u, "ok") \/ Advance(u, "head", "end")
    BY <1>5 DEF UploadCall, HeadObject, Copy, HeadAgain, UploadEnd
  <2> QED BY <1>1, <1>2, <1>3, <1>4, <2>1, <2>2
<1>6. ASSUME NEW s \in Stagers,
             \/ \E m \in ManifestKinds, n \in Pids : StageCall(s, m, n)
             \/ Download(s) \/ WriteReceipt(s) \/ Publish(s) \/ SyncParent(s)
             \/ Look(s)
      PROVE  PlacesTyped'
  <2>1. s \in Processes
    BY DEF Processes
  <2>2. \/ Goto(s, "look") \/ Goto(s, "download") \/ Goto(s, "publish")
        \/ Goto(s, "sync") \/ Return(s, "error") \/ Return(s, "ok")
        \/ Advance(s, "download", "verify")
    BY <1>6 DEF StageCall, Download, WriteReceipt, Publish, SyncParent, Look,
       Withdraw, Discard
  <2> QED BY <1>1, <1>2, <1>3, <1>4, <2>1, <2>2
<1>7. ASSUME NEW p \in Processes, Kill(p) PROVE PlacesTyped'
  BY <1>2, <1>4, <1>7 DEF Kill
<1>8. ASSUME NEW o \in Objects, Rebuild(o) PROVE PlacesTyped'
  BY <1>0, <1>8 DEF Rebuild, PlacesTyped
<1>9. CASE PowerCut
  BY <1>0, <1>9 DEF PowerCut, PlacesTyped, Labels, Answers
<1> QED BY <1>5, <1>6, <1>7, <1>8, <1>9 DEF StagingNext

LEMMA StoresKept ==
  ASSUME StagingAssumption, StagingTypeOK, InHand, OwnNumber, StagingNext
  PROVE  StoresTyped'
<1>0. StoresTyped /\ PlacesTyped
  BY TypeParts
<1>f. failures' \in 0..MaxFailures
  <2>1. Failure \/ NoFailure
    BY DEF StagingNext, UploadCall, HeadObject, Copy, HeadAgain, UploadEnd, StageCall,
       Download, WriteReceipt, Publish, SyncParent, Look, Rebuild,
       Kill, PowerCut
  <2> QED BY <1>0, <2>1, FaultsTyped
<1>1. CASE UNCHANGED <<source, bucket, temp, dest, synced, cut>> /\ pid' = pid
  BY <1>0, <1>f, <1>1 DEF StoresTyped
<1>2. ASSUME NEW u \in Uploaders, Copy(u) PROVE StoresTyped'
  <2>1. next[u] \in Objects
    BY <1>0 DEF PlacesTyped, Processes
  <2>2. [claims |-> "frozen", bytes |-> source[next[u]]] \in
          [claims : ManifestKinds, bytes : Contents]
    BY <1>0, <2>1 DEF StoresTyped, ManifestKinds
  <2>3. bucket' \in
          [Objects -> [claims : ManifestKinds, bytes : Contents] \cup {Absent}]
    BY <1>0, <1>2, <2>2 DEF Copy, StoresTyped
  <2>4. UNCHANGED <<source, temp, dest, synced, pid, cut>>
    BY <1>2 DEF Copy
  <2> QED BY <1>0, <1>f, <2>3, <2>4 DEF StoresTyped
<1>3. ASSUME NEW s \in Stagers, NEW m \in ManifestKinds, NEW n \in Pids, StageCall(s, m, n)
      PROVE  StoresTyped'
  <2>1. UNCHANGED <<source, bucket, dest, synced, cut>>
    BY <1>3 DEF StageCall
  <2>2. temp' \in [Pids -> Trees \cup {NoTree}]
    <3>1. Bare \in Trees
      BY TreesAre
    <3>2. temp' = temp \/ temp' = [temp EXCEPT ![n] = Bare]
      BY <1>3 DEF StageCall
    <3> QED BY <1>0, <3>1, <3>2 DEF StoresTyped
  <2>3. pid' \in [Stagers -> Pids \cup {0}]
    BY <1>0, <1>3 DEF StageCall, StoresTyped
  <2> QED BY <1>0, <1>f, <2>1, <2>2, <2>3 DEF StoresTyped
<1>4. ASSUME NEW s \in Stagers, Discard(s)
      PROVE  /\ temp' \in [Pids -> Trees \cup {NoTree}]
             /\ pid' \in [Stagers -> Pids \cup {0}]
  <2>1. temp' \in [Pids -> Trees \cup {NoTree}]
    BY <1>0, <1>4 DEF Discard, StoresTyped
  <2>2. pid' \in [Stagers -> Pids \cup {0}]
    BY <1>0, <1>4 DEF Discard, Withdraw, StoresTyped
  <2> QED BY <2>1, <2>2
<1>5. ASSUME NEW s \in Stagers, Download(s) PROVE StoresTyped'
  <2>1. UNCHANGED <<source, bucket, dest, synced, cut>>
    BY <1>5 DEF Download
  <2>2. CASE Discard(s)
    BY <1>0, <1>4, <1>f, <2>1, <2>2 DEF StoresTyped
  <2>3. CASE /\ bucket[next[s]] # Absent
             /\ temp' = [temp EXCEPT ![pid[s]] =
                                       Received(@, next[s], bucket[next[s]].bytes)]
             /\ UNCHANGED pid
    <3>1. TempOf(s) \in Trees /\ next[s] \in Objects
      BY <1>0, <1>5 DEF InHand, Download, PlacesTyped, Processes
    <3>2. bucket[next[s]].bytes \in Contents
      BY <1>0, <2>3, <3>1 DEF StoresTyped
    <3>3. temp' = [temp EXCEPT ![pid[s]] =
                     Received(TempOf(s), next[s], bucket[next[s]].bytes)]
      BY <2>3 DEF TempOf
    <3>4. temp' \in [Pids -> Trees \cup {NoTree}]
      BY <1>0, <3>1, <3>2, <3>3, ReceivedTree DEF StoresTyped
    <3> QED BY <1>0, <1>f, <2>1, <2>3, <3>4 DEF StoresTyped
  <2> QED BY <1>5, <2>2, <2>3 DEF Download
<1>6. ASSUME NEW s \in Stagers, WriteReceipt(s) PROVE StoresTyped'
  <2>1. UNCHANGED <<source, bucket, dest, synced, cut>>
    BY <1>6 DEF WriteReceipt
  <2>2. CASE Discard(s)
    BY <1>0, <1>4, <1>f, <2>1, <2>2 DEF StoresTyped
  <2>3. CASE temp' = [temp EXCEPT ![pid[s]].receipt = TRUE] /\ UNCHANGED pid
             /\ IsWhole(TempOf(s), FALSE)
    <3>1. TempOf(s) \in Trees
      BY <1>6 DEF InHand, WriteReceipt
    <3>2. temp' = [temp EXCEPT ![pid[s]] = FrozenTree]
      <4>1. [TempOf(s) EXCEPT !.receipt = TRUE] = FrozenTree
        BY <2>3, <3>1, WholeIsFrozen
      <4>2. temp' = [temp EXCEPT ![pid[s]] = [temp[pid[s]] EXCEPT !.receipt = TRUE]]
        BY <2>3
      <4> QED BY <4>1, <4>2 DEF TempOf
    <3>3. temp' \in [Pids -> Trees \cup {NoTree}]
      BY <1>0, <3>2, TreesAre DEF StoresTyped
    <3> QED BY <1>0, <1>f, <2>1, <2>3, <3>3 DEF StoresTyped
  <2> QED BY <1>6, <2>2, <2>3 DEF WriteReceipt
<1>7. ASSUME NEW s \in Stagers, Publish(s) PROVE StoresTyped'
  <2>1. UNCHANGED <<source, bucket, synced, cut>>
    BY <1>7 DEF Publish
  <2>2. CASE Discard(s) /\ UNCHANGED dest
    BY <1>0, <1>4, <1>f, <2>1, <2>2 DEF StoresTyped
  <2>3. CASE /\ dest' = TempOf(s) /\ temp' = [temp EXCEPT ![pid[s]] = NoTree]
             /\ UNCHANGED pid
    <3>1. dest' \in Trees
      BY <1>7, <2>3, TreesAre DEF InHand, Publish
    <3>2. temp' \in [Pids -> Trees \cup {NoTree}]
      BY <1>0, <2>3 DEF StoresTyped
    <3> QED BY <1>0, <1>f, <2>1, <2>3, <3>1, <3>2 DEF StoresTyped
  <2> QED BY <1>7, <2>2, <2>3 DEF Publish
<1>8. ASSUME NEW s \in Stagers, SyncParent(s) PROVE StoresTyped'
  BY <1>0, <1>f, <1>8 DEF SyncParent, StoresTyped
<1>9. ASSUME NEW s \in Stagers, Look(s) PROVE StoresTyped'
  <2>1. pid' = [pid EXCEPT ![s] = 0] /\ UNCHANGED <<source, bucket, temp, dest, synced, cut>>
    BY <1>9 DEF Look, Withdraw
  <2> QED BY <1>0, <1>f, <2>1 DEF StoresTyped
<1>10. ASSUME NEW o \in Objects, Rebuild(o) PROVE StoresTyped'
  BY <1>0, <1>f, <1>10 DEF Rebuild, StoresTyped, Contents
<1>11. ASSUME NEW p \in Processes, Kill(p) PROVE StoresTyped'
  BY <1>0, <1>f, <1>11 DEF Kill, StoresTyped
<1>12. CASE PowerCut
  <2>1. dest' \in Trees \cup {NoTree}
    <3>1. CASE dest' = NoTree
      BY <3>1
    <3>2. ASSUME NEW torn \in SUBSET Objects,
                 dest' = [dest EXCEPT !.bytes =
                            [o \in Objects |-> IF o \in torn THEN "torn" ELSE @[o]]]
          PROVE  dest' \in Trees
      <4>1. dest \in Trees
        BY <1>0, <1>12 DEF PowerCut, StoresTyped
      <4>2. [o \in Objects |-> IF o \in torn THEN "torn" ELSE dest.bytes[o]]
              \in [Objects -> Contents]
        BY <4>1 DEF Trees, Contents
      <4> QED BY <3>2, <4>1, <4>2 DEF Trees
    <3> QED BY <1>12, <3>1, <3>2 DEF PowerCut
  <2>2. /\ UNCHANGED <<source, bucket, temp, synced>>
        /\ cut' = TRUE /\ pid' = [s \in Stagers |-> 0]
    BY <1>12 DEF PowerCut
  <2> QED BY <1>0, <1>f, <2>1, <2>2 DEF StoresTyped
<1>13. ASSUME NEW u \in Uploaders,
              \/ \E m \in ManifestKinds : UploadCall(u, m)
              \/ HeadObject(u) \/ HeadAgain(u) \/ UploadEnd(u)
       PROVE  StoresTyped'
  BY <1>1, <1>13 DEF UploadCall, HeadObject, HeadAgain, UploadEnd
<1> QED BY <1>2, <1>3, <1>5, <1>6, <1>7, <1>8, <1>9, <1>10, <1>11, <1>12, <1>13
        DEF StagingNext

-----------------------------------------------------------------------------
(* The stagers.                                                            *)
Stagings == OwnNumber /\ InHand /\ PublishedIsFrozen

(* No stager is moved, and its tree is not written to.                     *)
LEMMA StagersKept ==
  ASSUME StagingInv, UNCHANGED <<temp, dest, pid, cut>>,
         \A s \in Stagers : place'[s] = place[s]
  PROVE  Stagings'
<1>1. OwnNumber'
  BY DEF StagingInv, OwnNumber
<1>2. InHand'
  BY DEF StagingInv, InHand, TempOf
<1>3. PublishedIsFrozen'
  BY DEF StagingInv, PublishedIsFrozen
<1> QED BY <1>1, <1>2, <1>3 DEF Stagings

(* One is moved, and what the others have is not written to.               *)
OthersLeft(s) ==
  \A t \in Stagers \ {s} : /\ place'[t] = place[t] /\ pid'[t] = pid[t]
                           /\ pid[t] # 0 => temp'[pid[t]] = temp[pid[t]]

Holds(s) ==
  /\ place'[s] \in {"idle", "away"} \cup StageSteps
  /\ pid'[s] # 0 <=> place'[s] \in StageSteps
  /\ \A t \in Stagers \ {s} : pid'[s] # 0 => pid[t] # pid'[s]
  /\ place'[s] \in {"download", "verify"} =>
       temp'[pid'[s]] \in Trees /\ ~ temp'[pid'[s]].receipt
  /\ place'[s] = "publish" => temp'[pid'[s]] = FrozenTree

LEMMA StagerStep ==
  ASSUME OwnNumber, InHand, NEW s \in Stagers, OthersLeft(s), Holds(s)
  PROVE  OwnNumber' /\ InHand'
<1>1. ASSUME NEW t \in Stagers
      PROVE  /\ place'[t] \in {"idle", "away"} \cup StageSteps
             /\ pid'[t] # 0 <=> place'[t] \in StageSteps
  BY DEF OwnNumber, OthersLeft, Holds
<1>2. ASSUME NEW t \in Stagers, NEW w \in Stagers, pid'[t] = pid'[w], pid'[t] # 0
      PROVE  t = w
  BY <1>2 DEF OwnNumber, OthersLeft, Holds
<1>3. ASSUME NEW t \in Stagers
      PROVE  /\ place'[t] \in {"download", "verify"} =>
                  temp'[pid'[t]] \in Trees /\ ~ temp'[pid'[t]].receipt
             /\ place'[t] = "publish" => temp'[pid'[t]] = FrozenTree
  <2>1. CASE t = s
    BY <2>1 DEF Holds
  <2>2. CASE t # s
    <3>1. /\ place'[t] = place[t] /\ pid'[t] = pid[t]
          /\ pid[t] # 0 => temp'[pid[t]] = temp[pid[t]]
      BY <2>2 DEF OthersLeft
    <3>2. place[t] \in StageSteps => pid[t] # 0
      BY DEF OwnNumber
    <3>3. {"download", "verify", "publish"} \subseteq StageSteps
      BY DEF StageSteps
    <3> QED BY <3>1, <3>2, <3>3 DEF InHand, TempOf
  <2> QED BY <2>1, <2>2
<1>4. OwnNumber'
  BY <1>1, <1>2 DEF OwnNumber
<1>5. InHand'
  BY <1>3 DEF InHand, TempOf
<1> QED BY <1>4, <1>5

LEMMA StageSets ==
  ASSUME StagingInv, NEW s \in Stagers, NEW step \in Labels, NEW at \in Objects,
         NEW how \in Answers, Sets(s, step, at, how)
  PROVE  /\ place'[s] = step /\ next'[s] = at
         /\ \A t \in Stagers \ {s} : place'[t] = place[t]
         /\ \A u \in Uploaders :
          place'[u] = place[u] /\ next'[u] = next[u] /\ last'[u] = last[u]
<1>1. PlacesTyped /\ s \in Processes /\ Uploaders \cap Stagers = {}
  BY TypeParts DEF StagingInv, Processes, StagingAssumption
<1>2. \A q \in Processes \ {s} :
          place'[q] = place[q] /\ next'[q] = next[q] /\ last'[q] = last[q]
  BY <1>1, SetsEffect
<1>3. place'[s] = step /\ next'[s] = at
  BY <1>1, SetsEffect
<1> QED BY <1>1, <1>2, <1>3 DEF Processes

(* An error removes the temporary tree and gives the number back.          *)
LEMMA DiscardKept ==
  ASSUME StagingInv, NEW s \in Stagers, pid[s] # 0, Discard(s)
  PROVE  OwnNumber' /\ InHand'
<1>0. /\ StagingAssumption /\ StagingTypeOK /\ OwnNumber /\ InHand /\ s \in Processes
      /\ PlacesTyped /\ StoresTyped
  BY TypeParts DEF StagingInv, Processes
<1>1. Sets(s, "idle", 1, "error") /\ 1 \in Objects /\ "idle" \in Labels /\ "error" \in Answers
  BY <1>0, ReturnSets, ObjectsAre DEF Discard, Withdraw, Labels, Answers
<1>2. place'[s] = "idle" /\ \A t \in Stagers \ {s} : place'[t] = place[t]
  BY <1>1, StageSets
<1>3. pid'[s] = 0 /\ \A t \in Stagers \ {s} : pid'[t] = pid[t]
  BY <1>0 DEF Discard, Withdraw, StoresTyped
<1>4. \A t \in Stagers \ {s} : pid[t] # 0 => temp'[pid[t]] = temp[pid[t]]
  <2>1. \A t \in Stagers \ {s} : pid[t] # 0 => pid[t] # pid[s] /\ pid[t] \in Pids
    BY <1>0 DEF OwnNumber, StoresTyped
  <2> QED BY <1>0, <2>1 DEF Discard, StoresTyped
<1>5. OthersLeft(s)
  BY <1>2, <1>3, <1>4 DEF OthersLeft
<1>6. Holds(s)
  BY <1>2, <1>3 DEF Holds, StageSteps
<1> QED BY <1>0, <1>5, <1>6, StagerStep

(* A step to another of the stager's own, with its number.                 *)
LEMMA MoveKept ==
  ASSUME StagingInv, NEW s \in Stagers, pid[s] # 0, pid' = pid,
         NEW step \in StageSteps, place'[s] = step,
         \A t \in Stagers \ {s} : place'[t] = place[t],
         \A n \in Pids \ {pid[s]} : temp'[n] = temp[n],
         step \in {"download", "verify"} =>
           temp'[pid[s]] \in Trees /\ ~ temp'[pid[s]].receipt,
         step = "publish" => temp'[pid[s]] = FrozenTree
  PROVE  OwnNumber' /\ InHand'
<1>0. OwnNumber /\ InHand /\ StoresTyped
  BY TypeParts DEF StagingInv
<1>1. \A t \in Stagers \ {s} : pid[t] # 0 => pid[t] \in Pids \ {pid[s]}
  BY <1>0 DEF OwnNumber, StoresTyped
<1>2. OthersLeft(s)
  BY <1>1 DEF OthersLeft
<1>3. Holds(s)
  BY <1>0, <1>1 DEF Holds
<1> QED BY <1>0, <1>2, <1>3, StagerStep

LEMMA StageCallKept ==
  ASSUME StagingInv, NEW s \in Stagers, NEW m \in ManifestKinds, NEW n \in Pids,
         StageCall(s, m, n)
  PROVE  Stagings'
<1>0. /\ StagingAssumption /\ StagingTypeOK /\ OwnNumber /\ InHand /\ s \in Processes
      /\ PlacesTyped /\ StoresTyped /\ PublishedIsFrozen
  BY TypeParts DEF StagingInv, Processes
<1>1. PublishedIsFrozen'
  BY <1>0 DEF StageCall, PublishedIsFrozen
<1>2. place[s] = "idle" /\ pid[s] = 0 /\ \A t \in Stagers : pid[t] # n
  BY <1>0 DEF StageCall, OwnNumber, StageSteps
<1>3. n # 0
  BY <1>0 DEF StagingAssumption
<1>4. CASE Return(s, "error") /\ UNCHANGED <<pid, temp>>
  <2>1. Sets(s, "idle", 1, "error") /\ 1 \in Objects /\ "idle" \in Labels /\ "error" \in Answers
    BY <1>0, <1>4, ReturnSets, ObjectsAre DEF Labels, Answers
  <2>2. place'[s] = "idle" /\ \A t \in Stagers \ {s} : place'[t] = place[t]
    BY <2>1, StageSets
  <2>3. OthersLeft(s) /\ Holds(s)
    BY <1>2, <1>4, <2>2 DEF OthersLeft, Holds, StageSteps
  <2> QED BY <1>0, <1>1, <2>3, StagerStep DEF Stagings
<1>5. ASSUME NEW step \in {"look", "download"}, Goto(s, step),
             pid' = [pid EXCEPT ![s] = n],
             step = "look" => UNCHANGED temp,
             step = "download" => temp' = [temp EXCEPT ![n] = Bare]
      PROVE  Stagings'
  <2>1. Sets(s, step, next[s], last[s]) /\ next[s] \in Objects /\ last[s] \in Answers
    BY <1>0, <1>5, GotoSets
  <2>2. step \in Labels
    BY DEF Labels, StageSteps
  <2>3. place'[s] = step /\ \A t \in Stagers \ {s} : place'[t] = place[t]
    BY <2>1, <2>2, StageSets
  <2>4. pid'[s] = n /\ \A t \in Stagers \ {s} : pid'[t] = pid[t]
    BY <1>0, <1>5 DEF StoresTyped
  <2>5. \A q \in Pids \ {n} : temp'[q] = temp[q]
    BY <1>0, <1>5 DEF StoresTyped
  <2>6. OthersLeft(s)
    BY <1>0, <1>2, <2>3, <2>4, <2>5 DEF OthersLeft, StoresTyped
  <2>7. step = "download" => temp'[n] \in Trees /\ ~ temp'[n].receipt
    BY <1>0, <1>5, TreesAre DEF StoresTyped
  <2>8. Holds(s)
    BY <1>2, <1>3, <2>3, <2>4, <2>7 DEF Holds, StageSteps
  <2> QED BY <1>0, <1>1, <2>6, <2>8, StagerStep DEF Stagings
<1> QED BY <1>4, <1>5 DEF StageCall

LEMMA DownloadKept ==
  ASSUME StagingInv, NEW s \in Stagers, Download(s)
  PROVE  Stagings'
<1>0. /\ StagingAssumption /\ StagingTypeOK /\ OwnNumber /\ InHand /\ s \in Processes
      /\ PlacesTyped /\ StoresTyped /\ PublishedIsFrozen
  BY TypeParts DEF StagingInv, Processes
<1>1. PublishedIsFrozen'
  BY <1>0 DEF Download, PublishedIsFrozen
<1>2. place[s] = "download" /\ pid[s] # 0 /\ pid[s] \in Pids
  BY <1>0 DEF Download, OwnNumber, StageSteps, StoresTyped
<1>3. CASE Discard(s)
  BY <1>1, <1>2, <1>3, DiscardKept DEF Stagings
<1>4. CASE /\ bucket[next[s]] # Absent
           /\ temp' = [temp EXCEPT ![pid[s]] = Received(@, next[s], bucket[next[s]].bytes)]
           /\ Advance(s, "download", "verify") /\ UNCHANGED pid
  <2>1. PICK step \in {"download", "verify"}, at \in Objects : Sets(s, step, at, last[s])
    BY <1>0, <1>4, AdvanceSets, ObjectsAre
  <2>2. step \in Labels /\ step \in StageSteps /\ last[s] \in Answers
    BY <1>0 DEF Labels, StageSteps, PlacesTyped
  <2>3. place'[s] = step /\ \A t \in Stagers \ {s} : place'[t] = place[t]
    BY <2>1, <2>2, StageSets
  <2>4. TempOf(s) \in Trees /\ ~ TempOf(s).receipt /\ next[s] \in Objects
    BY <1>0, <1>2 DEF InHand, PlacesTyped
  <2>5. bucket[next[s]].bytes \in Contents
    BY <1>0, <1>4, <2>4 DEF StoresTyped
  <2>6. temp'[pid[s]] = Received(TempOf(s), next[s], bucket[next[s]].bytes)
    BY <1>0, <1>2, <1>4 DEF StoresTyped, TempOf
  <2>7. temp'[pid[s]] \in Trees /\ ~ temp'[pid[s]].receipt
    BY <2>4, <2>5, <2>6, ReceivedTree
  <2>8. \A n \in Pids \ {pid[s]} : temp'[n] = temp[n]
    BY <1>0, <1>4 DEF StoresTyped
  <2>9. OwnNumber' /\ InHand'
    BY <1>2, <1>4, <2>2, <2>3, <2>7, <2>8, MoveKept
  <2> QED BY <1>1, <2>9 DEF Stagings
<1> QED BY <1>3, <1>4 DEF Download

LEMMA WriteReceiptKept ==
  ASSUME StagingInv, NEW s \in Stagers, WriteReceipt(s)
  PROVE  Stagings'
<1>0. /\ StagingAssumption /\ StagingTypeOK /\ OwnNumber /\ InHand /\ s \in Processes
      /\ PlacesTyped /\ StoresTyped /\ PublishedIsFrozen
  BY TypeParts DEF StagingInv, Processes
<1>1. PublishedIsFrozen'
  BY <1>0 DEF WriteReceipt, PublishedIsFrozen
<1>2. place[s] = "verify" /\ pid[s] # 0 /\ pid[s] \in Pids
  BY <1>0 DEF WriteReceipt, OwnNumber, StageSteps, StoresTyped
<1>3. CASE Discard(s)
  BY <1>1, <1>2, <1>3, DiscardKept DEF Stagings
<1>4. CASE /\ IsWhole(TempOf(s), FALSE)
           /\ temp' = [temp EXCEPT ![pid[s]].receipt = TRUE]
           /\ Goto(s, "publish") /\ UNCHANGED pid
  <2>1. Sets(s, "publish", next[s], last[s]) /\ next[s] \in Objects /\ last[s] \in Answers
    BY <1>0, <1>4, GotoSets
  <2>2. "publish" \in Labels /\ "publish" \in StageSteps
    BY DEF Labels, StageSteps
  <2>3. place'[s] = "publish" /\ \A t \in Stagers \ {s} : place'[t] = place[t]
    BY <2>1, <2>2, StageSets
  <2>4. TempOf(s) \in Trees
    BY <1>0, <1>2 DEF InHand
  <2>5. [TempOf(s) EXCEPT !.receipt = TRUE] = FrozenTree
    BY <1>4, <2>4, WholeIsFrozen
  <2>6. temp' = [temp EXCEPT ![pid[s]] = [temp[pid[s]] EXCEPT !.receipt = TRUE]]
    BY <1>4
  <2>7. temp' = [temp EXCEPT ![pid[s]] = FrozenTree]
    BY <2>5, <2>6 DEF TempOf
  <2>8. temp'[pid[s]] = FrozenTree /\ \A n \in Pids \ {pid[s]} : temp'[n] = temp[n]
    BY <1>0, <1>2, <2>7 DEF StoresTyped
  <2>9. OwnNumber' /\ InHand'
    BY <1>2, <1>4, <2>2, <2>3, <2>8, MoveKept
  <2> QED BY <1>1, <2>9 DEF Stagings
<1> QED BY <1>3, <1>4 DEF WriteReceipt

LEMMA PublishKept ==
  ASSUME StagingInv, NEW s \in Stagers, Publish(s)
  PROVE  Stagings'
<1>0. /\ StagingAssumption /\ StagingTypeOK /\ OwnNumber /\ InHand /\ s \in Processes
      /\ PlacesTyped /\ StoresTyped /\ PublishedIsFrozen
  BY TypeParts DEF StagingInv, Processes
<1>1. place[s] = "publish" /\ pid[s] # 0 /\ pid[s] \in Pids /\ cut' = cut
  BY <1>0 DEF Publish, OwnNumber, StageSteps, StoresTyped
<1>2. CASE Discard(s) /\ UNCHANGED dest
  <2>1. PublishedIsFrozen'
    BY <1>0, <1>1, <1>2 DEF PublishedIsFrozen
  <2> QED BY <1>1, <1>2, <2>1, DiscardKept DEF Stagings
<1>3. CASE /\ dest' = TempOf(s) /\ temp' = [temp EXCEPT ![pid[s]] = NoTree]
           /\ Goto(s, "sync") /\ UNCHANGED pid
  <2>1. Sets(s, "sync", next[s], last[s]) /\ next[s] \in Objects /\ last[s] \in Answers
    BY <1>0, <1>3, GotoSets
  <2>2. "sync" \in Labels /\ "sync" \in StageSteps
    BY DEF Labels, StageSteps
  <2>3. place'[s] = "sync" /\ \A t \in Stagers \ {s} : place'[t] = place[t]
    BY <2>1, <2>2, StageSets
  <2>4. PublishedIsFrozen'
    BY <1>0, <1>1, <1>3 DEF InHand, PublishedIsFrozen
  <2>5. \A n \in Pids \ {pid[s]} : temp'[n] = temp[n]
    BY <1>0, <1>3 DEF StoresTyped
  <2>6. OwnNumber' /\ InHand'
    BY <1>1, <1>3, <2>2, <2>3, <2>5, MoveKept
  <2> QED BY <2>4, <2>6 DEF Stagings
<1> QED BY <1>2, <1>3 DEF Publish

LEMMA SyncParentKept ==
  ASSUME StagingInv, NEW s \in Stagers, SyncParent(s)
  PROVE  Stagings'
<1>0. /\ StagingAssumption /\ StagingTypeOK /\ OwnNumber /\ InHand /\ s \in Processes
      /\ PlacesTyped /\ PublishedIsFrozen
  BY TypeParts DEF StagingInv, Processes
<1>1. place[s] = "sync" /\ pid[s] # 0 /\ UNCHANGED <<temp, dest, pid, cut>>
  BY <1>0 DEF SyncParent, OwnNumber, StageSteps
<1>2. Sets(s, "look", next[s], last[s]) /\ next[s] \in Objects /\ last[s] \in Answers
  BY <1>0, GotoSets DEF SyncParent
<1>3. "look" \in Labels /\ "look" \in StageSteps
  BY DEF Labels, StageSteps
<1>4. place'[s] = "look" /\ \A t \in Stagers \ {s} : place'[t] = place[t]
  BY <1>2, <1>3, StageSets
<1>5. OwnNumber' /\ InHand'
  BY <1>1, <1>3, <1>4, MoveKept
<1> QED BY <1>0, <1>1, <1>5 DEF Stagings, PublishedIsFrozen

(* A stager that leaves, or is killed, gives its number back; what it has  *)
(* under its temporary name stays there.                                   *)
LEMMA LeaveKept ==
  ASSUME StagingInv, NEW s \in Stagers, NEW how \in {"ok", "error", "killed"},
         Withdraw(s, how), UNCHANGED <<temp, dest, cut>>
  PROVE  Stagings'
<1>0. /\ StagingAssumption /\ StagingTypeOK /\ OwnNumber /\ InHand /\ s \in Processes
      /\ PlacesTyped /\ StoresTyped /\ PublishedIsFrozen
  BY TypeParts DEF StagingInv, Processes
<1>1. Sets(s, "idle", 1, how) /\ 1 \in Objects /\ "idle" \in Labels /\ how \in Answers
  BY <1>0, ReturnSets, ObjectsAre DEF Withdraw, Labels, Answers
<1>2. place'[s] = "idle" /\ \A t \in Stagers \ {s} : place'[t] = place[t]
  BY <1>1, StageSets
<1>3. pid'[s] = 0 /\ \A t \in Stagers \ {s} : pid'[t] = pid[t]
  BY <1>0 DEF Withdraw, StoresTyped
<1>4. OthersLeft(s)
  BY <1>2, <1>3 DEF OthersLeft
<1>5. Holds(s)
  BY <1>2, <1>3 DEF Holds, StageSteps
<1>6. OwnNumber' /\ InHand'
  BY <1>0, <1>4, <1>5, StagerStep
<1> QED BY <1>0, <1>6 DEF Stagings, PublishedIsFrozen

LEMMA PowerCutKept ==
  ASSUME StagingInv, PowerCut
  PROVE  Stagings'
<1>1. \A s \in Stagers : place'[s] \in {"idle", "away"} /\ pid'[s] = 0
  BY DEF PowerCut, Processes
<1>2. cut' = TRUE
  BY DEF PowerCut
<1>3. OwnNumber' /\ InHand'
  BY <1>1 DEF OwnNumber, InHand, StageSteps
<1> QED BY <1>2, <1>3 DEF Stagings, PublishedIsFrozen

-----------------------------------------------------------------------------
(* The uploaders.                                                          *)
Gains ==
  \A o \in Objects : /\ Named(o) => bucket'[o].claims = "frozen"
                     /\ bucket[o].claims # "other" => bucket'[o].claims # "other"

SeesNext(u) ==
  /\ place'[u] \in {"idle", "away"} \cup UploadSteps
  /\ place'[u] \in {"idle", "away"} => next'[u] = 1
  /\ place'[u] \in {"head", "copy", "head again"} =>
       \A o \in Objects : o < next'[u] => bucket'[o].claims = "frozen"
  /\ place'[u] \in {"copy", "head again"} => bucket'[next'[u]].claims # "other"
  /\ place'[u] = "end" \/ last'[u] = "ok" => \A o \in Objects : bucket'[o].claims = "frozen"

LEMMA SeesOn ==
  ASSUME StagingInv, Gains, NEW u \in Uploaders,
         place'[u] = place[u], next'[u] = next[u], last'[u] = last[u]
  PROVE  SeesNext(u)
<1>1. Seen /\ next[u] \in Objects
  BY TypeParts DEF StagingInv, PlacesTyped, Processes
<1> QED BY <1>1 DEF Seen, SeesNext, Gains, Named

LEMMA SeenStep ==
  ASSUME \A u \in Uploaders : SeesNext(u)
  PROVE  Seen'
BY DEF Seen, SeesNext, Named

LEMMA UploadSets ==
  ASSUME StagingInv, NEW u \in Uploaders, NEW step \in Labels, NEW at \in Objects,
         NEW how \in Answers, Sets(u, step, at, how)
  PROVE  /\ place'[u] = step /\ next'[u] = at /\ last'[u] = how
         /\ \A s \in Stagers : place'[s] = place[s]
         /\ \A w \in Uploaders \ {u} :
              place'[w] = place[w] /\ next'[w] = next[w] /\ last'[w] = last[w]
<1>1. PlacesTyped /\ u \in Processes /\ Uploaders \cap Stagers = {}
  BY TypeParts DEF StagingInv, Processes, StagingAssumption
<1>2. \A q \in Processes \ {u} :
          place'[q] = place[q] /\ next'[q] = next[q] /\ last'[q] = last[q]
  BY <1>1, SetsEffect
<1>3. place'[u] = step /\ next'[u] = at /\ last'[u] = how
  BY <1>1, SetsEffect
<1> QED BY <1>1, <1>2, <1>3 DEF Processes

(* A step of one uploader, of which only what it sees itself is to be      *)
(* shown.                                                                  *)
LEMMA UploadStep ==
  ASSUME StagingInv, Gains, NEW u \in Uploaders, NEW step \in Labels,
         NEW at \in Objects, NEW how \in Answers, Sets(u, step, at, how),
         step \in {"idle", "away"} \cup UploadSteps,
         step \in {"idle", "away"} => at = 1,
         step \in {"head", "copy", "head again"} =>
           \A o \in Objects : o < at => Named(o),
         step \in {"copy", "head again"} => bucket'[at].claims # "other",
         step = "end" \/ how = "ok" => \A o \in Objects : Named(o)
  PROVE  Seen' /\ \A s \in Stagers : place'[s] = place[s]
<1>1. /\ place'[u] = step /\ next'[u] = at /\ last'[u] = how
      /\ \A s \in Stagers : place'[s] = place[s]
      /\ \A w \in Uploaders \ {u} :
           place'[w] = place[w] /\ next'[w] = next[w] /\ last'[w] = last[w]
  BY UploadSets
<1>2. SeesNext(u)
  BY <1>1 DEF SeesNext, Gains
<1>3. \A w \in Uploaders \ {u} : SeesNext(w)
  BY <1>1, SeesOn
<1> QED BY <1>1, <1>2, <1>3, SeenStep

LEMMA ReturnSeen ==
  ASSUME StagingInv, NEW u \in Uploaders, NEW how \in Answers, Return(u, how),
         UNCHANGED bucket, how = "ok" => \A o \in Objects : Named(o)
  PROVE  Seen' /\ \A s \in Stagers : place'[s] = place[s]
<1>1. /\ StagingAssumption /\ PlacesTyped /\ u \in Processes /\ 1 \in Objects
      /\ "idle" \in Labels
  BY TypeParts, ObjectsAre DEF StagingInv, Processes, Labels
<1>2. Sets(u, "idle", 1, how)
  BY <1>1, ReturnSets
<1>3. Gains
  BY DEF Gains, Named
<1> QED BY <1>1, <1>2, <1>3, UploadStep DEF UploadSteps

LEMMA Below ==
  ASSUME StagingAssumption
  PROVE  /\ \A o \in Objects : o < ObjectCount \/ o = ObjectCount
         /\ \A k, o \in Objects : o < k + 1 => o < k \/ o = k
<1>1. ASSUME NEW n \in Nat, NEW o \in 1..n
      PROVE  o < n \/ o = n
  OBVIOUS
<1>2. ASSUME NEW n \in Nat, NEW k \in 1..n, NEW o \in 1..n
      PROVE  o < k + 1 => o < k \/ o = k
  OBVIOUS
<1> QED BY <1>1, <1>2, ObjectsAre

LEMMA AdvanceSeen ==
  ASSUME StagingInv, NEW u \in Uploaders, place[u] \in {"head", "head again"},
         Named(next[u]), Advance(u, "head", "end"), UNCHANGED bucket
  PROVE  Seen' /\ \A s \in Stagers : place'[s] = place[s]
<1>1. /\ StagingAssumption /\ PlacesTyped /\ u \in Processes /\ 1 \in Objects
      /\ "head" \in Labels /\ "end" \in Labels /\ Seen
      /\ next[u] \in Objects /\ last[u] \in Answers
      /\ ObjectCount \in Nat \ {0} /\ Objects = 1..ObjectCount
  BY TypeParts, ObjectsAre
     DEF StagingInv, Processes, Labels, UploadSteps, PlacesTyped
<1>2. Gains
  BY DEF Gains, Named
<1>3. \A o \in Objects : o < next[u] => Named(o)
  BY <1>1 DEF Seen
<1>4. last[u] = "ok" => \A o \in Objects : Named(o)
  BY <1>1 DEF Seen
<1>5. CASE next[u] = ObjectCount /\ Sets(u, "end", 1, last[u])
  <2>3. \A o \in Objects : Named(o)
    BY <1>1, <1>3, <1>5, Below
  <2> QED BY <1>1, <1>2, <1>5, <2>3, UploadStep DEF UploadSteps
<1>6. CASE next[u] + 1 \in Objects /\ Sets(u, "head", next[u] + 1, last[u])
  <2>3. \A o \in Objects : o < next[u] + 1 => Named(o)
    BY <1>1, <1>3, Below
  <2> QED BY <1>1, <1>2, <1>4, <1>6, <2>3, UploadStep DEF UploadSteps
<1> QED BY <1>1, <1>5, <1>6, AdvanceSets

LEMMA UploadKept ==
  ASSUME StagingInv, NEW u \in Uploaders,
         \/ \E m \in ManifestKinds : UploadCall(u, m)
         \/ HeadObject(u) \/ Copy(u) \/ HeadAgain(u) \/ UploadEnd(u)
  PROVE  Seen' /\ \A s \in Stagers : place'[s] = place[s]
<1>0. /\ StagingAssumption /\ PlacesTyped /\ StoresTyped /\ u \in Processes
      /\ Seen /\ next[u] \in Objects /\ last[u] \in Answers
      /\ UploadSteps \subseteq Labels
      /\ "error" \in Answers /\ "ok" \in Answers
  BY TypeParts DEF StagingInv, Processes, Labels, Answers, PlacesTyped
<1>1. UNCHANGED bucket => Gains
  BY DEF Gains, Named
<1>2. last[u] = "ok" => \A o \in Objects : Named(o)
  BY <1>0 DEF Seen
<1>3. CASE Return(u, "error") /\ UNCHANGED bucket
  BY <1>0, <1>3, ReturnSeen
<1>4. ASSUME NEW m \in ManifestKinds, UploadCall(u, m), Goto(u, "head")
      PROVE  Seen' /\ \A s \in Stagers : place'[s] = place[s]
  <2>1. Sets(u, "head", next[u], last[u])
    BY <1>0, <1>4, GotoSets
  <2>2. place[u] = "idle" /\ UNCHANGED bucket
    BY <1>4 DEF UploadCall
  <2>3. next[u] = 1
    BY <1>0, <2>2 DEF Seen
  <2>4. \A o \in Objects : ~ (o < next[u])
    BY <1>0, <2>3, ObjectsAre
  <2>5. "head" \in Labels
    BY <1>0 DEF UploadSteps
  <2> QED BY <1>0, <1>1, <1>2, <2>1, <2>2, <2>4, <2>5, UploadStep DEF UploadSteps
<1>5. CASE HeadObject(u)
  <2>1. CASE bucket[next[u]].claims = "frozen" /\ Advance(u, "head", "end")
    BY <1>5, <2>1, AdvanceSeen DEF HeadObject, Named
  <2>2. CASE bucket[next[u]] = Absent /\ Goto(u, "copy")
    <3>1. Sets(u, "copy", next[u], last[u])
      BY <1>0, <2>2, GotoSets
    <3>2. place[u] = "head" /\ UNCHANGED bucket
      BY <1>5 DEF HeadObject
    <3>3. bucket'[next[u]].claims # "other"
      BY <2>2, <3>2 DEF Absent
    <3>4. \A o \in Objects : o < next[u] => Named(o)
      BY <1>0, <3>2 DEF Seen
    <3>5. "copy" \in Labels
      BY <1>0 DEF UploadSteps
    <3> QED BY <1>0, <1>1, <1>2, <3>1, <3>2, <3>3, <3>4, <3>5, UploadStep DEF UploadSteps
  <2> QED BY <1>3, <1>5, <2>1, <2>2 DEF HeadObject
<1>6. CASE Copy(u)
  <2>1. CASE /\ bucket' = [bucket EXCEPT ![next[u]] =
                              [claims |-> "frozen", bytes |-> source[next[u]]]]
             /\ Goto(u, "head again")
    <3>1. Sets(u, "head again", next[u], last[u])
      BY <1>0, <2>1, GotoSets
    <3>2. bucket'[next[u]].claims = "frozen"
          /\ \A o \in Objects \ {next[u]} : bucket'[o] = bucket[o]
      BY <1>0, <2>1 DEF StoresTyped
    <3>3. Gains
      BY <3>2 DEF Gains, Named
    <3>4. \A o \in Objects : o < next[u] => Named(o)
      BY <1>0, <1>6 DEF Seen, Copy
    <3>5. "head again" \in Labels
      BY <1>0 DEF UploadSteps
    <3> QED BY <1>0, <1>2, <3>1, <3>2, <3>3, <3>4, <3>5, UploadStep DEF UploadSteps
  <2> QED BY <1>3, <1>6, <2>1 DEF Copy
<1>7. CASE HeadAgain(u)
  <2>1. CASE bucket[next[u]].claims = "frozen" /\ Advance(u, "head", "end")
    BY <1>7, <2>1, AdvanceSeen DEF HeadAgain, Named
  <2> QED BY <1>3, <1>7, <2>1 DEF HeadAgain
<1>8. CASE UploadEnd(u)
  <2>1. \A o \in Objects : Named(o)
    BY <1>0, <1>8 DEF UploadEnd, Seen
  <2> QED BY <1>0, <1>8, <2>1, ReturnSeen DEF UploadEnd
<1>9. \A m \in ManifestKinds : UploadCall(u, m) =>
        \/ Goto(u, "head")
        \/ Return(u, "error") /\ UNCHANGED bucket
  BY DEF UploadCall
<1> QED BY <1>3, <1>4, <1>5, <1>6, <1>7, <1>8, <1>9

-----------------------------------------------------------------------------
(* Every step.                                                             *)
LEMMA StagingStarts == StagingAssumption /\ StagingInit => StagingInv
<1> SUFFICES ASSUME StagingAssumption, StagingInit PROVE StagingInv
  OBVIOUS
<1>1. 1 \in Objects
  BY ObjectsAre
<1>2. PlacesTyped
  <2>1. place \in [Processes -> Labels]
    BY DEF StagingInit, Labels
  <2> QED BY <1>1, <2>1 DEF StagingInit, PlacesTyped, Answers
<1>3. StoresTyped
  <2>1. bucket \in [Objects -> [claims : ManifestKinds, bytes : Contents] \cup {Absent}]
    <3>1. [claims |-> "other", bytes |-> "rebuilt"] \in
            [claims : ManifestKinds, bytes : Contents]
      BY DEF ManifestKinds, Contents
    <3> QED BY <3>1 DEF StagingInit, Empty
  <2>2. failures \in 0..MaxFailures
    BY DEF StagingInit, StagingAssumption
  <2> QED BY <2>1, <2>2 DEF StagingInit, StoresTyped, Contents
<1>4. \A p \in Processes : place[p] \in {"idle", "away"}
  BY DEF StagingInit
<1>5. OwnNumber
  BY <1>4 DEF StagingInit, OwnNumber, StageSteps, Processes
<1>6. InHand
  BY <1>4 DEF InHand, Processes
<1>7. PublishedIsFrozen
  BY DEF StagingInit, PublishedIsFrozen
<1>8. Seen
  BY <1>4 DEF StagingInit, Seen, Processes, UploadSteps
<1> QED BY <1>2, <1>3, <1>5, <1>6, <1>7, <1>8, TypeParts DEF StagingInv

(* A stager's step shows no uploader anything.                             *)
LEMMA StagersShowNothing ==
  ASSUME StagingInv, UNCHANGED bucket,
         \A u \in Uploaders :
          place'[u] = place[u] /\ next'[u] = next[u] /\ last'[u] = last[u]
  PROVE  Seen'
<1>1. Gains
  BY DEF Gains, Named
<1>2. \A u \in Uploaders : SeesNext(u)
  BY <1>1, SeesOn
<1> QED BY <1>2, SeenStep

LEMMA StageSeen ==
  ASSUME StagingInv, NEW s \in Stagers,
         \/ \E m \in ManifestKinds, n \in Pids : StageCall(s, m, n)
         \/ Download(s) \/ WriteReceipt(s) \/ Publish(s) \/ SyncParent(s) \/ Look(s)
         \/ Kill(s)
  PROVE  Seen'
<1>0. /\ StagingAssumption /\ PlacesTyped /\ s \in Processes /\ 1 \in Objects
      /\ Labels = {"idle", "away"} \cup UploadSteps \cup StageSteps
      /\ {"error", "ok", "killed"} \subseteq Answers
  BY TypeParts, ObjectsAre DEF StagingInv, Processes, Labels, Answers
<1>1. UNCHANGED bucket
  BY DEF StageCall, Download, WriteReceipt, Publish, SyncParent, Look, Kill
<1>2. \/ \E step \in {"look", "download", "publish", "sync"} : Goto(s, step)
      \/ \E how \in {"error", "ok", "killed"} : Return(s, how)
      \/ Advance(s, "download", "verify")
  BY DEF StageCall, Download, WriteReceipt, Publish, SyncParent, Look, Kill,
     Withdraw, Discard
<1>3. \E step \in Labels, at \in Objects, how \in Answers : Sets(s, step, at, how)
  <2>1. ASSUME NEW step \in {"look", "download", "publish", "sync"}, Goto(s, step)
        PROVE  \E l \in Labels, at \in Objects, how \in Answers : Sets(s, l, at, how)
    <3>1. step \in Labels
      BY <1>0 DEF StageSteps
    <3> QED BY <1>0, <2>1, <3>1, GotoSets
  <2>2. ASSUME NEW how \in {"error", "ok", "killed"}, Return(s, how)
        PROVE  \E l \in Labels, at \in Objects, a \in Answers : Sets(s, l, at, a)
    <3>1. Sets(s, "idle", 1, how) /\ "idle" \in Labels /\ how \in Answers
      BY <1>0, <2>2, ReturnSets
    <3> QED BY <1>0, <3>1
  <2>3. CASE Advance(s, "download", "verify")
    <3>1. "download" \in Labels /\ "verify" \in Labels
      BY <1>0 DEF StageSteps
    <3>2. \/ Sets(s, "verify", 1, last[s])
          \/ next[s] + 1 \in Objects /\ Sets(s, "download", next[s] + 1, last[s])
      BY <1>0, <2>3, AdvanceSets
    <3>3. last[s] \in Answers
      BY <1>0 DEF PlacesTyped
    <3> QED BY <1>0, <3>1, <3>2, <3>3
  <2> QED BY <1>2, <2>1, <2>2, <2>3
<1>4. \A u \in Uploaders :
          place'[u] = place[u] /\ next'[u] = next[u] /\ last'[u] = last[u]
  BY <1>3, StageSets
<1> QED BY <1>1, <1>4, StagersShowNothing

LEMMA PowerCutSeen ==
  ASSUME StagingInv, PowerCut
  PROVE  Seen'
<1>1. Seen /\ UNCHANGED bucket
  BY DEF StagingInv, PowerCut
<1>2. ASSUME NEW u \in Uploaders
      PROVE  SeesNext(u)
  <2>1. u \in Processes
    BY DEF Processes
  <2>2. place'[u] \in {"idle", "away"} /\ next'[u] = 1 /\ last'[u] \in {last[u], "killed"}
    BY <2>1 DEF PowerCut
  <2>3. last[u] = "ok" => \A o \in Objects : Named(o)
    BY <1>1 DEF Seen
  <2> QED BY <1>1, <2>2, <2>3 DEF SeesNext, UploadSteps, Named
<1> QED BY <1>2, SeenStep

LEMMA StagingStep == StagingInv /\ [StagingNext]_stagingVars => StagingInv'
<1> SUFFICES ASSUME StagingInv, [StagingNext]_stagingVars PROVE StagingInv'
  OBVIOUS
<1>0. /\ StagingAssumption /\ StagingTypeOK /\ OwnNumber /\ InHand /\ PublishedIsFrozen /\ Seen
      /\ StagingAssumption' /\ "killed" \in Answers
  BY DEF StagingInv, StagingAssumption, Answers
<1>1. CASE UNCHANGED stagingVars
  <2>1. UNCHANGED <<temp, dest, pid, cut>> /\ (\A s \in Stagers : place'[s] = place[s])
    BY <1>1 DEF stagingVars
  <2>2. Stagings'
    BY <2>1, StagersKept
  <2>3. Seen'
    BY <1>1, StagersShowNothing DEF stagingVars
  <2>4. StagingTypeOK'
    BY <1>0, <1>1 DEF StagingTypeOK, stagingVars
  <2> QED BY <1>0, <2>2, <2>3, <2>4 DEF StagingInv, Stagings
<1>2. CASE StagingNext
  <2>1. StagingTypeOK'
    <3>1. PlacesTyped' /\ StoresTyped'
      BY <1>0, <1>2, PlacesKept, StoresKept
    <3> QED BY <3>1 DEF StagingTypeOK, PlacesTyped, StoresTyped, Labels, Answers
  <2>2. ASSUME NEW u \in Uploaders,
               \/ \E m \in ManifestKinds : UploadCall(u, m)
               \/ HeadObject(u) \/ Copy(u) \/ HeadAgain(u) \/ UploadEnd(u)
        PROVE  Stagings' /\ Seen'
    <3>1. Seen' /\ \A s \in Stagers : place'[s] = place[s]
      BY <2>2, UploadKept
    <3>2. UNCHANGED <<temp, dest, pid, cut>>
      BY <2>2 DEF UploadCall, HeadObject, Copy, HeadAgain, UploadEnd
    <3> QED BY <3>1, <3>2, StagersKept
  <2>3. ASSUME NEW s \in Stagers,
               \/ \E m \in ManifestKinds, n \in Pids : StageCall(s, m, n)
               \/ Download(s) \/ WriteReceipt(s) \/ Publish(s) \/ SyncParent(s)
               \/ Look(s)
        PROVE  Stagings' /\ Seen'
    <3>1. Seen'
      BY <2>3, StageSeen
    <3>2. ASSUME Look(s) PROVE Stagings'
      <4>1. PICK how \in {"ok", "error"} : Withdraw(s, how)
        BY <3>2 DEF Look
      <4>2. UNCHANGED <<temp, dest, cut>>
        BY <3>2 DEF Look
      <4> QED BY <4>1, <4>2, LeaveKept
    <3>3. Stagings'
      BY <2>3, <3>2, StageCallKept, DownloadKept, WriteReceiptKept, PublishKept,
         SyncParentKept
    <3> QED BY <3>1, <3>3
  <2>4. ASSUME NEW o \in Objects, Rebuild(o)
        PROVE  Stagings' /\ Seen'
    <3>1. UNCHANGED <<bucket, temp, dest, pid, cut, place, next, last>>
      BY <2>4 DEF Rebuild
    <3> QED BY <3>1, StagersKept, StagersShowNothing
  <2>5. ASSUME NEW p \in Processes, Kill(p)
        PROVE  Stagings' /\ Seen'
    <3>1. UNCHANGED <<bucket, temp, dest, cut>> /\ Return(p, "killed")
      BY <2>5 DEF Kill
    <3>2. CASE p \in Stagers
      <4>1. Withdraw(p, "killed")
        BY <2>5, <3>2 DEF Kill, Withdraw
      <4>2. Stagings'
        BY <3>1, <3>2, <4>1, LeaveKept
      <4> QED BY <2>5, <3>2, <4>2, StageSeen
    <3>3. CASE p \in Uploaders
      <4>1. Seen' /\ \A s \in Stagers : place'[s] = place[s]
        BY <1>0, <3>1, <3>3, ReturnSeen
      <4>2. p \notin Stagers
        BY <1>0, <3>3 DEF StagingAssumption
      <4>3. UNCHANGED pid
        BY <2>5, <4>2 DEF Kill
      <4> QED BY <3>1, <4>1, <4>3, StagersKept
    <3> QED BY <3>2, <3>3 DEF Processes
  <2>6. CASE PowerCut
    BY <1>0, <2>1, <2>6, PowerCutKept, PowerCutSeen DEF StagingInv, Stagings
  <2>7. ASSUME Stagings' /\ Seen' PROVE StagingInv'
    BY <1>0, <2>1, <2>7 DEF StagingInv, Stagings
  <2> QED BY <1>2, <2>2, <2>3, <2>4, <2>5, <2>6, <2>7 DEF StagingNext
<1> QED BY <1>1, <1>2

-----------------------------------------------------------------------------
(* Every variable holds a value of its kind.                               *)
THEOREM StagingTypeCorrect == StagingAssumption /\ StagingSpec => []StagingTypeOK
<1>1. StagingInv => StagingTypeOK
  BY DEF StagingInv
<1> QED BY <1>1, StagingStarts, StagingStep, PTL DEF StagingSpec

(* A corpus under the published name is the frozen one with its receipt    *)
(* until a power cut (stage_from_s3), and an uploader that has answered    *)
(* leaves every object under the manifest's digest (upload_to_s3).         *)
THEOREM StagedAlwaysWhole == StagingAssumption /\ StagingSpec => []StagedIsWhole
<1>1. StagingInv => StagedIsWhole
  BY DEF StagingInv, StagedIsWhole, Seen, AnsweredIsNamed, Named
<1> QED BY <1>1, StagingStarts, StagingStep, PTL DEF StagingSpec

(* No uploader replaces the identity that an object in the bucket claims,  *)
(* also when several look and copy at once (upload_to_s3 copies only what  *)
(* it found absent, and refuses an object of another identity).            *)
THEOREM IdentitiesAlwaysStay == StagingAssumption /\ StagingSpec => IdentitiesStay
<1>1. ASSUME StagingInv, [StagingNext]_stagingVars, NEW o \in Objects, bucket[o] # Absent
      PROVE  bucket'[o].claims = bucket[o].claims
  <2>1. CASE UNCHANGED bucket
    BY <2>1
  <2>2. ASSUME NEW u \in Uploaders, Copy(u)
        PROVE  bucket'[o].claims = bucket[o].claims
    <3>0. ManifestKinds = {"frozen", "other"}
      BY DEF ManifestKinds
    <3>1. place[u] = "copy" /\ Seen /\ StoresTyped
      BY <1>1, <2>2, TypeParts DEF Copy, StagingInv
    <3>2. bucket[next[u]].claims # "other"
      BY <3>1 DEF Seen
    <3>3. bucket[o].claims \in ManifestKinds
      BY <1>1, <3>1 DEF StoresTyped
    <3>4. CASE UNCHANGED bucket
      BY <3>4
    <3>5. CASE bucket' = [bucket EXCEPT ![next[u]] =
                             [claims |-> "frozen", bytes |-> source[next[u]]]]
      BY <3>0, <3>1, <3>2, <3>3, <3>5 DEF StoresTyped
    <3> QED BY <2>2, <3>4, <3>5 DEF Copy
  <2>3. UNCHANGED bucket \/ \E u \in Uploaders : Copy(u)
    BY <1>1 DEF StagingNext, stagingVars, UploadCall, HeadObject, HeadAgain, UploadEnd, StageCall,
       Download, WriteReceipt, Publish, SyncParent, Look, Rebuild,
       Kill, PowerCut
  <2> QED BY <2>1, <2>2, <2>3
<1>2. StagingInv /\ [StagingNext]_stagingVars =>
        [\A o \in Objects : bucket[o] # Absent => bucket'[o].claims = bucket[o].claims
    ]_stagingVars
  BY <1>1
<1> QED BY <1>2, StagingStarts, StagingStep, PTL DEF StagingSpec, IdentitiesStay
=============================================================================
