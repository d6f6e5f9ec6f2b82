--------------------------- MODULE ReasoningRelease ---------------------------
(***************************************************************************)
(* evals/reasoning_v3 of the 1b tier (aws_authority.py, sealing.py,        *)
(* runner.py, reporting.py): the frozen evaluation release, the checkpoint *)
(* manifest, the results and the report, each published once in a          *)
(* versioned S3 bucket by evaluators who share nothing else.               *)
(*                                                                         *)
(*   record      the contract's authority record; its administrator may    *)
(*               upload the same bytes again, under a new version          *)
(*   model, gold a release, under the transaction that its bytes give      *)
(*   activation  signed: the exact versions that are the release           *)
(*   ckpt        a cell's checkpoint and evidence, from the trainer        *)
(*   manifest    signed: the exact versions that are evaluated             *)
(*   result      signed, one per cell                                      *)
(*   report      signed, over all the results                              *)
(*                                                                         *)
(* A version is a position in a key's sequence.  Every put carries         *)
(* If-None-Match; its answer can be lost, with the object written.         *)
(* Signing, checks of formats, digests, roles and encryption, and the      *)
(* scores are left out; of a signed object the payload is kept.            *)
(***************************************************************************)
EXTENDS Naturals, Sequences, FiniteSets

CONSTANTS
  Evaluators,      \* processes under the evaluator role
  Cells,           \* arm, seed and step
  Bundles,         \* what generating the release may give
  Predictions,     \* what decoding a cell may give
  MaxFaults,       \* bound on lost answers, failed calls and kills
  MaxUploads       \* bound on versions of the authority record

ASSUME ReleaseAssumption == MaxFaults \in Nat /\ MaxUploads \in Nat \ {0}

VARIABLES
  store,           \* each key's versions
  refs,            \* the version each cell's trainer was told, 0 for none
  lost,            \* cells whose trainer was not told
  pc, task, own,   \* an evaluator's step, its call, its local variables
  acks,            \* the publications callers were told of
  faults

vars == <<store, refs, lost, pc, task, own, acks, faults>>

Record     == <<"record", "-">>
Activation == <<"activation", "-">>
Manifest   == <<"manifest", "-">>
Report     == <<"report", "-">>
Model(b)   == <<"model", b>>
Gold(b)    == <<"gold", b>>
Ckpt(c)    == <<"ckpt", c>>
Result(c)  == <<"result", c>>

Keys == {Record, Activation, Manifest, Report}
          \cup {Model(b) : b \in Bundles} \cup {Gold(b) : b \in Bundles}
          \cup {Ckpt(c) : c \in Cells} \cup {Result(c) : c \in Cells}

Tasks == {<<"materialize", "-">>, <<"manifest", "-">>, <<"infer", "-">>}
           \cup {<<"evaluate", c>> : c \in Cells}

NoTask == <<"none", "-">>

Exists(key)  == store[key] # << >>
Current(key) == store[key][Len(store[key])]
NewVersion(key, body) == [store EXCEPT ![key] = Append(@, body)]

Blank == [record |-> 0, bundle |-> "none", payload |-> << >>]

(* The key a signed payload goes to.                                       *)
Target(e) == CASE task[e][1] = "materialize" -> Activation
               [] task[e][1] = "manifest"    -> Manifest
               [] task[e][1] = "evaluate"    -> Result(task[e][2])
               [] task[e][1] = "infer"       -> Report

Init ==
  /\ store = [k \in Keys |-> IF k = Record THEN <<"record">> ELSE << >>]
  /\ refs = [c \in Cells |-> 0] /\ lost = {}
  /\ pc = [e \in Evaluators |-> "idle"]
  /\ task = [e \in Evaluators |-> NoTask]
  /\ own = [e \in Evaluators |-> Blank]
  /\ acks = {} /\ faults = 0

Step(e, next) == pc' = [pc EXCEPT ![e] = next] /\ UNCHANGED task

(* The call returns, or raises; the local variables are gone.              *)
Leave(e) ==
  /\ pc' = [pc EXCEPT ![e] = "idle"]
  /\ task' = [task EXCEPT ![e] = NoTask] /\ own' = [own EXCEPT ![e] = Blank]

Fault == faults < MaxFaults /\ faults' = faults + 1

-----------------------------------------------------------------------------
(* The trainer: _put_checkpoint_artifact turns every error into one, a     *)
(* refused If-None-Match included.                                         *)
PutCheckpoint(c) ==
  /\ refs[c] = 0 /\ ~ Exists(Ckpt(c))
  /\ store' = NewVersion(Ckpt(c), c)
  /\ \/ refs' = [refs EXCEPT ![c] = 1] /\ UNCHANGED <<lost, faults>>
     \/ lost' = lost \cup {c} /\ Fault /\ UNCHANGED refs
  /\ UNCHANGED <<pc, task, own, acks>>

-----------------------------------------------------------------------------
Call(e) ==
  /\ pc[e] = "idle"
  /\ \E t \in Tasks : task' = [task EXCEPT ![e] = t]
  /\ pc' = [pc EXCEPT ![e] = "authorize"]
  /\ UNCHANGED <<store, refs, lost, own, acks, faults>>

(* _load_authorized_contract: what the call goes by from here on is the    *)
(* version of the record that it has read.  A release is then generated,   *)
(* twice, and must come out the same.                                      *)
Authorize(e) ==
  /\ pc[e] = "authorize"
  /\ \/ /\ task[e][1] = "materialize" /\ Step(e, "model")
        /\ \E b \in Bundles :
             own' = [own EXCEPT ![e].record = Len(store[Record]), ![e].bundle = b]
     \/ /\ task[e][1] # "materialize" /\ Step(e, "load")
        /\ own' = [own EXCEPT ![e].record = Len(store[Record])]
  /\ UNCHANGED <<store, refs, lost, acks, faults>>

(* An object that is there taken for an error.                             *)
PutImmutableOnce(e, key, body, next) ==
  \/ /\ ~ Exists(key)
     /\ store' = NewVersion(key, body)
     /\ Step(e, next) /\ UNCHANGED <<own, faults>>
  \/ /\ Exists(key)
     /\ Leave(e) /\ UNCHANGED <<store, faults>>
  \/ /\ ~ Exists(key) /\ Fault
     /\ Leave(e) /\ store' \in {store, NewVersion(key, body)}

(* _put_immutable: an error is final, unless it says that the object is    *)
(* there (boto's own retry of a put whose answer was lost comes back that  *)
(* way too).  The object is then compared; the key is the digest of what   *)
(* it holds, so it is the same.                                            *)
PutImmutable(e, key, body, next) ==
  \/ /\ ~ Exists(key)
     /\ store' = NewVersion(key, body)
     /\ Step(e, next) /\ UNCHANGED <<own, faults>>
  \/ /\ Exists(key) /\ Current(key) = body
     /\ Step(e, next) /\ UNCHANGED <<store, own, faults>>
  \/ /\ ~ Exists(key) /\ Fault
     /\ Leave(e) /\ store' \in {store, NewVersion(key, body)}

PutModelVisible(e) ==
  /\ pc[e] = "model"
  /\ PutImmutable(e, Model(own[e].bundle), own[e].bundle, "gold")
  /\ UNCHANGED <<refs, lost, acks>>

PutSealedGold(e) ==
  /\ pc[e] = "gold"
  /\ PutImmutable(e, Gold(own[e].bundle), own[e].bundle, "activate")
  /\ UNCHANGED <<refs, lost, acks>>

Sign(e, payload) ==
  /\ own' = [own EXCEPT ![e].payload = payload]
  /\ Step(e, "put")

(* _publish_release_to_aws: the activation names the versions put.         *)
BuildActivation(e) ==
  /\ pc[e] = "activate"
  /\ Sign(e, [record |-> own[e].record, bundle |-> own[e].bundle,
              model  |-> Len(store[Model(own[e].bundle)]),
              gold   |-> Len(store[Gold(own[e].bundle)])])
  /\ UNCHANGED <<store, refs, lost, acks, faults>>

-----------------------------------------------------------------------------
(* A release of any version of the record.                                 *)
LoadableAnyRecord(e) ==
  /\ Exists(Activation)
  /\ LET a == Current(Activation)
     IN  a.model <= Len(store[Model(a.bundle)]) /\ a.gold <= Len(store[Gold(a.bundle)])

(* _load_fixed_release: the activation must name the version of the record *)
(* that this call has read, and objects that are there.                    *)
Loadable(e) ==
  /\ Exists(Activation)
  /\ LET a == Current(Activation)
     IN  /\ a.record = own[e].record
         /\ a.model <= Len(store[Model(a.bundle)])
         /\ a.gold <= Len(store[Gold(a.bundle)])

Load(e) ==
  /\ pc[e] = "load"
  /\ IF Loadable(e)
     THEN Step(e, task[e][1]) /\ UNCHANGED own
     ELSE Leave(e)
  /\ UNCHANGED <<store, refs, lost, acks, faults>>

(* Whoever publishes the manifest has the references that the trainers     *)
(* were given; nothing in the repository makes one.                        *)
BuildManifest(e) ==
  /\ pc[e] = "manifest"
  /\ IF \A c \in Cells : refs[c] # 0
     THEN Sign(e, [record     |-> own[e].record,
                      activation |-> Len(store[Activation]), ckpt |-> refs])
     ELSE Leave(e)
  /\ UNCHANGED <<store, refs, lost, acks, faults>>

(* _parse_checkpoint_manifest.                                             *)
ManifestFits(e) ==
  /\ Exists(Manifest)
  /\ Current(Manifest).record = own[e].record
  /\ Current(Manifest).activation = Len(store[Activation])

(* run_frozen_checkpoint_evaluation: the manifest, the checkpoint at its   *)
(* version, the decoding and the scores.                                   *)
Evaluate(e) ==
  /\ pc[e] = "evaluate"
  /\ IF ManifestFits(e)
     THEN \E p \in Predictions :
               Sign(e, [record     |-> own[e].record,
                        activation |-> Len(store[Activation]),
                        manifest   |-> Len(store[Manifest]),
                        ckpt       |-> Current(Manifest).ckpt[task[e][2]],
                        prediction |-> p])
     ELSE Leave(e)
  /\ UNCHANGED <<store, refs, lost, acks, faults>>

(* _read_checkpoint_results: every result, replayed against the release    *)
(* and the manifest of now.                                                *)
ResultFits(e, c) ==
  /\ Exists(Result(c))
  /\ LET r == Current(Result(c))
     IN  /\ r.record = own[e].record /\ r.activation = Len(store[Activation])
         /\ r.manifest = Len(store[Manifest])
         /\ r.ckpt = Current(Manifest).ckpt[c]

Infer(e) ==
  /\ pc[e] = "infer"
  /\ IF ManifestFits(e) /\ \A c \in Cells : ResultFits(e, c)
     THEN Sign(e, [record  |-> own[e].record,
                      results |-> [c \in Cells |->
                        [version    |-> Len(store[Result(c)]),
                         prediction |-> Current(Result(c)).prediction]]])
     ELSE Leave(e)
  /\ UNCHANGED <<store, refs, lost, acks, faults>>

-----------------------------------------------------------------------------
Acknowledge(e, key) ==
  /\ acks' = acks \cup {[key |-> key, version |-> Len(store'[key]),
                         payload |-> own[e].payload]}
  /\ Leave(e)

(* A put without its condition.                                            *)
PutSignedAnyway(e) ==
  /\ pc[e] = "put"
  /\ store' = NewVersion(Target(e), own[e].payload)
  /\ Acknowledge(e, Target(e)) /\ UNCHANGED <<refs, lost, faults>>

(* put_activation, _put_signed_task3: put; after any error, one of a put   *)
(* that was done included, look at what is there.                          *)
PutSigned(e) ==
  /\ pc[e] = "put"
  /\ \/ /\ ~ Exists(Target(e))
        /\ store' = NewVersion(Target(e), own[e].payload)
        /\ Acknowledge(e, Target(e)) /\ UNCHANGED faults
     \/ /\ Exists(Target(e))
        /\ Step(e, "recover") /\ UNCHANGED <<store, own, acks, faults>>
     \/ /\ ~ Exists(Target(e)) /\ Fault
        /\ store' \in {store, NewVersion(Target(e), own[e].payload)}
        /\ Step(e, "recover") /\ UNCHANGED <<own, acks>>
  /\ UNCHANGED <<refs, lost>>

(* The payloads are compared, not the envelopes.                           *)
SamePayload(e, object) == object = own[e].payload

Recover(e) ==
  /\ pc[e] = "recover"
  /\ UNCHANGED <<store, refs, lost, faults>>
  /\ IF ~ Exists(Target(e)) THEN Leave(e) /\ UNCHANGED acks
     ELSE IF SamePayload(e, Current(Target(e)))
          THEN Acknowledge(e, Target(e))
          ELSE Leave(e) /\ UNCHANGED acks

(* A kill, or a call to S3 or KMS that fails where no error is handled.    *)
GiveUp(e) ==
  /\ pc[e] # "idle" /\ Fault /\ Leave(e)
  /\ UNCHANGED <<store, refs, lost, acks>>

(* The administrator uploads the record again.                             *)
Upload ==
  /\ Len(store[Record]) < MaxUploads
  /\ store' = NewVersion(Record, "record")
  /\ UNCHANGED <<refs, lost, pc, task, own, acks, faults>>

Work(e) ==
  \/ Authorize(e) \/ PutModelVisible(e) \/ PutSealedGold(e)
  \/ BuildActivation(e) \/ Load(e) \/ BuildManifest(e) \/ Evaluate(e)
  \/ Infer(e) \/ PutSigned(e) \/ Recover(e)

Next ==
  \/ Upload
  \/ \E c \in Cells : PutCheckpoint(c)
  \/ \E e \in Evaluators : Call(e) \/ Work(e) \/ GiveUp(e)

(* A call that has begun goes on; the trainers run; each task is called    *)
(* again and again, by some evaluator.                                     *)
CallFor(t) == \E e \in Evaluators : Call(e) /\ task'[e] = t

Fairness ==
  /\ \A c \in Cells : WF_vars(PutCheckpoint(c))
  /\ \A e \in Evaluators : WF_vars(Work(e))
  /\ \A t \in Tasks : SF_vars(CallFor(t))

Spec     == Init /\ [][Next]_vars
FairSpec == Spec /\ Fairness

-----------------------------------------------------------------------------
(* Every variable holds a value of its kind.                               *)
Releases  == [record : Nat, bundle : Bundles, model : Nat, gold : Nat]
Manifests == [record : Nat, activation : Nat, ckpt : [Cells -> {0, 1}]]
Results   == [record : Nat, activation : Nat, manifest : Nat, ckpt : {0, 1},
              prediction : Predictions]
Reports   == [record : Nat,
              results : [Cells -> [version : Nat, prediction : Predictions]]]
Payloads  == Releases \cup Manifests \cup Results \cup Reports

Bodies(k) ==
  CASE k = Record               -> {"record"}
    [] k[1] \in {"model", "gold"} -> Bundles
    [] k[1] = "ckpt"            -> Cells
    [] k = Activation           -> Releases
    [] k = Manifest             -> Manifests
    [] k[1] = "result"          -> Results
    [] k = Report               -> Reports

TypeOK ==
  /\ DOMAIN store = Keys /\ \A k \in Keys : store[k] \in Seq(Bodies(k))
  /\ refs \in [Cells -> {0, 1}] /\ lost \in SUBSET Cells
  /\ pc \in [Evaluators -> {"idle", "authorize", "model", "gold", "activate", "load",
                            "manifest", "evaluate", "infer", "put", "recover"}]
  /\ task \in [Evaluators -> Tasks \cup {NoTask}]
  /\ own \in [Evaluators -> [record : Nat, bundle : Bundles \cup {"none"},
                             payload : Payloads \cup {<< >>}]]
  /\ acks \in SUBSET [key : Keys, version : Nat, payload : Payloads]
  /\ faults \in 0..MaxFaults

(* All who were told that a payload is published under a key were told the *)
(* same, and it is there, as they were told, ever after, whoever raced     *)
(* whom and whatever was lost (aws_authority.py put_activation,            *)
(* _put_signed_task3).                                                     *)
AcksAgree ==
  \A a \in acks : Len(store[a.key]) = a.version /\ Current(a.key) = a.payload

(* A release is activated only when both of its objects are there, at the  *)
(* versions that the activation names (sealing.py _publish_release_to_aws).*)
ActivationIsWhole ==
  Exists(Activation) =>
    LET a == Current(Activation)
    IN  /\ a.model \in DOMAIN store[Model(a.bundle)]
        /\ a.gold \in DOMAIN store[Gold(a.bundle)]

(* A report stands on one whole release: its results, the manifest they    *)
(* were read by and the activation go by the same version of the authority *)
(* record, and each result is of the checkpoint that the trainer was told  *)
(* of (reporting.py _read_checkpoint_results).                             *)
ReportStands ==
  /\ ActivationIsWhole
  /\ Exists(Report) =>
       LET report == Current(Report)
       IN  /\ Current(Activation).record = report.record
           /\ Current(Manifest).record = report.record
           /\ \A c \in Cells :
                LET r == store[Result(c)][report.results[c].version]
                IN  /\ r.record = report.record /\ r.ckpt = refs[c]
                    /\ r.prediction = report.results[c].prediction

(* The report is published in the end, in spite of kills and lost answers, *)
(* but for two: a trainer that was not told of its checkpoint is never     *)
(* told, and a release activated under another version of the record than  *)
(* the current one is never loaded (runner.py, reporting.py).              *)
Stale == Exists(Activation) /\ Current(Activation).record # Len(store[Record])

EvaluationCompletes == <>(Exists(Report) \/ lost # {} \/ Stale)
=============================================================================
