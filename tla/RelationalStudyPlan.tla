------------------------- MODULE RelationalStudyPlan -------------------------
(***************************************************************************)
(* What follows a freeze of the relational study: the plan of its runs     *)
(* (scripts/make_relational_manifest.py), the receipt of the corpora that  *)
(* were built for it (experiment/relational_assets.py), the run manifest   *)
(* made of both, and the portable bundle (scripts/package_relational_run.  *)
(* py) with its two verifications (scripts/verify_relational_bundle.py and *)
(* scripts/offline_relational_contracts.py).                               *)
(*                                                                         *)
(* A digest is the value it is a digest of.  A path is a tuple.  Entities  *)
(* are in thousands; there may be fewer seeds than five.                   *)
(***************************************************************************)
EXTENDS Integers, FiniteSets, SequencesExt

VARIABLE input        \* one of the bounded inputs; input.of names the module it is for

None == "none"
NoContent == << >>                                   \* the hash of an asset nobody built
NoReceipt == [freeze |-> None, plan |-> [freeze |-> None, runs |-> {}], assets |-> {}]
Parameters == [d160m |-> 162221, d360m |-> 356034]   \* in thousands
MaxRoundingError == 5000                             \* MAX_ROUNDING_ERROR, its inverse
Loads ==
  {[model |-> "d160m", load |-> "low", conditions |-> {"dense", "split"}],
   [model |-> "d160m", load |-> "high", conditions |-> {"dense", "split", "random"}],
   [model |-> "d360m", load |-> "confirmation", conditions |-> {"dense", "split"}]}
Conditions == {"dense", "random", "split"}

(* The nearest whole number of updates, at least one.                      *)
RoundRawPositions(requested, perStep) ==
  LET nearest == (requested + perStep \div 2) \div perStep
      steps   == IF nearest < 1 THEN 1 ELSE nearest
      error   == IF steps * perStep > requested THEN steps * perStep - requested
                 ELSE requested - steps * perStep
  IN  [ok |-> MaxRoundingError * error < requested, steps |-> steps, actual |-> steps * perStep]
Budget(freeze, model) ==
  RoundRawPositions(Parameters[model] * freeze.tokensPerParameter, freeze.tokensPerStep)
BudgetsAreRounded(freeze) == \A model \in DOMAIN Parameters : Budget(freeze, model).ok

(* n800k, n1m, n1p8m: the six digits of the remainder without their zeros. *)
EntityLoadLabel(thousands) ==
  IF thousands < 1000 THEN <<"k", thousands>>
  ELSE IF thousands % 1000 = 0 THEN <<"m", thousands \div 1000>>
  ELSE <<"p", thousands \div 1000, thousands % 1000>>

-----------------------------------------------------------------------------
(* The plan of the runs.                                                   *)

RunSpecs(freeze) ==
  UNION {{[model |-> l.model, condition |-> c, load |-> l.load, entities |-> freeze[l.load], seed |-> s] :
            c \in l.conditions, s \in freeze.seeds} : l \in Loads}
StreamOf(spec) == [model |-> spec.model, load |-> spec.load, entities |-> spec.entities, seed |-> spec.seed]
StreamCommitment(freeze, stream) ==
  [freeze |-> freeze.id, stream |-> stream, raw |-> Budget(freeze, stream.model).actual]
WeightsCommitment(freeze, stream, condition) ==
  [of |-> StreamCommitment(freeze, stream), condition |-> condition]

BaseDir(spec) == <<spec.model, EntityLoadLabel(spec.entities), spec.seed>>
DataRel(spec) == Append(BaseDir(spec), <<"train">>)

(* One sidecar for all conditions of a stream.                             *)
SharedWeightsRel(spec) == Append(BaseDir(spec), <<"weights">>)
WeightsRel(spec) == Append(BaseDir(spec), <<spec.condition, "weights">>)
OutRel(spec)     == <<spec.model, EntityLoadLabel(spec.entities), spec.condition, spec.seed>>

PlannedRun(freeze, spec) ==
  [spec |-> spec, id |-> <<spec.model, EntityLoadLabel(spec.entities), spec.condition, spec.seed>>,
   data |-> DataRel(spec), weights |-> WeightsRel(spec), out |-> OutRel(spec),
   steps |-> Budget(freeze, spec.model).steps, raw |-> Budget(freeze, spec.model).actual]
MatrixPlan(freeze) == [freeze |-> freeze.id, runs |-> {PlannedRun(freeze, s) : s \in RunSpecs(freeze)}]

ProtectedBuild(freeze, spec) ==
  [freeze |-> freeze.id, plan |-> MatrixPlan(freeze), stream |-> StreamOf(spec),
   raw |-> Budget(freeze, spec.model).actual,
   weights |-> [c \in Conditions |-> WeightsCommitment(freeze, StreamOf(spec), c)]]
AssetSpecs(freeze) ==
  UNION {{[kind |-> "stream", path |-> DataRel(s), build |-> BaseDir(s),
           commitment |-> StreamCommitment(freeze, StreamOf(s)), metadata |-> ProtectedBuild(freeze, s)],
          [kind |-> "weights", path |-> WeightsRel(s), build |-> BaseDir(s),
           commitment |-> WeightsCommitment(freeze, StreamOf(s), s.condition),
           metadata |-> ProtectedBuild(freeze, s)]} : s \in RunSpecs(freeze)}

-----------------------------------------------------------------------------
(* The asset receipt: what was built is read and hashed.                   *)
(* disk.manifests has the manifest of each build, disk.files the content   *)
(* of each file.                                                           *)

SpecsAreNormal(specs) == \A a, b \in specs : a.path = b.path => a = b
BuildsAreOfFreeze(disk, freeze, specs) ==
  /\ \A a, b \in specs : a.build = b.build => a.metadata = b.metadata
  /\ \A a \in specs : /\ a.build \in DOMAIN disk.manifests
                      /\ disk.manifests[a.build].freeze = freeze.id
                      /\ disk.manifests[a.build].metadata = a.metadata
FilesAreIndexed(disk, specs) ==
  \A a \in specs : /\ a.path \in DOMAIN disk.files
                   /\ a.path \in DOMAIN disk.manifests[a.build].artifacts
                   /\ disk.manifests[a.build].artifacts[a.path] = disk.files[a.path]
ReceiptCanBeMade(disk, freeze, specs) ==
  SpecsAreNormal(specs) /\ BuildsAreOfFreeze(disk, freeze, specs) /\ FilesAreIndexed(disk, specs)
CreateAssetReceipt(disk, freeze, specs) ==
  [freeze |-> freeze.id, plan |-> MatrixPlan(freeze),
   assets |-> {[kind |-> a.kind, path |-> a.path, commitment |-> a.commitment,
                content |-> disk.files[a.path], manifest |-> disk.manifests[a.build]] : a \in specs}]
ValidateAssetReceipt(receipt, freeze, specs) ==
  /\ receipt.freeze = freeze.id /\ receipt.plan = MatrixPlan(freeze) /\ SpecsAreNormal(specs)
  /\ {<<r.kind, r.path, r.commitment>> : r \in receipt.assets}
       = {<<a.kind, a.path, a.commitment>> : a \in specs}

-----------------------------------------------------------------------------
(* The run manifest.                                                       *)

HashOf(receipt, kind, path) ==
  IF receipt = NoReceipt THEN NoContent
  ELSE (CHOOSE r \in receipt.assets : r.kind = kind /\ r.path = path).content
PairMaterial(freeze, spec, stream) ==
  [model |-> spec.model, seed |-> spec.seed, stream |-> stream,
   commitment |-> StreamCommitment(freeze, StreamOf(spec)),
   steps |-> Budget(freeze, spec.model).steps, raw |-> Budget(freeze, spec.model).actual]
MakeRun(freeze, spec, receipt) ==
  LET stream == HashOf(receipt, "stream", DataRel(spec))
  IN  [plan |-> PlannedRun(freeze, spec), freeze |-> freeze.id, stream |-> stream,
       weights |-> HashOf(receipt, "weights", WeightsRel(spec)),
       commitments |-> <<StreamCommitment(freeze, StreamOf(spec)),
                         WeightsCommitment(freeze, StreamOf(spec), spec.condition)>>,
       pair |-> PairMaterial(freeze, spec, stream)]
BuildRuns(freeze, receipt) == {MakeRun(freeze, s, receipt) : s \in RunSpecs(freeze)}

GroupOf(run) == <<run.plan.spec.model, run.plan.spec.load, run.plan.spec.seed>>
PairsHold(freeze, runs) ==
  LET groups == {GroupOf(r) : r \in runs} IN
  /\ Cardinality(groups) = 3 * Cardinality(freeze.seeds)
  /\ \A g \in groups :
       LET group == {r \in runs : GroupOf(r) = g}
       IN  /\ {r.plan.spec.condition : r \in group}
                = IF g[1] = "d160m" /\ g[2] = "high" THEN Conditions ELSE {"dense", "split"}
           /\ Cardinality({r.pair : r \in group}) = 1
           /\ \A r \in group : r.pair = PairMaterial(freeze, r.plan.spec, r.stream)

IsLaunchable(freeze) == freeze.status = "frozen"
ManifestOf(freeze, receipt) ==
  [freeze |-> freeze, receipt |-> receipt, plan |-> MatrixPlan(freeze), runs |-> BuildRuns(freeze, receipt)]
ReceiptFits(freeze, receipt) ==
  IF IsLaunchable(freeze) THEN receipt # NoReceipt /\ ValidateAssetReceipt(receipt, freeze, AssetSpecs(freeze))
  ELSE receipt = NoReceipt
RunManifestIsValid(m) ==
  /\ BudgetsAreRounded(m.freeze) /\ ReceiptFits(m.freeze, m.receipt)
  /\ m.plan = MatrixPlan(m.freeze) /\ m.runs = BuildRuns(m.freeze, m.receipt)
  /\ Cardinality({r.plan.id : r \in m.runs}) = 7 * Cardinality(m.freeze.seeds)
  /\ PairsHold(m.freeze, m.runs)

-----------------------------------------------------------------------------
(* The bundle: the contracts, one file for each run, and what the assets   *)
(* are that stay outside of it.                                            *)

ExternalAssets(receipt) ==
  IF receipt = NoReceipt THEN {}
  ELSE {[r EXCEPT !.kind = IF @ = "stream" THEN "corpus" ELSE "weights"] : r \in receipt.assets}
CanPackage(freeze, manifest, revision) ==
  /\ RunManifestIsValid(manifest) /\ manifest.freeze = freeze
  /\ IsLaunchable(freeze) => revision = [revision |-> freeze.revision, clean |-> TRUE]
PackageRun(freeze, manifest, revision) ==
  [freeze |-> freeze, manifest |-> manifest, receipt |-> manifest.receipt, revision |-> revision,
   configs |-> manifest.runs, external |-> ExternalAssets(manifest.receipt)]

(* Without the modules of the study: what a run names is recorded, and     *)
(* nothing else is.                                                        *)
Recorded(receipt, kind, path, content, commitment) ==
  {r \in receipt.assets : r.kind = kind /\ r.path = path /\ r.content = content /\ r.commitment = commitment}
NamedBy(run, receipt) ==
  Recorded(receipt, "stream", run.plan.data, run.stream, run.commitments[1])
    \cup Recorded(receipt, "weights", run.plan.weights, run.weights, run.commitments[2])
AssetsAreNamed(runs, receipt) ==
  /\ Cardinality({r.path : r \in receipt.assets}) = Cardinality(receipt.assets)
  /\ \A run \in runs : Cardinality({r.kind : r \in NamedBy(run, receipt)}) = 2
  /\ UNION {NamedBy(run, receipt) : run \in runs} = receipt.assets
NothingIsNamed(bundle) ==
  /\ bundle.manifest.receipt = NoReceipt /\ bundle.receipt = NoReceipt
  /\ \A run \in bundle.manifest.runs : run.stream = NoContent /\ run.weights = NoContent
PayloadIsValid(bundle) ==
  LET m == bundle.manifest
  IN  /\ m.freeze.id = bundle.freeze.id
      /\ Cardinality(bundle.configs) = 7 * Cardinality(bundle.freeze.seeds)
      /\ IF IsLaunchable(m.freeze)
         THEN /\ bundle.revision = [revision |-> bundle.freeze.revision, clean |-> TRUE]
              /\ m.receipt # NoReceipt /\ m.receipt.freeze = bundle.freeze.id /\ m.receipt.plan = m.plan
              /\ bundle.receipt = m.receipt /\ AssetsAreNamed(m.runs, m.receipt)
         ELSE NothingIsNamed(bundle)
      /\ bundle.external = ExternalAssets(m.receipt)

(* With them, from the extracted tree.                                     *)
OfflineIsValid(bundle) ==
  /\ RunManifestIsValid(bundle.manifest) /\ bundle.manifest.freeze = bundle.freeze
  /\ bundle.configs = bundle.manifest.runs
VerifyBundle(bundle) == PayloadIsValid(bundle) /\ OfflineIsValid(bundle)

-----------------------------------------------------------------------------
(* Properties                                                              *)

(* The disk after the builds of a freeze, and with one thing gone wrong.   *)
Disk(freeze) ==
  LET specs == AssetSpecs(freeze)
      Content(a) == <<a.kind, a.commitment>>
      At(path) == CHOOSE a \in specs : a.path = path
      files == [p \in {a.path : a \in specs} |-> Content(At(p))]
  IN  [files |-> files,
       manifests |-> [b \in {a.build : a \in specs} |->
         LET a == CHOOSE x \in specs : x.build = b
         IN  [freeze |-> freeze.id, metadata |-> a.metadata,
              artifacts |-> [p \in {x.path : x \in {y \in specs : y.build = b}} |-> files[p]]]]]
Spoilt(disk, fault, other) ==
  CASE fault.kind = "none"  -> disk
    [] fault.kind = "file"  -> [disk EXCEPT !.files[fault.path] = <<"other">>]
    [] fault.kind = "build" -> [disk EXCEPT !.manifests[fault.build] = other.manifests[fault.build]]
    [] fault.kind = "both"  -> [disk EXCEPT !.manifests[fault.build] = other.manifests[fault.build],
                                            !.files[fault.path] = other.files[fault.path]]

(* The runs a bundle describes: no two write to one place, and those of a  *)
(* model, load and seed differ in their condition alone, train on the same *)
(* stream, as it lay on disk, each with the sidecar of its condition.      *)
RunsArePaired(runs, disk) ==
  /\ \A r, q \in runs : r # q => r.plan.out # q.plan.out /\ r.plan.id # q.plan.id
  /\ \A r \in runs : /\ r.stream = disk.files[r.plan.data] /\ r.weights = disk.files[r.plan.weights]
                     /\ r.weights[2].condition = r.plan.spec.condition
  /\ \A r, q \in runs : GroupOf(r) = GroupOf(q) <=> r.plan.data = q.plan.data
  /\ \A r, q \in runs : r.plan.weights = q.plan.weights => r = q

Bundled(i, receipt) ==
  LET manifest == ManifestOf(i.freeze, receipt)
  IN  CanPackage(i.freeze, manifest, i.revision)
        /\ VerifyBundle(PackageRun(i.freeze, manifest, i.revision))
Mixed(bundle, other, part) == [bundle EXCEPT ![part] = other[part]]
StudyHolds(i, specs, disk) ==
  LET receipt  == CreateAssetReceipt(disk, i.freeze, specs)
      manifest == ManifestOf(i.freeze, receipt)
      bundle   == PackageRun(i.freeze, manifest, i.revision)
      theirs   == ManifestOf(i.other, CreateAssetReceipt(Disk(i.other), i.other, AssetSpecs(i.other)))
      other    == PackageRun(i.other, theirs, i.revision)
  IN  /\ Bundled(i, receipt) /\ RunsArePaired(manifest.runs, disk)
      /\ i.part # None /\ other[i.part] # bundle[i.part] => ~VerifyBundle(Mixed(bundle, other, i.part))

(* A freeze that was built is packaged and verifies, its runs paired, and  *)
(* a bundle with a part of another freeze's does not verify; while a file  *)
(* or a build that is not what was built for this freeze never gets into a *)
(* receipt.  A fixture is packaged without assets, and budgets that no     *)
(* number of updates is near to are not planned at all                     *)
(* (round_raw_positions, create_asset_receipt, build_manifest,             *)
(* assert_pair_fingerprints, _validate_payload, verify_contracts.py).      *)
StudyIsBound ==
  input.of = "study" =>
    LET specs == AssetSpecs(input.freeze)
        disk  == Spoilt(Disk(input.freeze), input.fault, Disk(input.other))
    IN  IF ~BudgetsAreRounded(input.freeze) THEN ~RunManifestIsValid(ManifestOf(input.freeze, NoReceipt))
        ELSE IF ~IsLaunchable(input.freeze) THEN Bundled(input, NoReceipt)
        ELSE /\ ReceiptCanBeMade(disk, input.freeze, specs) <=> disk = Disk(input.freeze)
             /\ disk = Disk(input.freeze) => StudyHolds(input, specs, disk)
=============================================================================
