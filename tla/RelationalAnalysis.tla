------------------------- MODULE RelationalAnalysis -------------------------
(***************************************************************************)
(* The analysis of the study's runs: which runs, checkpoints and guardrail *)
(* reports are read (scripts/analyze_relational.py), what verdict their    *)
(* estimates have (evals/relational_stats.py decide_verdict), and the      *)
(* document that is published of it and read again                         *)
(* (evals/relational_reporting.py).                                        *)
(*                                                                         *)
(* Estimates are in thousandths, one per seed; a hash is what it is of.    *)
(***************************************************************************)
EXTENDS RelationalStudyPlan

-----------------------------------------------------------------------------
(* The runs.  A directory has a run's configuration, a matrix for each     *)
(* evaluated checkpoint and, of a split run, a report and a receipt.       *)

PairingArtifacts == {"guardrail-report", "pairing-receipt"}
Obsolete == {"memory_on", "memory_off", "guardrails"}
NoReport == [binding |-> << >>, passed |-> FALSE]

ConfigIsPlanned(d, freeze) ==
  /\ \E s \in RunSpecs(freeze) : d.cfg = PlannedRun(freeze, s)
  /\ d.at = d.cfg.out

EntriesAreAllowed(d) ==
  /\ d.others \cap Obsolete = {} /\ d.matrices # {}
  /\ d.others = IF d.cfg.spec.condition = "split" THEN PairingArtifacts ELSE {}
MatrixIsOf(m, cfg) ==
  /\ m.name = m.checkpoint /\ m.config = cfg
  /\ m.model = cfg.spec.model /\ m.arm = cfg.spec.condition /\ m.seed = cfg.spec.seed
FrozenMatrices(d) == {m \in d.matrices : m.raw = d.cfg.raw}
Selected(d) == CHOOSE m \in FrozenMatrices(d) : TRUE
RunIsComplete(d, freeze) ==
  /\ ConfigIsPlanned(d, freeze) /\ EntriesAreAllowed(d)
  /\ \A m \in d.matrices : MatrixIsOf(m, d.cfg)
  /\ Cardinality(FrozenMatrices(d)) = 1 /\ Selected(d).schema = freeze.schema

(* The report of a split run is of its frozen checkpoint and its dense     *)
(* twin's, and of how the two were paired.                                 *)
Identity(m) == <<m.model, m.seed, m.raw, m.evaluator, m.data, m.schema>>
BuildPairingReceipt(split, dense) ==
  [split |-> Selected(split), dense |-> Selected(dense), configs |-> <<split.cfg, dense.cfg>>]
ReportBinding(split, dense, receipt) == <<Selected(split), Selected(dense), receipt>>
LooseGuardrail(split, dense) ==                      \* the report is not compared with the matrices
  /\ split.receipt = BuildPairingReceipt(split, dense)
  /\ Identity(Selected(split)) = Identity(Selected(dense))
GuardrailIsBound(split, dense) ==
  /\ split.receipt = BuildPairingReceipt(split, dense)
  /\ split.report.binding = ReportBinding(split, dense, split.receipt)
  /\ Identity(Selected(split)) = Identity(Selected(dense))
DenseOf(d, runs) ==
  CHOOSE r \in runs : r.cfg.spec = [d.cfg.spec EXCEPT !.condition = "dense"]
CollectGuardrails(runs) == {d \in runs : d.cfg.spec.condition = "split"}

(* Directories without a configuration are passed over.                    *)
Configured(tree) == {d \in tree : d.configured}
RunsAreComplete(tree, freeze) ==
  LET runs == Configured(tree) IN
  /\ \A d \in runs : RunIsComplete(d, freeze)
  /\ {d.cfg.spec : d \in runs} = RunSpecs(freeze)
  /\ Cardinality(runs) = Cardinality(RunSpecs(freeze))
  /\ \A d \in CollectGuardrails(runs) : GuardrailIsBound(d, DenseOf(d, runs))
RunMatrixRecords(runs) == {<<d.cfg.spec, Selected(d)>> : d \in runs}

-----------------------------------------------------------------------------
(* The verdict.                                                            *)

Estimated == {"split_dense_360", "split_dense_160_high", "dose_interaction_160", "split_random_160_high"}
EstimateHolds(e) == e.low <= e.mean /\ e.mean <= e.high

Validates(v) ==
  /\ v.estimates["split_dense_360"].mean >= 20
  /\ \A name \in Estimated : v.estimates[name].low > 0
  /\ \A t \in v.tasks : t > 0
PracticalNull(v) ==
  /\ v.estimates["split_dense_160_high"].high < 20 /\ v.estimates["split_dense_360"].high < 20
  /\ v.estimates["dose_interaction_160"].high <= 0 /\ v.estimates["split_random_160_high"].high <= 10
DecideVerdict(v) ==
  IF \E r \in v.reports : ~r.passed THEN "invalid"
  ELSE IF Validates(v) THEN "validated"
  ELSE IF PracticalNull(v) THEN "practical_null" ELSE "inconclusive"

(* As it is read again, the reports are hashes and whether all passed.     *)
VerdictInputsToDict(v) ==
  [estimates |-> v.estimates, tasks |-> v.tasks, reports |-> {r.binding : r \in v.reports},
   allPassed |-> \A r \in v.reports : r.passed]
VerdictFromSerialized(s) ==
  CASE ~s.allPassed     -> "invalid"
    [] s.allPassed /\ Validates(s) -> "validated"
    [] s.allPassed /\ ~Validates(s) /\ PracticalNull(s) -> "practical_null"
    [] OTHER            -> "inconclusive"
SerializedHolds(s) == s.reports # {} /\ \A name \in Estimated : EstimateHolds(s.estimates[name])

-----------------------------------------------------------------------------
(* The document and its bundle.                                            *)

InputBindings(runs, freeze, preregistration) ==
  [runsRoot |-> <<freeze.id, MatrixPlan(freeze), RunMatrixRecords(runs)>>, preregistration |-> preregistration,
   receipts |-> {d.receipt : d \in CollectGuardrails(runs)}]
DecisionPayload(document) ==
  <<document.verdict, document.inputs, document.bindings, document.matrix, document.bootstrap>>
BuildAnalysisDocument(v, bindings, matrix, secondary) ==
  LET document == [verdict |-> DecideVerdict(v), inputs |-> VerdictInputsToDict(v), bindings |-> bindings,
                   matrix |-> matrix, bootstrap |-> "frozen", secondary |-> {}, decision |-> << >>]
  IN  [document EXCEPT !.decision = DecisionPayload(document), !.secondary = secondary]
SecondaryIsIneligible(s) == s.role = "robustness_only" /\ ~s.eligible

AnalyzeRuns(tree, freeze, i) ==
  LET runs == Configured(tree)
      v == [estimates |-> i.estimates, tasks |-> i.tasks,
            reports |-> {d.report : d \in CollectGuardrails(runs)}]
  IN  BuildAnalysisDocument(v, InputBindings(runs, freeze, i.preregistration), RunMatrixRecords(runs), i.secondary)

(* main: what is refused before and after the estimates.                   *)
CanAnalyze(tree, freeze, i) ==
  /\ IsLaunchable(freeze) /\ i.revision = [revision |-> freeze.revision, clean |-> TRUE]
  /\ i.preregistration = freeze.preregistration /\ RunsAreComplete(tree, freeze)
  /\ \A name \in Estimated : EstimateHolds(i.estimates[name])
  /\ \A s \in i.secondary : SecondaryIsIneligible(s)

DocumentIsValid(document) ==
  /\ document.bootstrap = "frozen" /\ document.bindings.receipts # {}
  /\ \A s \in document.secondary : SecondaryIsIneligible(s)
  /\ document.decision = DecisionPayload(document)
  /\ SerializedHolds(document.inputs) /\ document.verdict = VerdictFromSerialized(document.inputs)

(* Two of the sections are confirmatory, and have no secondary rows.       *)
Sections == {"paired_deltas", "dose_interaction", "memory_factorial", "controls_by_hop_composition",
             "guardrails", "wikidata_robustness"}
RoleOf(section) ==
  CASE section \in {"paired_deltas", "dose_interaction"} -> "confirmatory"
    [] section = "guardrails"                            -> "instrument_only"
    [] section = "wikidata_robustness"                   -> "robustness_only"
    [] OTHER                                             -> "supporting_only"
DoseRows(document) ==
  LET high == document.inputs.estimates["split_dense_160_high"]
      dose == document.inputs.estimates["dose_interaction_160"]
  IN  {[low |-> high.mean - dose.mean, high |-> high.mean, interaction |-> dose.mean]}
SectionRows(section, document, runs) ==
  CASE section = "dose_interaction"    -> DoseRows(document)
    [] section = "wikidata_robustness" -> document.secondary
    [] section = "guardrails"          -> {d.report : d \in CollectGuardrails(runs)}
    [] section = "paired_deltas"       -> {document.inputs.estimates[n] : n \in Estimated \ {"dose_interaction_160"}}
    [] OTHER                           -> {Selected(d) : d \in runs}
PublishAnalysisBundle(document, runs) ==
  LET sidecars == [s \in Sections |-> [role |-> RoleOf(s), rows |-> SectionRows(s, document, runs)]]
  IN  [analysis |-> [document |-> document, artifacts |-> sidecars], sidecars |-> sidecars]
BundleIsValid(bundle) ==
  /\ DocumentIsValid(bundle.analysis.document) /\ bundle.analysis.artifacts = bundle.sidecars
  /\ \A s \in Sections : bundle.sidecars[s].role = RoleOf(s)

-----------------------------------------------------------------------------
(* Properties                                                              *)

(* What the evaluation leaves of a run, and one thing that is not so.      *)
MatrixOf(freeze, cfg, raw) ==
  [name |-> <<cfg.id, raw>>, checkpoint |-> <<cfg.id, raw>>, config |-> cfg, model |-> cfg.spec.model,
   arm |-> cfg.spec.condition, seed |-> cfg.spec.seed, raw |-> raw, evaluator |-> 1, data |-> cfg.spec.load,
   schema |-> freeze.schema]
Bare(freeze, s) ==
  LET cfg == PlannedRun(freeze, s)
      m   == MatrixOf(freeze, cfg, cfg.raw)
  IN  [configured |-> TRUE, cfg |-> cfg, at |-> cfg.out, matrices |-> {m}, others |-> {},
       report |-> NoReport, receipt |-> [split |-> m, dense |-> m, configs |-> <<cfg, cfg>>]]
Paired(d, dense, passed) ==
  LET receipt == BuildPairingReceipt(d, dense)
  IN  [d EXCEPT !.others = PairingArtifacts, !.receipt = receipt,
                !.report = [binding |-> ReportBinding(d, dense, receipt), passed |-> passed]]
Of(run, m) == [run EXCEPT !.matrices = {m}]
Changed(i, d) ==
  LET m == Selected(d) IN
  IF d.cfg.spec # i.spec THEN d
  ELSE CASE i.fault = "milestone"  -> [d EXCEPT !.matrices = @ \cup {MatrixOf(i.freeze, d.cfg, 1)}]
         [] i.fault = "two frozen" -> [d EXCEPT !.matrices = @ \cup {[m EXCEPT !.name = <<@, 2>>, !.checkpoint = <<@, 2>>]}]
         [] i.fault = "schema"     -> Of(d, [m EXCEPT !.schema = 2])
         [] i.fault = "arm"        -> Of(d, [m EXCEPT !.arm = "another"])
         [] i.fault = "name"       -> Of(d, [m EXCEPT !.name = <<@, 2>>])
         [] i.fault = "data"       -> Of(d, [m EXCEPT !.data = "another"])
         [] OTHER                  -> d
Evaluated(i) ==
  LET bare == {Changed(i, Bare(i.freeze, s)) : s \in RunSpecs(i.freeze)}
  IN  {IF d.cfg.spec.condition = "split" THEN Paired(d, DenseOf(d, bare), i.passed) ELSE d : d \in bare}
Spoiled(i, tree) ==
  LET d == CHOOSE x \in tree : x.cfg.spec = i.spec
      other == CHOOSE x \in tree : x.cfg.spec.condition = "split" /\ x # d
      With(x) == (tree \ {d}) \cup {x}
  IN  CASE i.fault = "stray"      -> tree \cup {[d EXCEPT !.configured = FALSE, !.at = <<"stray">>]}
        [] i.fault = "lost"       -> tree \ {d}
        [] i.fault = "twin"       -> tree \cup {[d EXCEPT !.at = <<"twin">>]}
        [] i.fault = "config"     -> With([d EXCEPT !.cfg.steps = @ + 1])
        [] i.fault = "obsolete"   -> With([d EXCEPT !.others = @ \cup {"guardrails"}])
        [] i.fault = "artifact"   -> With([d EXCEPT !.others = {"guardrail-report"}])
        [] i.fault = "no matrix"  -> With([d EXCEPT !.matrices = {MatrixOf(i.freeze, d.cfg, 1)}])
        [] i.fault = "report"     -> With([d EXCEPT !.report = other.report])
        [] i.fault = "receipt"    -> With([d EXCEPT !.receipt = other.receipt])
        [] OTHER                  -> tree
IsHarmless(i) ==
  \/ i.fault \in {"none", "milestone", "stray"}
  \/ i.fault = "data" /\ i.spec.condition = "random"
  \/ i.fault \in {"report", "receipt"} /\ i.spec.condition # "split"

Rehashed(document) == [document EXCEPT !.decision = DecisionPayload(document)]
DocumentHolds(document, tree, freeze, i) ==
  LET bundle == PublishAnalysisBundle(document, Configured(tree)) IN
  /\ BundleIsValid(bundle)
  /\ document.verdict = "invalid" <=> ~i.passed
  /\ [document EXCEPT !.secondary = {}] = AnalyzeRuns(tree, freeze, [i EXCEPT !.secondary = {}])
  /\ \A v \in {"validated", "practical_null", "inconclusive", "invalid"} \ {document.verdict} :
       ~DocumentIsValid(Rehashed([document EXCEPT !.verdict = v]))
  /\ ~DocumentIsValid([document EXCEPT !.matrix = {}])
  /\ ~BundleIsValid([bundle EXCEPT !.sidecars["guardrails"].rows = {}])
Exchanged(v) ==
  [v EXCEPT !.estimates = [n \in Estimated |->
      IF n = "dose_interaction_160" THEN @[n]
      ELSE [mean |-> -@[n].mean, low |-> -@[n].high, high |-> -@[n].low]]]

(* An analysis stands on the complete runs of its plan, each with the one  *)
(* checkpoint of its frozen length and each split run with a report of     *)
(* that and its dense twin's; whatever lies beside them does not matter.   *)
(* Its verdict is the one its document is read to have, whatever the       *)
(* secondary results, and no rehash makes another verdict acceptable; and  *)
(* no two rules of the verdict ever hold at once, for arms as they are or  *)
(* exchanged (_load_complete_runs, _collect_guardrails, decide_verdict,    *)
(* _verdict_from_serialized_inputs, publish_analysis_bundle).              *)
AnalysisIsBound ==
  /\ input.of = "analysis" =>
       LET tree == Spoiled(input, Evaluated(input))
       IN  /\ RunsAreComplete(tree, input.freeze) <=> IsHarmless(input)
           /\ CanAnalyze(tree, input.freeze, input)
                => DocumentHolds(AnalyzeRuns(tree, input.freeze, input), tree, input.freeze, input)
  /\ input.of = "verdict" =>
       LET v == [estimates |-> input.estimates, tasks |-> input.tasks,
                 reports |-> {[binding |-> <<1>>, passed |-> TRUE], [binding |-> <<2>>, passed |-> input.passed]}]
       IN  \A name \in Estimated : EstimateHolds(v.estimates[name])
             => /\ DecideVerdict(v) = VerdictFromSerialized(VerdictInputsToDict(v))
                /\ ~(Validates(v) /\ PracticalNull(v))
                /\ DecideVerdict(v) = "validated" => DecideVerdict(Exchanged(v)) # "validated"
=============================================================================
