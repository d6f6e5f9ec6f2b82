------------------------ MODULE RelationalGuardrails ------------------------
(***************************************************************************)
(* The six guards that a split run must pass beside its dense twin: what   *)
(* an arm's evaluation measures (scripts/run_relational_evals.py), the     *)
(* report made of the two matrices (evals/relational_metrics.py) and its   *)
(* second reading (evals/relational_contracts.py).                         *)
(*                                                                         *)
(* A digest is the value it is a digest of.  Questions come in groups of n *)
(* that a model answers alike.  A number is a ratio of integers, where the *)
(* code has the nearest double; or it is the upper end of the 95 % Wilson  *)
(* interval of a ratio, of which only the comparison with 0.30 is          *)
(* computed.  The one Boolean value, of integrity, is the ratio 0 or 1.    *)
(***************************************************************************)
EXTENDS Integers, FiniteSets, SequencesExt, FiniteSetsExt

VARIABLE input        \* one of the bounded inputs; input.of names the module it is for

Refused == [record |-> "refused"]

(* Bags of rows: how often a key occurs, and what is missing from another. *)
Total(S, Of(_)) == MapThenSumSet(Of, S)
Count(rows, key) == Cardinality({k \in DOMAIN rows : rows[k] = key})
Missing(from, in) ==
  Total(Range(in), LAMBDA key : Max({0, Count(in, key) - Count(from, key)}))

-----------------------------------------------------------------------------
(* What an evaluation measures of one arm.                                 *)

(* Of the choices with the best score the first is taken.                  *)
Best(scores) ==
  CHOOSE c \in DOMAIN scores :
    \A o \in DOMAIN scores : scores[o] < scores[c] \/ (scores[o] = scores[c] /\ c <= o)
Asked(items) == Total(DOMAIN items, LAMBDA k : items[k].n)
RecognitionAccuracy(items, scores) ==
  [correct |-> Total({k \in DOMAIN items : Best(scores[items[k].id]) = items[k].answer},
                     LAMBDA k : items[k].n),
   n       |-> Asked(items)]
OfKind(items, kind) == SelectSeq(items, LAMBDA item : item.kind = kind)

(* Bits of all texts that encode to tokens, and their bytes.               *)
Scored(texts) == {k \in DOMAIN texts : texts[k].tokens > 0}
SharedTextBpb(texts, bits) ==
  [bits  |-> Total(Scored(texts), LAMBDA k : bits[k]),
   bytes |-> Total(Scored(texts), LAMBDA k : texts[k].bytes)]

(* The committed ledger says which ranges each condition masks.            *)
Payloads(ledger, condition) ==
  LET rows == SelectSeq(ledger, LAMBDA row : row.condition = condition)
  IN  [k \in DOMAIN rows |-> rows[k].range]
MaskAudit(data, condition) ==
  [unmasked |-> Missing(IF condition = "split" THEN Payloads(data.ledger, "split") ELSE << >>,
                        Payloads(data.ledger, "expected_split")),
   external |-> Len(Payloads(data.ledger, "expected_split")),
   masked   |-> Total({k \in DOMAIN data.ledger : /\ data.ledger[k].condition = condition
                                                  /\ data.ledger[k].protected},
                      LAMBDA k : data.ledger[k].length),
   targets  |-> data.targets]
AuditIsSound(data, audit) ==
  /\ Missing(Payloads(data.ledger, "expected_split"), Payloads(data.ledger, "split")) = 0
  /\ audit.external > 0 /\ audit.targets > 0
  /\ audit.unmasked <= audit.external /\ audit.masked <= audit.targets
MaskGuardrail(audit, condition) ==
  audit.masked + (IF condition = "split" THEN audit.unmasked ELSE 0) = 0

(* The data as it was committed, and what a model makes of it.             *)
DataIsWhole(data) ==
  /\ \A questions \in {data.recognition, data.internal} : Asked(questions) = data.items
  /\ data.factual = data.items /\ Len(data.texts) = data.shared
  /\ \A kind \in {"rule", "central_fact"} : OfKind(data.internal, kind) # << >>
  /\ \A k \in DOMAIN data.texts : data.texts[k].tokens = 0 => data.texts[k].bytes = 0
  /\ \E k \in Scored(data.texts) : data.texts[k].bytes > 0
  /\ data.items > 0
ProduceGuardrailMeasurements(data, answers, condition) ==
  LET audit == MaskAudit(data, condition) IN
  IF ~(DataIsWhole(data) /\ (condition = "selective" \/ AuditIsSound(data, audit))) THEN Refused ELSE
  [within      |-> IF condition = "selective" THEN [route |-> answers.route]
                   ELSE [mask |-> MaskGuardrail(audit, condition)],
   recognition |-> RecognitionAccuracy(data.recognition, answers.scores),
   factual     |-> [memory \in {"on", "off"} |-> [correct |-> answers.recalled[memory], n |-> data.factual]],
   rule        |-> RecognitionAccuracy(OfKind(data.internal, "rule"), answers.scores),
   language    |-> SharedTextBpb(data.texts, answers.bits)]

-----------------------------------------------------------------------------
(* The source that is written beside a matrix, and the matrix.             *)

CountsAreSound(counts) == counts.n > 0 /\ 0 <= counts.correct /\ counts.correct <= counts.n
SourceIsValid(source) ==
  /\ source.identity.arm \in {"dense", "split", "random"}
  /\ \A name \in {"factual_on", "factual_off", "recognition_off", "rule"} :
       CountsAreSound(source.measurements[name])
  /\ source.measurements.bpb.bits > 0 /\ source.measurements.bpb.bytes > 0
BuildGuardrailSource(measured, identity) ==
  IF measured = Refused THEN Refused ELSE
  IF identity.arm = "selective" \/ DOMAIN measured.within # {"mask"} THEN Refused ELSE
  LET source == [identity     |-> identity,
                 measurements |-> [factual_on      |-> measured.factual["on"],
                                   factual_off     |-> measured.factual["off"],
                                   recognition_off |-> measured.recognition,
                                   rule            |-> measured.rule,
                                   bpb             |-> measured.language],
                 mask_ledger  |-> measured.within.mask]
  IN  IF SourceIsValid(source) THEN source ELSE Refused
RouteArtifact(measured, identity) ==
  IF measured = Refused THEN Refused ELSE
  IF identity.arm # "selective" \/ DOMAIN measured.within # {"route"} THEN Refused
  ELSE [identity |-> identity, route |-> measured.within.route]
GuardrailArtifact(measured, identity) ==
  IF identity.arm = "selective" THEN RouteArtifact(measured, identity)
  ELSE BuildGuardrailSource(measured, identity)

(* The views of a matrix that the guards look at.                          *)
Anchor == <<"memory_on", "correct">>
Off    == <<"memory_off", "correct">>
Gold   == <<"memory_on", "gold_returns">>
MatrixIsExact(matrix) ==
  /\ matrix.artifact # Refused
  /\ \A view \in {Anchor, Off, Gold} : matrix.cells[view].identity = matrix.cells[Anchor].identity
  /\ matrix.artifact.identity = matrix.cells[Anchor].identity
IdentityOf(matrix) == matrix.cells[Anchor].identity
SharedFields == {"model", "seed", "raw", "evaluator", "data", "relations", "schema"}
Shared(identity) == [f \in SharedFields |-> identity[f]]

-----------------------------------------------------------------------------
(* Numbers and their comparisons.                                          *)

Ratio(num, den) == [upper |-> FALSE, num |-> num, den |-> den]
Rate(counts)    == Ratio(counts.correct, counts.n)
WilsonUpper(counts) == [upper |-> TRUE, num |-> counts.correct, den |-> counts.n]
NoNumber == Ratio(0, 0)
NoCounts == [correct |-> 0, n |-> 0]

Below(a, b) == a.num * b.den < b.num * a.den
Same(a, b)  == a.upper = b.upper /\ IF a.upper THEN a = b ELSE a.num * b.den = b.num * a.den
(* The upper end is below 0.30: the squared shortfall of 0.30, against     *)
(* 3.84146 times the variance at 0.30.                                     *)
UpperIsBelow(bound) ==
  LET shortfall == 3 * bound.den - 10 * bound.num
  IN  shortfall > 0 /\ 1000 * shortfall * shortfall > 80671 * bound.den
Compared(op, value, threshold) ==
  CASE op = "<"  -> IF value.upper THEN UpperIsBelow(value) ELSE Below(value, threshold)
    [] op = ">=" -> ~Below(value, threshold)
    [] op = "<=" -> ~Below(threshold, value)
    [] op = "==" -> Same(value, threshold)

Percent(k) == Ratio(k, 100)
Offset(number, k) == Ratio(100 * number.num - k * number.den, 100 * number.den)
Scaled(number, k) == Ratio(k * number.num, 100 * number.den)

-----------------------------------------------------------------------------
(* The report is made of measurements that are bound to their views.       *)

Bound(counts, cell) == [counts |-> counts, view |-> cell.view, identity |-> cell.identity]
Measurements(split, dense) ==
  LET s == split.artifact.measurements
      d == dense.artifact.measurements
  IN  [split_on_exact_recall           |-> Bound(s.factual_on, split.cells[Anchor]),
       dense_on_exact_recall           |-> Bound(d.factual_on, dense.cells[Anchor]),
       split_off_exact_recall          |-> Bound(s.factual_off, split.cells[Off]),
       split_off_recognition           |-> Bound(s.recognition_off, split.cells[Off]),
       split_off_first_hop_accuracy    |-> Bound(split.cells[Off].first_hop, split.cells[Off]),
       split_gold_return_path_accuracy |-> Bound(split.cells[Gold].path, split.cells[Gold]),
       split_on_path_accuracy          |-> Bound(split.cells[Anchor].path, split.cells[Anchor]),
       split_rule_accuracy             |-> Bound(s.rule, split.cells[Anchor]),
       dense_rule_accuracy             |-> Bound(d.rule, dense.cells[Anchor])]
Texts(matrix) == Bound(matrix.artifact.measurements.bpb, matrix.cells[Off])

Expected ==
  [split_on_exact_recall           |-> <<"split", Anchor>>,
   dense_on_exact_recall           |-> <<"dense", Anchor>>,
   split_off_exact_recall          |-> <<"split", Off>>,
   split_off_recognition           |-> <<"split", Off>>,
   split_off_first_hop_accuracy    |-> <<"split", Off>>,
   split_gold_return_path_accuracy |-> <<"split", Gold>>,
   split_on_path_accuracy          |-> <<"split", Anchor>>,
   split_rule_accuracy             |-> <<"split", Anchor>>,
   dense_rule_accuracy             |-> <<"dense", Anchor>>]
PairedDenominators ==
  {<<"split_on_exact_recall", "dense_on_exact_recall">>,
   <<"split_gold_return_path_accuracy", "split_on_path_accuracy">>,
   <<"split_rule_accuracy", "dense_rule_accuracy">>}
RateIsBound(measurement, arm, view, identities) ==
  /\ measurement.view = view /\ measurement.identity = identities[arm]
  /\ CountsAreSound(measurement.counts)
MeasurementsAreBound(rates, texts, identities) ==
  /\ \A name \in DOMAIN Expected : RateIsBound(rates[name], Expected[name][1], Expected[name][2], identities)
  /\ \A arm \in {"split", "dense"} :
       /\ texts[arm].view = Off /\ texts[arm].identity = identities[arm]
       /\ texts[arm].counts.bits > 0 /\ texts[arm].counts.bytes > 0
  /\ \A pair \in PairedDenominators : rates[pair[1]].counts.n = rates[pair[2]].counts.n
  /\ texts["split"].counts.bytes = texts["dense"].counts.bytes

Check(id, value, threshold, op, reference, counts) ==
  [id |-> id, value |-> value, threshold |-> threshold, op |-> op, reference |-> reference,
   counts |-> counts, passed |-> Compared(op, value, threshold)]
Against(id, counts, reference, slack) ==
  Check(id, Rate(counts), Offset(Rate(reference), slack), ">=", Rate(reference), counts)
GuardsOf(m, bits, integrity) ==
  LET counts == [name \in DOMAIN m |-> m[name].counts]
      Alone(id, name, k, op) == Check(id, Rate(counts[name]), Percent(k), op, NoNumber, counts[name])
  IN  [factual_job |->
         <<Alone("split_on_recall_floor", "split_on_exact_recall", 95, ">="),
           Against("split_on_recall_noninferiority", counts.split_on_exact_recall,
                   counts.dense_on_exact_recall, 2)>>,
       split_off_leakage |->
         <<Alone("split_off_recall", "split_off_exact_recall", 5, "<"),
           Check("split_off_recognition_wilson_hi", WilsonUpper(counts.split_off_recognition), Percent(30),
                 "<", NoNumber, counts.split_off_recognition)>>,
       retrieval_procedure |->
         <<Alone("split_off_first_hop", "split_off_first_hop_accuracy", 75, ">="),
           Against("gold_return_path_noninferiority", counts.split_gold_return_path_accuracy,
                   counts.split_on_path_accuracy, 5)>>,
       relation_rule |->
         <<Against("rule_noninferiority", counts.split_rule_accuracy, counts.dense_rule_accuracy, 2)>>,
       natural_text |->
         <<Check("bpb_noninferiority", bits["split"], Scaled(bits["dense"], 101), "<=", bits["dense"],
                 NoCounts)>>,
       instrument_integrity |->
         <<Check("integrity_conjunction", Ratio(IF integrity THEN 1 ELSE 0, 1), Ratio(1, 1), "==",
                 NoNumber, NoCounts)>>]
Concluded(guards) ==
  [g \in DOMAIN guards |->
     [checks |-> guards[g], passed |-> \A k \in DOMAIN guards[g] : guards[g][k].passed]]

EvaluateConfirmatoryGuardrails(rates, texts, identities, integrity) ==
  IF \/ identities["split"].checkpoint = identities["dense"].checkpoint
     \/ identities["split"].provenance = identities["dense"].provenance
     \/ ~MeasurementsAreBound(rates, texts, identities)
  THEN Refused
  ELSE LET bits   == [arm \in {"split", "dense"} |-> Ratio(texts[arm].counts.bits, texts[arm].counts.bytes)]
           guards == Concluded(GuardsOf(rates, bits, integrity))
       IN  [identities |-> identities, guards |-> guards,
            passed |-> \A g \in DOMAIN guards : guards[g].passed]

-----------------------------------------------------------------------------
(* The second reading: a report as it comes back from a file.              *)

Fixed(op, k) == [op |-> op, formula |-> "fixed", by |-> k]
Rules ==
  [split_on_recall_floor           |-> Fixed(">=", 95),
   split_on_recall_noninferiority  |-> [op |-> ">=", formula |-> "offset", by |-> 2],
   split_off_recall                |-> Fixed("<", 5),
   split_off_recognition_wilson_hi |-> Fixed("<", 30),
   split_off_first_hop             |-> Fixed(">=", 75),
   gold_return_path_noninferiority |-> [op |-> ">=", formula |-> "offset", by |-> 5],
   rule_noninferiority             |-> [op |-> ">=", formula |-> "offset", by |-> 2],
   bpb_noninferiority              |-> [op |-> "<=", formula |-> "scale", by |-> 101],
   integrity_conjunction           |-> Fixed("==", 100)]
GuardChecks ==
  [factual_job          |-> <<"split_on_recall_floor", "split_on_recall_noninferiority">>,
   split_off_leakage    |-> <<"split_off_recall", "split_off_recognition_wilson_hi">>,
   retrieval_procedure  |-> <<"split_off_first_hop", "gold_return_path_noninferiority">>,
   relation_rule        |-> <<"rule_noninferiority">>,
   natural_text         |-> <<"bpb_noninferiority">>,
   instrument_integrity |-> <<"integrity_conjunction">>]
Uncounted == {"bpb_noninferiority", "integrity_conjunction"}

IsRate(number) == number.den > 0 /\ 0 <= number.num /\ number.num <= number.den
ThresholdOf(rule, reference) ==
  CASE rule.formula = "fixed"  -> Percent(rule.by)
    [] rule.formula = "offset" -> Offset(reference, rule.by)
    [] rule.formula = "scale"  -> Scaled(reference, rule.by)
ReferenceIsRight(check, rule) ==
  IF rule.formula = "fixed" THEN check.reference = NoNumber
  ELSE IF check.id = "bpb_noninferiority" THEN check.reference.den > 0 /\ check.reference.num > 0
  ELSE IsRate(check.reference)
ValueIsRight(check) ==
  /\ IF check.id = "bpb_noninferiority" THEN check.value.num > 0 ELSE IsRate(check.value)
  /\ (check.id \in Uncounted) = (check.counts = NoCounts)
  /\ check.id \notin Uncounted =>
       /\ CountsAreSound(check.counts)
       /\ Same(check.value, IF check.id = "split_off_recognition_wilson_hi"
                            THEN WilsonUpper(check.counts) ELSE Rate(check.counts))
CheckIsRight(check, id) ==
  /\ check.id = id /\ check.op = Rules[id].op
  /\ ReferenceIsRight(check, Rules[id])
  /\ Same(check.threshold, ThresholdOf(Rules[id], check.reference))
  /\ ValueIsRight(check)
  /\ check.passed = Compared(check.op, check.value, check.threshold)
GuardIsRight(guard, ids) ==
  /\ DOMAIN guard.checks = DOMAIN ids
  /\ \A k \in DOMAIN ids : CheckIsRight(guard.checks[k], ids[k])
  /\ guard.passed = \A k \in DOMAIN ids : guard.checks[k].passed
GuardrailReport(report) ==
  IF /\ \A f \in {"checkpoint", "configuration", "provenance"} :
          report.identities["split"][f] # report.identities["dense"][f]
     /\ DOMAIN report.guards = DOMAIN GuardChecks
     /\ \A g \in DOMAIN GuardChecks : GuardIsRight(report.guards[g], GuardChecks[g])
     /\ report.passed = \A g \in DOMAIN GuardChecks : report.guards[g].passed
  THEN report ELSE Refused

-----------------------------------------------------------------------------
(* The report of two checkpoint directories.                               *)

PairingReceipt(split, dense) == <<IdentityOf(split), IdentityOf(dense)>>
BuildConfirmatoryGuardrailReport(split, dense, receipt) ==
  IF ~(MatrixIsExact(split) /\ MatrixIsExact(dense)) THEN Refused ELSE
  LET identities == [arm \in {"split", "dense"} |-> IdentityOf(IF arm = "split" THEN split ELSE dense)] IN
  IF \/ identities["split"].arm # "split" \/ identities["dense"].arm # "dense"
     \/ Shared(identities["split"]) # Shared(identities["dense"])
     \/ receipt # PairingReceipt(split, dense)
  THEN Refused
  ELSE LET made == EvaluateConfirmatoryGuardrails(
                     Measurements(split, dense),
                     [arm \in {"split", "dense"} |-> Texts(IF arm = "split" THEN split ELSE dense)],
                     identities, split.artifact.mask_ledger /\ dense.artifact.mask_ledger)
       IN  IF made = Refused THEN Refused ELSE GuardrailReport(made)

-----------------------------------------------------------------------------
(* The two matrices of an input, in which one identity may be odd.         *)

Conditions(i) == [side \in {"split", "dense"} |-> IF side = "split" THEN i.conditions[1] ELSE i.conditions[2]]
EvaluatedIdentity(i, side) ==
  LET whole == [f \in SharedFields \cup {"checkpoint", "configuration", "provenance"} |->
                  IF f \in SharedFields THEN IF side = "dense" /\ i.odd = f THEN "other" ELSE "same"
                  ELSE IF f = i.odd THEN "one" ELSE side]
  IN  [f \in DOMAIN whole \cup {"arm"} |-> IF f = "arm" THEN Conditions(i)[side] ELSE whole[f]]
MatrixOf(i, side) ==
  LET identity == EvaluatedIdentity(i, side)
      foreign  == [identity EXCEPT !.raw = "foreign"]
      answers  == i.answers[side]
      measured == ProduceGuardrailMeasurements(i.data, answers, identity.arm)
      Cell(view) == [view      |-> view,
                     identity  |-> IF i.odd = "cell" /\ view = Off THEN foreign ELSE identity,
                     first_hop |-> answers.first_hop,
                     path      |-> answers.path[view]]
  IN  [cells    |-> [view \in {Anchor, Off, Gold} |-> Cell(view)],
       artifact |-> GuardrailArtifact(measured, IF i.odd = "artifact" THEN foreign ELSE identity)]
ReceiptOf(i) ==
  IF i.odd = "receipt" THEN PairingReceipt(MatrixOf(i, "dense"), MatrixOf(i, "split"))
  ELSE PairingReceipt(MatrixOf(i, "split"), MatrixOf(i, "dense"))
ReportOf(i) ==
  BuildConfirmatoryGuardrailReport(MatrixOf(i, "split"), MatrixOf(i, "dense"), ReceiptOf(i))

(* What the guards ask, of the answers and of the committed ledger.        *)
Recognized(questions, answers) ==
  Asked(SelectSeq(questions, LAMBDA question : question.id \in answers.right))
MasksAreExact(ledger) ==
  /\ \A k \in DOMAIN ledger :
       ledger[k].condition \in {"split", "dense"} /\ ledger[k].protected => ledger[k].length = 0
  /\ Missing(Payloads(ledger, "split"), Payloads(ledger, "expected_split")) = 0
MeetsEveryGuard(i) ==
  LET split == i.answers["split"]
      dense == i.answers["dense"]
      n     == i.data.items
      rules == OfKind(i.data.internal, "rule")
      paths == split.path[Anchor].n
  IN  /\ 100 * split.recalled["on"] >= 95 * n
      /\ 100 * split.recalled["on"] >= 100 * dense.recalled["on"] - 2 * n
      /\ 100 * split.recalled["off"] < 5 * n
      /\ UpperIsBelow(WilsonUpper([correct |-> Recognized(i.data.recognition, split), n |-> n]))
      /\ 100 * split.first_hop.correct >= 75 * split.first_hop.n
      /\ 100 * split.path[Gold].correct >= 100 * split.path[Anchor].correct - 5 * paths
      /\ 100 * Recognized(rules, split) >= 100 * Recognized(rules, dense) - 2 * Asked(rules)
      /\ 100 * SharedTextBpb(i.data.texts, split.bits).bits <= 101 * SharedTextBpb(i.data.texts, dense.bits).bits
      /\ MasksAreExact(i.data.ledger)

(* A report with one thing changed.  The bits per byte have no counts they *)
(* could be compared with: of those, a change that turns the verdict.      *)
OtherNumber(number) == [number EXCEPT !.num = @ + 1]
OtherChecks(check) ==
  {[check EXCEPT !.passed = ~@], [check EXCEPT !.threshold = OtherNumber(@)],
   [check EXCEPT !.reference = OtherNumber(@)]}
  \cup (IF check.id \in Uncounted
        THEN {[check EXCEPT !.value = IF ~check.passed THEN check.threshold ELSE
                 IF check.op = "==" THEN Ratio(0, 1) ELSE [check.threshold EXCEPT !.num = 2 * @]]}
        ELSE {[check EXCEPT !.value = OtherNumber(@)],
              [check EXCEPT !.counts.correct = IF @ = 0 THEN 1 ELSE @ - 1]})
Forgeries(report) ==
  UNION {UNION {{[report EXCEPT !.guards[g].checks[k] = other] : other \in OtherChecks(report.guards[g].checks[k])} :
                  k \in DOMAIN report.guards[g].checks} : g \in DOMAIN report.guards}
  \cup {[report EXCEPT !.guards[g].passed = ~@] : g \in DOMAIN report.guards}
  \cup {[report EXCEPT !.passed = ~@]}

-----------------------------------------------------------------------------
(* A pair has a report exactly when it is a split run and its dense twin,  *)
(* of one model, seed, budget, data and schema, under their own receipt,   *)
(* and no cell or source of another evaluation is among them; the report   *)
(* stands its second reading; it passes exactly when the answers and the   *)
(* committed ledger meet the six guards; and with any one number or        *)
(* verdict in it changed it is refused (GuardrailReport.from_dict,         *)
(* "confirmatory verdict must be the six-guard conjunction").              *)
GuardrailsAreJudged ==
  input.of = "guardrails" =>
    \A report \in {ReportOf(input)} :
    /\ (report # Refused) = /\ input.odd = "none" /\ input.conditions = <<"split", "dense">>
                            /\ Missing(Payloads(input.data.ledger, "expected_split"),
                                       Payloads(input.data.ledger, "split")) = 0
    /\ report # Refused =>
         /\ GuardrailReport(report) = report
         /\ report.passed = MeetsEveryGuard(input)
         /\ \A forgery \in Forgeries(report) : GuardrailReport(forgery) = Refused
=============================================================================
