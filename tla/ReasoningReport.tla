---------------------------- MODULE ReasoningReport ----------------------------
(***************************************************************************)
(* What the reasoning-v3 evaluation says: the scoring of what a checkpoint *)
(* answered, the gates it must pass (evals/reasoning_v3/runner.py), the    *)
(* paired statistics (inference.py), and the one report that is made when  *)
(* every result has been replayed (reporting.py).                          *)
(*                                                                         *)
(* A digest is the value it is a digest of.  A text is the core that its   *)
(* normal form without outer blanks has, and whether it is in that form.   *)
(* Accuracies and their differences are the fractions of the code, given   *)
(* by their numerators: all that are compared have one denominator.        *)
(* ReasoningRelease has the bucket and its versions.                       *)
(***************************************************************************)
EXTENDS Integers, FiniteSets, SequencesExt, FiniteSetsExt

CONSTANTS Seeds, CheckpointSteps, Families    \* sequences, in the frozen order

VARIABLE input        \* one of the bounded inputs; input.of names the module it is for

Refused == [record |-> "refused"]
Arms    == <<"dense", "split90">>
Runs    == Range(Arms) \X Range(Seeds)
Cells   == Range(Arms) \X Range(Seeds) \X Range(CheckpointSteps)
RunOf(cell) == <<cell[1], cell[2]>>
Terminal == Last(CheckpointSteps)
Total(S, Of(_)) == MapThenSumSet(Of, S)

-----------------------------------------------------------------------------
(* One answer.                                                             *)

NoText == [kind |-> "none"]
Normalized(text) == [text EXCEPT !.nfc = TRUE, !.padded = FALSE]
IsCanonical(text) == text.kind = "text" /\ text = Normalized(text)
OverLimit(made, limit) ==
  \/ made.stop = "max_new_tokens"
  \/ made.generated > limit
  \/ made.generated = limit /\ made.stop # "eot"
ErrorOf(made, limit) ==
  IF made.raw.kind = "none" THEN "missing" ELSE
  IF made.raw.kind = "surrogate" THEN "encoding" ELSE
  IF OverLimit(made, limit) THEN "over_limit" ELSE
  IF made.stop = "error" THEN "generation_error" ELSE
  IF made.raw.eot THEN "malformed" ELSE "none"
ScoreExactOutput(made, answer, limit) ==
  LET error      == ErrorOf(made, limit)
      prediction == IF made.raw.kind = "text" THEN Normalized(made.raw) ELSE NoText
  IN  [error |-> error, prediction |-> prediction, valid |-> error = "none",
       correct |-> error = "none" /\ prediction = answer]

-----------------------------------------------------------------------------
(* The gates of a checkpoint, of the evidence that its run left.           *)

PairingKinds == {"initialization", "data_order", "runtime", "corpus", "config"}
Authority    == "evaluator"
Provider     == "aws"
Precommitted(steps) == [k \in DOMAIN steps |-> [reason |-> "precommitted", step |-> steps[k]]]
Passed(e, context) ==
  LET binding == context.binding IN
  [factual_burden       |-> e.factual.required > 0 /\ e.factual.observed >= e.factual.required,
   memory_on_recall     |-> e.recall.expected > 0 /\ e.recall.observed = e.recall.expected,
   memory_off_leakage   |-> e.leaked = 0,
   exact_resume         |-> e.resume.resumed = e.resume.uninterrupted,
   evaluator_authority  |-> e.evaluator = Authority,
   complete_registry    |-> /\ context.complete
                            /\ e.registry.expected_items = context.items
                            /\ e.registry.observed_items = context.items
                            /\ e.registry.expected = context.registry
                            /\ e.registry.observed = context.registry,
   no_substitution      |-> /\ context.complete
                            /\ e.substitution.loaded = binding.checkpoint
                            /\ e.substitution.manifest = binding.checkpoint
                            /\ e.identity = [pairing |-> binding.pairing, config |-> binding.config],
   no_outcome_dependent_stopping |->
                            /\ e.stopping.planned = CheckpointSteps
                            /\ e.stopping.completed = CheckpointSteps
                            /\ e.stopping.continued = Precommitted(CheckpointSteps),
   no_replacement       |-> /\ e.replacement.expected = RunOf(binding.cell)
                            /\ e.replacement.observed = RunOf(binding.cell)
                            /\ e.replacement.replaced = << >>,
   no_exclusion         |-> /\ e.exclusion.expected_items = context.items
                            /\ e.exclusion.observed_items = context.items
                            /\ e.exclusion.excluded = << >>,
   provider_fixed       |-> e.provider.expected = Provider /\ e.provider.observed = Provider,
   no_missing_seed_imputation |->
                            /\ e.imputation.expected = Seeds
                            /\ e.imputation.observed = Seeds
                            /\ e.imputation.imputed = << >>]
SourceOf(e) ==
  [factual_burden |-> <<e.factual>>, memory_on_recall |-> <<e.recall>>, memory_off_leakage |-> <<e.leaked>>,
   exact_resume |-> <<e.resume>>, evaluator_authority |-> <<e.evaluator>>, complete_registry |-> <<e.registry>>,
   no_substitution |-> <<e.identity, e.substitution>>, no_outcome_dependent_stopping |-> <<e.stopping>>,
   no_replacement |-> <<e.replacement>>, no_exclusion |-> <<e.exclusion>>, provider_fixed |-> <<e.provider>>,
   no_missing_seed_imputation |-> <<e.imputation>>]
DeriveValidity(e, context) ==
  IF e.cell # context.binding.cell THEN Refused
  ELSE LET passed  == Passed(e, context)
           sources == SourceOf(e)
       IN  [gate \in DOMAIN sources |-> [passed |-> passed[gate], evidence |-> sources[gate]]]
GateSummary(gates) == [gates |-> gates, passed |-> \A gate \in DOMAIN gates : gates[gate].passed]

(* The signed manifest names the objects of every cell.                    *)
BindingOf(manifest, cell) ==
  LET entry == manifest[cell]
  IN  [cell |-> cell, checkpoint |-> entry.checkpoint, config |-> entry.config.digest,
       evidence |-> entry.evidence, pairing |-> [kind \in PairingKinds |-> entry.pairing[kind].identity]]
EntryIsOf(entry, cell) ==
  /\ entry.config.run = RunOf(cell)
  /\ \A kind \in PairingKinds : entry.pairing[kind].run = RunOf(cell) /\ entry.pairing[kind].kind = kind
ContextOf(study, binding) ==
  [binding |-> binding, items |-> study.items * Len(Families), registry |-> study.registry,
   complete |-> Cardinality(DOMAIN study.manifest) = Cardinality(Cells)]
LoadAuthenticatedCheckpoint(study, cell) ==
  IF cell \notin DOMAIN study.manifest THEN Refused ELSE
  IF ~EntryIsOf(study.manifest[cell], cell) THEN Refused ELSE
  LET binding  == BindingOf(study.manifest, cell)
      validity == DeriveValidity(study.manifest[cell].evidence, ContextOf(study, binding))
  IN  IF validity = Refused THEN Refused ELSE [binding |-> binding, validity |-> validity]
ReplayManifestValidity(study, binding) ==
  IF binding.cell \notin DOMAIN study.manifest THEN Refused ELSE
  IF ~EntryIsOf(study.manifest[binding.cell], binding.cell) \/ binding # BindingOf(study.manifest, binding.cell)
  THEN Refused
  ELSE DeriveValidity(study.manifest[binding.cell].evidence, ContextOf(study, binding))

-----------------------------------------------------------------------------
(* The result of one checkpoint.                                           *)

Positions(n)   == 1..(n * Len(Families))
FamilyOf(p, n) == Families[((p - 1) \div n) + 1]
ItemsAgree(study, rows) ==
  /\ \A items \in {study.visible, study.gold, rows} : DOMAIN items = Positions(study.items)
  /\ \A p \in Positions(study.items) :
       /\ study.visible[p].scorer = study.scorer
       /\ \A row \in {study.visible[p], study.gold[p], rows[p]} :
            row.item = study.visible[p].item /\ row.task = FamilyOf(p, study.items)
  /\ Cardinality({study.visible[p].item : p \in Positions(study.items)}) = study.items * Len(Families)
CodeIsBound(code) ==
  Len(code) > 0 /\ \A j, k \in DOMAIN code : code[j].path = code[k].path => j = k
FamilyScores(n, correct) ==
  [f \in DOMAIN Families |-> Cardinality({p \in Positions(n) : FamilyOf(p, n) = Families[f] /\ correct[p]})]
MacroOf(scores) == Total(DOMAIN scores, LAMBDA f : scores[f])
Replayed(study, rows) ==
  [p \in DOMAIN rows |-> ScoreExactOutput(rows[p].made, study.gold[p].answer, study.visible[p].limit)]
Correct(scored) == [p \in DOMAIN scored |-> scored[p].correct]

CheckpointResultIsValid(study, result) ==
  /\ result.binding.cell \in Cells /\ result.release.registry = study.registry
  /\ CodeIsBound(result.code) /\ result.scorer = study.scorer
  /\ ItemsAgree(study, result.rows)
  /\ \A p \in Positions(study.items) : result.rows[p].limit = study.visible[p].limit
  /\ LET scored == Replayed(study, result.rows)
     IN  /\ \A p \in DOMAIN scored : IsCanonical(study.gold[p].answer) /\ result.rows[p].score = scored[p]
         /\ result.scores = FamilyScores(study.items, Correct(scored))
  /\ result.macro = MacroOf(result.scores)
  /\ result.validity = GateSummary(result.validity.gates)
BuildCheckpointResult(study, predictions, binding, gates) ==
  IF ~(CodeIsBound(study.code) /\ ItemsAgree(study, predictions)) THEN Refused ELSE
  LET scored == Replayed(study, predictions)
      scores == FamilyScores(study.items, Correct(scored))
      result == [binding |-> binding, release |-> study.release, code |-> study.code, scorer |-> study.scorer,
                 rows |-> [p \in DOMAIN predictions |->
                             [item |-> predictions[p].item, task |-> predictions[p].task,
                              made |-> predictions[p].made, limit |-> study.visible[p].limit,
                              score |-> scored[p]]],
                 scores |-> scores, macro |-> MacroOf(scores), validity |-> GateSummary(gates)]
  IN  IF CheckpointResultIsValid(study, result) THEN result ELSE Refused
Evaluate(study, cell, predictions) ==
  LET loaded == LoadAuthenticatedCheckpoint(study, cell)
  IN  IF loaded = Refused THEN Refused
      ELSE BuildCheckpointResult(study, predictions, loaded.binding, loaded.validity)

-----------------------------------------------------------------------------
(* Every result is read again before it counts.                            *)

ReplayedCheckpoint(result, validity) ==
  [cell |-> result.binding.cell,
   items |-> [f \in Range(Families) |->
                LET rows == SelectSeq(result.rows, LAMBDA row : row.task = f)
                IN  [k \in DOMAIN rows |-> <<rows[k].item, rows[k].score.correct>>]],
   pairing |-> result.binding.pairing,
   failures |-> {gate \in DOMAIN validity : ~validity[gate].passed},
   release |-> result.release, code |-> result.code]
ReadCheckpointResult(study, key, result) ==
  IF result = Refused THEN Refused ELSE
  IF ~CheckpointResultIsValid(study, result) THEN Refused ELSE
  LET validity == ReplayManifestValidity(study, result.binding) IN
  IF validity = Refused THEN Refused ELSE
  IF \/ result.validity # GateSummary(validity)
     \/ result.release # study.release \/ result.code # study.code \/ result.binding.cell # key
  THEN Refused ELSE ReplayedCheckpoint(result, validity)
(* In the order the report reads them.                                     *)
CellOrder == FlattenSeq([s \in DOMAIN Seeds |-> FlattenSeq([a \in DOMAIN Arms |->
                          [t \in DOMAIN CheckpointSteps |-> <<Arms[a], Seeds[s], CheckpointSteps[t]>>]])])
ReadCheckpointResults(study, results) ==
  [k \in DOMAIN CellOrder |-> ReadCheckpointResult(study, CellOrder[k], results[CellOrder[k]])]

-----------------------------------------------------------------------------
(* The paired statistics.  The numerators are of n * Len(Families) items   *)
(* for one seed, and of all seeds' items for their mean.                   *)

ExactPairedSignTest(deltas) ==
  LET observed == Total(DOMAIN deltas, LAMBDA s : deltas[s])
      signs    == [DOMAIN deltas -> {-1, 1}]
  IN  [statistic |-> observed, permutations |-> Cardinality(signs),
       extreme   |-> Cardinality({g \in signs : Total(DOMAIN deltas, LAMBDA s : g[s] * deltas[s]) >= observed})]

(* How often one of n draws with chance hits / of falls, for one random u. *)
Binomial(n, hits, of, u) ==
  IF hits = 0 \/ of = 0 THEN 0 ELSE IF hits = of THEN n ELSE u % (n + 1)
Chances(row) ==
  LET Signed(sign) == Cardinality({k \in DOMAIN row : row[k] = sign})
  IN  [negative |-> Signed(-1), positive |-> Signed(1), items |-> Len(row)]
ResampledItems(chances, u) ==
  LET negative == Binomial(chances.items, chances.negative, chances.items, u)
  IN  Binomial(chances.items - negative, chances.positive, chances.items - chances.negative, u) - negative
DrawNumerator(chances, draw) ==
  Total((DOMAIN Seeds) \X (DOMAIN Families),
        LAMBDA at : ResampledItems(chances[draw.seeds[at[1]]][draw.families[at[1]][at[2]]],
                                   draw.noise * (2 * at[1] + at[2])))
CeilFraction(num, den) == -((-num) \div den)
NearestRankInterval(sorted, thousandths) ==
  LET alpha == (1000 - thousandths) \div 2
      n     == Len(sorted)
  IN  [lower |-> sorted[Max({1, CeilFraction(alpha * n, 1000)})],
       upper |-> sorted[Min({n, CeilFraction((1000 - alpha) * n, 1000)})]]
HierarchicalPairedBootstrap(deltas, randomness) ==
  LET chances == [s \in DOMAIN Seeds |-> [f \in DOMAIN Families |-> Chances(deltas[s][f])]]
      draws   == SortSeq([k \in DOMAIN randomness |-> DrawNumerator(chances, randomness[k])], <)
  IN  [estimate    |-> Total(DOMAIN Seeds, LAMBDA s : Total(DOMAIN Families, LAMBDA f : FoldSeq(+, 0, deltas[s][f]))),
       interval_95 |-> NearestRankInterval(draws, 950),
       interval_90 |-> NearestRankInterval(draws, 900),
       draws       |-> draws]
RightStepAulc(steps, values) ==
  Total(2..Len(steps), LAMBDA k : values[k] * (steps[k] - steps[k - 1]))

-----------------------------------------------------------------------------
(* The frozen verdict; all is the denominator of a mean over the seeds.    *)

Verdict(label, effect, null, learnable) ==
  [label |-> label, supports_effect |-> effect, supports_practical_null |-> null, learnable |-> learnable]
AssignFrozenVerdict(failures, exact, bootstrap, means, all) ==
  LET learnable == 20 * Max(Range(means)) >= all
      effect    == /\ failures = {} /\ exact.statistic > 0
                   /\ 20 * exact.extreme <= exact.permutations
                   /\ bootstrap.interval_95.lower > 0
      null      == /\ failures = {} /\ learnable /\ ~effect
                   /\ 100 * bootstrap.interval_90.lower > -all
                   /\ 100 * bootstrap.interval_90.upper < all
  IN  IF failures # {} THEN Verdict("invalid", FALSE, FALSE, learnable) ELSE
      IF effect THEN Verdict("exploratory_supports_effect", TRUE, FALSE, learnable) ELSE
      IF ~learnable THEN Verdict("inconclusive_floor", FALSE, FALSE, FALSE) ELSE
      IF null THEN Verdict("exploratory_supports_practical_null", FALSE, TRUE, TRUE)
      ELSE Verdict("inconclusive", FALSE, FALSE, TRUE)

-----------------------------------------------------------------------------
(* The report.                                                             *)

MatrixIsComplete(checkpoints) ==
  /\ \A j, k \in DOMAIN checkpoints : checkpoints[j].cell = checkpoints[k].cell => j = k
  /\ {checkpoints[k].cell : k \in DOMAIN checkpoints} = Cells
Identities(checkpoint) ==
  [f \in DOMAIN checkpoint.items |-> [k \in DOMAIN checkpoint.items[f] |-> checkpoint.items[f][k][1]]]
ItemsAreReplayed(checkpoints, n) ==
  /\ \A k \in DOMAIN checkpoints : Identities(checkpoints[k]) = Identities(checkpoints[1])
  /\ DOMAIN checkpoints[1].items = Range(Families)
  /\ \A f \in Range(Families) : Len(checkpoints[1].items[f]) = n /\ IsInjective(Identities(checkpoints[1])[f])
PairedIdentity(seed) == <<"paired_identity", seed>>
PairingFailures(by) ==
  {PairedIdentity(s) : s \in {s \in Range(Seeds) :
       Cardinality({by[cell].pairing : cell \in {c \in Cells : c[2] = s}}) # 1}}
  \cup {f \in {"no_substitution"} : \/ Cardinality({by[cell].release : cell \in Cells}) # 1
                                    \/ Cardinality({by[cell].code : cell \in Cells}) # 1}
HitsOf(checkpoint, f) == Cardinality({k \in DOMAIN checkpoint.items[f] : checkpoint.items[f][k][2]})
Hits(checkpoint) == Total(Range(Families), LAMBDA f : HitsOf(checkpoint, f))
Outcome(row) == IF row[2] THEN 1 ELSE 0
PairedDeltas(by) ==
  [s \in DOMAIN Seeds |-> [f \in DOMAIN Families |->
     LET split == by[<<"split90", Seeds[s], Terminal>>].items[Families[f]]
         dense == by[<<"dense", Seeds[s], Terminal>>].items[Families[f]]
     IN  [k \in DOMAIN dense |-> Outcome(split[k]) - Outcome(dense[k])]]]
Trajectory(scores) ==
  [s \in DOMAIN Seeds |->
     LET values == [arm \in Range(Arms) |->
                      [t \in DOMAIN CheckpointSteps |-> scores[<<arm, Seeds[s], CheckpointSteps[t]>>]]]
     IN  [accuracy |-> values,
          delta    |-> [t \in DOMAIN CheckpointSteps |-> values["split90"][t] - values["dense"][t]],
          aulc     |-> [arm \in Range(Arms) |-> RightStepAulc(CheckpointSteps, values[arm])]]]
BuildScientificReport(checkpoints, n, randomness) ==
  IF \E k \in DOMAIN checkpoints : checkpoints[k] = Refused THEN Refused ELSE
  IF ~(MatrixIsComplete(checkpoints) /\ ItemsAreReplayed(checkpoints, n)) THEN Refused ELSE
  LET by        == [cell \in Cells |-> checkpoints[CHOOSE k \in DOMAIN checkpoints : checkpoints[k].cell = cell]]
      failures  == UNION {by[cell].failures : cell \in Cells} \cup PairingFailures(by)
      ends      == [arm \in Range(Arms) |-> [s \in DOMAIN Seeds |-> Hits(by[<<arm, Seeds[s], Terminal>>])]]
      exact     == ExactPairedSignTest([s \in DOMAIN Seeds |-> ends["split90"][s] - ends["dense"][s]])
      bootstrap == HierarchicalPairedBootstrap(PairedDeltas(by), randomness)
      means     == [arm \in Range(Arms) |-> FoldSeq(+, 0, ends[arm])]
  IN  [failures |-> failures, exact |-> exact, bootstrap |-> bootstrap, means |-> means,
       decision |-> AssignFrozenVerdict(failures, exact, bootstrap, means, n * Len(Families) * Len(Seeds)),
       macro    |-> Trajectory([cell \in Cells |-> Hits(by[cell])]),
       family   |-> [f \in Range(Families) |-> Trajectory([cell \in Cells |-> HitsOf(by[cell], f)])]]
RunFrozenScientificInference(study, results, randomness) ==
  BuildScientificReport(ReadCheckpointResults(study, results), study.items, randomness)

-----------------------------------------------------------------------------
(* The study of an input, in which one thing may be odd.                   *)

Canonical == [kind |-> "text", core |-> "yes", nfc |-> TRUE, padded |-> FALSE, eot |-> FALSE]
Plainly(raw) == [raw |-> raw, generated |-> 3, stop |-> "eot"]
IsOdd(i, kind, cell) == i.odd.kind = kind /\ i.odd.cell = cell
RightPositions(i, cell) ==
  LET step == CHOOSE t \in DOMAIN CheckpointSteps : CheckpointSteps[t] = cell[3]
      seed == CHOOSE s \in DOMAIN Seeds : Seeds[s] = cell[2]
      hits == IF cell[3] = Terminal THEN i.hits[cell[1]][seed]
              ELSE IF cell[1] = "dense" THEN i.early[step] ELSE i.early[3 - step]
      all  == i.items * Len(Families)
  IN  IF i.apart /\ cell[1] = "split90" THEN (all - hits + 1)..all ELSE 1..hits
Answers(i, cell) ==
  LET right == RightPositions(i, cell)
  IN  [p \in Positions(i.items) |->
         IF IsOdd(i, "answer", cell) /\ p = 1 THEN i.odd.made
         ELSE Plainly([Canonical EXCEPT !.core = IF p \in right THEN "yes" ELSE "no"])]
PredictionsOf(i, cell) ==
  LET answers == Answers(i, cell)
      all     == [p \in DOMAIN answers |-> [item |-> p, task |-> FamilyOf(p, i.items), made |-> answers[p]]]
  IN  IF IsOdd(i, "lost_answer", cell) THEN Front(all)
      ELSE IF IsOdd(i, "swapped_answers", cell) THEN [all EXCEPT ![1] = all[2], ![2] = all[1]] ELSE all

Nowhere == <<"none", 0, 0>>
EvidenceOf(entry, cell, items) ==
  [cell |-> cell, factual |-> [required |-> 5, observed |-> 5], recall |-> [expected |-> 3, observed |-> 3],
   leaked |-> 0, resume |-> [resumed |-> 1, uninterrupted |-> 1], evaluator |-> Authority,
   registry     |-> [expected_items |-> items, observed_items |-> items, expected |-> "r", observed |-> "r"],
   substitution |-> [loaded |-> cell, manifest |-> cell],
   identity     |-> [pairing |-> [kind \in PairingKinds |-> entry.pairing[kind].identity],
                     config  |-> entry.config.digest],
   stopping     |-> [planned |-> CheckpointSteps, completed |-> CheckpointSteps,
                     continued |-> Precommitted(CheckpointSteps)],
   replacement  |-> [expected |-> RunOf(cell), observed |-> RunOf(cell), replaced |-> << >>],
   exclusion    |-> [expected_items |-> items, observed_items |-> items, excluded |-> << >>],
   provider     |-> [expected |-> Provider, observed |-> Provider],
   imputation   |-> [expected |-> Seeds, observed |-> Seeds, imputed |-> << >>]]
(* A gate, and evidence that its run did not meet it.                      *)
Damages(e) ==
  <<<<"factual_burden", [e EXCEPT !.factual.observed = 4]>>,
    <<"factual_burden", [e EXCEPT !.factual = [required |-> 0, observed |-> 0]]>>,
    <<"memory_on_recall", [e EXCEPT !.recall.observed = 2]>>,
    <<"memory_on_recall", [e EXCEPT !.recall = [expected |-> 0, observed |-> 0]]>>,
    <<"memory_off_leakage", [e EXCEPT !.leaked = 1]>>,
    <<"exact_resume", [e EXCEPT !.resume.resumed = 2]>>,
    <<"evaluator_authority", [e EXCEPT !.evaluator = "administrator"]>>,
    <<"complete_registry", [e EXCEPT !.registry.observed_items = @ - 1]>>,
    <<"complete_registry", [e EXCEPT !.registry.observed = "other"]>>,
    <<"no_substitution", [e EXCEPT !.substitution.loaded = Nowhere]>>,
    <<"no_substitution", [e EXCEPT !.identity.config = RunOf(Nowhere)]>>,
    <<"no_substitution", [e EXCEPT !.identity.pairing["runtime"] = 0]>>,
    <<"no_outcome_dependent_stopping", [e EXCEPT !.stopping.completed = Front(@)]>>,
    <<"no_outcome_dependent_stopping", [e EXCEPT !.stopping.continued[1].reason = "outcome"]>>,
    <<"no_replacement", [e EXCEPT !.replacement.replaced = <<1>>]>>,
    <<"no_exclusion", [e EXCEPT !.exclusion.excluded = <<1>>]>>,
    <<"provider_fixed", [e EXCEPT !.provider.observed = "other"]>>,
    <<"no_missing_seed_imputation", [e EXCEPT !.imputation.imputed = <<Seeds[1]>>]>>>>
EntryOf(i, cell) ==
  LET Identity(kind) == IF IsOdd(i, "pairing", cell) /\ kind = i.odd.pairing THEN 0 ELSE cell[2]
      run   == IF IsOdd(i, "other_run", cell) THEN <<cell[1], 0>> ELSE RunOf(cell)
      entry == [checkpoint |-> cell, config |-> [run |-> run, digest |-> RunOf(cell)],
                pairing |-> [kind \in PairingKinds |-> [run |-> RunOf(cell), kind |-> kind, identity |-> Identity(kind)]]]
      whole == EvidenceOf(entry, IF IsOdd(i, "other_evidence", cell) THEN Nowhere ELSE cell,
                          i.items * Len(Families))
  IN  [f \in (DOMAIN entry) \cup {"evidence"} |->
         IF f # "evidence" THEN entry[f]
         ELSE IF cell \in DOMAIN i.damaged THEN Damages(whole)[i.damaged[cell]][2] ELSE whole]
StudyOf(i) ==
  [items |-> i.items, scorer |-> "exact", registry |-> "r", release |-> [registry |-> "r", activation |-> 1],
   code |-> <<[path |-> 1, digest |-> 1], [path |-> 2, digest |-> 1]>>,
   visible |-> [p \in Positions(i.items) |->
                  [item |-> p, task |-> FamilyOf(p, i.items), limit |-> 8, scorer |-> "exact"]],
   gold    |-> [p \in Positions(i.items) |->
                  [item |-> p, task |-> FamilyOf(p, i.items),
                   answer |-> IF i.odd.kind = "gold" /\ p = 1 THEN [Canonical EXCEPT !.padded = TRUE] ELSE Canonical]],
   manifest |-> [cell \in Cells |-> EntryOf(i, cell)]]
(* The study as it was when the cell was evaluated.                        *)
EvaluatedStudy(i, study, cell) ==
  CASE IsOdd(i, "release", cell)  -> [study EXCEPT !.release.activation = 0]
    [] IsOdd(i, "code", cell)     -> [study EXCEPT !.code[1].digest = 0]
    [] IsOdd(i, "resigned", cell) -> [study EXCEPT !.manifest[cell].evidence = Damages(@)[1][2]]
    [] OTHER                      -> study
ResultsOf(i, study) ==
  LET results == [cell \in Cells |->
                    Evaluate(EvaluatedStudy(i, study, cell), cell, PredictionsOf(i, cell))]
  IN  IF i.odd.kind = "moved"
      THEN [results EXCEPT ![<<"dense", Seeds[1], Terminal>>] = results[<<"split90", Seeds[1], Terminal>>]]
      ELSE results
CheckpointsOf(i, checkpoints) ==
  LET first == checkpoints[1] IN
  CASE i.odd.kind = "lost"      -> Tail(checkpoints)
    [] i.odd.kind = "twice"     -> Append(checkpoints, first)
    [] i.odd.kind = "reordered" ->
         [checkpoints EXCEPT ![1].items[Families[1]] = Reverse(@)]
    [] OTHER                    -> checkpoints

(* The report of the results, or of a matrix that is not the one read.     *)
ReportOf(i, study, results) ==
  IF i.odd.kind \notin {"lost", "twice", "reordered"}
  THEN RunFrozenScientificInference(study, results, i.randomness)
  ELSE BuildScientificReport(CheckpointsOf(i, ReadCheckpointResults(study, results)), i.items, i.randomness)

Refusing == {"lost_answer", "swapped_answers", "gold", "other_run", "other_evidence", "release", "code",
             "resigned", "moved", "lost", "twice", "reordered"}

(* What the answers say.                                                   *)
IsRight(made) ==
  /\ made.raw.kind = "text" /\ made.raw.core = "yes" /\ ~made.raw.eot
  /\ made.stop = "eot" /\ made.generated <= 8
RightAnswers(i, cell) ==
  LET answers == Answers(i, cell) IN Cardinality({p \in DOMAIN answers : IsRight(answers[p])})
SplitLead(i, s) ==
  RightAnswers(i, <<"split90", Seeds[s], Terminal>>) - RightAnswers(i, <<"dense", Seeds[s], Terminal>>)
FailedGates(i) ==
  {Damages(EvidenceOf(EntryOf(i, cell), cell, 0))[i.damaged[cell]][1] : cell \in DOMAIN i.damaged}
  \cup {PairedIdentity(i.odd.cell[2]) : kind \in {i.odd.kind} \cap {"pairing"}}
(* The draws above or below a number decide on which side a bound is; of   *)
(* five seeds, a chance of at most 1/20 means that every one leads.        *)
AtMost(draws, x) == Cardinality({k \in DOMAIN draws : draws[k] <= x})
IsNearestRank(x, draws, thousandths) ==
  /\ 1000 * AtMost(draws, x) >= thousandths * Len(draws) /\ AtMost(draws, x) > 0
  /\ \/ 1000 * AtMost(draws, x - 1) < thousandths * Len(draws)
     \/ AtMost(draws, x - 1) = 0
Share(draws, Of(_)) == Cardinality({k \in DOMAIN draws : Of(draws[k])})
LabelOf(i, report) ==
  LET all   == i.items * Len(Families) * Len(Seeds)
      draws == report.bootstrap.draws
      low   == Share(draws, LAMBDA d : 100 * d <= -all)
      high  == Share(draws, LAMBDA d : 100 * d >= all)
      Rare(count, thousandths) == count = 0 \/ 1000 * count < thousandths * Len(draws)
  IN  IF FailedGates(i) # {} THEN "invalid" ELSE
      IF Rare(AtMost(draws, 0), 25) /\ \A s \in DOMAIN Seeds : SplitLead(i, s) > 0
      THEN "exploratory_supports_effect" ELSE
      IF \A arm \in Range(Arms) :
           20 * Total(Range(Seeds), LAMBDA s : RightAnswers(i, <<arm, s, Terminal>>)) < all
      THEN "inconclusive_floor" ELSE
      IF Rare(low, 50) /\ 1000 * high <= 50 * Len(draws) THEN "exploratory_supports_practical_null"
      ELSE "inconclusive"
(* A result with one bit or number changed.                                *)
Forgeries(result) ==
  {[result EXCEPT !.rows[p].score.correct = ~@] : p \in {1, Len(result.rows)}}
  \cup {[result EXCEPT !.rows[1].made.raw = [Canonical EXCEPT !.core = "maybe"]],
        [result EXCEPT !.rows[2].made.generated = 9],
        [result EXCEPT !.scores[1] = @ + 1, !.macro = @ + 1], [result EXCEPT !.macro = @ + 1],
        [result EXCEPT !.validity.passed = ~@],
        [result EXCEPT !.validity = GateSummary([@.gates EXCEPT !["exact_resume"].passed = ~@])],
        [result EXCEPT !.binding.checkpoint = Nowhere], [result EXCEPT !.binding.pairing["corpus"] = 9]}

-----------------------------------------------------------------------------
(* There is a report exactly when every cell was evaluated under the       *)
(* signed manifest, release and code it is read with; a result with one    *)
(* bit changed is refused (_validate_checkpoint_result, "Replay every      *)
(* correctness bit and aggregate against exact sealed gold").  The report  *)
(* names exactly the gates that some run's evidence fails; its p-value is  *)
(* the share of the seeds' subsets that do not add up to a lead; its       *)
(* intervals are the nearest ranks of the draws, one inside the other; and *)
(* of its verdicts exactly the one holds that the answers, the draws and   *)
(* the gates support (assign_frozen_verdict, "mutually exclusive").        *)
ReportIsReplayed ==
  input.of = "report" =>
    \A study \in {StudyOf(input)} : \A results \in {ResultsOf(input, study)} :
    \A report \in {ReportOf(input, study, results)} :
    LET lead    == SubSeq([s \in DOMAIN Seeds |-> SplitLead(input, s)], 1, Len(Seeds))
        Of(T)   == Total(T, LAMBDA s : lead[s])
        draws   == report.bootstrap.draws
        key     == <<"split90", Seeds[1], Terminal>>
    IN  /\ (report = Refused) = (input.odd.kind \in Refusing)
        /\ report # Refused =>
             /\ \A forgery \in Forgeries(results[key]) : ReadCheckpointResult(study, key, forgery) = Refused
             /\ report.failures = FailedGates(input)
             /\ report.exact.statistic = Of(DOMAIN Seeds) /\ report.bootstrap.estimate = Of(DOMAIN Seeds)
             /\ report.exact.extreme = Cardinality({T \in SUBSET DOMAIN Seeds : Of(T) <= 0})
             /\ IsNearestRank(report.bootstrap.interval_95.lower, draws, 25)
             /\ IsNearestRank(report.bootstrap.interval_95.upper, draws, 975)
             /\ IsNearestRank(report.bootstrap.interval_90.lower, draws, 50)
             /\ IsNearestRank(report.bootstrap.interval_90.upper, draws, 950)
             /\ report.decision.label = LabelOf(input, report)
             /\ report.decision.supports_effect = (report.decision.label = "exploratory_supports_effect")
             /\ \A s \in DOMAIN Seeds, arm \in Range(Arms) :
                  report.macro[s].aulc[arm] = Total(Range(Families), LAMBDA f : report.family[f][s].aulc[arm])
             /\ (input.hits["dense"] = input.hits["split90"] /\ ~input.apart /\ input.odd.kind # "answer") =>
                  Range(draws) = {0}
=============================================================================
