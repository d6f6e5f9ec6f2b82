--------------------------- MODULE CheckpointMetrics ---------------------------
(***************************************************************************)
(* evals/relational_metrics.py and the summary that relational_contracts   *)
(* makes of it: the metrics of a checkpoint under one control, added up a  *)
(* pair at a time while rows stream by (CheckpointMetricAccumulator), and  *)
(* computed again from all rows by whoever verifies the summary            *)
(* (compute_checkpoint_metrics, CheckpointSummary).                        *)
(*                                                                         *)
(* Rows are those of RelationalControls.  A rate is its two counts.        *)
(***************************************************************************)
EXTENDS RelationalControls

EdgeControls == {"relevant_edge", "irrelevant_edge"}
Compositions == {"seen", "heldout"}
TaskIds      == {"composition", "ordering", "equality"}

(* _states_to_eval_rows, what it says of the answer.  A model says the     *)
(* right answer, a wrong one or nothing.                                   *)
Prediction(says, answer) == IF says = "right" THEN answer ELSE says

(* _bind_edit_locality: a relevant edit changes the prediction as it       *)
(* changes the answer, an irrelevant one leaves it.                        *)
Locality(control, prediction, after, baseline) ==
  IF control = "relevant_edge" THEN prediction = after /\ prediction # baseline
  ELSE prediction = baseline

(* The row of a view that a model decoded, with the answers before and     *)
(* after: what the model says now, and had said of the same question under *)
(* the correct control.                                                    *)
RowOf(made, control, mode, view, state, before, answer) ==
  LET says == Prediction(made.says, answer)
  IN  EvalRow(view, control, state, before)
        @@ [correct |-> says = answer, abstained |-> says = "blank", malformed |-> 0,
            task |-> made.item.task, composition |-> made.composition,
            lookups |-> IF mode = "memory_on" THEN Cardinality({k \in DOMAIN state.rows :
                                                 state.rows[k] # Miss}) ELSE 0,
            local |-> IF control \in EdgeControls
                      THEN {Locality(control, says, answer, Prediction(made.said, before))}
                      ELSE {}]

(* A path that misses keeps the answer it had.                             *)
AnswerAfter(view, before) ==
  IF OracleAnswer(view.item, view.store) = "none" THEN before
  ELSE OracleAnswer(view.item, view.store)

RowOfView(made, control, mode, view, before) ==
  RowOf(made, control, mode, view, Decoded(view, mode, made.model), before,
        AnswerAfter(view, before))

MetricRow(made, control, mode) ==
  RowOfView(made, control, mode, CHOOSE v \in Views(made.item, made.graph, control) : TRUE,
            OracleAnswer(made.item, made.graph))

ExactPath(row) == Reads(row.actions) = Reads(row.gold)
Retrieved(row) == ExactPath(row) /\ \A k \in DOMAIN row.referents : row.referents[k]
Hop(row)       == Len(Reads(row.gold))

Slices(row) == {<<"hop", Hop(row)>>, <<"composition", row.composition>>, <<"task", row.task>>}
AllSlices(steps) ==
  {<<"hop", h>> : h \in 1..steps} \cup {<<"composition", c>> : c \in Compositions}
    \cup {<<"task", t>> : t \in TaskIds}

Steps(row) == Len(row.actions)
Rate(numerator, denominator) == [numerator |-> numerator, denominator |-> denominator]

-----------------------------------------------------------------------------
(* CheckpointMetricAccumulator: the counts are a bag of what was seen.     *)
Times(name, n) == IF n = 0 THEN EmptyBag ELSE (name :> n)

(* A hop is the action's if only the relation is.                          *)
SameRelation(predicted, gold, k) == k \in DOMAIN predicted /\ predicted[k].edge = gold[k].edge

HopIsExact(predicted, gold, k) == k \in DOMAIN predicted /\ predicted[k] = gold[k]

(* The hops a row counts for: those it took, or those it was to take.      *)
HopsTaken(row)   == DOMAIN Reads(row.actions) \cap DOMAIN Reads(row.gold)
HopsCounted(row) == DOMAIN Reads(row.gold)

(* _add_row.                                                               *)
RowCounts(row) ==
  LET predicted == Reads(row.actions)
      gold      == Reads(row.gold)
      If(test, name) == IF test THEN {name} ELSE {}
  IN  SetToBag({<<"rows">>}
        \cup If(row.correct, <<"correct">>) \cup If(row.actions = row.gold, <<"all">>)
        \cup If(ExactPath(row), <<"path">>) \cup If(Retrieved(row), <<"retrieved">>)
        \cup If(row.correct /\ Retrieved(row), <<"given">>)
        \cup If(row.abstained, <<"abstained">>)
        \cup If(row.local # {}, <<"edits">>) \cup If(TRUE \in row.local, <<"local">>)
        \cup UNION {{<<"hop", k, "of">>}
                      \cup If(HopIsExact(predicted, gold, k), <<"hop", k, "action">>)
                      \cup If(SameRelation(predicted, gold, k), <<"hop", k, "relation">>)
                      \cup If(row.referents[k], <<"hop", k, "referent">>) :
                      k \in HopsCounted(row)}
        \cup UNION {{<<"slice", s, "rows">>}
                      \cup If(row.correct, <<"slice", s, "correct">>)
                      \cup If(ExactPath(row), <<"slice", s, "path">>) : s \in Slices(row)})
      (+) Times(<<"malformed">>, row.malformed) (+) Times(<<"misses">>, row.misses)
      (+) Times(<<"excess">>, row.excess) (+) Times(<<"reads">>, Len(predicted))
      (+) Times(<<"lookups">>, row.lookups)

(* add_pair: the slices of a pair are those of its first row.              *)
PairIsCorrect(pair) == pair[1].correct /\ pair[2].correct
PairCounts(pair) ==
  RowCounts(pair[1]) (+) RowCounts(pair[2])
    (+) SetToBag({<<"pairs">>} \cup {<<"slice", s, "pairs">> : s \in Slices(pair[1])}
          \cup IF PairIsCorrect(pair)
               THEN {<<"correct pairs">>} \cup {<<"slice", s, "correct pairs">> : s \in Slices(pair[1])}
               ELSE {})

(* finalize.                                                               *)
Finalized(bag, control, steps) ==
  LET N(name)    == CopiesIn(name, bag)
      Of(n, d)   == Rate(N(<<n>>), N(<<d>>))
      slots      == steps * N(<<"rows">>)
      InHop(k, n)   == Rate(N(<<"hop", k, n>>), N(<<"hop", k, "of">>))
      InSlice(s, n, d) == Rate(N(<<"slice", s, n>>), N(<<"slice", s, d>>))
  IN  [item |-> Of("correct", "rows"), pair |-> Of("correct pairs", "pairs"),
       all |-> Of("all", "rows"), path |-> Of("path", "rows"), given |-> Of("given", "retrieved"),
       gold_path |-> IF control = "gold_path" THEN Of("correct", "rows") ELSE Rate(0, 0),
       malformed |-> Rate(N(<<"malformed">>), slots), miss |-> Of("misses", "reads"),
       abstention |-> Of("abstained", "rows"), excess |-> Rate(N(<<"excess">>), slots),
       locality |-> Of("local", "edits"), lookups |-> N(<<"lookups">>),
       per_hop |-> [k \in 1..steps |->
                      [n \in {"relation", "action", "referent"} |-> InHop(k, n)]],
       slices |-> [s \in AllSlices(steps) |->
                     [item |-> InSlice(s, "correct", "rows"),
                      pair |-> InSlice(s, "correct pairs", "pairs"),
                      path |-> InSlice(s, "path", "rows")]]]

Accumulated(pairs, control) ==
  Finalized(FoldLeft(LAMBDA bag, p : bag (+) PairCounts(p), EmptyBag, pairs),
            control, Steps(pairs[1][1]))

-----------------------------------------------------------------------------
(* compute_checkpoint_metrics, from all rows at once.                      *)
Share(rows, Test(_)) == Rate(Len(SelectSeq(rows, Test)), Len(rows))
SumOf(rows, Value(_)) == FoldLeft(LAMBDA n, r : n + Value(r), 0, rows)

(* _strict_pair_rate and _slice_checkpoint_metrics.                        *)
PairRate(pairs) == Share(pairs, PairIsCorrect)
RowsIn(pairs)   == FlattenSeq(pairs)
SliceMetrics(pairs, s) ==
  LET inside == SelectSeq(pairs, LAMBDA p : s \in Slices(p[1]))
      rows   == SelectSeq(RowsIn(pairs), LAMBDA r : s \in Slices(r))
  IN  [item |-> Share(rows, LAMBDA r : r.correct), pair |-> PairRate(inside),
       path |-> Share(rows, ExactPath)]

HopMetrics(rows, k) ==
  LET reach == SelectSeq(rows, LAMBDA r : k <= Hop(r))
  IN  [relation |-> Share(reach, LAMBDA r : SameRelation(Reads(r.actions), Reads(r.gold), k)),
       action   |-> Share(reach, LAMBDA r : HopIsExact(Reads(r.actions), Reads(r.gold), k)),
       referent |-> Share(reach, LAMBDA r : r.referents[k])]

Computed(pairs, control) ==
  LET rows  == RowsIn(pairs)
      steps == Steps(rows[1])
      edits == SelectSeq(rows, LAMBDA r : r.local # {})
  IN  [item |-> Share(rows, LAMBDA r : r.correct), pair |-> PairRate(pairs),
       all |-> Share(rows, LAMBDA r : r.actions = r.gold), path |-> Share(rows, ExactPath),
       given |-> Share(SelectSeq(rows, Retrieved), LAMBDA r : r.correct),
       gold_path |-> IF control = "gold_path" THEN Share(rows, LAMBDA r : r.correct)
                     ELSE Rate(0, 0),
       malformed |-> Rate(SumOf(rows, LAMBDA r : r.malformed), steps * Len(rows)),
       miss |-> Rate(SumOf(rows, LAMBDA r : r.misses), SumOf(rows, LAMBDA r : Len(Reads(r.actions)))),
       abstention |-> Share(rows, LAMBDA r : r.abstained),
       excess |-> Rate(SumOf(rows, LAMBDA r : r.excess), steps * Len(rows)),
       locality |-> Share(edits, LAMBDA r : TRUE \in r.local),
       lookups |-> SumOf(rows, LAMBDA r : r.lookups),
       per_hop |-> [k \in 1..steps |-> HopMetrics(rows, k)],
       slices |-> [s \in AllSlices(steps) |-> SliceMetrics(pairs, s)]]

-----------------------------------------------------------------------------
(* CheckpointSummary.from_dict, of so many pairs.                          *)
IsRate(rate) == rate.numerator <= rate.denominator

Family(metrics, name) == {s \in DOMAIN metrics.slices : s[1] = name}
SliceTotal(metrics, name, field) ==
  FoldSet(LAMBDA s, n : n + metrics.slices[s][field].denominator, 0, Family(metrics, name))

SummaryAccepted(metrics, control, mode, pairs) ==
  LET rows  == 2 * pairs
      steps == Len(metrics.per_hop)
      Below(k) == {metrics.per_hop[k][n].denominator : n \in DOMAIN metrics.per_hop[k]}
  IN  /\ metrics.item.denominator = rows /\ metrics.pair.denominator = pairs
      /\ \A rate \in {metrics.all, metrics.path, metrics.abstention} : rate.denominator = rows
      /\ \A rate \in {metrics.malformed, metrics.excess} : rate.denominator = steps * rows
      /\ \A rate \in {metrics.item, metrics.pair, metrics.all, metrics.path, metrics.given,
                      metrics.gold_path, metrics.malformed, metrics.miss, metrics.abstention,
                      metrics.excess, metrics.locality} : IsRate(rate)
      /\ metrics.gold_path.denominator = IF control = "gold_path" THEN rows ELSE 0
      /\ metrics.locality.denominator = IF control \in EdgeControls THEN rows ELSE 0
      /\ metrics.given.denominator <= rows
      /\ Below(1) = {rows}
      /\ \A k \in 2..steps : /\ Cardinality(Below(k)) = 1
                             /\ Max(Below(k)) <= Max(Below(k - 1))
      /\ \A s \in DOMAIN metrics.slices :
           /\ metrics.slices[s].item.denominator = 2 * metrics.slices[s].pair.denominator
           /\ metrics.slices[s].path.denominator = metrics.slices[s].item.denominator
      /\ \A name \in {"hop", "composition", "task"} :
           /\ SliceTotal(metrics, name, "item") = rows
           /\ SliceTotal(metrics, name, "pair") = pairs
      /\ IF mode = "memory_on" THEN metrics.lookups <= metrics.miss.denominator
         ELSE metrics.lookups = 0

(* An input: pairs of what a model made of a question and its              *)
(* counterfactual, under one control.                                      *)
MetricPairs(in) ==
  FoldLeft(LAMBDA pairs, pair :
             Append(pairs, <<MetricRow(pair[1], in.control, in.mode),
                             MetricRow(pair[2], in.control, in.mode)>>),
           << >>, in.pairs)

Agree(pairs, metrics, control, mode) ==
  /\ metrics = Computed(Reverse(pairs), control)
  /\ SummaryAccepted(metrics, control, mode, Len(pairs))

AccumulatedAgrees(pairs, control, mode) ==
  Agree(pairs, Accumulated(pairs, control), control, mode)

(* What is added up a pair at a time, in whatever order the pairs come, is *)
(* what is computed from all rows, so that a published summary always      *)
(* stands its verification; and the summary of rows that are accepted is   *)
(* itself accepted, whatever the model did (validate_rows,                 *)
(* CheckpointSummary.from_dict).                                           *)
MetricsAgree ==
  input.of = "metrics" => AccumulatedAgrees(MetricPairs(input), input.control, input.mode)
=============================================================================
