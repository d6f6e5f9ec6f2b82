------------------------ MODULE RelationalEstimates ------------------------
(***************************************************************************)
(* The paired inference of the relational study (evals/relational_stats.py)*)
(* and the blinded design of its fifth gate (evals/relational_design.py).  *)
(* What is resampled, in this order and once for all arms and contrasts,   *)
(* is a seed, a world, a relation path, a template and a pair.             *)
(*                                                                         *)
(* Values are multiplied by Scale, which every number of drawn pairs       *)
(* divides, and sums stand for means over seeds and tasks.  The random     *)
(* numbers are a polynomial of their place, Noise.  There may be fewer     *)
(* seeds than five and fewer tasks than three.                             *)
(***************************************************************************)
EXTENDS Integers, FiniteSets, SequencesExt, FiniteSetsExt

VARIABLE input        \* one of the bounded inputs; input.of names the module it is for

Scale == 60
PrimaryArms == {"split", "dense", "random"}
Variants == {"original", "counterfactual"}
Sorted(S) == SetToSortSeq(S, <)
SumOf(seq) == FoldLeft(+, 0, seq)

-----------------------------------------------------------------------------
(* The panel: rows of an arm for each label, the pairs of all the same.    *)

PairKey(row) == <<row.seed, row.task, row.pair, row.world, row.path, row.template>>
PairedJoinKey(row) == Append(PairKey(row), row.variant)

TypedRows(rows, seeds, tasks) ==
  /\ rows # {} /\ {r.seed : r \in rows} = seeds
  /\ \E arm \in PrimaryArms : {r.arm : r \in rows} = {arm}
  /\ \A r \in rows : r.variant \in Variants /\ r.control = "correct"
  /\ \A s \in seeds :
       LET cell == {r \in rows : r.seed = s}
       IN  {r.task : r \in cell} = tasks /\ Cardinality({<<r.raw, r.data, r.evaluator>> : r \in cell}) = 1
  /\ Cardinality({<<r.raw, r.evaluator>> : r \in rows}) = 1
  /\ Cardinality({PairedJoinKey(r) : r \in rows}) = Cardinality(rows)

GroupsCover(groups, labels) ==
  /\ UNION groups = labels /\ \A g \in groups : Cardinality(g) > 1
  /\ \A g, h \in groups : g # h => g \cap h = {}

(* Labels agree on the evaluator; those of a group on their data too.      *)
RowsAgree(a, b, inGroup) ==
  /\ {PairedJoinKey(r) : r \in a} = {PairedJoinKey(r) : r \in b}
  /\ \A r \in a, q \in b :
       PairedJoinKey(r) = PairedJoinKey(q) =>
         r.evaluator = q.evaluator /\ (inGroup => r.raw = q.raw /\ r.data = q.data)
PanelIsValid(rows, seeds, tasks, groups) ==
  LET labels == DOMAIN rows IN
  /\ Cardinality(labels) > 1 /\ GroupsCover(groups, labels)
  /\ \A l \in labels : TypedRows(rows[l], seeds, tasks)
  /\ \A k, l \in labels : RowsAgree(rows[k], rows[l], \E g \in groups : {k, l} \subseteq g)
  /\ \A l \in labels : \A r \in rows[l] :
       {q.variant : q \in {x \in rows[l] : PairKey(x) = PairKey(r)}} = Variants

(* A pair is answered when both of its variants are.                       *)
Outcomes(rows) ==
  [k \in {PairKey(r) : r \in rows} |->
     IF \A r \in rows : PairKey(r) = k => r.correct THEN 1 ELSE 0]

(* The pairs of a seed and a task: a tree of worlds, paths and templates.  *)
Pairs == 4                                                \* the level below them
RECURSIVE Tree(_, _)
Tree(keys, level) ==
  IF level = Pairs THEN SetToSortSeq(keys, LAMBDA a, b : a[3] < b[3])
  ELSE LET values == Sorted({k[3 + level] : k \in keys})
       IN  [i \in 1..Len(values) |-> Tree({k \in keys : k[3 + level] = values[i]}, level + 1)]
Panel(rows, seeds, tasks) ==
  LET keys == {PairKey(r) : r \in rows[CHOOSE l \in DOMAIN rows : TRUE]}
  IN  [seeds |-> seeds, tasks |-> tasks, outcomes |-> [l \in DOMAIN rows |-> Outcomes(rows[l])],
       keys |-> [s \in seeds |-> [t \in tasks |-> {k \in keys : k[1] = s /\ k[2] = t}]],
       trees |-> [s \in seeds |-> [t \in tasks |-> Tree({k \in keys : k[1] = s /\ k[2] = t}, 1)]]]

-----------------------------------------------------------------------------
(* Contrasts of labels, by their weights.                                  *)

ContrastsAreValid(contrasts, labels) ==
  /\ UNION {DOMAIN contrasts[c] : c \in DOMAIN contrasts} = labels
  /\ \A c \in DOMAIN contrasts :
       /\ \A l \in DOMAIN contrasts[c] : contrasts[c][l] # 0
       /\ MapThenSumSet(LAMBDA l : contrasts[c][l], DOMAIN contrasts[c]) = 0

(* pairs is a sequence: a pair counts as often as it was drawn.            *)
TaskValue(outcomes, pairs, weights) ==
  LET Successes(l) == SumOf([i \in 1..Len(pairs) |-> outcomes[l][pairs[i]]])
  IN  (Scale * MapThenSumSet(LAMBDA l : weights[l] * Successes(l), DOMAIN weights)) \div Len(pairs)
TaskDelta(panel, s, t, weights) == TaskValue(panel.outcomes, SetToSeq(panel.keys[s][t]), weights)
SeedDelta(panel, s, weights) == MapThenSumSet(LAMBDA t : TaskDelta(panel, s, t, weights), panel.tasks)
PointDelta(panel, weights) == MapThenSumSet(LAMBDA s : SeedDelta(panel, s, weights), panel.seeds)
TaskMean(panel, t, weights) == MapThenSumSet(LAMBDA s : TaskDelta(panel, s, t, weights), panel.seeds)

Noise(rng, at) == (rng.a * at * at + rng.b * at + rng.c) % 11
SampleValues(values, rng, at) ==
  [i \in 1..Len(values) |-> values[1 + (Noise(rng, at + i) % Len(values))]]

RECURSIVE DrawFrom(_, _, _, _)
DrawFrom(tree, level, rng, at) ==
  LET chosen == SampleValues(tree, rng, at)
      next   == at + Len(tree)
  IN  IF level = Pairs THEN [at |-> next, pairs |-> chosen]
      ELSE FoldLeft(LAMBDA sofar, below :
                      LET drawn == DrawFrom(below, level + 1, rng, sofar.at)
                      IN  [at |-> drawn.at, pairs |-> sofar.pairs \o drawn.pairs],
                    [at |-> next, pairs |-> << >>], chosen)

(* A draw for each contrast.                                               *)
DrawSeedApart(panel, contrasts, rng, at, s) ==
  FoldLeft(LAMBDA sofar, t :
             LET drawn == DrawFrom(panel.trees[s][t], 1, rng, sofar.at)
                 Alone(c) == DrawFrom(panel.trees[s][t], 1, rng, sofar.at + Cardinality(DOMAIN contrasts[c]))
             IN  [at |-> drawn.at,
                  values |-> [c \in DOMAIN contrasts |->
                    sofar.values[c] + TaskValue(panel.outcomes, Alone(c).pairs, contrasts[c])]],
           [at |-> at, values |-> [c \in DOMAIN contrasts |-> 0]], Sorted(panel.tasks))

(* The tasks of one drawn seed, and then a replicate: all of its contrasts *)
(* are valued from the pairs that were drawn.                              *)
DrawSeed(panel, contrasts, rng, at, s) ==
  FoldLeft(LAMBDA sofar, t :
             LET drawn == DrawFrom(panel.trees[s][t], 1, rng, sofar.at)
             IN  [at |-> drawn.at,
                  values |-> [c \in DOMAIN contrasts |->
                    sofar.values[c] + TaskValue(panel.outcomes, drawn.pairs, contrasts[c])]],
           [at |-> at, values |-> [c \in DOMAIN contrasts |-> 0]], Sorted(panel.tasks))
DrawOne(panel, contrasts, rng, at) ==
  LET seeds == SampleValues(Sorted(panel.seeds), rng, at)
  IN  FoldLeft(LAMBDA sofar, s :
                 LET drawn == DrawSeed(panel, contrasts, rng, sofar.at, s)
                 IN  [at |-> drawn.at,
                      values |-> [c \in DOMAIN contrasts |-> sofar.values[c] + drawn.values[c]]],
               [at |-> at + Len(seeds), values |-> [c \in DOMAIN contrasts |-> 0]], seeds)

Replicates(panel, contrasts, rng, n) ==
  FoldLeft(LAMBDA sofar, i :
             LET drawn == DrawOne(panel, contrasts, rng, sofar.at)
             IN  [at |-> drawn.at, samples |-> Append(sofar.samples, drawn.values)],
           [at |-> 0, samples |-> << >>], [i \in 1..n |-> i]).samples

(* The nearest rank: ceil(p * n) - 1, from zero.                           *)
PercentileIndex(permille, n) ==
  LET rank == (permille * n + 999) \div 1000 - 1 IN
  IF rank < 0 THEN 0 ELSE IF rank > n - 1 THEN n - 1 ELSE rank
PercentileInterval(values) ==
  LET ordered == SortSeq(values, <)
  IN  [low |-> ordered[1 + PercentileIndex(25, Len(values))],
       high |-> ordered[1 + PercentileIndex(975, Len(values))]]
Estimate(panel, weights, samples) ==
  LET interval == PercentileInterval(samples)
  IN  [mean |-> PointDelta(panel, weights), low |-> interval.low, high |-> interval.high,
       deltas |-> [s \in panel.seeds |-> SeedDelta(panel, s, weights)]]

(* An estimate whose interval is beside its mean is refused, and with it   *)
(* the analysis.                                                           *)
EstimateIsValid(e) ==
  /\ e.low <= e.mean /\ e.mean <= e.high
  /\ e.mean = MapThenSumSet(LAMBDA s : e.deltas[s], DOMAIN e.deltas)
HierarchicalPairedContrasts(panel, contrasts, samples) ==
  [c \in DOMAIN contrasts |->
     Estimate(panel, contrasts[c], [i \in DOMAIN samples |-> samples[i][c]])]

-----------------------------------------------------------------------------
(* The blinded design: which arm has which label is drawn and committed to *)
(* before the outcomes are read, and decided on the variance alone.        *)

SourceArms == <<"split", "dense">>
DisplayLabels == {"arm_a", "arm_b"}

(* drawn is whether the first byte of the secret's digest is even.         *)
PermutationSecret(drawn, planned) ==
  [mapping |-> [l \in DisplayLabels |-> SourceArms[IF (l = "arm_a") = drawn THEN 1 ELSE 2]],
   nonce |-> <<drawn, planned>>]
PlannedAreFresh(planned, protected) ==
  planned["split"] # planned["dense"] /\ \A arm \in DOMAIN planned : planned[arm] \notin protected.paths
CommitArmLabelPermutation(drawn, planned) ==
  LET secret == PermutationSecret(drawn, planned)
  IN  [key |-> secret, public |-> [planned |-> planned, commitment |-> secret, keyHash |-> secret]]
CommitmentIsValid(persisted, planned) ==
  /\ {persisted.key.mapping[l] : l \in DisplayLabels} = {"split", "dense"}
  /\ persisted.public.commitment = persisted.key /\ persisted.public.keyHash = persisted.key
  /\ persisted.public.planned = planned
LoadBlindedDevelopment(persisted, rows) ==
  [rows |-> [l \in DisplayLabels |-> rows[persisted.key.mapping[l]]],
   commitment |-> persisted.key, hashes |-> [l \in DisplayLabels |-> rows[persisted.key.mapping[l]]]]

(* The protected study's identities, on every axis apart.                  *)
DevelopmentIsDisjoint(development, protected) ==
  LET all == UNION {development.rows[l] : l \in DisplayLabels} IN
  /\ {r.seed : r \in all} \cap protected.seeds = {} /\ {r.pair : r \in all} \cap protected.pairs = {}
  /\ {r.world : r \in all} \cap protected.worlds = {} /\ {r.path : r \in all} \cap protected.relationPaths = {}
  /\ {r.template : r \in all} \cap protected.templates = {}
BlindedWeights == [arm_a |-> 1, arm_b |-> -1]
DevelopmentSeedDeltas(development, seeds, tasks) ==
  LET panel == Panel(development.rows, seeds, tasks)
  IN  [s \in seeds |-> SeedDelta(panel, s, BlindedWeights)]

(* The variance times its seeds: the sum of the squared distances.         *)
Variance(deltas) ==
  LET n == Cardinality(DOMAIN deltas)
      total == MapThenSumSet(LAMBDA s : deltas[s], DOMAIN deltas)
      Square(x) == x * x
  IN  MapThenSumSet(LAMBDA s : Square(n * deltas[s] - total), DOMAIN deltas)

(* So many of ten studies succeed: fewer the more the seeds differ.        *)
Studies == 10
Successes(variance) ==
  LET n == variance \div (Scale * Scale) IN IF n > Studies THEN 0 ELSE Studies - n
DesignDecision(successes, development) ==
  [passed |-> 10 * successes >= 8 * Studies, successes |-> successes,
   commitment |-> development.commitment, hashes |-> development.hashes]
SimulateDesignPower(development, deltas) ==
  LET successes == Successes(Variance(deltas))
      base == [commitment |-> development.commitment, hashes |-> development.hashes, deltas |-> deltas,
               variance |-> Variance(deltas), successes |-> successes,
               passed |-> 10 * successes >= 8 * Studies]
      decision == DesignDecision(successes, development)
  IN  [base |-> base, decision |-> decision, receipt |-> <<base, decision>>]
DesignReceiptIsValid(r, protected) ==
  /\ DOMAIN r.base.hashes = DisplayLabels /\ DOMAIN r.base.deltas \cap protected.seeds = {}
  /\ r.base.successes \in 0..Studies /\ r.base.passed = (10 * r.base.successes >= 8 * Studies)
  /\ r.decision = [passed |-> r.base.passed, successes |-> r.base.successes,
                   commitment |-> r.base.commitment, hashes |-> r.base.hashes]
  /\ r.receipt = <<r.base, r.decision>>

-----------------------------------------------------------------------------
(* Properties                                                              *)

(* input.pairs has the pairs of every seed and task; which of them an arm  *)
(* answers goes by a number of the pair.                                   *)
NumberOf(k) == 2 * k[1] + 3 * k[2] + 5 * k[3] + k[4]
Answers(i, label, k) ==
  CASE label = "split_high" -> (NumberOf(k) + i.x) % 3 # 0
    [] label = "dense_high" -> (NumberOf(k) + i.x) % 3 # 0 /\ NumberOf(k) % 2 = i.y
    [] OTHER                -> (NumberOf(k) + i.x) % 2 = 0
ArmOf(label) == IF label \in {"split_high", "split_low"} THEN "split" ELSE "dense"
HighLabels == {"split_high", "dense_high"}
LowLabels  == {"split_low", "dense_low"}
RowsOf(i, label) ==
  {[arm |-> ArmOf(label), seed |-> k[1], task |-> k[2], pair |-> k[3], world |-> k[4], path |-> k[5],
    template |-> k[6], variant |-> v, control |-> "correct", evaluator |-> 1,
    raw |-> IF label \in HighLabels THEN 2 ELSE 1, data |-> IF label \in HighLabels THEN 2 ELSE 1,
    correct |-> Answers(i, label, k) \/ (NumberOf(k) % 2 = 0 /\ v = "original")] :
     k \in i.pairs, v \in Variants}
FaultyRows(rows, fault) ==
  LET one == CHOOSE r \in rows : r.variant = "original"
  IN  CASE fault = "none"      -> rows
        [] fault = "lost"      -> rows \ {one}
        [] fault = "twice"     -> rows \cup {[one EXCEPT !.correct = ~@]}
        [] fault = "moved"     -> (rows \ {one}) \cup {[one EXCEPT !.world = 9]}
        [] fault = "control"   -> (rows \ {one}) \cup {[one EXCEPT !.control = "shuffled"]}
        [] fault = "data"      -> {[r EXCEPT !.data = 3] : r \in rows}
        [] fault = "evaluator" -> {[r EXCEPT !.evaluator = 3] : r \in rows}
        [] fault = "seed"      -> {r \in rows : r.seed # one.seed}
        [] fault = "arm"       -> (rows \ {one}) \cup {[one EXCEPT !.arm = "random"]}
Contrasts ==
  [high |-> [split_high |-> 1, dense_high |-> -1], low |-> [split_low |-> 1, dense_low |-> -1],
   dose |-> [split_high |-> 1, dense_high |-> -1, split_low |-> -1, dense_low |-> 1]]

RanksAreNearest(samples, e) ==
  LET n == Len(samples)
      UpTo(x) == 1000 * Cardinality({i \in 1..n : samples[i] <= x})
      Below(x) == 1000 * Cardinality({i \in 1..n : samples[i] < x})
  IN  /\ Below(e.low) < 25 * n /\ 25 * n <= UpTo(e.low)
      /\ Below(e.high) < 975 * n /\ 975 * n <= UpTo(e.high)
Favours(panel, a, b) == \A k \in DOMAIN panel.outcomes[a] : panel.outcomes[a][k] >= panel.outcomes[b][k]
SamplesHold(panel, samples) ==
  /\ \A i \in DOMAIN samples : samples[i]["dose"] = samples[i]["high"] - samples[i]["low"]
  /\ \A c \in {"high", "low"} : LET a == "split_" \o c  b == "dense_" \o c IN
       /\ Favours(panel, a, b) => \A i \in DOMAIN samples : samples[i][c] >= 0
       /\ Favours(panel, b, a) => \A i \in DOMAIN samples : samples[i][c] <= 0
EstimatesHold(panel, samples) ==
  /\ SamplesHold(panel, samples)
  /\ LET estimates == HierarchicalPairedContrasts(panel, Contrasts, samples)
     IN  \A c \in DOMAIN Contrasts :
           LET e == estimates[c]
           IN  /\ RanksAreNearest([i \in DOMAIN samples |-> samples[i][c]], e)
               /\ e.mean = MapThenSumSet(LAMBDA t : TaskMean(panel, t, Contrasts[c]), panel.tasks)
               /\ EstimateIsValid(e) <=> e.low <= e.mean /\ e.mean <= e.high

(* Arms are compared on the same pairs or not at all: an arm that answers  *)
(* no pair that the other does not is favoured by no replicate, in no      *)
(* contrast, and the dose interaction is of every replicate the difference *)
(* of the two loads.  The intervals have the nearest ranks, and an         *)
(* estimate is refused only when its interval is beside its mean.          *)
(* (_build_panel, _draw_one, percentile_indices,                           *)
(* hierarchical_paired_contrasts, paired_task_means).                      *)
EstimatesArePaired ==
  input.of = "estimate" =>
    LET seeds == {k[1] : k \in input.pairs}
        tasks == {k[2] : k \in input.pairs}
        rows  == [l \in HighLabels \cup LowLabels |->
                    IF l = "dense_high" THEN FaultyRows(RowsOf(input, l), input.fault) ELSE RowsOf(input, l)]
        panel == Panel(rows, seeds, tasks)
    IN  /\ ContrastsAreValid(Contrasts, DOMAIN rows)
        /\ PanelIsValid(rows, seeds, tasks, {HighLabels, LowLabels}) <=> input.fault = "none"
        /\ input.fault = "none" => EstimatesHold(panel, Replicates(panel, Contrasts, input.rng, input.n))

Swapped(persisted) == [persisted EXCEPT !.key = PermutationSecret(~@.nonce[1], @.nonce[2])]
DesignHolds(i, development, protected) ==
  LET seeds   == {k[1] : k \in i.pairs}
      tasks   == {k[2] : k \in i.pairs}
      deltas  == DevelopmentSeedDeltas(development, seeds, tasks)
      receipt == SimulateDesignPower(development, deltas)
      other   == LoadBlindedDevelopment(CommitArmLabelPermutation(~i.drawn, i.planned),
                   [split |-> development.rows[IF i.drawn THEN "arm_a" ELSE "arm_b"],
                    dense |-> development.rows[IF i.drawn THEN "arm_b" ELSE "arm_a"]])
      theirs  == SimulateDesignPower(other, DevelopmentSeedDeltas(other, seeds, tasks))
  IN  /\ DesignReceiptIsValid(receipt, protected)
      /\ theirs.base.passed = receipt.base.passed /\ theirs.base.variance = receipt.base.variance
      /\ \A s \in seeds : theirs.base.deltas[s] = -receipt.base.deltas[s]
      /\ ~DesignReceiptIsValid([receipt EXCEPT !.base = theirs.base], protected)
      /\ ~DesignReceiptIsValid([receipt EXCEPT !.base.passed = ~@], protected)

(* The fifth gate does not see which arm is which: either permutation      *)
(* decides the same, of differences of the other sign, and a receipt made  *)
(* of the two is refused.  Outcomes are not read when the permutation was  *)
(* changed or the inputs are others than were planned, and none is used    *)
(* that the protected study has too (commit_arm_label_permutation,         *)
(* load_blinded_development, _development_seed_deltas,                     *)
(* validate_design_receipt).                                               *)
DesignIsBlind ==
  input.of = "design" =>
    LET committed   == CommitArmLabelPermutation(input.drawn, input.planned)
        persisted   == IF input.fault = "swapped" THEN Swapped(committed) ELSE committed
        protected   == input.protected
        rows        == [split |-> RowsOf(input, "split_low"), dense |-> FaultyRows(RowsOf(input, "dense_high"), "none")]
        development == LoadBlindedDevelopment(persisted,
                         [rows EXCEPT !["dense"] = {[r EXCEPT !.raw = 1, !.data = 1] : r \in @}])
    IN  /\ PlannedAreFresh(input.planned, protected) /\ CommitmentIsValid(persisted, input.found)
             /\ DevelopmentIsDisjoint(development, protected)
               <=> input.fault = "none"
        /\ input.fault = "none" => DesignHolds(input, development, protected)
=============================================================================
