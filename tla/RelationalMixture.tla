--------------------------- MODULE RelationalMixture ---------------------------
(***************************************************************************)
(* corpusgen/relational_build.py: which record comes next in a corpus.     *)
(* Entities are divided into worlds; a world's facts are rendered in       *)
(* blocks of ten records; the three components take turns, by what each    *)
(* still lacks; and the guardrail questions are sampled from the facts     *)
(* while the worlds stream by.                                             *)
(*                                                                         *)
(* Shares are in hundredths, so that tokens and targets are numbers.       *)
(***************************************************************************)
EXTENDS Integers, Sequences, SequencesExt, FiniteSets

VARIABLE input        \* one of the bounded inputs; input.of names the module it is for

LeastWorld == 16

(* _iter_world_sizes: a remainder too small for a world of its own takes   *)
(* entities from the last full one, or joins it.                           *)
Repeated(size, times) == [k \in 1..times |-> size]

(* The donor gives, however few it keeps.                                  *)
WorldSizesDonated(n, size) ==
  LET full      == n \div size
      remainder == n % size
  IN  IF remainder = 0 THEN Repeated(size, full)
      ELSE IF full = 0 THEN <<remainder>>
      ELSE Repeated(size, full - 1) \o <<size - (LeastWorld - remainder), LeastWorld>>

WorldSizes(n, size) ==
  LET full      == n \div size
      remainder == n % size
      donor     == size - (LeastWorld - remainder)
      together  == size + remainder
  IN  IF remainder = 0 THEN Repeated(size, full)
      ELSE IF full = 0 THEN <<remainder>>
      ELSE Repeated(size, full - 1)
             \o (IF remainder >= LeastWorld THEN <<together \div 2, together - together \div 2>>
                 ELSE IF donor >= LeastWorld THEN <<donor, LeastWorld>>
                 ELSE <<together>>)

(* iter_graph_records, one pass over a world of so many peripheral and     *)
(* central facts: as many blocks as reach every fact, each block seven     *)
(* peripheral and two central facts in turn (_cycle_audit_facts), and the  *)
(* rule.                                                                   *)
CeilDiv(a, b) == (a + b - 1) \div b

BlockRecord(k, peripheral, central) ==
  LET block == (k - 1) \div 10
      place == (k - 1) % 10
  IN  IF place < 7 THEN [class |-> "peripheral", fact |-> ((7 * block + place) % peripheral) + 1]
      ELSE IF place < 9 THEN [class |-> "central", fact |-> ((2 * block + place - 7) % central) + 1]
      ELSE [class |-> "rule", fact |-> 0]

BlocksOf(peripheral, central) ==
  LET left == CeilDiv(peripheral, 7)
      right == CeilDiv(central, 2)
  IN  IF left > right THEN left ELSE right

GraphRecords(peripheral, central) ==
  [k \in 1..(10 * BlocksOf(peripheral, central)) |-> BlockRecord(k, peripheral, central)]

-----------------------------------------------------------------------------
(* The plan loop of _build_relational_corpus_plan.                         *)
Components == <<"bed", "graph", "reasoning">>        \* _COMPONENT_ORDER
Shares == <<[bed |-> 70, graph |-> 15, reasoning |-> 15],
            [bed |-> 65, graph |-> 15, reasoning |-> 20],
            [bed |-> 65, graph |-> 20, reasoning |-> 15]>>   \* DEVELOPMENT_MIXTURES

Target(in, component) == in.total * Shares[in.mixture][component]
Emitted(plan, component) == 100 * plan.tokens[component]
Needed(in, plan) ==
  SelectSeq(Components, LAMBDA c : Emitted(plan, c) < Target(in, c))

(* c lacks more of its target than d does of its own.                      *)
Lacks(in, plan, c, d) ==
  (Target(in, c) - Emitted(plan, c)) * Target(in, d)
    > (Target(in, d) - Emitted(plan, d)) * Target(in, c)

(* max() keeps the first of equals.                                        *)
NextComponent(in, plan) ==
  FoldLeft(LAMBDA c, d : IF Lacks(in, plan, d, c) THEN d ELSE c,
           Needed(in, plan)[1], Needed(in, plan))

PlanTokens(plan) == plan.tokens["bed"] + plan.tokens["graph"] + plan.tokens["reasoning"]

(* The curriculum: a phase by the tokens planned so far, and of the bands  *)
(* it allows the one it has used least.                                    *)
Phase(in, plan) ==
  IF 5 * PlanTokens(plan) < in.total THEN "early"
  ELSE IF 2 * PlanTokens(plan) < in.total THEN "middle" ELSE "late"
Allowed == [early |-> <<1>>, middle |-> <<1, 2>>, late |-> <<1, 2, 4>>]
BandOf(used, phase) ==
  FoldLeft(LAMBDA a, b : IF used[phase][b] < used[phase][a] THEN b ELSE a,
           1, Allowed[phase])

(* The tokens of a component's k-th record.                                *)
LengthOf(in, component, k) ==
  in.lengths[component][((k - 1) % Len(in.lengths[component])) + 1]

AddRecord(in, plan, component) ==
  LET k     == plan.records[component] + 1
      phase == Phase(in, plan)
      band  == BandOf(plan.used, phase)
      class == BlockRecord(k, in.facts[1], in.facts[2]).class
  IN  [plan EXCEPT
         !.tokens[component] = @ + LengthOf(in, component, k),
         !.records[component] = k,
         !.used = IF component = "reasoning" THEN [@ EXCEPT ![phase][band] = @ + 1] ELSE @,
         !.classes = IF component = "graph" THEN [@ EXCEPT ![class] = @ + 1] ELSE @]

RecordsInUnit(component) == IF component = "graph" THEN 10 ELSE 1

AddUnit(in, plan) ==
  LET component == NextComponent(in, plan)
      added == FoldLeft(LAMBDA p, k : AddRecord(in, p, component), plan,
                        [k \in 1..RecordsInUnit(component) |-> k])
  IN  [added EXCEPT !.units = Append(@, [component |-> component, tokens |-> plan.tokens])]

(* The aliases are graph tokens, written first.                            *)
Unused  == [band \in {1, 2, 4} |-> 0]
NoPlan(in) ==
  [tokens |-> [bed |-> 0, graph |-> in.aliases, reasoning |-> 0],
   records |-> [bed |-> 0, graph |-> 0, reasoning |-> 0],
   classes |-> [peripheral |-> 0, central |-> 0, rule |-> 0],
   used |-> [early |-> Unused, middle |-> Unused, late |-> Unused],
   units |-> << >>]

RECURSIVE PlanFrom(_, _)
PlanFrom(in, plan) ==
  IF Needed(in, plan) = << >> THEN plan ELSE PlanFrom(in, AddUnit(in, plan))
PlanOf(in) == PlanFrom(in, NoPlan(in))

LongestOf(in, component) ==
  LET lengths == ToSet(in.lengths[component])
                   \cup (IF component = "graph" /\ in.aliases > 0 THEN {in.aliases} ELSE {})
  IN  CHOOSE n \in lengths : \A m \in lengths : m <= n

(* "mixture_within_record_rounding_tolerance" and "graph_mixture_exact".   *)
WithinRounding(in, plan) ==
  \A c \in ToSet(Components) :
    LET over == Emitted(plan, c) - Target(in, c)
    IN  over >= 0 /\ over <= 100 * LongestOf(in, c) * RecordsInUnit(c)

GraphMixtureExact(plan) ==
  LET total == plan.classes["peripheral"] + plan.classes["central"] + plan.classes["rule"]
  IN  /\ total > 0 /\ total % 10 = 0
      /\ 10 * plan.classes["peripheral"] = 7 * total
      /\ 10 * plan.classes["central"] = 2 * total
      /\ 10 * plan.classes["rule"] = total

(* No component runs ahead: what an unfinished one lacks is never more     *)
(* than another lacked before the last unit it was given.                  *)
TakesTurns(in, plan) ==
  LET Left(tokens, c) == Target(in, c) - 100 * tokens[c]
  IN  \A n \in DOMAIN plan.units :
        LET given  == plan.units[n].component
            before == plan.units[n].tokens
            after  == IF n = Len(plan.units) THEN plan.tokens ELSE plan.units[n + 1].tokens
        IN  \A c \in ToSet(Components) :
              Left(after, c) > 0 =>
                Left(after, c) * Target(in, given) <= Left(before, given) * Target(in, c)

-----------------------------------------------------------------------------
(* calibrate_write_cost: the price of a write at which nearest to half of  *)
(* the facts go to memory.  Prices are in quarters, for which a fact gives *)
(* the number it is worth; of two as near the cheaper.                     *)
WriteCosts == <<1, 2, 4, 8, 16, 32>>                 \* WRITE_COST_GRID
Routed(facts, cost) == {k \in DOMAIN facts : facts[k].worth > cost}
FromHalf(facts, cost) ==
  LET off == 2 * Cardinality(Routed(facts, cost)) - Len(facts)
  IN  IF off < 0 THEN -off ELSE off
IsValidCost(facts, cost) == 5 * FromHalf(facts, cost) <= Len(facts)
Calibrated(facts) ==
  LET valid == SelectSeq(WriteCosts, LAMBDA c : IsValidCost(facts, c))
  IN  FoldLeft(LAMBDA b, c : IF FromHalf(facts, c) < FromHalf(facts, b) THEN c ELSE b,
               valid[1], valid)

Strata == <<<<"entity", "internal">>, <<"entity", "external">>,
            <<"literal", "internal">>, <<"literal", "external">>>>
Stratum(fact, cost) ==
  <<fact.kind, IF fact.worth > cost THEN "external" ELSE "internal">>

(* The heap of a stratum: n facts, its root the one of the largest key.    *)
Offered(heap, fact, n) ==
  IF Cardinality(heap) < n THEN heap \cup {fact}
  ELSE LET root == CHOOSE f \in heap : \A g \in heap : g.key <= f.key
       IN  IF fact.key < root.key THEN (heap \ {root}) \cup {fact} ELSE heap

(* _write_training_graph: the pools, each in the order of the keys.        *)
Pool(facts, cost, stratum, n) ==
  SetToSortSeq(FoldLeft(LAMBDA heap, f : IF Stratum(f, cost) = stratum
                                         THEN Offered(heap, f, n) ELSE heap,
                        {}, facts),
               LAMBDA f, g : f.key < g.key)

CanSample(facts, cost, n) ==
  n >= Len(Strata) => \A k \in DOMAIN Strata : Pool(facts, cost, Strata[k], n) # << >>

(* The questions: the strata in turn, and the facts of each in turn.       *)
FactualSample(facts, cost, n) ==
  LET pools == SelectSeq([k \in DOMAIN Strata |-> Pool(facts, cost, Strata[k], n)],
                         LAMBDA p : p # << >>)
  IN  [k \in 1..n |->
         LET pool  == pools[((k - 1) % Len(pools)) + 1]
             cycle == (k - 1) \div Len(pools)
         IN  pool[(cycle % Len(pool)) + 1]]

-----------------------------------------------------------------------------
(* A corpus whose aliases leave room in the graph's share meets its        *)
(* mixture to within a record, or a whole block of the graph, whatever the *)
(* lengths of its records; the blocks stay whole; every fact of a world is *)
(* rendered in one pass; the worlds divide the entities, none too small to *)
(* reason in; and no component runs ahead of another                       *)
(* (_build_relational_corpus_plan, iter_graph_records, _iter_world_sizes). *)
MixtureIsRounded ==
  /\ input.of = "mixture" /\ 100 * input.aliases < Target(input, "graph") =>
       LET plan == PlanOf(input)
       IN  WithinRounding(input, plan) /\ GraphMixtureExact(plan) /\ TakesTurns(input, plan)
  /\ input.of = "blocks" =>
       LET made == ToSet(GraphRecords(input.facts[1], input.facts[2]))
       IN  /\ \A f \in 1..input.facts[1] : [class |-> "peripheral", fact |-> f] \in made
           /\ \A f \in 1..input.facts[2] : [class |-> "central", fact |-> f] \in made
  /\ input.of = "sizes" =>
       LET sizes == WorldSizes(input.n, input.size)
       IN  /\ FoldLeft(LAMBDA n, s : n + s, 0, sizes) = input.n
           /\ \A k \in DOMAIN sizes : sizes[k] >= LeastWorld

(* The guardrail questions do not depend on the order in which the worlds  *)
(* stream by: they are the facts with the smallest keys of each stratum,   *)
(* the strata as even as they can be, and no fact is asked twice before    *)
(* every kept one of its stratum was (_write_training_graph).              *)
GuardrailsAreSpread ==
  input.of = "facts" /\ (\E k \in DOMAIN WriteCosts : IsValidCost(input.facts, WriteCosts[k])) =>
    LET cost   == Calibrated(input.facts)
        sample == FactualSample(input.facts, cost, input.items)
        Times(Test(_)) == Cardinality({k \in DOMAIN sample : Test(sample[k])})
        In(s)  == {f \in ToSet(input.facts) : Stratum(f, cost) = s}
        InStratum(s) == Times(LAMBDA f : f \in In(s))
    IN  CanSample(input.facts, cost, input.items) =>
          /\ sample = FactualSample(Reverse(input.facts), cost, input.items)
          /\ \A s, t \in {s \in ToSet(Strata) : In(s) # {}} :
               InStratum(s) <= InStratum(t) + 1
          /\ \A s \in ToSet(Strata) : \A f, g \in In(s) :
               f.key < g.key =>
                 Times(LAMBDA x : x = f) - Times(LAMBDA x : x = g) \in
                   0..(IF Cardinality(In(s)) <= input.items THEN 1 ELSE input.items)
=============================================================================
