---------------------------- MODULE MCComputations ----------------------------
(* The bounded inputs of the algorithms, and the parts that are machines   *)
(* of their own: the corpus schedule, the packed-stream reader and the     *)
(* staging of the corpus.                                                  *)
EXTENDS RelationalControls, CorpusSchedule, PackedShards, CorpusStaging

-----------------------------------------------------------------------------
(* RelationalDecoding.  Two slots, the second empty; a two-hop chain that  *)
(* ends in a literal.                                                      *)
Chain == <<[at |-> <<1, 1>>, target |-> 2], [at |-> <<2, 1>>, target |-> 0]>>
Strays == {<<Read(1, 1), Read(1, 1), Read(1, 1)>>, <<Read(1, 1), Halt, Halt>>,
           <<Read(2, 1), Read(1, 1), Noop>>, <<Noop, Read(1, 1), Halt>>,
           <<Halt, Read(1, 1), Noop>>}
ChainGold  == <<Chain[1], Chain[2], Miss>>
ChainTrace == <<Read(1, 1), Read(1, 1), Halt>>
Decoding(q) == [qid |-> q, prompt |-> 1, slots |-> <<1, Nowhere>>, store |-> Range(Chain),
                validation |-> Range(Chain), acts |-> << >>, returns |-> << >>,
                model |-> ChainTrace, choices |-> 2]
DecodingItems(q) ==
  {[Decoding(q) EXCEPT !.model = m] : m \in Strays}
    \cup {[Decoding(q) EXCEPT !.store = NoStore, !.model = m] : m \in Strays}
    \cup {[Decoding(q) EXCEPT !.returns = ChainGold, !.model = m] : m \in Strays}
    \cup {[Decoding(q) EXCEPT !.choices = 0]}
    \cup {[Decoding(q) EXCEPT !.acts = a, !.returns = r] :
            a \in {ChainTrace, <<Read(2, 1), Read(1, 1), Read(1, 1)>>},
            r \in {<< >>, ChainGold, <<Miss, Chain[1], Chain[2]>>}}
DecodingInputs(batch) ==
  {i \in {[of |-> "decoding", steps |-> 3, batch |-> batch,
           items |-> <<x, [y EXCEPT !.prompt = p], z>>] :
            p \in {1, 2}, x \in DecodingItems(1), y \in DecodingItems(2), z \in DecodingItems(3)} :
     DecodingIsSound(i)}

(* RelationalControls.  Worlds of three rows, of entities and literals,    *)
(* beside a row of another world.                                          *)
Row(from, edge, target, value) ==
  [at |-> <<from, edge>>, target |-> target, value |-> value, world |-> 1]
Elsewhere == [at |-> <<8, 1>>, target |-> 9, value |-> 1, world |-> 2]
SmallGraphs ==
  {{Row(1, 1, 2, v), Row(2, 1, t, w), Row(3, 1, u, x), Row(1, 2, y, 1)} \cup {Elsewhere} :
     t \in {0, 3}, u \in {0, 1}, y \in {0, 3}, v \in {0, 1}, w \in {0, 1}, x \in {0, 1}}
OneHop == [world |-> 1, task |-> "composition", slots |-> <<1, Nowhere>>,
           gold |-> <<Read(1, 1), Halt, Noop>>, addresses |-> <<<<1, 1>>>>]
TwoHop == [world |-> 1, task |-> "composition", slots |-> <<1, Nowhere>>,
           gold |-> <<Read(1, 1), Read(1, 1), Halt>>, addresses |-> <<<<1, 1>>, <<2, 1>>>>]
TwoSlots == [world |-> 1, task |-> "equality", slots |-> <<2, 3>>,
             gold |-> <<Read(1, 1), Read(2, 1), Halt>>, addresses |-> <<<<2, 1>>, <<3, 1>>>>]
Models == {<<Read(1, 1), Read(1, 1), Read(2, 1)>>, <<Read(1, 2), Halt, Halt>>,
           <<Noop, Read(2, 1), Read(1, 2)>>, <<Halt, Read(1, 1), Noop>>}
ControlInputs(control) ==
  {i \in {[of |-> "controls", item |-> i, graph |-> g, control |-> control, mode |-> m, model |-> t] :
            i \in {OneHop, TwoHop, TwoSlots}, g \in SmallGraphs,
            m \in {"memory_on", "memory_off"}, t \in Models} :
     IsSound(i.item, i.graph)}

(* CheckpointMetrics.                                                      *)
Metrics == INSTANCE CheckpointMetrics
MetricGraph == {Row(1, 1, 2, 1), Row(2, 1, 0, 0), Row(3, 1, 0, 1), Row(1, 2, 3, 1)}
Made(item, says, said) ==
  {[item |-> item, graph |-> MetricGraph, model |-> m, says |-> x, said |-> y,
    composition |-> "seen"] :
     m \in Models \cup {<<Read(1, 1), Read(2, 1), Halt>>}, x \in says, y \in said}
Said == {"right", "wrong", "blank"}
MetricControls ==
  {"correct", "relevant_edge", "irrelevant_edge", "gold_path", "explicit_miss", "no_query"}
MetricInputs(control) ==
  {[of |-> "metrics", control |-> control, mode |-> m,
    pairs |-> <<<<a, [a EXCEPT !.model = t]>>, <<b, [b EXCEPT !.says = "right"]>>>>] :
     m \in {"memory_on", "memory_off"}, a \in Made(OneHop, {"right"}, Said), t \in Models,
     b \in Made(TwoSlots, Said, {"right", "wrong"})}

-----------------------------------------------------------------------------
(* RelationalMasks.                                                        *)
Masks == INSTANCE RelationalMasks
Pay(fact, text) == Masks!Span("payload", fact, text)
Text(text)      == Masks!Span("plain", Masks!NoFact, text)
Rule(text)      == Masks!Span("rule", Masks!NoFact, text)
MaskRecords ==
  {Masks!Encoded(Masks!Balanced(<<Masks!Span("action", Masks!NoFact, <<7>>)>>
                                  \o Masks!Returned("f", p) \o tail)) :
     p \in {<<<<1>>>>, <<<<1, 2>>>>, <<<<2>>, <<1>>>>},
     tail \in {<< >>, <<Rule(<<8>>)>>, Masks!Returned("g", <<<<2>>>>)}}
  \cup {Masks!Encoded(<<Rule(<<8, 8>>)>>)}
ShortRecords == {r \in MaskRecords : Len(r) <= 6}
MaskInputs(external) ==
  {[of |-> "masks", records |-> r, external |-> external] :
     r \in {<<x>> : x \in MaskRecords} \cup {<<x, y>> : x \in ShortRecords, y \in ShortRecords}}

LeakSpans == {Text(<<1>>), Text(<<2>>), Pay("f", <<1>>), Pay("f", <<1, 2>>),
              Pay("f", <<1, 2, 1>>), Pay("g", <<2>>), Pay("g", <<2, 1>>)}
Entry(fact, text) == [fact |-> fact, text |-> text, expected |-> 0]
Inventories ==
  {{Entry("f", <<1>>), Entry("f", <<1, 2>>), Entry("g", <<2>>)},
   {Entry("f", <<1, 2, 1>>), Entry("g", <<2, 1>>), Entry("f", <<1, 2>>)},
   {Entry("f", <<1, 2, 1>>), Entry("g", <<2>>), Entry("f", <<2>>), Entry("g", <<2, 1>>)}}
LeakRecords ==
  {r \in {<<s, t, u, v, Masks!Boundary>> :
            s \in LeakSpans, t \in LeakSpans, u \in LeakSpans, v \in LeakSpans \cup {Text(<<3>>)}} :
     \A k \in 1..3 : r[k].role = "plain" \/ r[k + 1].role = "plain"}
LeakInputs(protected) ==
  {[of |-> "leaks", records |-> r, planned |-> r, train |-> i, protected |-> protected] :
     r \in {<<x>> : x \in LeakRecords}
             \cup {<<<<s, Masks!Boundary>>, <<t, Masks!Boundary>>>> : s \in LeakSpans, t \in LeakSpans},
     i \in Inventories}

-----------------------------------------------------------------------------
(* RelationalWorlds and RelationalSplits.                                  *)
Worlds == INSTANCE RelationalSplits
Stat(s, o) == [subjects |-> s, objects |-> o]
PathSets == {{<<1>>}, {<<1>>, <<1, 2>>}, {<<2>>, <<1, 1, 1, 1, 2>>}, {<<2, 1, 2>>, <<2>>}}
WorldInputs(n) ==
  {[of |-> "worlds", n |-> n, paths |-> p,
    schema |-> [total |-> 6, relations |-> <<Stat(s, o), Stat(t, q)>>]] :
     p \in PathSets, s \in {0, 2, 5, 6}, o \in {0, 1, 3, 5},
     t \in {1, 4, 6}, q \in {1, 2, 4}}
Orders(set) == {f \in [1..Cardinality(set) -> set] : Range(f) = set}
SplitInputs(seed) ==
  {[of |-> "splits", n |-> 4, stride |-> 4, seed |-> seed, draw |-> d, buckets |-> b,
    schema |-> [total |-> 4, relations |-> <<Stat(4, 3), Stat(2, 2), Stat(3, 1), Stat(4, 4)>>]] :
     d \in {0, 1}, b \in Orders({0, 79, 80, 90, 99})}

(* RelationalMixture.                                                      *)
Mixture == INSTANCE RelationalMixture
MixtureInputs(shares) ==
  {[of |-> "mixture", total |-> t, mixture |-> shares, aliases |-> a, facts |-> <<5, 3>>,
    lengths |-> [bed |-> b, graph |-> g, reasoning |-> r]] :
     t \in {40, 100, 140}, a \in {0, 3, 5},
     b \in {<<1, 7>>, <<5>>, <<9, 2, 3>>}, g \in {<<1>>, <<1, 2>>, <<2, 5, 1>>},
     r \in {<<2>>, <<6, 1>>}}
BlockInputs(most) == {[of |-> "blocks", facts |-> <<p, c>>] : p \in 1..most, c \in 1..8}
SizeInputs(most)  == {[of |-> "sizes", n |-> n, size |-> s] : n \in Mixture!LeastWorld..most, s \in Mixture!LeastWorld..40}
FactInputs(n) ==
  {[of |-> "facts", items |-> n,
    facts |-> [k \in 1..6 |-> [key |-> s[k], worth |-> w[s[k]],
                               kind |-> IF s[k] % 2 = 0 THEN "entity" ELSE "literal"]]] :
     s \in {o \in Orders(1..6) : o[1] < o[6]},
     w \in {<<1, 2, 3, 4, 5, 6>>, <<9, 9, 9, 1, 1, 1>>, <<0, 40, 40, 0, 5, 2>>}}

(* PackedGraphs: every index over a small graph's rows, those that are     *)
(* built among them.                                                       *)
Packed == INSTANCE PackedGraphs
Stored(at, literal, provenance) ==
  [at |-> at, literal |-> literal, target |-> <<IF literal THEN 5 ELSE at + 3>>,
   qualifiers |-> IF at = 1 THEN <<6, 6>> ELSE << >>, provenance |-> provenance]
StoredRows ==
  {{}, {Stored(2, FALSE, <<1>>)}}
    \cup {{Stored(1, l, <<1>>), Stored(3, FALSE, p)} : l \in BOOLEAN, p \in {<<1>>, <<2>>}}
ThreeRows == {Stored(1, TRUE, <<1>>), Stored(2, FALSE, <<2>>), Stored(4, TRUE, <<1>>)}
Indexes(stored, hash) ==
  [0..(Packed!CapacityFor(Cardinality(stored)) - 1) ->
     {[hash |-> 0, row |-> Packed!Empty]}
       \cup {[hash |-> hash[Packed!Sorted(stored)[k].at], row |-> k] : k \in 1..Cardinality(stored)}]
StoreInputs(hashes) ==
  UNION {{[of |-> "store", rows |-> r, hash |-> h, index |-> i] : i \in Indexes(r, h)} :
           r \in StoredRows, h \in [1..3 -> hashes]}
    \cup {[of |-> "store", rows |-> ThreeRows, hash |-> h, index |-> Packed!Build(ThreeRows, h).index] :
            h \in [1..4 -> {0, 7, 15}]}


(* ReasoningOracles.                                                       *)
Oracles == INSTANCE ReasoningOracles
Grids(height, width, values) == [1..height -> [1..width -> values]]
Strings(letters, least, most) == UNION {[1..n -> letters] : n \in least..most}
Pairs == {<<<<1, 1>>, <<1, 2>>>>, <<<<2, 2>>, <<1, 2>>>>, <<<<3, 1>>, <<3, 2>>>>}
Puzzles == {<<<<0, 0, 0>>, <<0, a, 0>>, <<0, b, c>>>> : a \in 0..2, b \in {0, 2}, c \in {0, 1}}
OracleInputs(task) ==
  CASE task = "course_schedule" ->
         {[of |-> "oracle", task |-> task, courses |-> 1..3, edges |-> e] :
            e \in Strings((1..3) \X (1..3), 0, 3)}
    [] task = "binary_matrix" ->
         {[of |-> "oracle", task |-> task, grid |-> g] : g \in Grids(3, 3, 0..1)}
    [] task = "rotten_oranges" ->
         {[of |-> "oracle", task |-> task, grid |-> g] :
            g \in Grids(2, 2, 0..2)
                   \cup {<<<<a, 1, b>>, <<1, c, 1>>, <<d, e, f>>>> :
                            a \in 1..2, b \in 0..1, c \in 0..1, d \in 0..1, e \in 0..2, f \in {0, 2}}}
    [] task = "largest_island" ->
         {[of |-> "oracle", task |-> task, grid |-> g] : g \in Grids(2, 4, 0..1) \cup Grids(3, 2, 0..1)}
    [] task = "futoshiki" ->
         {[of |-> "oracle", task |-> task, grid |-> p, constraints |-> c] :
            p \in Puzzles,
            c \in UNION {[1..n -> {<<q[1], q[2], r>> : q \in Pairs, r \in {"<", ">"}}] : n \in 0..2}}
    [] task = "ransom_note" ->
         {[of |-> "oracle", task |-> task, note |-> n, magazine |-> m] :
            n \in Strings(1..2, 1, 3), m \in Strings(1..3, 1, 3)}
    [] task = "dice" ->
         {[of |-> "oracle", task |-> task, dice |-> d, target |-> t] :
            d \in Strings({2, 3, 4}, 1, 3), t \in 0..13}
    [] task = "string_splitting" ->
         {[of |-> "oracle", task |-> task, machines |-> m, maximum |-> n] :
            m \in [1..3 -> 0..3], n \in {1, 2, 5, 20}}
    [] task = "path_star" ->
         {[of |-> "oracle", task |-> task, edges |-> e, start |-> 1, goal |-> g] :
            e \in SUBSET {x \in (1..4) \X (1..4) : x[1] < x[2] \/ x = <<3, 1>>}, g \in 1..4}
    [] task = "rotate_matrix" ->
         {[of |-> "oracle", task |-> task, grid |-> [r \in 1..n |-> [c \in 1..n |-> 10 * r + c]], turns |-> t] :
            n \in 1..3, t \in 0..6}
    [] task = "spiral_matrix" ->
         {[of |-> "oracle", task |-> task, grid |-> [r \in 1..n |-> [c \in 1..n |-> 10 * r + c]]] : n \in 1..5}
    [] task = "prime_factorization" -> {[of |-> "oracle", task |-> task, number |-> n] : n \in 2..200}
    [] task = "base_conversion" ->
         {[of |-> "oracle", task |-> task, source |-> s, from |-> f, to |-> t] :
            s \in Strings(0..3, 1, 3), f \in 2..4, t \in {2, 3, 5, 36}}
    [] task = "count_primes" ->
         {i \in {[of |-> "oracle", task |-> task, start |-> s, end |-> e, limit |-> l] :
                   s \in 0..26, e \in 0..26, l \in {0, 1, 2, 8, 25, 26}} :
            i.start <= i.end /\ i.end <= i.limit}
OracleTasks ==
  {"course_schedule", "binary_matrix", "rotten_oranges", "largest_island", "futoshiki", "ransom_note",
   "dice", "string_splitting", "path_star", "rotate_matrix", "spiral_matrix",
   "prime_factorization", "base_conversion", "count_primes"}

(* ReasoningExpansion.                                                     *)
Expansion == INSTANCE ReasoningExpansion
Patterns == {<<2>>, <<3>>, <<2, 0>>, <<4, 3>>, <<2, 3>>, <<3, 1, 0>>, <<2, 4, 3>>, <<1, 2, 3>>}
ExpansionInputs(weights) ==
  {i \in {[of |-> "expansion", weights |-> weights, extension |-> e, perUpdate |-> e \div 2, updates |-> 2,
           longest |-> 3, window |-> 3, most |-> m, batch |-> b, queue |-> b + 1, source |-> s] :
            e \in {12, 14, 16}, m \in {2, 4}, b \in {1, 2, 3}, s \in [DOMAIN weights -> Patterns]} :
     Expansion!RecipeIsSound(i)}
SourceFiles == {<<"a.py">>, <<"g", "b.py">>}
SourceExtras ==
  SUBSET {<<"__pycache__", "x.pyc">>, <<"g", "__pycache__", "x.pyc">>, <<"g", "x.pyc">>,
          <<"g", "__pycache__", "notes">>, <<"h", "__pycache__", "x.pyc">>,
          <<"__pycache__", "__pycache__", "x.pyc">>}
SourceInputs(intact) ==
  {[of |-> "source", received |-> SourceFiles, intact |-> intact,
    tree |-> [files |-> (SourceFiles \ m) \cup x,
              directories |-> Expansion!Parents((SourceFiles \ m) \cup x) \cup d]] :
     m \in {{}, {<<"a.py">>}, {<<"g", "b.py">>}}, x \in SourceExtras,
     d \in {{<<"g">>}, {<<"g">>, <<"k">>}, {<<"g">>, <<"__pycache__">>}}}

(* WikidataHashmap: three subjects of relation 1, two of relation 2, a     *)
(* relation that is seldom used; an entity more than is needed.            *)
Hashmap == INSTANCE WikidataHashmap
FirstTriples ==
  {<<<<1, 1, 8>>, <<2, 1, 8>>, <<3, 1, 9>>>>, <<<<3, 1, 9>>, <<1, 1, 9>>, <<1, 1, 8>>, <<2, 1, 7>>>>,
   <<<<2, 1, 9>>, <<2, 1, 9>>, <<1, 1, 8>>, <<3, 1, 7>>>>, <<<<1, 1, 8>>, <<3, 1, 7>>>>,
   <<<<1, 1, 8>>, <<1, 1, 9>>, <<1, 1, 7>>>>}
OtherTriples ==
  {<<<<1, 2, 8>>, <<2, 2, 1>>>>, <<<<2, 2, 9>>, <<1, 2, 1>>, <<2, 2, 8>>>>, <<<<1, 2, 9>>, <<1, 3, 9>>, <<2, 2, 8>>, <<1, 2, 9>>>>,
   <<<<3, 2, 7>>, <<2, 3, 1>>, <<1, 3, 9>>>>}
AliasRows == <<<<1, "a">>, <<2, "b">>, <<3, "c">>, <<7, "d">>, <<8, "e">>, <<9, "a">>, <<5, "f">>>>
EntityRows == {AliasRows, Reverse(AliasRows), SubSeq(AliasRows, 3, 7), SubSeq(AliasRows, 1, 4) \o <<<<8, "e">>>>,
               Append(AliasRows, <<5, "g">>), <<<<9, "b">>>> \o AliasRows, Remove(AliasRows, <<7, "d">>)}
RelationAliases == {<<<<"r">>, <<"s", "t">>, <<"u">>>>, <<<<"s", "r">>, <<"s", "t">>, <<"r">>>>}
HashmapInputs(count) ==
  {[of |-> "hashmap", triples |-> IF f THEN a \o b ELSE b \o a, entities |-> e, aliases |-> l,
    hash |-> [x \in (1..3) \X (1..3) |-> h[x[1]] + ((2 * x[2]) % 3)], support |-> 2,
    functionality |-> <<2, 3>>, count |-> count, wide |-> 1, quota |-> 1, batch |-> n] :
     a \in FirstTriples, b \in OtherTriples, f \in BOOLEAN, e \in EntityRows, l \in RelationAliases,
     h \in {<<1, 2, 3>>, <<3, 1, 1>>, <<2, 2, 1>>}, n \in {1, 3, 9}}

(* WikidataPaths: up to two relations of three, cycles and ambiguous rows. *)
SplitPaths == INSTANCE WikidataPaths
Edges(n) == {<<1, 1, 2>>, <<2, 1, 3>>, <<3, 1, 1>>, <<2, 2, 1>>, <<1, 2, 2>>, <<2, 1, n>>, <<3, 3, 2>>}
PathInputs(n) ==
  {[of |-> "paths", triples |-> t, relations |-> r, hops |-> 3, roots |-> k,
    hash |-> [a \in (1..3) \X (1..3) |-> h[a[1]] + a[2]]] :
     t \in SUBSET Edges(n) \ {{}}, r \in {<<1>>, <<1, 2>>, <<2, 1>>}, k \in {2, 9},
     h \in {<<1, 2, 3>>, <<2, 1, 1>>}}

(* RelationalGates: two evaluations, the second differs in at most one     *)
(* part, and the receipts of both.                                         *)
Gates == INSTANCE RelationalGates
GateArm(right, counts) ==
  [rows |-> [path_composition |-> [right |-> 4, pairs |-> 4], date_ordering |-> [right |-> right, pairs |-> 4],
             balanced_equality |-> [right |-> 9, pairs |-> 10]],
   reported |-> [path_composition |-> 100, date_ordering |-> 25 * right, balanced_equality |-> 90],
   evidence |-> [seed |-> 7, run |-> 1], recognition |-> [successes |-> counts, total |-> 100]]
GateMixture(k, dense, split, counts) ==
  [mixture |-> Gates!OrderedMixtures[k], arms |-> [dense |-> GateArm(dense, counts), split |-> GateArm(split, counts)]]
GateLoad(entities, recall, composite) ==
  [entities |-> entities, recall |-> recall, composite |-> composite, manifest |-> <<entities>>]
GateLoads ==
  {<<GateLoad(1, 90, 80), GateLoad(4, 70, 60), GateLoad(16, 45, 40)>>,
   <<GateLoad(16, 45, 40), GateLoad(1, 90, 80), GateLoad(4, 70, 60)>>,
   <<GateLoad(4, 85, 76), GateLoad(16, 75, 71), GateLoad(1, 79, 80)>>,
   <<GateLoad(1, 74, 80), GateLoad(4, 85, 76), GateLoad(16, 39, 60)>>,
   <<GateLoad(1, 79, 80), GateLoad(16, 75, 74), GateLoad(4, 81, 74)>>}
GateBudget(most, available) ==
  [available |-> available,
   ten |-> [accuracy |-> [dense |-> [path_composition |-> 76, date_ordering |-> 76, balanced_equality |-> 90],
                          split |-> [path_composition |-> 90, date_ordering |-> 76, balanced_equality |-> 76]],
            recognized |-> TRUE, guarded |-> TRUE, fluent |-> TRUE,
            changes |-> {[low |-> -1, high |-> 0], [low |-> 0, high |-> most]}]]
Developments ==
  {[hashes |-> "h", mixtures |-> m.mixtures, loads |-> l, budget |-> GateBudget(m.most, TRUE)] :
     m \in {[most |-> 1, mixtures |-> <<GateMixture(1, 3, 4, 90), GateMixture(2, 4, 4, 38), GateMixture(3, 4, 4, 39)>>],
            [most |-> 2, mixtures |-> <<GateMixture(1, 4, 3, 90), GateMixture(2, 4, 4, 90), GateMixture(3, 4, 3, 90)>>]},
     l \in GateLoads}
Seconds(one) ==
  {one, [one EXCEPT !.mixtures[1].arms.dense.recognition.total = 101],
   [one EXCEPT !.budget.ten.changes = {[low |-> 0, high |-> 0]}], [one EXCEPT !.hashes = "g"],
   [one EXCEPT !.mixtures[2].arms.split.evidence.seed = 1001], [one EXCEPT !.budget.available = FALSE],
   [one EXCEPT !.loads[1].manifest = <<0>>], [one EXCEPT !.loads = Reverse(@)]}
Fives(choices, passing) ==
  {[gates |-> <<j, k>>, design |-> [rows |-> [a |-> 1, b |-> 2], power |-> 90, passed |-> p],
    binding |-> [high |-> high, tokens |-> t, raw |-> 10000 * t + 19,
                 inputs |-> [a |-> [rows |-> 1, checkpoint |-> 1, data |-> <<high>>],
                             b |-> [rows |-> 2, checkpoint |-> 2, data |-> <<high>>]]]] :
     j \in choices, k \in choices, p \in passing, t \in {10, 20}, high \in {1, 16}}
GateEdits ==
  {Gates!Unedited, [gate |-> 2, selection |-> [mixture |-> Gates!OrderedMixtures[1], index |-> 1]],
   [gate |-> 3, selection |-> [low |-> 1, high |-> 4, confirmation |-> 16]],
   [gate |-> 4, selection |-> [tokens |-> 10]]}
FreezeInputs(d) ==
  {[of |-> "freeze", developments |-> <<d, e>>, five |-> f, edit |-> Gates!Unedited,
    provenance |-> [clean |-> TRUE, hashes |-> "h"], found |-> [gates |-> g, smoke |-> TRUE]] :
     e \in Seconds(d) \ {d}, f \in Fives({1, 2}, {TRUE}),
     g \in {<<1, 1, 1, 1>>, <<2, 1, 1, 1>>, <<1, 2, 1, 1>>, <<1, 1, 2, 2>>, <<1, 1, 1, 2>>, <<2, 2, 2, 2>>}}
  \cup {[of |-> "freeze", developments |-> <<d, d>>, five |-> f, edit |-> x,
         provenance |-> [clean |-> c, hashes |-> "h"],
         found |-> [gates |-> <<1, 1, 1, 1>>, smoke |-> s]] :
          f \in Fives({1}, BOOLEAN), x \in GateEdits, c \in BOOLEAN, s \in BOOLEAN}
(* RelationalStudyPlan: two freezes of two seeds, and a thing that is of   *)
(* the other one.                                                          *)
Plan == INSTANCE RelationalStudyPlan
StudyFreeze(id, low, high, tokens, perStep) ==
  [id |-> id, status |-> "frozen", low |-> low, high |-> high, confirmation |-> 1800, seeds |-> {1001, 1002},
   tokensPerParameter |-> tokens, tokensPerStep |-> perStep, revision |-> 1]
StudyFreezes ==
  {StudyFreeze("f", l[1], l[2], t, p) : l \in {<<50, 800>>, <<200, 50>>}, t \in {10, 20}, p \in {524, 9000}}
OtherFreezes(f) == {[f EXCEPT !.id = "g"], [f EXCEPT !.id = "g", !.confirmation = 800],
                    [f EXCEPT !.id = "g", !.seeds = {1001, 1003}], [f EXCEPT !.id = "g", !.tokensPerParameter = 30 - @]}
Faults(f) ==
  {[kind |-> "none"]}
    \cup {[kind |-> k, build |-> x.build, path |-> x.path] :
           k \in {"file", "build", "both"}, x \in {a \in Plan!AssetSpecs(f) : a.metadata.stream.seed = 1001}}
StudyInputs(f) ==
  {[of |-> "study", freeze |-> f, other |-> StudyFreeze("g", f.low, f.high, f.tokensPerParameter, f.tokensPerStep),
    revision |-> [revision |-> 1, clean |-> TRUE], fault |-> x, part |-> Plan!None] : x \in Faults(f)}
  \cup {[of |-> "study", freeze |-> f, other |-> g, revision |-> [revision |-> 1, clean |-> TRUE],
         fault |-> [kind |-> "none"], part |-> p] :
          g \in OtherFreezes(f), p \in {"freeze", "manifest", "receipt", "configs", "external"}}
  \cup {[of |-> "study", freeze |-> [f EXCEPT !.status = "fixture"], other |-> f,
         revision |-> [revision |-> 2, clean |-> FALSE], fault |-> [kind |-> "none"], part |-> Plan!None]}
(* RelationalEstimates: worlds, paths and templates of unequal sizes.      *)
Estimates == INSTANCE RelationalEstimates
Shape(s) == {<<s, 1, 1, 1, 1, 1>>, <<s, 1, 2, 1, 1, 1>>, <<s, 1, 3, 2, 1, 1>>,
             <<s, 2, 4, 1, 1, 1>>, <<s, 2, 5, 1, 2, 1>>, <<s, 2, 6, 1, 2, 2>>}
Shapes == {Shape(1) \cup Shape(2), Shape(1) \cup {k \in Shape(2) : k[5] # 2}, Shape(1) \cup Shape(2) \cup Shape(3)}
PanelFaults == {"lost", "twice", "moved", "control", "data", "evaluator", "seed", "arm"}
EstimateInputs(pairs) ==
  {[of |-> "estimate", pairs |-> pairs, x |-> x, y |-> y, fault |-> f, n |-> 1,
    rng |-> [a |-> 0, b |-> 1, c |-> 0]] : x \in 0..2, y \in 0..1, f \in PanelFaults}
  \cup {[of |-> "estimate", pairs |-> pairs, x |-> x, y |-> y, fault |-> "none", n |-> k[2],
         rng |-> [a |-> k[1], b |-> 3, c |-> 1]] :
            x \in 0..2, y \in 0..1, k \in {<<0, 7>>, <<1, 7>>, <<2, 7>>, <<1, 41>>}}
DesignInputs(pairs) ==
  LET protected == [seeds |-> {1001}, pairs |-> {}, worlds |-> {}, relationPaths |-> {}, templates |-> {}, paths |-> {"p3"}]
      planned == [split |-> "p1", dense |-> "p2"]
      Of(x, y, drawn, fault, p, plan, found) ==
        [of |-> "design", pairs |-> pairs, x |-> x, y |-> y, drawn |-> drawn, fault |-> fault,
         protected |-> p, planned |-> plan, found |-> found]
  IN  {Of(x, y, d, f, protected, planned, planned) : x \in 0..2, y \in 0..1, d \in BOOLEAN, f \in {"none", "swapped"}}
      \cup UNION {{Of(x, 0, d, "overlap", [protected EXCEPT !.pairs = {6}], planned, planned),
                   Of(x, 0, d, "overlap", [protected EXCEPT !.worlds = {2}], planned, planned),
                   Of(x, 0, d, "overlap", [protected EXCEPT !.seeds = {1}], planned, planned),
                   Of(x, 0, d, "overlap", [protected EXCEPT !.relationPaths = {1}], planned, planned),
                   Of(x, 0, d, "overlap", [protected EXCEPT !.templates = {1}], planned, planned),
                   Of(x, 0, d, "overlap", [protected EXCEPT !.paths = {"p1"}], planned, planned),
                   Of(x, 0, d, "same", protected, [planned EXCEPT !["dense"] = "p1"], [planned EXCEPT !["dense"] = "p1"]),
                   Of(x, 0, d, "renamed", protected, planned, [planned EXCEPT !["dense"] = "p4"])} :
                    x \in 0..2, d \in BOOLEAN}
(* RelationalAnalysis: the runs of two seeds; and estimates at the bounds  *)
(* of the verdict's rules.                                                 *)
Analysis == INSTANCE RelationalAnalysis
AnalysisFreeze ==
  [id |-> "f", status |-> "frozen", low |-> 50, high |-> 800, confirmation |-> 1800, seeds |-> {1001, 1002},
   tokensPerParameter |-> 10, tokensPerStep |-> 524, revision |-> 1, schema |-> 1, preregistration |-> 1]
EstimateOf(low, mean, high) == [low |-> low, mean |-> mean, high |-> high]
AnalysisEstimates(verdict) ==
  IF verdict = "validated"
  THEN [split_dense_360 |-> EstimateOf(1, 20, 30), split_dense_160_high |-> EstimateOf(1, 5, 9),
        dose_interaction_160 |-> EstimateOf(1, 2, 3), split_random_160_high |-> EstimateOf(1, 2, 3)]
  ELSE [split_dense_360 |-> EstimateOf(-2, 1, 9), split_dense_160_high |-> EstimateOf(-2, 1, 9),
        dose_interaction_160 |-> EstimateOf(-3, -1, 0), split_random_160_high |-> EstimateOf(-2, 1, 10)]
RunFaults == {"none", "milestone", "two frozen", "schema", "arm", "name", "data", "stray", "lost", "twin", "config",
              "obsolete", "artifact", "no matrix", "report", "receipt"}
AnalysisInputs(fault) ==
  {[of |-> "analysis", freeze |-> AnalysisFreeze, spec |-> s, fault |-> fault, passed |-> p, tasks |-> {1, 2},
    estimates |-> AnalysisEstimates(v), preregistration |-> 1, revision |-> [revision |-> 1, clean |-> c],
    secondary |-> {[role |-> "robustness_only", eligible |-> e, result |-> 1]}] :
     s \in Analysis!RunSpecs(AnalysisFreeze), p \in BOOLEAN, e \in BOOLEAN, c \in BOOLEAN, v \in {"validated", "null"}}
VerdictInputs(fault) ==
  IF fault # "none" THEN {}
  ELSE {[of |-> "verdict", passed |-> p, tasks |-> {t, 1},
         estimates |-> [split_dense_360 |-> e, split_dense_160_high |-> EstimateOf(l, 9, h),
                        dose_interaction_160 |-> EstimateOf(d, d, d + x), split_random_160_high |-> EstimateOf(r, 5, y)]] :
          p \in BOOLEAN, t \in {0, 1}, l \in {0, 1}, h \in {9, 20}, d \in {-1, 0, 1}, x \in {0, 1}, r \in {0, 1}, y \in {10, 11},
          e \in {EstimateOf(a, m, b) : a \in {0, 1}, m \in {1, 19, 20}, b \in {19, 20}}}

(* RelationalGuardrails.  Fifty questions of each kind, the data with one  *)
(* of several ledgers.                                                     *)
Guardrails == INSTANCE RelationalGuardrails
Question(id, n, answer, kind) == [id |-> id, n |-> n, answer |-> answer, kind |-> kind]
Masked(condition, range, protected) ==
  [condition |-> condition, range |-> range, length |-> 1, protected |-> protected]
CleanLedger ==
  <<Masked("expected_split", 1, FALSE), Masked("expected_split", 2, FALSE), Masked("expected_split", 2, FALSE),
    Masked("split", 2, FALSE), Masked("split", 1, FALSE), Masked("split", 2, FALSE)>>
Ledgers ==
  {CleanLedger, SubSeq(CleanLedger, 1, 5), Append(CleanLedger, Masked("split", 3, FALSE)),
   Append(CleanLedger, Masked("dense", 4, TRUE)), Append(CleanLedger, Masked("random", 4, TRUE))}
GuardData(ledger) ==
  [items |-> 50, shared |-> 2, factual |-> 50, ledger |-> ledger, targets |-> 9,
   recognition |-> <<Question(1, 41, 2, "all"), Question(2, 1, 3, "all"), Question(3, 8, 1, "all")>>,
   internal    |-> <<Question(4, 24, 4, "rule"), Question(5, 1, 2, "rule"), Question(6, 25, 1, "central_fact")>>,
   texts       |-> <<[tokens |-> 3, bytes |-> 20], [tokens |-> 0, bytes |-> 0]>>]
(* The questions a model answers rightly, two by a tie.                    *)
Scores(right) ==
  [id \in 1..6 |-> CASE id \in {3, 6} -> IF id \in right THEN <<5, 5, 5, 5>> ELSE <<1, 2, 1, 1>>
                     [] id \in {1, 5} -> IF id \in right THEN <<1, 9, 1, 9>> ELSE <<7, 2, 1, 1>>
                     [] id = 2        -> IF id \in right THEN <<1, 2, 3, 1>> ELSE <<1, 2, 1, 3>>
                     [] id = 4        -> IF id \in right THEN <<0, 0, 0, 1>> ELSE <<0, 1, 0, 1>>]
Of20(correct) == [correct |-> correct, n |-> 20]
GuardAnswers(on, off, right, hop, gold, bits) ==
  [recalled |-> [memory \in {"on", "off"} |-> IF memory = "on" THEN on ELSE off],
   scores |-> Scores(right), right |-> right,
   first_hop |-> Of20(hop), bits |-> <<bits, 0>>, route |-> 1,
   path |-> [view \in {Guardrails!Anchor, Guardrails!Off, Guardrails!Gold} |->
               Of20(IF view = Guardrails!Gold THEN gold ELSE 19)]]
SplitAnswers ==
  {GuardAnswers(on, off, r, h, g, b) : on \in {47, 48, 49, 50}, off \in {2, 3}, r \in {{3, 4}, {2, 3, 4, 5}, {4, 5, 6}},
                                   h \in {14, 15}, g \in {17, 18, 20}, b \in {1009, 1011}}
DenseAnswers == {GuardAnswers(on, 1, {4, 5}, 15, 20, 1000) : on \in {47, 50}} \cup {GuardAnswers(50, 9, {3, 4, 6}, 9, 2, 1000)}
Paired(split, dense) == [side \in {"split", "dense"} |-> IF side = "split" THEN split ELSE dense]
PerfectAnswers == GuardAnswers(50, 0, {4, 5}, 20, 20, 1000)
GuardInputs(odd) ==
  IF odd = "none"
  THEN {[of |-> "guardrails", odd |-> odd, conditions |-> <<"split", "dense">>, data |-> GuardData(CleanLedger),
         answers |-> Paired(s, d)] : s \in SplitAnswers, d \in DenseAnswers}
       \cup {[of |-> "guardrails", odd |-> odd, conditions |-> c, data |-> GuardData(l),
              answers |-> Paired(PerfectAnswers, d)] :
               c \in {<<"split", "dense">>, <<"dense", "split">>, <<"random", "dense">>, <<"selective", "dense">>},
               l \in Ledgers, d \in DenseAnswers}
  ELSE {[of |-> "guardrails", odd |-> odd, conditions |-> <<"split", "dense">>, data |-> GuardData(CleanLedger),
         answers |-> Paired(PerfectAnswers, d)] : d \in DenseAnswers}
GuardOddities ==
  {"none", "cell", "artifact", "receipt", "checkpoint", "configuration", "provenance"} \cup Guardrails!SharedFields

(* ReasoningReport.  Five seeds, so that an effect can be significant, and *)
(* a hundred items, so that one of them is the margin of the null.         *)
Report == INSTANCE ReasoningReport WITH Seeds <- <<1, 2, 3, 4, 5>>, CheckpointSteps <- <<1, 3, 7>>, Families <- <<"a", "b">>
(* Draws that resample seeds and families by a stride and a shift.         *)
Randomness(count, stride, noisy) ==
  [k \in 1..count |->
     [seeds    |-> [s \in 1..5 |-> ((s * stride + k) % 5) + 1],
      families |-> [s \in 1..5 |-> [f \in 1..2 |-> ((s * k + f) % 2) + 1]],
      noise    |-> IF k % noisy = 0 THEN k ELSE 0]]
Scripts == {Randomness(40, 1, 50), Randomness(41, 0, 20), Randomness(40, 2, 1), Randomness(39, 3, 14)}
HitsOf(dense, split) == [arm \in {"dense", "split90"} |-> IF arm = "dense" THEN dense ELSE split]
DenseHits == {<<0, 0, 0, 0, 0>>, <<1, 1, 1, 1, 1>>, <<10, 9, 10, 11, 10>>}
SplitHits == DenseHits \cup {<<1, 1, 1, 1, 0>>, <<2, 0, 0, 0, 0>>, <<11, 10, 11, 12, 11>>, <<20, 20, 20, 20, 20>>,
                            <<20, 20, 20, 20, 9>>, <<12, 12, 10, 12, 12>>}
ReportInput(odd) ==
  [of |-> "report", items |-> 10, hits |-> HitsOf(<<10, 9, 10, 11, 10>>, <<20, 20, 20, 20, 20>>), early |-> <<3, 4>>,
   apart |-> FALSE, odd |-> odd, damaged |-> << >>, randomness |-> Randomness(20, 1, 50)]
OddCells == {<<"split90", 1, 7>>, <<"dense", 3, 1>>}
Raws == {Report!NoText, [kind |-> "surrogate"]}
        \cup {[Report!Canonical EXCEPT !.core = c, !.nfc = n, !.padded = w, !.eot = e] :
                 c \in {"yes", "no"}, n \in BOOLEAN, w \in BOOLEAN, e \in BOOLEAN}
Makings == {[raw |-> r, generated |-> g, stop |-> x] : r \in Raws, g \in {7, 8, 9}, x \in {"eot", "max_new_tokens", "error"}}
ReportInputs(odd) ==
  LET Odd(cell) == [kind |-> odd, cell |-> cell]
  IN  CASE odd = "none" ->
             {[ReportInput(Odd(Report!Nowhere)) EXCEPT !.hits = HitsOf(d, s), !.apart = a, !.randomness = r] :
                d \in DenseHits, s \in SplitHits, a \in BOOLEAN, r \in Scripts}
        [] odd = "answer" ->
             {[ReportInput([kind |-> odd, cell |-> <<"split90", 1, 7>>, made |-> m]) EXCEPT !.items = 2,
                 !.hits = HitsOf(<<0, 0, 0, 0, 0>>, <<1, 1, 1, 1, 1>>), !.early = <<0, 1>>] : m \in Makings}
        [] odd = "pairing" ->
             {ReportInput([kind |-> odd, cell |-> c, pairing |-> p]) : c \in OddCells, p \in Report!PairingKinds}
        [] odd = "evidence" ->
             {[ReportInput(Odd(Report!Nowhere)) EXCEPT !.damaged = [x \in {c} |-> k]] : c \in OddCells, k \in 1..18}
             \cup {[ReportInput(Odd(Report!Nowhere)) EXCEPT !.damaged = [x \in OddCells |-> IF x[1] = "dense" THEN 5 ELSE k]] : k \in 1..18}
        [] OTHER -> {ReportInput(Odd(c)) : c \in OddCells}


-----------------------------------------------------------------------------
(* The machines: lanes of a corpus, crews that stage it.                   *)
TwoLanes  == <<"split", "dense">>
TwoTiers  == {"160m", "1b"}
TwoCrews  == {{"u1", "s1", "s2"}, {"u1", "u2", "s1"}}
ASSUME StagingIsGiven == StagingAssumption

vars == <<input, scheduleVars, readerVars, stagingVars>>

Unscheduled ==
  /\ phase = "none" /\ order = << >> /\ packed = << >> /\ done = {} /\ position = 0 /\ sink = 0
  /\ lane = 0 /\ length = 0 /\ weight = 0 /\ tasks = 0 /\ update = 0 /\ shards = 0
Unread ==
  /\ reader = "none" /\ trained = << >> /\ weighted = << >> /\ cursor = 0 /\ epoch = 0
  /\ tier = 0 /\ lens = 0 /\ ctx = 0 /\ rows = 0 /\ origin = 0 /\ saved = 0
Unstaged == StagingInit /\ bucket = Empty /\ place["u2"] = "away"

(* One of the values an input is chosen from comes with the part, so that  *)
(* the parts are many and the inputs of each few.                          *)
Part(part, picks) == [of : {"none"}, part : {part}, pick : picks]
Parts ==
  Part("decoding", {2, 3}) \cup Part("controls", ControlIds) \cup Part("metrics", MetricControls)
    \cup Part("masks", {{}, {"f"}}) \cup Part("leaks", {{}, {<<2, 2>>}})
    \cup Part("worlds", {2, 3, 5, 7}) \cup Part("splits", {0, 1})
    \cup Part("mixture", 1..3) \cup Part("blocks", {22}) \cup Part("sizes", {100})
    \cup Part("facts", {1, 2, 4, 9}) \cup Part("store", {{0, 3, 7}})
    \cup Part("oracle", OracleTasks) \cup Part("source", BOOLEAN)
    \cup Part("hashmap", {1, 2}) \cup Part("paths", {1, 2}) \cup Part("freeze", Developments) \cup Part("study", StudyFreezes)
    \cup Part("estimates", Shapes) \cup Part("analysis", RunFaults)
    \cup Part("guardrails", GuardOddities)
    \cup Part("report", {"none", "answer", "pairing", "evidence"} \cup Report!Refusing)
    \cup Part("expansion", {<<1, 1>>, <<2, 1>>, <<1, 2>>, <<3, 2>>})

Init ==
  \/ input \in Parts /\ Unscheduled /\ Unread /\ Unstaged
  \/ input = [of |-> "schedule"] /\ ScheduleInit /\ Unread /\ Unstaged
  \/ input = [of |-> "reading"] /\ ReaderInit /\ Unscheduled /\ Unstaged
  \/ input = [of |-> "staging"] /\ StagingInit /\ Unscheduled /\ Unread

Choose(part, Inputs(_)) ==
  /\ input.of = "none" /\ input.part = part
  /\ input' \in Inputs(input.pick)
  /\ UNCHANGED <<scheduleVars, readerVars, stagingVars>>

Next ==
  \/ Choose("decoding", DecodingInputs)
  \/ Choose("controls", ControlInputs)
  \/ Choose("metrics", MetricInputs)
  \/ Choose("masks", MaskInputs)
  \/ Choose("leaks", LeakInputs)
  \/ Choose("worlds", WorldInputs)
  \/ Choose("splits", SplitInputs)
  \/ Choose("mixture", MixtureInputs)
  \/ Choose("blocks", BlockInputs)
  \/ Choose("sizes", SizeInputs)
  \/ Choose("facts", FactInputs)
  \/ Choose("store", StoreInputs)
  \/ Choose("oracle", OracleInputs)
  \/ Choose("source", SourceInputs)
  \/ Choose("expansion", ExpansionInputs)
  \/ Choose("hashmap", HashmapInputs)
  \/ Choose("paths", PathInputs)
  \/ Choose("freeze", FreezeInputs)
  \/ Choose("study", StudyInputs)
  \/ Choose("estimates", EstimateInputs)
  \/ Choose("estimates", DesignInputs)
  \/ Choose("analysis", AnalysisInputs)
  \/ Choose("analysis", VerdictInputs)
  \/ Choose("guardrails", GuardInputs)
  \/ Choose("report", ReportInputs)
  \/ ScheduleNext /\ UNCHANGED <<input, readerVars, stagingVars>>
  \/ ReaderNext /\ UNCHANGED <<input, scheduleVars, stagingVars>>
  \/ input.of = "staging" /\ StagingNext /\ UNCHANGED <<input, scheduleVars, readerVars>>

Spec == Init /\ [][Next]_vars
-----------------------------------------------------------------------------
(* The properties of the instances.                                       *)
(* Whatever the model does, the row that is made of it under every control *)
(* but gold returns is accepted; what is added up a pair at a time, in     *)
(* whatever order the pairs come, is what is computed from all rows, so    *)
(* that a published summary always stands its verification; and the        *)
(* summary of rows that are accepted is itself accepted (EvalRow.from_dict,*)
(* validate_rows, CheckpointSummary.from_dict).                            *)
MetricsAgree == RowsAreAccepted /\ Metrics!MetricsAgree

-----------------------------------------------------------------------------
(* The plan takes every record that was balanced when it was rendered, and *)
(* whatever candidates the hash picks, the verification accepts the four   *)
(* sidecars the writer made exactly when the corpus has a payload, and     *)
(* refuses them with any one weight of any one of them changed.  No        *)
(* payload leaks: a corpus is accepted exactly when it has payloads, they  *)
(* are the planned ones, every place where a text of the inventory occurs  *)
(* in a record, nested and overlapping ones too, lies in a payload span of *)
(* a fact that has the text, and no protected text occurs at all           *)
(* (mask_ledger.py verify_weight_sidecars, "untagged direct payload        *)
(* occurrence", "occurrence spool contains no payloads").                  *)
MasksAreVerified == Masks!MasksAreVerified /\ Masks!LeaksAreFound

(* A world has the subjects and the objects its manifest counts for each   *)
(* relation, every required path can be followed to its end from every     *)
(* entity of the backbone, whatever the schema's statistics; and every     *)
(* pair such worlds give is valid, the evaluation's own oracle agreeing    *)
(* with both of its answers, over the graph and over the graph with the    *)
(* changed row, however often the path comes by it                         *)
(* (_generate_schema_world, "generated_distinct_objects";                  *)
(* _generate_eval_pairs, "counterfactual failed to flip the answer").  A   *)
(* schema that can supply a plan always passes its own audit, whatever the *)
(* hash and the seed: no split shares an entity, a payload or a            *)
(* composition with one it must not, and every composition of the plan is  *)
(* both asked and rendered where it is required, the held-out ones in the  *)
(* protected splits alone (_freeze_and_audit_split_artifacts).             *)
WorldsAnswer ==
  Worlds!WorldsHaveTheirShape /\ Worlds!CounterfactualsFlip /\ Worlds!SplitsAreDisjoint

(* A corpus whose aliases leave room in the graph's share meets its        *)
(* mixture to within a record, or a whole block of the graph, whatever the *)
(* lengths of its records; the blocks stay whole; every fact of a world is *)
(* rendered in one pass; the worlds divide the entities, none too small to *)
(* reason in; no component runs ahead of another; and the guardrail        *)
(* questions do not depend on the order in which the worlds stream by:     *)
(* they are the facts with the smallest keys of each stratum, the strata   *)
(* as even as they can be (_build_relational_corpus_plan,                  *)
(* iter_graph_records, _iter_world_sizes, _write_training_graph).          *)
MixtureIsRounded == Mixture!MixtureIsRounded /\ Mixture!GuardrailsAreSpread

(* What is built loads; and whatever index loads over those rows answers   *)
(* every lookup, of a row or of none, and gives every provenance its rows  *)
(* in order, as the graph does: no collision, wrapped probe or hole hides  *)
(* a row (build, _validate_content, lookup).                               *)
StoreAnswersAsGraph == Packed!StoreAnswersAsGraph

(* The independent oracles answer as the puzzles are defined, over every   *)
(* small puzzle of their kinds (reasoning_oracles.py _ORACLES).            *)
OraclesAreRight == Oracles!OraclesAreRight

(* Whatever the lengths and the rejections of the rows, the extension is   *)
(* exactly as long as asked and each task has its quota of it, no task     *)
(* runs ahead before the last tokens, the compilation gives up only when   *)
(* none of its candidates fit, and what it publishes, and nothing with a   *)
(* record or a token changed, stands its replay; and the source tree it is *)
(* generated from is cleaned of bytecode alone, to the tree received, or   *)
(* left as it was (_compile_extension, _verify_record_manifest,            *)
(* clean_reasoning_gym_bytecode).                                          *)
ExtensionIsExact == Expansion!ExtensionIsExact /\ Expansion!SourceIsReceived

(* The records of the hashmap are the frozen quotas of its addresses, its  *)
(* build refuses insufficient sources only, and no member of its package   *)
(* can be changed (build_hashmap_dataset, _validate_archive_structure);    *)
(* every path of an inductive split is published and replays, and every    *)
(* candidate is accounted for (_write_paths, wikidata_path_replay.py).     *)
WikidataIsExact == Hashmap!HashmapIsExact /\ SplitPaths!PathsAreExact

(* A freeze that may be launched was made by one evaluation of the gates,  *)
(* with the selections of the frozen rules, and what one evaluation issues *)
(* is accepted (_validate_real_bindings).                                  *)
FreezeIsOneEvaluation == Gates!FreezeIsOneEvaluation

(* What was built for a freeze is packaged and verifies, its runs paired;  *)
(* nothing that is of another freeze gets in (create_asset_receipt,        *)
(* build_manifest, verify_bundle).                                         *)
StudyIsBound == Plan!StudyIsBound

(* Arms are compared on the same pairs, in every replicate of every        *)
(* contrast, or not at all (_build_panel, _draw_one); the fifth gate       *)
(* decides the same whichever arm has which label                          *)
(* (load_blinded_development, run_prospective_design); and the reasoning   *)
(* report has every result replayed, and the verdict that its answers,     *)
(* draws and gates support (_validate_checkpoint_result,                   *)
(* assign_frozen_verdict).                                                 *)
EstimatesArePaired == Estimates!EstimatesArePaired /\ Estimates!DesignIsBlind /\ Report!ReportIsReplayed

(* An analysis stands on the complete runs of its plan, and its verdict is *)
(* the one that its document is read to have (_load_complete_runs,         *)
(* _verdict_from_serialized_inputs); and the guards of a pair of arms are  *)
(* judged by what was measured, the same when the report is read again     *)
(* (evaluate_confirmatory_guardrails, GuardrailReport.from_dict).          *)
AnalysisIsBound == Analysis!AnalysisIsBound /\ Guardrails!GuardrailsAreJudged
=============================================================================
