--------------------------- MODULE RelationalSplits ---------------------------
(***************************************************************************)
(* corpusgen/world_splits.py and the audit that relational_build.py makes  *)
(* with it: compositions of relations are divided among development,       *)
(* train and the two protected splits by a hash, each split gets           *)
(* namespaces of its own, and before anything is built the questions and   *)
(* records of all four are generated and audited.                          *)
(*                                                                         *)
(* A composition's bucket is given by the input, and so is what the seed   *)
(* draws; both protected splits draw alike, from one seed and world.  The  *)
(* second generation, compared with the first, is left out.  The numbers   *)
(* of hops and of pairs are half of the code's.                            *)
(***************************************************************************)
EXTENDS RelationalWorlds

TrainHops     == 2     \* four
ProtectedHops == 3     \* six
QaPairs       == 6     \* twelve
RecordPairs   == 4     \* eight
Splits == {"development", "train", "protected_seen", "protected_heldout"}
IsProtected(name) == name \in {"protected_seen", "protected_heldout"}

(* composition_bucket.                                                     *)
Bucket(in, path) ==
  in.buckets[(FoldLeftDomain(LAMBDA n, k : n + k * path[k], 0, path) % Len(in.buckets)) + 1]

(* The paths of so many hops, in the order of the product.                 *)
Product(relations, hops) ==
  [m \in 1..(relations ^ hops) |->
     [k \in 1..hops |-> (((m - 1) \div (relations ^ (hops - k))) % relations) + 1]]

(* _compositions_for: those with a relation that occurs once and the       *)
(* bucket that is asked for.                                               *)
CompositionsFor(in, hops, low, high) ==
  SelectSeq(Product(Len(in.schema.relations), hops),
            LAMBDA p : /\ \E k \in 1..hops : \A j \in 1..hops \ {k} : p[j] # p[k]
                       /\ low <= Bucket(in, p) /\ Bucket(in, p) < high)

CanSupply(in) ==
  /\ \A h \in 1..TrainHops : Len(CompositionsFor(in, h, 0, 80)) >= 2
  /\ \A h \in 1..TrainHops : Len(CompositionsFor(in, h, 80, 90)) >= 1
  /\ \A h \in 1..ProtectedHops : Len(CompositionsFor(in, h, 90, 100)) >= 1

(* build_split_plan.                                                       *)
NthOfEach(in, n, hops, low, high) ==
  FlattenSeq([h \in 1..hops |-> SubSeq(CompositionsFor(in, h, low, high), n, n)])

PathsOfSplit(in, name) ==
  LET first == NthOfEach(in, 1, TrainHops, 0, 80)
  IN  CASE name = "development"       -> NthOfEach(in, 1, TrainHops, 80, 90)
        [] name = "train"             -> first \o NthOfEach(in, 2, TrainHops, 0, 80)
        [] name = "protected_seen"    -> first
        [] name = "protected_heldout" -> NthOfEach(in, 1, ProtectedHops, 90, 100)

Namespace(name) == CASE name = "development" -> 0 [] name = "train" -> 1 [] OTHER -> 2

Partition(in, name) ==
  [name |-> name, namespace |-> Namespace(name),
   worlds |-> in.seed * 3 + Namespace(name) + 1,
   entities |-> (in.seed * 3 + Namespace(name)) * in.stride + 1,
   paths |-> PathsOfSplit(in, name)]

(* For every split.                                                        *)
OfSplits(Of(_)) ==
  [development |-> Of("development"), train |-> Of("train"),
   protected_seen |-> Of("protected_seen"), protected_heldout |-> Of("protected_heldout")]

BuildSplitPlan(in) == OfSplits(LAMBDA name : Partition(in, name))

(* audit_split_plan_disjointness, of the compositions.                     *)
Paths(plan, name) == ToSet(plan[name].paths)

StaticallyDisjoint(plan) ==
  /\ Paths(plan, "development") \cap Paths(plan, "train") = {}
  /\ Paths(plan, "protected_heldout")
       \cap (Paths(plan, "development") \cup Paths(plan, "train")) = {}
  /\ Paths(plan, "protected_seen") \subseteq Paths(plan, "train")

-----------------------------------------------------------------------------
(* _path_compositions; 0 hops stand for no hops asked for.                 *)
RequiredPaths(plan, name) ==
  IF IsProtected(name)
  THEN plan["protected_seen"].paths \o plan["protected_heldout"].paths
  ELSE plan[name].paths

PathCompositions(plan, name, hops) ==
  SelectSeq(RequiredPaths(plan, name),
            LAMBDA p : \/ hops = 0
                       \/ IF IsProtected(name) THEN Len(p) = hops ELSE Len(p) <= hops)

SplitWorld(in, plan, name) ==
  World(in.schema, in.n, plan[name], RequiredPaths(plan, name))

(* _relation_for_kind: development takes the last.                         *)
ForKind(name, relations) == IF name = "development" THEN Last(relations) ELSE relations[1]

(* The draws of the i-th pair, from 0: a start in the backbone, and two    *)
(* entities in the order, or of the category, that i asks for.             *)
Drawn(in, world, i) ==
  LET a == Min(world.entities) + ((i + in.draw) % (in.n \div 2))
      b == a + in.n \div 2
      even == (i + in.draw) % 2 = 0
  IN  [start |-> Min(world.reasoning) + ((i + in.draw) % Cardinality(world.reasoning)),
       dates |-> IF even THEN <<a, b>> ELSE <<b, a>>,
       categories |-> IF even THEN <<a, b>>
                      ELSE <<a, CHOOSE c \in world.entities :
                                  (c - a) % CategoryCount(in.n) # 0>>]

Planned(compositions, i) == compositions[(i % Len(compositions)) + 1]

(* _generate_eval_pairs, task by task, of the world of the split.          *)
PairDrawn(in, plan, name, hops, task, world, i, drawn) ==
  CASE task = "composition" ->
         PathPair(world, drawn.start, Planned(PathCompositions(plan, name, hops), i))
    [] task = "ordering" ->
         DatePair(world, drawn.dates[1], drawn.dates[2], ForKind(name, DateRelations(in.schema)))
    [] task = "equality" ->
         CategoryPair(world, drawn.categories[1], drawn.categories[2],
                      ForKind(name, CategoryRelations(in.schema)))

PairsOfTask(in, plan, name, world, hops, count, task) ==
  [k \in 1..count |->
     [id |-> <<name, hops, task, k - 1>>, task |-> task,
      pair |-> PairDrawn(in, plan, name, hops, task, world, k - 1, Drawn(in, world, k - 1))]]

Tasks == <<"composition", "ordering", "equality">>

QaPairsOf(in, plan, name, world) ==
  FlattenSeq([t \in DOMAIN Tasks |-> PairsOfTask(in, plan, name, world, 0, QaPairs, Tasks[t])])

(* iter_reasoning_records, one pass over a world: half of the paths, a     *)
(* date and an equality, then the rest; none with more reads than hops.    *)
Interleaved(paths, dates, equalities) ==
  LET half == RecordPairs \div 2
  IN  SubSeq(paths, 1, half) \o <<dates[1], equalities[1]>>
        \o SubSeq(paths, half + 1, RecordPairs) \o Tail(dates) \o Tail(equalities)

RecordsOfPass(in, plan, name, world, hops) ==
  LET Of(task) == PairsOfTask(in, plan, name, world, hops, RecordPairs, task)
  IN  SelectSeq(Interleaved(Of("composition"), Of("ordering"), Of("equality")),
                LAMBDA r : Len(r.pair.item.addresses) <= hops)

(* The schedules of _generate_split_audit_bundle.                          *)
RecordsOf(in, plan, name, world) ==
  IF IsProtected(name)
  THEN FlattenSeq([h \in 1..ProtectedHops |->
                     SubSeq(RecordsOfPass(in, plan, name, world, h), 1, RecordPairs)])
  ELSE SubSeq(RecordsOfPass(in, plan, name, world, TrainHops), 1, 3 * RecordPairs)

-----------------------------------------------------------------------------
(* ObservedSplitArtifacts.from_generated.  A payload is a text: a number,  *)
(* or a literal under its prefix of namespace and relation.                *)
RowPayloads(plan, name, row) ==
  {IF IsEntity(row) THEN <<"number", row.target - 1>>
   ELSE <<"literal", plan[name].namespace, row.at[2], row.value>>}
    \cup IF IsEntity(row) THEN {<<"number", row.value>>} ELSE {}

RowEntities(row) == {row.at[1], row.target} \ {Nowhere}

(* "heldout" are the path compositions of the held-out split.              *)
IsHeldout(plan, made) ==
  made.task = "composition" /\ made.pair.relations \in Paths(plan, "protected_heldout")

Compositions(made) == {m.pair.relations : m \in made}

ObservedOf(plan, name, world, asked, written, rows) ==
  [worlds    |-> {world.id},
   entities  |-> UNION {RowEntities(r) : r \in rows}
                   \cup (UNION {ToSet(m.pair.item.slots) : m \in asked} \ {Nowhere}),
   payloads  |-> UNION {RowPayloads(plan, name, r) : r \in rows},
   questions |-> {m.id : m \in asked \cup written},
   qa        |-> Compositions(asked),
   rendered  |-> Compositions(written),
   seen      |-> Compositions({m \in asked \cup written : ~ IsHeldout(plan, m)}),
   heldout   |-> Compositions({m \in asked \cup written : IsHeldout(plan, m)}),
   records   |-> written]

ObservedIn(in, plan, name, world, asked) ==
  ObservedOf(plan, name, world, asked, ToSet(RecordsOf(in, plan, name, world)),
             world.rows \cup {m.pair.changed : m \in asked})

ObservedWorld(in, plan, name, world) ==
  ObservedIn(in, plan, name, world, ToSet(QaPairsOf(in, plan, name, world)))

Observed(in, plan, name) == ObservedWorld(in, plan, name, SplitWorld(in, plan, name))

Hops(compositions) == {Len(p) : p \in compositions}

(* from_generated refuses a split without a question and a record of every *)
(* number of hops.                                                         *)
HopsCovered(name, observed) ==
  LET required == 1..(IF IsProtected(name) THEN ProtectedHops ELSE TrainHops)
  IN  Hops(observed.qa) = required /\ Hops(observed.rendered) = required

PairwiseDisjoint(sets) ==
  \A j, k \in DOMAIN sets : j # k => sets[j] \cap sets[k] = {}

(* audit_disjointness: the protected splits share one physical namespace.  *)
PhysicalAxis(observed, Field(_)) ==
  /\ Field(observed["protected_heldout"]) = Field(observed["protected_seen"])
  /\ PairwiseDisjoint([name \in Splits \ {"protected_heldout"} |-> Field(observed[name])])
  /\ \A name \in Splits : Field(observed[name]) # {}

RelationPaths(observed) ==
  LET development == observed["development"].qa \cup observed["development"].rendered
      train   == observed["train"].qa \cup observed["train"].rendered
      seen    == observed["protected_seen"].seen \cup observed["protected_heldout"].seen
      heldout == observed["protected_seen"].heldout \cup observed["protected_heldout"].heldout
  IN  /\ development \cap train = {} /\ development \cap heldout = {}
      /\ heldout \cap (train \cup seen) = {}
      /\ seen \subseteq observed["train"].rendered
      /\ {} \notin {development, observed["train"].qa, observed["train"].rendered, seen, heldout}

AuditPasses(observed) ==
  /\ PhysicalAxis(observed, LAMBDA o : o.worlds)
  /\ PhysicalAxis(observed, LAMBDA o : o.entities)
  /\ PhysicalAxis(observed, LAMBDA o : o.payloads)
  /\ PairwiseDisjoint([name \in Splits |-> observed[name].questions])
  /\ RelationPaths(observed)

(* What is audited, and that every composition is observed where it is     *)
(* required.                                                               *)
Audited(plan, observed) ==
  /\ StaticallyDisjoint(plan)
  /\ AuditPasses(observed)
  /\ \A name \in Splits :
       /\ HopsCovered(name, observed[name])
       /\ ToSet(RequiredPaths(plan, name)) \subseteq observed[name].qa \cap observed[name].rendered

PlanAudited(in, plan) == Audited(plan, OfSplits(LAMBDA name : Observed(in, plan, name)))

(* A schema that can supply a plan always passes its own audit, whatever   *)
(* the hash and the seed: no split shares an entity, a payload or a        *)
(* composition with one it must not, and every composition of the plan is  *)
(* both asked and rendered where it is required, the held-out ones in the  *)
(* protected splits alone (_freeze_and_audit_split_artifacts).             *)
SplitsAreDisjoint ==
  input.of = "splits" /\ CanSupply(input) => PlanAudited(input, BuildSplitPlan(input))
=============================================================================
