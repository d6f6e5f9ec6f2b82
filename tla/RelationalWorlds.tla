--------------------------- MODULE RelationalWorlds ---------------------------
(***************************************************************************)
(* corpusgen/srgm_worlds.py: worlds of facts in the shape of a relation    *)
(* schema, and the pairs of questions asked of them, an original and a     *)
(* counterfactual that changes one supporting row.                         *)
(*                                                                         *)
(* A schema has entity relations, the edges 1, 2, ..., each with the       *)
(* subjects and objects counted among its total of entities, then two      *)
(* date and two category relations.  An entity is a number from 1, in the  *)
(* order the world's shuffle gave.  What a seed draws is an input.         *)
(***************************************************************************)
EXTENDS RelationalControls

Relations(schema) == DOMAIN schema.relations
DateRelations(schema)     == <<Len(schema.relations) + 1, Len(schema.relations) + 2>>
CategoryRelations(schema) == <<Len(schema.relations) + 3, Len(schema.relations) + 4>>

(* _rounded_ratio.                                                         *)
RoundedRatio(numerator, denominator, scale) ==
  IF denominator <= 0 THEN 0 ELSE (numerator * scale + denominator \div 2) \div denominator

(* _generate_schema_world: how many subjects and objects a relation gets;  *)
(* one on a required path has at least one subject.                        *)
SourceCount(schema, n, required, r) ==
  LET rounded == RoundedRatio(schema.relations[r].subjects, schema.total, n)
  IN  IF r \in required THEN Max({1, rounded}) ELSE rounded

TargetCount(schema, n, required, r) ==
  LET sources == SourceCount(schema, n, required, r)
      spec    == schema.relations[r]
      rounded == RoundedRatio(spec.objects, spec.subjects, sources)
  IN  IF sources > 0 /\ spec.objects > 0 /\ rounded = 0 THEN 1 ELSE rounded

Representable(schema, n, required) ==
  \A r \in Relations(schema) :
    LET sources == SourceCount(schema, n, required, r)
        targets == TargetCount(schema, n, required, r)
    IN  targets <= sources /\ (sources > 0 => targets > 0)

(* The reasoning backbone: so many first entities have every required      *)
(* relation.                                                               *)
Backbone(schema, n, required) ==
  Min({SourceCount(schema, n, required, r) : r \in required})

(* The target of the k-th subject: the backbone points into itself, the    *)
(* other subjects first at the targets that are left.                      *)
TargetOf(k, targets, backbone) ==
  LET safe  == Min({targets, backbone})
      extra == targets - safe
      later == k - 1 - backbone
  IN  IF k <= backbone THEN ((k - 1) % safe) + 1
      ELSE IF later < extra THEN safe + later + 1
      ELSE ((later - extra) % targets) + 1

(* A world's compose codes are apart from any other namespace's.           *)
Compose(partition, world, r, k) ==
  (partition.entities - 1) * Residues + ((world + r + k - 2) % Residues)

EntityRows(schema, n, partition, required) ==
  UNION {{[at |-> <<partition.entities + k - 1, r>>,
           target |-> partition.entities - 1
                        + TargetOf(k, TargetCount(schema, n, required, r),
                                   Backbone(schema, n, required)),
           value |-> Compose(partition, partition.worlds, r, k),
           world |-> partition.worlds] :
            k \in 1..SourceCount(schema, n, required, r)} :
          r \in Relations(schema)}

(* _literal_value, without its prefix of namespace and relation; a date is *)
(* its year.                                                               *)
DateValue(r, k)  == 1000 + (((k - 1) * 37 + (r - 1) * 101) % 8000)
FirstDate        == 1
LastDate         == 9999
CategoryCount(n) == Min({64, Max({2, n \div 2})})

LiteralRows(schema, n, partition) ==
  LET Rows(edges, Value(_, _)) ==
        {[at |-> <<partition.entities + k - 1, edges[j]>>, target |-> Nowhere,
          value |-> Value(j, k), world |-> partition.worlds] :
           j \in DOMAIN edges, k \in 1..n}
  IN  Rows(DateRelations(schema), DateValue)
        \cup Rows(CategoryRelations(schema), LAMBDA j, k : (k - 1) % CategoryCount(n))

RequiredRelations(paths) == UNION {ToSet(p) : p \in ToSet(paths)}

(* generate_world.                                                         *)
World(schema, n, partition, paths) ==
  LET required == RequiredRelations(paths)
      backbone == Backbone(schema, n, required)
  IN  [rows |-> EntityRows(schema, n, partition, required)
                  \cup LiteralRows(schema, n, partition),
       reasoning |-> partition.entities..(partition.entities + backbone - 1),
       entities |-> partition.entities..(partition.entities + n - 1),
       id |-> partition.worlds]

-----------------------------------------------------------------------------
(* _complete_action_plan: six steps, the reads and then one halt.          *)
PlanSteps == 6
CompletePlan(reads) ==
  reads \o [k \in 1..(PlanSteps - Len(reads)) |-> IF k = 1 THEN Halt ELSE Noop]

(* _follow.                                                                *)
Followed(store, start, relations) ==
  FoldLeft(LAMBDA t, r : LET row == Lookup(store, <<t.at, r>>)
                         IN  [at |-> row.target, rows |-> Append(t.rows, row)],
           [at |-> start, rows |-> << >>], relations).rows

Item(world, task, slots, reads, rows) ==
  [world |-> world.id, task |-> task, slots |-> slots, gold |-> CompletePlan(reads),
   addresses |-> [k \in DOMAIN rows |-> rows[k].at]]

(* A pair: the item, both its answers and the row that is changed.         *)
Pair(item, relations, answer, flipped, changed) ==
  [item |-> item, relations |-> relations, answer |-> answer, flipped |-> flipped,
   changed |-> changed]

CompositionAnswer(rows) == ResidueName(FoldLeft(LAMBDA n, r : n + r.value, 0, rows))

(* The first position.                                                     *)
ChangeFirst(relations) == 1

(* The first position whose relation occurs once.                          *)
ChangeIndex(relations) ==
  Min({k \in DOMAIN relations :
         \A j \in DOMAIN relations \ {k} : relations[j] # relations[k]})

NextCompose(code) == code - (code % Residues) + ((code + 1) % Residues)

PathPair(world, start, relations) ==
  LET rows    == Followed(world.rows, start, relations)
      old     == rows[ChangeIndex(relations)]
      changed == [old EXCEPT !.value = NextCompose(@)]
      after   == [k \in DOMAIN rows |-> IF rows[k].at = changed.at THEN changed ELSE rows[k]]
  IN  Pair(Item(world, "composition", <<start, Nowhere>>,
                [k \in DOMAIN relations |-> Read(1, relations[k])], rows),
           relations, CompositionAnswer(rows), CompositionAnswer(after), changed)

TwoReads(world, task, a, b, relation) ==
  Item(world, task, <<a, b>>, <<Read(1, relation), Read(2, relation)>>,
       <<Lookup(world.rows, <<a, relation>>), Lookup(world.rows, <<b, relation>>)>>)

(* _date_pair gives the entities in the order that is asked for.           *)
DatePair(world, a, b, relation) ==
  LET row     == Lookup(world.rows, <<a, relation>>)
      other   == Lookup(world.rows, <<b, relation>>)
      Slot(x) == IF x < other.value THEN "slot_0" ELSE "slot_1"
      changed == [row EXCEPT !.value = IF Slot(row.value) = "slot_0"
                                       THEN LastDate ELSE FirstDate]
  IN  Pair(TwoReads(world, "ordering", a, b, relation), <<relation, relation>>,
           Slot(row.value), Slot(changed.value), changed)

(* _different_category: a value no row of the relation has.                *)
DifferentCategory(value) == value + 1000

CategoryPair(world, a, b, relation) ==
  LET row      == Lookup(world.rows, <<a, relation>>)
      other    == Lookup(world.rows, <<b, relation>>)
      Equal(x) == IF x = other.value THEN "yes" ELSE "no"
      changed  == [row EXCEPT !.value = IF row.value = other.value
                                        THEN DifferentCategory(other.value) ELSE other.value]
  IN  Pair(TwoReads(world, "equality", a, b, relation), <<relation, relation>>,
           Equal(row.value), Equal(changed.value), changed)

-----------------------------------------------------------------------------
(* validate_eval_sets, of one pair: validate_gold_actions, and a changed   *)
(* row that is a supporting one and not the base graph's.                  *)
GoldActionsValid(item) ==
  LET halts == {k \in DOMAIN item.gold : item.gold[k].halt}
      reads == Reads(item.gold)
  IN  /\ Len(item.gold) = PlanSteps
      /\ Cardinality(halts) <= 1
      /\ halts = {} => \A k \in DOMAIN item.gold : item.gold[k].read
      /\ \A h \in halts : h > 1 /\ \A k \in DOMAIN item.gold :
           (k < h => item.gold[k].read) /\ (k > h => ~ item.gold[k].read)
      /\ Len(reads) = Len(item.addresses)
      /\ \A k \in DOMAIN reads : reads[k].edge = item.addresses[k][2]

PairIsValid(pair, store) ==
  /\ GoldActionsValid(pair.item)
  /\ pair.answer # pair.flipped
  /\ pair.changed.at \in ToSet(pair.item.addresses)
  /\ \E r \in store : r.at = pair.changed.at
  /\ pair.changed \notin store

(* The pairs a world can give.                                             *)
PairsOf(world, schema, paths) ==
  {PathPair(world, a, p) : a \in world.reasoning, p \in paths}
    \cup {DatePair(world, ab[1], ab[2], DateRelations(schema)[1]) :
            ab \in {ab \in world.entities \X world.entities :
                      Lookup(world.rows, <<ab[1], DateRelations(schema)[1]>>).value
                        # Lookup(world.rows, <<ab[2], DateRelations(schema)[1]>>).value}}
    \cup {CategoryPair(world, ab[1], ab[2], CategoryRelations(schema)[1]) :
            ab \in {ab \in world.entities \X world.entities : ab[1] # ab[2]}}

(* An input: a schema, a number of entities and the paths that are         *)
(* required, each with a relation that occurs once (_compositions_for).    *)
WorldOf(in) == World(in.schema, in.n, [entities |-> 1, worlds |-> 1], SetToSeq(in.paths))

(* A world has the subjects and the objects its manifest counts for each   *)
(* relation, and every required path can be followed to its end from every *)
(* entity of the backbone, whatever the schema's statistics                *)
(* (_generate_schema_world, "generated_distinct_objects" and               *)
(* reasoning_entity_ids).                                                  *)
WorldsHaveTheirShape ==
  input.of = "worlds" /\ Representable(input.schema, input.n, UNION {ToSet(p) : p \in input.paths}) =>
    LET world    == WorldOf(input)
        required == UNION {ToSet(p) : p \in input.paths}
        Of(r)    == {row \in world.rows : row.at[2] = r}
    IN  /\ \A r \in Relations(input.schema) :
             /\ Cardinality({row.at : row \in Of(r)}) = SourceCount(input.schema, input.n, required, r)
             /\ Cardinality({row.target : row \in Of(r)}) = TargetCount(input.schema, input.n, required, r)
             /\ {row.target : row \in Of(r)} \subseteq world.entities
        /\ \A a \in world.reasoning, p \in input.paths :
             Miss \notin ToSet(Followed(world.rows, a, p))

(* Every pair a world can give is valid, and the evaluation's own oracle   *)
(* agrees with both of its answers: over the graph, and over the graph     *)
(* with the changed row, however often the path comes by it                *)
(* (_generate_eval_pairs, "counterfactual failed to flip the answer").     *)
CounterfactualsFlip ==
  input.of = "worlds" /\ Representable(input.schema, input.n, UNION {ToSet(p) : p \in input.paths}) =>
    LET world == WorldOf(input)
    IN  \A pair \in PairsOf(world, input.schema, input.paths) :
          /\ PairIsValid(pair, world.rows)
          /\ OracleAnswer(pair.item, world.rows) = pair.answer
          /\ OracleAnswer(pair.item, Patch(world.rows, pair.changed)) = pair.flipped
=============================================================================
