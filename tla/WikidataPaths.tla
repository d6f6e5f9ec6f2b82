---------------------------- MODULE WikidataPaths ----------------------------
(***************************************************************************)
(* The robustness paths of an inductive Wikidata5M split                   *)
(* (corpusgen/wikidata_paths.py): from roots drawn by hash the selected    *)
(* relations are followed in their frozen cyclic order, every path that    *)
(* can be followed and whose last row can be changed gives two pairs of    *)
(* items, the rows are published as a graph, and everything that was left  *)
(* out is accounted for.  Each path is replayed before it is written and   *)
(* all items once more against the graph (wikidata_path_replay.py).        *)
(*                                                                         *)
(* A row is <<subject, relation, object>>.  input.hash stands for the      *)
(* digests that order the roots and choose what an equality item compares. *)
(* MAX_HOPS and MAX_PATH_ROOTS are input.hops and input.roots.             *)
(***************************************************************************)
EXTENDS Integers, FiniteSets, SequencesExt

VARIABLE input        \* one of the bounded inputs; input.of names the module it is for

Address(row) == <<row[1], row[2]>>
Selected(i)  == Range(i.relations)
Addresses(i) == {Address(row) : row \in i.triples}
ObjectsAt(i, address) == {row[3] : row \in {t \in i.triples : Address(t) = address}}

(* The addresses of selected relations, by whether they have one object.   *)
Unique(i)    == {row \in i.triples : row[2] \in Selected(i) /\ ObjectsAt(i, Address(row)) = {row[3]}}
Ambiguous(i) == {a \in Addresses(i) : a[2] \in Selected(i) /\ Cardinality(ObjectsAt(i, a)) > 1}
Domain(i, relation) == {row[3] : row \in {u \in Unique(i) : u[2] = relation}}

Earlier(i, a, b) ==
  \/ i.hash[Address(a)] < i.hash[Address(b)]
  \/ i.hash[Address(a)] = i.hash[Address(b)] /\ a[1] < b[1]
  \/ i.hash[Address(a)] = i.hash[Address(b)] /\ a[1] = b[1] /\ a[2] < b[2]
RootLimit(i) == IF Cardinality(Unique(i)) < i.roots THEN Cardinality(Unique(i)) ELSE i.roots
Roots(i) == {u \in Unique(i) : Cardinality({v \in Unique(i) : Earlier(i, v, u)}) < RootLimit(i)}

-----------------------------------------------------------------------------
(* Following the relations from a root.                                    *)

NoRow == << >>
None  == -1
Reasons == {"ambiguous_address", "missing_hop", "repeated_address",
            "no_counterfactual_alternative", "selection_bound"}

(* The next larger object of the relation, or else its smallest.           *)
Alternative(i, row) ==
  LET larger == {o \in Domain(i, row[2]) : o > row[3]}
      lower  == {o \in Domain(i, row[2]) : o < row[3]}
      First(objects) == CHOOSE o \in objects : \A q \in objects : o <= q
  IN  IF larger # {} THEN First(larger) ELSE IF lower # {} THEN First(lower) ELSE None

(* The relation of a hop, cyclically after that of the root.               *)
RelationAt(i, root, hop) ==
  LET index == CHOOSE k \in DOMAIN i.relations : i.relations[k] = root[2]
  IN  i.relations[((index + hop - 2) % Len(i.relations)) + 1]

NextRows(i, walk, relation) ==
  LET source == Last(walk.rows)[3]
  IN  {<<source, relation, o>> : o \in ObjectsAt(i, <<source, relation>>)}

Follow(i, walk, relation) ==
  LET next == NextRows(i, walk, relation) IN
  IF next = {} THEN [walk EXCEPT !.failure = "missing_hop"]
  ELSE IF Cardinality(next) > 1 THEN [walk EXCEPT !.failure = "ambiguous_address"]
  ELSE [rows |-> walk.rows \o SetToSeq(next),
        failure |-> IF \E row \in next, k \in DOMAIN walk.rows : Address(walk.rows[k]) = Address(row)
                      THEN "repeated_address" ELSE "none"]
Hop(i, walk, root, hop) ==
  IF hop = 1 \/ walk.failure # "none" THEN walk ELSE Follow(i, walk, RelationAt(i, root, hop))

(* What a root comes to at each hop: a reason, or a path with the object   *)
(* its last row is changed to.                                             *)
Walk(i, root) ==
  LET walks[hop \in 1..i.hops] ==
        Hop(i, IF hop = 1 THEN [rows |-> <<root>>, failure |-> "none"] ELSE walks[hop - 1], root, hop)
  IN  walks
Outcome(i, walk) ==
  LET other == Alternative(i, Last(walk.rows)) IN
  IF walk.failure # "none" THEN [reason |-> walk.failure, rows |-> walk.rows, other |-> None]
  ELSE IF other = None
    THEN [reason |-> "no_counterfactual_alternative", rows |-> walk.rows, other |-> None]
  ELSE [reason |-> "none", rows |-> walk.rows, other |-> other]

-----------------------------------------------------------------------------
(* The items of a path and their replay.                                   *)

Actions(hops, most) ==
  [k \in 1..most |-> IF k <= hops THEN "read" ELSE IF k = hops + 1 THEN "halt" ELSE "noop"]
Changed(path) == [Last(path.rows) EXCEPT ![3] = path.other]
Item(path, task, variant, comparison, answer, most) ==
  [pair |-> <<path.rows[1], Len(path.rows), task>>, task |-> task, variant |-> variant,
   slot |-> path.rows[1][1], addresses |-> [k \in DOMAIN path.rows |-> Address(path.rows[k])],
   facts |-> IF variant = "original" THEN path.rows ELSE [path.rows EXCEPT ![Len(path.rows)] = Changed(path)],
   changed |-> IF variant = "original" THEN NoRow ELSE Changed(path),
   endpoint |-> IF variant = "original" THEN Last(path.rows)[3] ELSE path.other,
   before |-> Last(path.rows)[3], after |-> path.other, comparison |-> comparison,
   actions |-> Actions(Len(path.rows), most), answer |-> answer]
YesNo(test) == IF test THEN "yes" ELSE "no"

(* An equality item compares with the one end or with the other.           *)
EmitPairs(i, path) ==
  LET end   == Last(path.rows)[3]
      equal == (i.hash[Address(path.rows[1])] + Len(path.rows)) % 2 = 0
      comparison == IF equal THEN end ELSE path.other
      Twin(task, against, first, second) ==
        <<Item(path, task, "original", against, first, i.hops),
          Item(path, task, "counterfactual", against, second, i.hops)>>
  IN  <<Twin("endpoint_traversal", None, end, path.other),
        Twin("endpoint_equality", comparison, YesNo(equal), YesNo(~equal))>>

AnswerOf(task, endpoint, comparison) ==
  IF task = "endpoint_traversal" THEN endpoint ELSE YesNo(endpoint = comparison)
Chained(rows) == \A k \in 2..Len(rows) : rows[k][1] = rows[k - 1][3]

(* Before a path's twins are written.                                      *)
ReplayAccepts(rows, twins) ==
  LET changed == twins[1][2].changed
      other   == [rows EXCEPT ![Len(rows)] = changed]
  IN  /\ \A j, k \in DOMAIN rows : j # k => Address(rows[j]) # Address(rows[k])
      /\ Chained(rows) /\ Chained(other)
      /\ Address(changed) = Address(Last(rows)) /\ changed # Last(rows)
      /\ {twins[k][1].task : k \in DOMAIN twins} = {"endpoint_traversal", "endpoint_equality"}
      /\ \A k \in DOMAIN twins :
           /\ twins[k][1].pair = twins[k][2].pair /\ twins[k][2].changed = changed
           /\ twins[k][1].facts = rows /\ twins[k][2].facts = other
           /\ twins[k][1].comparison = twins[k][2].comparison
           /\ \A n \in {1, 2} :
                /\ twins[k][n].endpoint = (IF n = 1 THEN Last(rows) ELSE changed)[3]
                /\ twins[k][n].before = Last(rows)[3] /\ twins[k][n].after = changed[3]
                /\ twins[k][n].answer = AnswerOf(twins[k][n].task, twins[k][n].endpoint, twins[k][n].comparison)
           /\ twins[k][1].answer # twins[k][2].answer

(* The rows an item's addresses lead to in a graph, changed at one address *)
(* by an overlay.                                                          *)
Materialized(graph, overlay, item) ==
  LET Found(address) == IF overlay # NoRow /\ address = Address(overlay) THEN {overlay}
                        ELSE {row \in graph : Address(row) = address}
      rows[k \in 0..Len(item.addresses)] ==
        IF k = 0 THEN << >>
        ELSE rows[k - 1] \o SetToSeq(Found(<<IF k = 1 THEN item.slot ELSE Last(rows[k - 1])[3],
                                              item.addresses[k][2]>>))
  IN  rows[Len(item.addresses)]
ItemReplays(rows, item) ==
  /\ [k \in DOMAIN rows |-> Address(rows[k])] = item.addresses
  /\ rows = item.facts /\ Last(rows)[3] = item.endpoint
  /\ item.answer = AnswerOf(item.task, item.endpoint, item.comparison)
AuditAccepts(graph, twin) ==
  LET rows  == Materialized(graph, NoRow, twin[1])
      other == Materialized(graph, twin[2].changed, twin[2])
  IN  /\ twin[1].pair = twin[2].pair
      /\ ItemReplays(rows, twin[1]) /\ ItemReplays(other, twin[2])
      /\ Address(twin[2].changed) = Address(Last(rows)) /\ Last(other) = twin[2].changed
      /\ Front(rows) = Front(other) /\ twin[1].answer # twin[2].answer
      /\ twin[1].endpoint # twin[2].endpoint

-----------------------------------------------------------------------------
(* The build and its accounting.                                           *)

Count(outcomes, hop, reason) == Cardinality({root \in DOMAIN outcomes : outcomes[root][hop].reason = reason})
PerHop(i, outcomes, hop) ==
  [candidates |-> Cardinality(Unique(i)), surviving |-> Count(outcomes, hop, "none"),
   exclusions |-> [reason \in Reasons |->
     Count(outcomes, hop, reason)
       + IF reason = "selection_bound" THEN Cardinality(Unique(i)) - RootLimit(i) ELSE 0]]
SumOf(f) == FoldFunction(LAMBDA a, b : a + b, 0, f)
AccountingHolds(accounting) == accounting.candidates = accounting.surviving + SumOf(accounting.exclusions)
AddressAccounting(i) ==
  [candidates |-> Cardinality(Addresses(i)), surviving |-> Cardinality(Unique(i)),
   exclusions |-> [ambiguous_address   |-> Cardinality(Ambiguous(i)),
                   unselected_relation |-> Cardinality({a \in Addresses(i) : a[2] \notin Selected(i)})]]

(* The ledger's address rows are counted from the relations that occur.    *)
LedgerOfAddresses(i) ==
  Cardinality({a \in Addresses(i) : ~\E row \in i.triples : row[2] = a[2] /\ row[2] \in Selected(i)})
    + Cardinality(Ambiguous(i))

Entities(rows) == {row[1] : row \in rows} \cup {row[3] : row \in rows}
Manifest(i, outcomes, graph) ==
  [hops |-> [hop \in 1..i.hops |-> PerHop(i, outcomes, hop)], addresses |-> AddressAccounting(i),
   entities |-> <<Cardinality(Entities(i.triples)), Cardinality(Entities(graph))>>,
   relations |-> <<Cardinality(Selected(i)), Cardinality({row[2] : row \in graph})>>]
ManifestHolds(m) ==
  /\ AccountingHolds(m.addresses) /\ \A hop \in DOMAIN m.hops : AccountingHolds(m.hops[hop])
  /\ m.entities[2] <= m.entities[1] /\ m.relations[2] <= m.relations[1]

Along(i, walks) == [hop \in 1..i.hops |-> Outcome(i, walks[hop])]
Outcomes(i) == [root \in Roots(i) |-> Along(i, Walk(i, root))]
Paths(outcomes) ==
  {o \in UNION {Range(outcomes[root]) : root \in DOMAIN outcomes} : o.reason = "none"}
Published(paths) == UNION {Range(path.rows) : path \in paths}

(* Why a build gives up, or what it publishes.                             *)
Build(i, outcomes, paths) ==
  IF ~\A path \in paths : ReplayAccepts(path.rows, EmitPairs(i, path)) THEN [ok |-> FALSE]
  ELSE IF LedgerOfAddresses(i) # SumOf(AddressAccounting(i).exclusions) THEN [ok |-> FALSE]
  ELSE IF ~\A path \in paths : \A twin \in Range(EmitPairs(i, path)) : AuditAccepts(Published(paths), twin)
    THEN [ok |-> FALSE]
  ELSE [ok |-> ManifestHolds(Manifest(i, outcomes, Published(paths))), graph |-> Published(paths),
        pairs |-> {<<path, twin>> : path \in paths, twin \in {1, 2}}]

-----------------------------------------------------------------------------
(* Properties                                                              *)

(* A path of the split: rows that follow each other, each the only one at  *)
(* its address, none twice, by the relations in their order, and the last  *)
(* with another object of its relation.                                    *)
IsPath(i, rows) ==
  /\ rows[1] \in Roots(i) /\ Chained(rows)
  /\ \A k \in DOMAIN rows : /\ rows[k] \in Unique(i) /\ rows[k][2] = RelationAt(i, rows[1], k)
                            /\ \A j \in 1..(k - 1) : rows[j] # rows[k]
  /\ Domain(i, Last(rows)[2]) \ {Last(rows)[3]} # {}
SplitPaths(i) == {p \in UNION {[1..n -> Unique(i)] : n \in 1..i.hops} : IsPath(i, p)}

PathsAccounted(i, outcomes, paths, build) ==
  /\ build.ok /\ {path.rows : path \in paths} = SplitPaths(i)
  /\ Cardinality(build.pairs) = 2 * SumOf([hop \in 1..i.hops |-> PerHop(i, outcomes, hop).surviving])
  /\ \A row \in build.graph : \E path \in paths : row \in Range(path.rows)

(* Whatever the rows of a split, the build never gives up on its own       *)
(* replays, ledger or manifest: every path there is from its roots is      *)
(* published, with the rows it needs and two pairs, every item of which    *)
(* replays on the graph that is published, with its changed row and        *)
(* without, and gives another answer; and every candidate is a survivor or *)
(* counted under one reason (_write_paths, replay_and_validate_path_twins, *)
(* audit_materialized_path_artifacts, "candidate accounting must equal").  *)
PathsAreExact ==
  input.of = "paths" =>
    LET outcomes == Outcomes(input)
        paths    == Paths(outcomes)
    IN  PathsAccounted(input, outcomes, paths, Build(input, outcomes, paths))
=============================================================================
