--------------------------- MODULE WikidataHashmap ---------------------------
(***************************************************************************)
(* The hashmap of Wikidata5M (corpusgen/wikidata5m_hashmap.py over         *)
(* relation_schema.py): the relations are selected from the training       *)
(* triples, each gives its quota of addresses, the ones of smallest hash   *)
(* that are labelled throughout, and the package that is rendered of them  *)
(* is validated by itself and against a rebuild.                           *)
(*                                                                         *)
(* A triple is <<subject, relation, object>>, entities and relations are   *)
(* numbers, an alias row is <<entity, label>>, and input.hash stands for   *)
(* SHA-256 of an address.  The frozen numbers are in the input: minimum    *)
(* support, functionality, relations, the ranks of the larger quota, the   *)
(* smaller quota, rows in a batch.                                         *)
(***************************************************************************)
EXTENDS Integers, FiniteSets, SequencesExt

VARIABLE input        \* one of the bounded inputs; input.of names the module it is for

(* s sorted by before, a strict total order on it.                         *)
InOrder(s, before(_, _)) ==
  [k \in 1..Cardinality(s) |-> CHOOSE x \in s : Cardinality({y \in s : before(y, x)}) = k - 1]
Plus(a, b) == a + b
Below(a, b) == a < b
Total(f) == FoldFunction(Plus, 0, f)

-----------------------------------------------------------------------------
(* The selection of the relations.                                         *)

(* An alias counts for a relation only when it is no other's.              *)
Unambiguous(aliases) ==
  [r \in DOMAIN aliases |->
     SelectSeq(aliases[r], LAMBDA a : \A q \in DOMAIN aliases \ {r} : a \notin Range(aliases[q]))]

Stats(i) ==
  LET usable == Unambiguous(i.aliases)
      Of(r)  == SelectSeq(i.triples, LAMBDA t : t[2] = r)
  IN  {[relation |-> r, support |-> Len(Of(r)), aliases |-> usable[r],
        subjects |-> Cardinality({t[1] : t \in Range(Of(r))}),
        objects  |-> Cardinality({t[3] : t \in Range(Of(r))})] : r \in {t[2] : t \in Range(i.triples)}}

MeetsFunctionality(s, i) == s.subjects * i.functionality[2] >= s.support * i.functionality[1]
Survives(s, i) == s.aliases # << >> /\ s.support >= i.support /\ MeetsFunctionality(s, i)

Outranks(s, t) ==
  \/ s.support > t.support
  \/ s.support = t.support /\ s.subjects > t.subjects
  \/ s.support = t.support /\ s.subjects = t.subjects /\ s.relation < t.relation

RelationQuota(rank, i) == IF rank <= i.wide THEN i.quota + 1 ELSE i.quota
KeyCount(i) == Total([k \in 1..i.count |-> RelationQuota(k, i)])

FilterCounts(stats, chosen, i) ==
  LET Count(P(_)) == Cardinality({s \in stats : P(s)})
  IN  [missing   |-> Count(LAMBDA s : s.aliases = << >>),
       support   |-> Count(LAMBDA s : s.aliases # << >> /\ s.support < i.support),
       functions |-> Count(LAMBDA s : /\ s.aliases # << >> /\ s.support >= i.support
                                      /\ ~MeetsFunctionality(s, i)),
       survived  |-> Count(LAMBDA s : Survives(s, i) /\ s.relation \notin chosen),
       selected  |-> Cardinality(chosen)]

(* The relations in rank order; none when fewer survive than are wanted.   *)
Select(i) ==
  LET stats  == Stats(i)
      ranked == InOrder({s \in stats : Survives(s, i)}, Outranks)
      first  == SubSeq(ranked, 1, i.count)
  IN  IF Len(ranked) < i.count THEN [ok |-> FALSE]
      ELSE [ok |-> TRUE,
            relations |-> [k \in 1..i.count |->
              [rank |-> k, relation |-> first[k].relation, label |-> i.aliases[first[k].relation][1],
               support |-> first[k].support, subjects |-> first[k].subjects,
               objects |-> first[k].objects, quota |-> RelationQuota(k, i)]],
            filters |-> FilterCounts(stats, {s.relation : s \in Range(first)}, i)]

-----------------------------------------------------------------------------
(* The rows of the selected relations and the labels they need.            *)

Edges(triples, chosen) == {t \in Range(triples) : t[2] \in chosen}
Needed(edges) == {t[1] : t \in edges} \cup {t[3] : t \in edges}

(* Labels come a batch at a time; a second row of an entity is refused,    *)
(* whether it is needed or not.                                            *)
TakeBatch(sofar, batch, needed) ==
  LET ids == {row[1] : row \in Range(batch)} IN
  IF ~sofar.ok \/ Cardinality(ids) < Len(batch) \/ ids \cap sofar.seen # {}
    THEN [sofar EXCEPT !.ok = FALSE]
  ELSE [ok |-> TRUE, seen |-> sofar.seen \cup ids,
        labels |-> sofar.labels \cup {row \in Range(batch) : row[1] \in needed}]
Batches(rows, size) ==
  [k \in 1..((Len(rows) + size - 1) \div size) |->
     SubSeq(rows, (k - 1) * size + 1, IF k * size < Len(rows) THEN k * size ELSE Len(rows))]
Labels(rows, needed, size) ==
  FoldLeft(LAMBDA sofar, batch : TakeBatch(sofar, batch, needed),
           [ok |-> TRUE, seen |-> {}, labels |-> {}], Batches(rows, size))
LabelOf(labels, entity) == (CHOOSE row \in labels : row[1] = entity)[2]

Objects(edges, r, s) == {t[3] : t \in {e \in edges : e[1] = s /\ e[2] = r}}
Keys(edges) == {<<t[2], t[1]>> : t \in edges}
Labelled(labels) == {row[1] : row \in labels}
Eligible(edges, labels, r) ==
  {k[2] : k \in {key \in Keys(edges) :
     /\ key[1] = r /\ key[2] \in Labelled(labels)
     /\ Objects(edges, r, key[2]) \subseteq Labelled(labels)}}

(* The address that sorts first: by hash, subject, relation.               *)
Sooner(a, b, hash) ==
  \/ hash[a] < hash[b]
  \/ hash[a] = hash[b] /\ a[1] < b[1]
  \/ hash[a] = hash[b] /\ a[1] = b[1] /\ a[2] < b[2]
Worst(heap, hash) == CHOOSE a \in heap : \A b \in heap \ {a} : Sooner(b, a, hash)

(* The first of the quota that come by are the ones that stay.             *)
RetainEarliest(heap, address, quota, hash) ==
  IF Cardinality(heap) < quota THEN heap \cup {address} ELSE heap
(* A heap with the worst on top keeps the best of those that came by.      *)
Retain(heap, address, quota, hash) ==
  IF Cardinality(heap) < quota THEN heap \cup {address}
  ELSE IF Sooner(address, Worst(heap, hash), hash)
    THEN (heap \ {Worst(heap, hash)}) \cup {address}
  ELSE heap
Scanned(eligible, r, quota, hash) ==
  FoldLeft(LAMBDA heap, s : Retain(heap, <<s, r>>, quota, hash), {}, InOrder(eligible, Below))

Emitted(addresses, edges, labels, relations, hash) ==
  LET order == InOrder(addresses, LAMBDA a, b : Sooner(a, b, hash))
      Name(r) == (CHOOSE item \in Range(relations) : item.relation = r).label
      Values(s, r) == LET sorted == InOrder(Objects(edges, r, s), Below)
                      IN  [k \in DOMAIN sorted |-> <<sorted[k], LabelOf(labels, sorted[k])>>]
  IN  [k \in DOMAIN order |->
         [subject  |-> <<order[k][1], LabelOf(labels, order[k][1])>>,
          relation |-> <<order[k][2], Name(order[k][2])>>,
          values   |-> Values(order[k][1], order[k][2])]]

(* What the source has and what the records have of it, counted apart.     *)
Counted(i, chosen, edges, labels, eligible, records) ==
  LET selected == Len(SelectSeq(i.triples, LAMBDA t : t[2] \in chosen))
      unnamed  == {k \in Keys(edges) : k[2] \notin Labelled(labels)}
      dangling == {k \in Keys(edges) \ unnamed : ~(Objects(edges, k[1], k[2]) \subseteq Labelled(labels))}
      keys     == Total([r \in chosen |-> Cardinality(eligible[r])])
  IN  [source |-> Len(i.triples), selected |-> selected, unselected |-> Len(i.triples) - selected,
       distinct |-> Cardinality(edges), duplicate |-> selected - Cardinality(edges),
       grouped |-> Cardinality(Keys(edges)), noSubject |-> Cardinality(unnamed),
       noObject |-> Cardinality(dangling), eligibleKeys |-> keys,
       eligibleEdges |-> Cardinality({e \in edges : e[1] \in eligible[e[2]]}),
       unsampled |-> keys - Len(records), emittedKeys |-> Len(records),
       emittedEdges |-> Total([k \in DOMAIN records |-> Len(records[k].values)])]

EmittedOf(records, r) == {k \in DOMAIN records : records[k].relation[1] = r}
EdgesOf(records, r) == Total([k \in EmittedOf(records, r) |-> Len(records[k].values)])

Reconciled(c, records, relations, i) ==
  /\ c.source = c.selected + c.unselected
  /\ c.duplicate >= 0 /\ c.selected = c.distinct + c.duplicate
  /\ c.grouped = c.noSubject + c.noObject + c.eligibleKeys
  /\ c.unsampled >= 0 /\ c.eligibleKeys = c.unsampled + c.emittedKeys
  /\ c.emittedKeys = KeyCount(i)
  /\ c.eligibleEdges >= c.eligibleKeys /\ c.emittedEdges >= c.emittedKeys
  /\ c.eligibleEdges - c.emittedEdges >= c.unsampled
  /\ \A item \in Range(relations) : Cardinality(EmittedOf(records, item.relation)) = item.quota

Divisor(a, b) == CHOOSE d \in 1..a : /\ a % d = 0 /\ b % d = 0
                                     /\ \A e \in (d + 1)..a : a % e # 0 \/ b % e # 0
Summaries(relations, edges, eligible, records) ==
  [k \in DOMAIN relations |->
     LET item == relations[k]
         d    == Divisor(item.subjects, item.support)
     IN  [item |-> item, functionality |-> <<item.subjects \div d, item.support \div d>>,
          eligibleKeys |-> Cardinality(eligible[item.relation]),
          eligibleEdges |-> Cardinality({e \in edges : e[2] = item.relation /\ e[1] \in eligible[e[2]]}),
          emittedKeys |-> Cardinality(EmittedOf(records, item.relation)),
          emittedEdges |-> EdgesOf(records, item.relation)]]

Refused(why) == [ok |-> FALSE, why |-> why]
FromEligible(i, selection, edges, labels, eligible) ==
  LET chosen  == DOMAIN eligible
      kept    == UNION {Scanned(eligible[item.relation], item.relation, item.quota, i.hash) :
                          item \in Range(selection.relations)}
      records == Emitted(kept, edges, labels, selection.relations, i.hash)
      counts  == Counted(i, chosen, edges, labels, eligible, records)
  IN  IF \E item \in Range(selection.relations) : Cardinality(eligible[item.relation]) < item.quota
        THEN Refused("eligible")
      ELSE IF ~Reconciled(counts, records, selection.relations, i) THEN Refused("reconciled")
      ELSE [ok |-> TRUE, records |-> records, counts |-> counts, filters |-> selection.filters,
            summaries |-> Summaries(selection.relations, edges, eligible, records)]

BuildDataset(i) ==
  LET selection == Select(i)
      chosen    == {item.relation : item \in Range(selection.relations)}
      edges     == Edges(i.triples, chosen)
      taken     == Labels(i.entities, Needed(edges), i.batch)
  IN  IF ~selection.ok THEN Refused("relations")
      ELSE IF ~taken.ok THEN Refused("duplicate label")
      ELSE FromEligible(i, selection, edges, taken.labels,
                        [r \in chosen |-> Eligible(edges, taken.labels, r)])

-----------------------------------------------------------------------------
(* The package and its validation.  A digest is what it is a digest of.    *)

DisplayKey(record) == <<record.subject, record.relation>>
Mapping(rows) == [key \in {row.key : row \in Range(rows)} |->
                    (CHOOSE row \in Range(rows) : row.key = key).values]
HashmapRows(records) ==
  [k \in DOMAIN records |-> [key |-> DisplayKey(records[k]), values |-> records[k].values]]
Summed(members) == [members |-> members, sums |-> members]
Render(dataset, i) ==
  LET rows == HashmapRows(dataset.records) IN
  Summed([records |-> [k \in DOMAIN rows |-> [key |-> rows[k].key, record |-> dataset.records[k]]],
          rows |-> rows, hashmap |-> Mapping(rows), summaries |-> dataset.summaries,
          counts |-> dataset.counts, filters |-> dataset.filters,
          output |-> [keys |-> KeyCount(i), edges |-> dataset.counts.emittedEdges,
                      relations |-> i.count]])

ValuesAreValid(values) ==
  values # << >> /\ \A k \in 2..Len(values) : values[k - 1][1] < values[k][1]

ManifestIsValid(m, i) ==
  /\ m.filters.selected = i.count
  /\ \A name \in DOMAIN m.counts : m.counts[name] >= 0
  /\ m.counts.source = m.counts.selected + m.counts.unselected
  /\ m.counts.selected = m.counts.distinct + m.counts.duplicate
  /\ m.counts.grouped = m.counts.noSubject + m.counts.noObject + m.counts.eligibleKeys
  /\ m.counts.eligibleKeys = m.counts.unsampled + m.counts.emittedKeys
  /\ m.output.keys = KeyCount(i) /\ m.output.relations = i.count
  /\ m.counts.emittedKeys = m.output.keys /\ m.counts.emittedEdges = m.output.edges

SummaryIsValid(s, rank, i) ==
  /\ s.item.rank = rank /\ s.item.quota = RelationQuota(rank, i)
  /\ s.item.support >= i.support
  /\ s.item.subjects <= s.item.support /\ s.item.objects <= s.item.support
  /\ MeetsFunctionality(s.item, i)
  /\ s.functionality[1] * s.item.support = s.functionality[2] * s.item.subjects
  /\ Divisor(s.functionality[1], s.functionality[2]) = 1
  /\ s.emittedKeys = s.item.quota /\ s.eligibleKeys >= s.emittedKeys
  /\ s.eligibleEdges >= s.eligibleKeys /\ s.emittedEdges >= s.emittedKeys
  /\ s.eligibleEdges >= s.emittedEdges
SummariesAreValid(m, i) ==
  /\ Len(m.summaries) = i.count
  /\ \A k \in 1..i.count : SummaryIsValid(m.summaries[k], k, i)
  /\ \A j, k \in 1..i.count :
       j # k => m.summaries[j].item.relation # m.summaries[k].item.relation

RecordsAreValid(m, i) ==
  LET records == [k \in DOMAIN m.records |-> m.records[k].record] IN
  /\ Len(records) = KeyCount(i)
  /\ \A k \in DOMAIN records :
       /\ m.records[k].key = DisplayKey(records[k]) /\ ValuesAreValid(records[k].values)
       /\ \E s \in Range(m.summaries) : records[k].relation = <<s.item.relation, s.item.label>>
       /\ \A j \in 1..(k - 1) : <<records[j].subject[1], records[j].relation[1]>>
                                  # <<records[k].subject[1], records[k].relation[1]>>
  /\ \A s \in Range(m.summaries) :
       /\ Cardinality(EmittedOf(records, s.item.relation)) = s.emittedKeys
       /\ EdgesOf(records, s.item.relation) = s.emittedEdges

MappingsAreValid(m, i) ==
  /\ Cardinality(DOMAIN m.hashmap) = KeyCount(i)
  /\ \A key \in DOMAIN m.hashmap : ValuesAreValid(m.hashmap[key])
  /\ \A k \in DOMAIN m.rows : /\ ValuesAreValid(m.rows[k].values)
                              /\ \A j \in 1..(k - 1) : m.rows[j].key # m.rows[k].key
  /\ [k \in DOMAIN m.rows |-> m.rows[k].key] = [k \in DOMAIN m.records |-> m.records[k].key]
  /\ m.hashmap = Mapping(m.rows)
  /\ m.hashmap = Mapping([k \in DOMAIN m.records |->
                            [key |-> m.records[k].key, values |-> m.records[k].record.values]])

EdgeTotalsAgree(m) ==
  /\ m.output.edges = Total([k \in DOMAIN m.records |-> Len(m.records[k].record.values)])
  /\ m.output.edges = Total([k \in DOMAIN m.summaries |-> m.summaries[k].emittedEdges])

StructureIsValid(package, i) ==
  LET m == package.members IN
  /\ package.sums = m
  /\ ManifestIsValid(m, i) /\ SummariesAreValid(m, i) /\ RecordsAreValid(m, i) /\ MappingsAreValid(m, i)
  /\ EdgeTotalsAgree(m)

AgreesWith(package, dataset) ==
  LET m == package.members IN
  /\ [k \in DOMAIN m.records |-> m.records[k].record] = dataset.records
  /\ m.summaries = dataset.summaries /\ m.counts = dataset.counts /\ m.filters = dataset.filters

-----------------------------------------------------------------------------
(* Properties                                                              *)

(* The subjects of r that are labelled with all their objects, read off    *)
(* the sources.                                                            *)
Answerable(i, r) ==
  {t[1] : t \in {u \in Range(i.triples) :
     /\ u[2] = r
     /\ \A v \in Range(i.triples) :
          v[1] = u[1] /\ v[2] = r => \A e \in {v[1], v[3]} : \E row \in Range(i.entities) : row[1] = e}}

RecordsAreExact(records, relations, i) ==
  /\ \A j, k \in DOMAIN records :
       j < k => Sooner(<<records[j].subject[1], records[j].relation[1]>>,
                       <<records[k].subject[1], records[k].relation[1]>>, i.hash)
  /\ \A item \in Range(relations) :
       LET kept == {records[k].subject[1] : k \in EmittedOf(records, item.relation)} IN
       /\ kept \subseteq Answerable(i, item.relation) /\ Cardinality(kept) = item.quota
       /\ \A s \in Answerable(i, item.relation) \ kept, k \in kept :
            Sooner(<<k, item.relation>>, <<s, item.relation>>, i.hash)
  /\ \A k \in DOMAIN records :
       /\ ValuesAreValid(records[k].values)
       /\ Range(records[k].values) = {row \in Range(i.entities) :
            \E t \in Range(i.triples) :
              <<t[1], t[2], t[3]>> = <<records[k].subject[1], records[k].relation[1], row[1]>>}

(* The package with one member changed and its checksum made anew.         *)
Off(counts) == {[counts EXCEPT ![name] = counts[name] + d] : name \in DOMAIN counts, d \in {-1, 1}}
Reordered(rows) == {[rows EXCEPT ![1] = rows[Len(rows)], ![Len(rows)] = rows[1]], Tail(rows)}
Less(values) == {SubSeq(values, 1, Len(values) - 1), [values EXCEPT ![1] = <<@[1], "other">>]}
Changed(m) ==
  {[m EXCEPT !.counts = c] : c \in Off(m.counts)} \cup {[m EXCEPT !.filters = c] : c \in Off(m.filters)}
    \cup {[m EXCEPT !.output = c] : c \in Off(m.output)}
    \cup {[m EXCEPT !.records = r] : r \in Reordered(m.records)}
    \cup {[m EXCEPT !.rows = r] : r \in Reordered(m.rows)}
    \cup {[m EXCEPT !.records[1].record.values = v] : v \in Less(m.records[1].record.values)}
    \cup {[m EXCEPT !.rows[1].values = v] : v \in Less(m.rows[1].values)}
    \cup {[m EXCEPT !.hashmap[m.rows[1].key] = v] : v \in Less(m.rows[1].values)}
    \cup {[m EXCEPT !.records[1].record.subject = <<@[1], "other">>]}
    \cup {[m EXCEPT !.summaries[1].item.label = "other"], [m EXCEPT !.summaries[1].eligibleKeys = @ + 1]}

PackageIsBound(package, dataset, i) ==
  /\ StructureIsValid(package, i) /\ AgreesWith(package, dataset)
  /\ \A m \in Changed(package.members) :
       ~(StructureIsValid(Summed(m), i) /\ AgreesWith(Summed(m), dataset))

DatasetIsExact(dataset, i) ==
  IF dataset.ok
    THEN /\ RecordsAreExact(dataset.records, [k \in 1..i.count |-> dataset.summaries[k].item], i)
         /\ Total(dataset.filters) = Cardinality({t[2] : t \in Range(i.triples)})
         /\ PackageIsBound(Render(dataset, i), dataset, i)
    ELSE CASE dataset.why = "duplicate label" ->
                \E j, k \in DOMAIN i.entities : j # k /\ i.entities[j][1] = i.entities[k][1]
           [] dataset.why = "eligible" ->
                \E item \in Range(Select(i).relations) :
                  Cardinality(Answerable(i, item.relation)) < item.quota
           [] OTHER -> dataset.why = "relations"

(* However the triples and the labels are ordered and repeated, the        *)
(* records are each selected relation's quota of labelled addresses of     *)
(* smallest hash, each with every object it has, in hash order; every      *)
(* relation of the source is accounted for; the build refuses sources that *)
(* do not suffice or name an entity twice and never its own counts; and    *)
(* the one package that is valid against the rebuilt dataset is the one    *)
(* rendered from it: no single member can be another (build_hashmap_dataset, *)
(* _validate_archive_structure, "source-edge disagreement with rebuilt").  *)
HashmapIsExact == input.of = "hashmap" => DatasetIsExact(BuildDataset(input), input)
=============================================================================
