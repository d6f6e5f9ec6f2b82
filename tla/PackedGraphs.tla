----------------------------- MODULE PackedGraphs -----------------------------
(***************************************************************************)
(* organizer/packed_graph_store.py beside organizer/graph_store.py: a      *)
(* graph as three files, an open-addressed index over sorted rows whose    *)
(* texts lie in one blob, that must answer as the graph itself does.       *)
(*                                                                         *)
(* An address is a number, in the order of addresses; its hash is given by *)
(* the input.  A row has an address, a provenance and, if its target is a  *)
(* literal, a text; texts are sequences.  File digests stand for the files *)
(* they are of, so only the index is ever other than what was built.       *)
(***************************************************************************)
EXTENDS Integers, Sequences, SequencesExt, FiniteSets, FiniteSetsExt

VARIABLE input        \* one of the bounded inputs; input.of names the module it is for

Empty   == 0                                  \* the row of an empty slot
NoRow   == [at |-> 0]

(* _capacity_for_rows: the least power of two loaded to at most 0.70.      *)
CapacityFor(n) ==
  FoldLeft(LAMBDA c, k : IF 10 * n > 7 * c THEN 2 * c ELSE c, 1, [k \in 1..(n + 1) |-> k])

(* _materialize_rows.                                                      *)
Sorted(rows) == SetToSortSeq(rows, LAMBDA r, s : r.at < s.at)

(* _encode_rows: a header says where in the blob a row's texts begin and   *)
(* how long they are.                                                      *)
Texts(row) == (IF row.literal THEN <<row.target>> ELSE << >>) \o <<row.qualifiers, row.provenance>>
Blob(rows) == FlattenSeq(FlattenSeq([k \in DOMAIN rows |-> Texts(rows[k])]))

BlobEnd(rows, k) == Len(Blob(SubSeq(rows, 1, k)))

Header(rows, k) ==
  LET begin == BlobEnd(rows, k - 1)
      row   == rows[k]
      after == begin + (IF row.literal THEN Len(row.target) ELSE 0)
  IN  [at |-> row.at, literal |-> row.literal,
       target |-> IF row.literal THEN <<begin, Len(row.target)>> ELSE <<row.target[1], 0>>,
       qualifiers |-> <<after, Len(row.qualifiers)>>,
       provenance |-> <<after + Len(row.qualifiers), Len(row.provenance)>>]

Probe(hash, capacity, k) == (hash + k - 1) % capacity

FirstFree(index, hash, capacity) ==
  Probe(hash, capacity,
        CHOOSE k \in 1..capacity :
          /\ index[Probe(hash, capacity, k)].row = Empty
          /\ \A j \in 1..(k - 1) : index[Probe(hash, capacity, j)].row # Empty)

EncodeIndex(rows, Hash, capacity) ==
  FoldLeftDomain(
    LAMBDA index, k :
      [index EXCEPT ![FirstFree(index, Hash[rows[k].at], capacity)] =
         [hash |-> Hash[rows[k].at], row |-> k]],
    [slot \in 0..(capacity - 1) |-> [hash |-> 0, row |-> Empty]], rows)

Build(rows, Hash) ==
  LET ordered  == Sorted(rows)
      capacity == CapacityFor(Cardinality(rows))
  IN  [capacity |-> capacity, count |-> Len(ordered), blob |-> Blob(ordered),
       headers |-> [k \in DOMAIN ordered |-> Header(ordered, k)],
       index |-> EncodeIndex(ordered, Hash, capacity)]

-----------------------------------------------------------------------------
(* _decode_row.                                                            *)
Text(store, span) == SubSeq(store.blob, span[1] + 1, span[1] + span[2])

DecodeRow(store, k) ==
  LET header == store.headers[k]
  IN  [at |-> header.at, literal |-> header.literal,
       target |-> IF header.literal THEN Text(store, header.target) ELSE <<header.target[1]>>,
       qualifiers |-> Text(store, header.qualifiers),
       provenance |-> Text(store, header.provenance)]

(* _validate_content.  Of the rows: the texts follow each other, and fill  *)
(* the blob.  A row's spans, and the empty one where an entity has none.   *)
SpansOf(header) ==
  (IF header.literal THEN <<header.target>> ELSE << >>) \o <<header.qualifiers, header.provenance>>

ContentIsValid(store) ==
  LET spans == FlattenSeq([k \in DOMAIN store.headers |-> SpansOf(store.headers[k])])
      end   == FoldLeft(LAMBDA at, span : IF at = span[1] THEN at + span[2] ELSE -1, 0, spans)
  IN  /\ end = Len(store.blob)
      /\ \A k \in 1..(store.count - 1) : store.headers[k].at < store.headers[k + 1].at

(* Of the index: every row once, under its hash, and no hole before it.    *)
Occupied(store) == {slot \in DOMAIN store.index : store.index[slot].row # Empty}

(* A slot in use is trusted to be on its row's way.                        *)
AnyChain(store, slot) == TRUE

ChainIsWhole(store, slot) ==
  \E k \in 1..store.capacity :
    /\ Probe(store.index[slot].hash, store.capacity, k) = slot
    /\ \A j \in 1..(k - 1) :
         store.index[Probe(store.index[slot].hash, store.capacity, j)].row # Empty

IndexIsValid(store, Hash) ==
  /\ \A slot \in DOMAIN store.index \ Occupied(store) : store.index[slot].hash = 0
  /\ \A slot \in Occupied(store) :
       /\ store.index[slot].row <= store.count
       /\ store.index[slot].hash = Hash[DecodeRow(store, store.index[slot].row).at]
       /\ ChainIsWhole(store, slot)
  /\ Cardinality(Occupied(store)) = store.count
  /\ {store.index[slot].row : slot \in Occupied(store)} = 1..store.count

Loads(store, Hash) ==
  store.capacity = CapacityFor(store.count) /\ ContentIsValid(store) /\ IndexIsValid(store, Hash)

(* lookup: up to the first empty slot, all the way round at most.          *)
LookupPacked(store, Hash, address) ==
  LET Slot(k) == Probe(Hash[address], store.capacity, k)
      Found(k) ==
        /\ store.index[Slot(k)].row # Empty /\ store.index[Slot(k)].hash = Hash[address]
        /\ DecodeRow(store, store.index[Slot(k)].row).at = address
      reached == {k \in 1..store.capacity :
                    \A j \in 1..(k - 1) : store.index[Slot(j)].row # Empty}
  IN  IF \E k \in reached : Found(k)
      THEN DecodeRow(store, store.index[Slot(CHOOSE k \in reached : Found(k))].row)
      ELSE NoRow

(* rows_for_provenance: by the runs of rows that share a provenance, found *)
(* once and kept.                                                          *)
RunStarts(store) ==
  {k \in 1..store.count :
     k = 1 \/ DecodeRow(store, k).provenance # DecodeRow(store, k - 1).provenance}
RunEnd(store, k) ==
  CHOOSE e \in k..store.count :
    /\ \A j \in (k + 1)..e : j \notin RunStarts(store)
    /\ e = store.count \/ e + 1 \in RunStarts(store)
RowsForProvenance(store, provenance) ==
  FlattenSeq(
    [k \in 1..store.count |->
       IF k \in RunStarts(store) /\ DecodeRow(store, k).provenance = provenance
       THEN [j \in 1..(RunEnd(store, k) - k + 1) |-> DecodeRow(store, k + j - 1)]
       ELSE << >>])

(* max_entity_id; a literal's header holds an offset where an entity's     *)
(* holds its target.                                                       *)
MaxEntity(store) ==
  LET entities == UNION {{store.headers[k].at}
                           \cup (IF store.headers[k].literal THEN {}
                                 ELSE {store.headers[k].target[1]}) :
                           k \in 1..store.count}
  IN  Max(entities)

-----------------------------------------------------------------------------
(* AtomicGraphStore: the graph itself.                                     *)
LookupRow(rows, address) ==
  IF \E r \in rows : r.at = address THEN CHOOSE r \in rows : r.at = address ELSE NoRow

(* What is built loads; and whatever index loads over those rows answers   *)
(* every lookup, of a row or of none, and gives every provenance its rows  *)
(* in order, as the graph does: no collision, wrapped probe or hole hides  *)
(* a row (build, _validate_content, lookup).                               *)
StoreAnswersAsGraph ==
  input.of = "store" =>
    LET built == Build(input.rows, input.hash)
        store == [built EXCEPT !.index = input.index]
    IN  /\ Loads(built, input.hash)
        /\ Loads(store, input.hash) =>
             /\ \A address \in DOMAIN input.hash :
                  LookupPacked(store, input.hash, address) = LookupRow(input.rows, address)
             /\ \A p \in {r.provenance : r \in input.rows} :
                  RowsForProvenance(store, p) =
                    Sorted({r \in input.rows : r.provenance = p})
             /\ input.rows # {} =>
                  MaxEntity(store) = Max({r.at : r \in input.rows}
                                           \cup {r.target[1] : r \in {s \in input.rows : ~ s.literal}})
=============================================================================
