-------------------------- MODULE RelationalControls --------------------------
(***************************************************************************)
(* evals/relational_controls.py: the causal controls, each an item and a   *)
(* graph view made from one item and store; the row an evaluation records  *)
(* of a decoded view (run_relational_evals.py) and the contract that row   *)
(* must meet (relational_contracts.py, EvalRow).                           *)
(*                                                                         *)
(* A graph row has an address, a target (0 for a literal) and a value: its *)
(* compose qualifier, or a literal's text.  Choices the code draws from a  *)
(* seed are all taken.  Prompts and digests are left out.                  *)
(***************************************************************************)
EXTENDS RelationalDecoding

ControlIds ==
  {"correct", "shuffled_returns", "relevant_edge", "irrelevant_edge",
   "gold_path", "gold_returns", "no_query", "explicit_miss",
   "handle_swap", "entity_rename", "graph_isomorphism"}

Reads(actions) == SelectSeq(actions, LAMBDA a : a.read)

(* _oracle_trace: the rows along the item's gold actions, or nothing when  *)
(* a slot is empty or a row is missing.                                    *)
TraceStart(item) == [ok |-> TRUE, slots |-> item.slots, rows |-> << >>]

TraceStep(store, t, action) ==
  LET row == IF t.ok /\ t.slots[action.slot] # Nowhere
             THEN Lookup(store, <<t.slots[action.slot], action.edge>>) ELSE Miss
  IN  IF ~ action.read THEN t
      ELSE [ok |-> row # Miss, rows |-> Append(t.rows, row),
            slots |-> IF row.target = Nowhere THEN t.slots
                      ELSE [t.slots EXCEPT ![action.slot] = row.target]]

OracleTrace(item, store) ==
  LET trace[k \in 0..Len(item.gold)] ==
        IF k = 0 THEN TraceStart(item) ELSE TraceStep(store, trace[k - 1], item.gold[k])
  IN  trace[Len(item.gold)]

Path(trace) == {r.at : r \in ToSet(trace.rows)}

(* oracle_answer: the sum of the compose qualifiers, the slot of the       *)
(* earlier of two literals, or their equality; a path that misses has no   *)
(* answer.                                                                 *)
Residues == 4
ResidueName(n) ==
  CASE n % Residues = 0 -> "r0" [] n % Residues = 1 -> "r1" [] n % Residues = 2 -> "r2" [] OTHER -> "r3"

OracleAnswer(item, store) ==
  LET t == OracleTrace(item, store)
  IN  CASE ~ t.ok -> "none"
        [] t.ok /\ item.task = "composition" ->
             ResidueName(SumFunction([k \in DOMAIN t.rows |-> t.rows[k].value]))
        [] t.ok /\ item.task = "ordering" ->
             IF t.rows[1].value < t.rows[2].value THEN "slot_0" ELSE "slot_1"
        [] t.ok /\ item.task = "equality" ->
             IF t.rows[1].value = t.rows[2].value THEN "yes" ELSE "no"

(* _control_rows: the rows of the item's world.                            *)
ControlRows(item, store) == {r \in store : r.world = item.world}

IsEntity(row) == row.target # Nowhere
Payload(row)  == <<row.target, row.value>>

(* _PatchStore: one row replaced, or one deleted.                          *)
Patch(store, row) == {r \in store : r.at # row.at} \cup {row}

(* _semantic_candidates: another residue, the payload of a row of the same *)
(* kind, another target.                                                   *)
SemanticCandidates(row, rows) ==
  ({[row EXCEPT !.value = v] : v \in 0..(Residues - 1)}
     \cup {[row EXCEPT !.target = d.target, !.value = d.value] :
             d \in {d \in rows : IsEntity(d) = IsEntity(row)}}
     \cup {[row EXCEPT !.target = e] :
             e \in IF IsEntity(row)
                   THEN ({r.at[1] : r \in rows} \cup {r.target : r \in rows}) \ {Nowhere}
                   ELSE {}})
  \ {row}

(* _edit_view: one row on the path whose change changes the answer, or one *)
(* off it whose change does not.                                           *)
Edits(item, store, relevant) ==
  LET trace  == OracleTrace(item, store)
      before == OracleAnswer(item, store)
      rows   == ControlRows(item, store)
      After(c) == OracleAnswer(item, Patch(store, c))
      eligible == IF relevant THEN ToSet(trace.rows)
                  ELSE {r \in rows : r.at \notin Path(trace)}
  IN  {c \in UNION {SemanticCandidates(r, rows) : r \in eligible} :
         IF relevant THEN After(c) \notin {"none", before} ELSE After(c) = before}

(* _shuffled_store: the rows of a kind, grouped by payload, the largest    *)
(* group first, take the payloads of the rows one largest group further.   *)
GroupSize(kind, row) == Cardinality({r \in kind : Payload(r) = Payload(row)})
Largest(kind) == Max({GroupSize(kind, r) : r \in kind})

CanShuffle(kind) == Cardinality(kind) >= 2 /\ 2 * Largest(kind) <= Cardinality(kind)

Grouped(kind) ==
  {o \in SetToSeqs(kind) :
     /\ \A j, k \in DOMAIN o : j < k => GroupSize(kind, o[j]) >= GroupSize(kind, o[k])
     /\ \A i, j, k \in DOMAIN o : i < j /\ j < k /\ Payload(o[i]) = Payload(o[k]) =>
          Payload(o[j]) = Payload(o[i])}

Donor(o, shift, k) == o[((k - 1 + shift) % Len(o)) + 1]

Shuffles(kind) ==
  IF kind = {} THEN {{}}
  ELSE {{[o[k] EXCEPT !.target = Donor(o, Largest(kind), k).target,
                      !.value = Donor(o, Largest(kind), k).value] : k \in DOMAIN o} :
          o \in Grouped(kind)}

Kinds(rows) == {{r \in rows : IsEntity(r)}, {r \in rows : ~ IsEntity(r)}} \ {{}}

ShuffledStores(store, rows) ==
  {(store \ rows) \cup e \cup l :
     e \in Shuffles({r \in rows : IsEntity(r)}),
     l \in Shuffles({r \in rows : ~ IsEntity(r)})}

(* _entity_mapping: a rotation of the world's entities in any order, or    *)
(* fresh identities past the store's largest.                              *)
Entities(item, rows) ==
  ({r.at[1] : r \in rows} \cup {r.target : r \in rows} \cup ToSet(item.slots)) \ {Nowhere}

Mappings(entities, isomorphism, top) ==
  LET orders == SetToSeqs(entities)
      At(o, e) == CHOOSE k \in DOMAIN o : o[k] = e
  IN  IF isomorphism
      THEN {[e \in entities |-> Donor(o, shift, At(o, e))] :
              o \in orders, shift \in 1..(Cardinality(entities) - 1)}
      ELSE {[e \in entities |-> top + At(o, e)] : o \in orders}

(* _EntityRemapStore with the target left as it was.                       *)
RemapRowSource(row, map) == [row EXCEPT !.at = <<map[@[1]], @[2]>>]

RemapRow(row, map) ==
  [row EXCEPT !.at = <<map[@[1]], @[2]>>,
              !.target = IF @ = Nowhere THEN @ ELSE map[@]]

(* _EntityRemapStore: an address that is an image is looked up at its      *)
(* inverse; one whose source is renamed away is empty.                     *)
RemapStore(store, rows, map) ==
  LET images == {map[e] : e \in DOMAIN map}
      scoped == {r.at[1] : r \in rows}
  IN  {RemapRow(r, map) : r \in {r \in store : r.at[1] \in scoped}}
        \cup {r \in store : r.at[1] \notin images \cup scoped}

RemapItem(item, map) ==
  [item EXCEPT !.slots = [k \in DOMAIN @ |-> IF @[k] = Nowhere THEN @[k] ELSE map[@[k]]]]

-----------------------------------------------------------------------------
(* build_control_view: every view a control may give; none when it is      *)
(* refused.                                                                *)
View(item, store, changed) ==
  [item |-> item, store |-> store, changed |-> changed, acts |-> << >>, returns |-> << >>]

GoldReturns(item, store) ==
  LET rows  == OracleTrace(item, store).rows
  IN  [k \in DOMAIN item.gold |-> IF item.gold[k].read THEN rows[k] ELSE Miss]

Views(item, store, control) ==
  LET rows == ControlRows(item, store)
      top  == Max({r.at[1] : r \in store} \cup {r.target : r \in store} \cup Entities(item, rows))
      same == View(item, store, {})
  IN  CASE control \in {"correct", "no_query", "handle_swap"} -> {same}
        [] control = "shuffled_returns" ->
             IF \A k \in Kinds(rows) : CanShuffle(k)
             THEN {View(item, s, {}) : s \in ShuffledStores(store, rows)} ELSE {}
        [] control \in {"relevant_edge", "irrelevant_edge"} ->
             {View(item, Patch(store, c), {c.at}) :
                c \in Edits(item, store, control = "relevant_edge")}
        [] control = "gold_path" ->
             {[same EXCEPT !.acts = item.gold, !.returns = GoldReturns(item, store)]}
        [] control = "gold_returns" -> {[same EXCEPT !.returns = GoldReturns(item, store)]}
        [] control = "explicit_miss" ->
             {View(item, {r \in store : r.at # at}, {at}) :
                at \in Path(OracleTrace(item, store))}
        [] control \in {"entity_rename", "graph_isomorphism"} ->
             LET entities == Entities(item, rows)
             IN  IF Cardinality(entities) < 2 THEN {}
                 ELSE {View(RemapItem(item, m), RemapStore(store, rows, m), {}) :
                         m \in Mappings(entities, control = "graph_isomorphism", top)}

(* The effect each control must have on the oracle; shuffled returns may   *)
(* have any.                                                               *)
Effect(before, after) ==
  IF after = "none" THEN "miss" ELSE IF before = after THEN "unchanged" ELSE "changed"

ExpectedEffects(control) ==
  CASE control = "relevant_edge"    -> {"changed"}
    [] control = "explicit_miss"    -> {"miss"}
    [] control = "shuffled_returns" -> {"miss", "changed", "unchanged"}
    [] OTHER                        -> {"unchanged"}

-----------------------------------------------------------------------------
(* decode_items on a view, with memory or without.                         *)
Decoded(view, mode, model) ==
  Alone([qid |-> 1, slots |-> view.item.slots, validation |-> view.store,
         store |-> IF mode = "memory_on" THEN view.store ELSE NoStore,
         acts |-> view.acts, returns |-> view.returns, model |-> model],
        Len(model)).state

(* The addresses of the view's path, or the item's own when it misses.     *)
GoldAddresses(view) ==
  LET trace == OracleTrace(view.item, view.store)
  IN  IF trace.ok THEN [k \in DOMAIN trace.rows |-> trace.rows[k].at]
      ELSE view.item.addresses

ReadAddresses(actions, returned) ==
  LET reads == SetToSortSeq({k \in DOMAIN actions : actions[k].read}, <)
  IN  [n \in DOMAIN reads |-> returned[reads[n]]]

Referents(read, gold) == [k \in DOMAIN gold |-> k \in DOMAIN read /\ read[k] = gold[k]]

(* _states_to_eval_rows.                                                   *)
EvalRow(view, control, state, before) ==
  LET returned  == [k \in DOMAIN state.rows |-> state.rows[k].at]
      addresses == GoldAddresses(view)
      read      == ReadAddresses(state.actions, returned)
  IN  [control |-> control, actions |-> state.actions, gold |-> view.item.gold,
       returned |-> returned, addresses |-> addresses,
       referents |-> Referents(read, addresses),
       misses |-> state.misses, halt |-> state.halt,
       excess |-> Max({0, Len(read) - Len(Reads(view.item.gold))}),
       changed |-> view.changed,
       effect |-> Effect(before, OracleAnswer(view.item, view.store))]

(* EvalRow.from_dict; no address is << >>.                                 *)
RowAccepted(row) ==
  LET halts == {k \in DOMAIN row.actions : row.actions[k].halt}
      read  == ReadAddresses(row.actions, row.returned)
      gold  == Reads(row.gold)
  IN  /\ \A h \in halts : \A k \in DOMAIN row.actions :
           k > h => ~ row.actions[k].read /\ ~ row.actions[k].halt
      /\ row.halt = IF halts = {} THEN 0 ELSE Min(halts)
      /\ \A k \in DOMAIN row.actions :
           row.returned[k] # << >> =>
             row.actions[k].read /\ row.returned[k][2] = row.actions[k].edge
      /\ Len(row.addresses) = Len(gold)
      /\ \A k \in DOMAIN gold : row.addresses[k][2] = gold[k].edge
      /\ row.misses = Cardinality({k \in DOMAIN read : read[k] = << >>})
      /\ row.excess = Max({0, Len(read) - Len(gold)})
      /\ row.referents = Referents(read, row.addresses)
      /\ Cardinality(row.changed) =
           IF row.control \in {"relevant_edge", "irrelevant_edge", "explicit_miss"}
           THEN 1 ELSE 0
      /\ row.effect \in ExpectedEffects(row.control)

-----------------------------------------------------------------------------
(* A graph as it is built: an address has one row, worlds share no entity  *)
(* (srgm_worlds.py partitions).                                            *)
RowType == [at : (Nat \ {0}) \X Nat, target : Nat, value : Nat, world : Nat]

GraphIsSound(graph) ==
  /\ IsFiniteSet(graph) /\ \A r \in graph : r \in RowType
  /\ \A r, q \in graph : r.at = q.at => r = q

ItemType ==
  [world : Nat, task : {"composition", "ordering", "equality"}, slots : Seq(Nat),
   gold : Seq([slot : Nat \ {0}, edge : Nat, read : BOOLEAN, halt : BOOLEAN]),
   addresses : Seq((Nat \ {0}) \X Nat)]

(* An item as it is built: its actions read slots that it has, the path    *)
(* resolves, to what its task reads.                                       *)
ItemIsSound(item, graph) ==
  LET t    == OracleTrace(item, graph)
      rows == ControlRows(item, graph)
  IN  /\ item \in ItemType /\ rows # {}
      /\ \A k \in DOMAIN item.gold : item.gold[k].slot \in DOMAIN item.slots
      /\ \A r \in graph \ rows : r.at[1] \notin Entities(item, rows)
      /\ t.ok
      /\ item.task # "composition" =>
           Len(t.rows) = 2 /\ \A k \in 1..2 : t.rows[k].target = Nowhere

IsSound(item, graph) == GraphIsSound(graph) /\ ItemIsSound(item, graph)

(* An input: a control of an item and its graph, read with memory or       *)
(* without by a model.                                                     *)
Before(in)  == OracleAnswer(in.item, in.graph)
ViewsOf(in) == Views(in.item, in.graph, in.control)

(* One largest group further, no row finds its own payload, though payloads*)
(* repeat (_shuffled_store, "produced a fixed payload").                   *)
ShufflesAreDeranged(in, v) ==
  in.control = "shuffled_returns" =>
    \A r \in ControlRows(in.item, in.graph) : Payload(Lookup(v.store, r.at)) # Payload(r)

(* Whatever the seed draws, a control has the effect on the oracle that it *)
(* promises, what another world's address returns stays, and shuffled      *)
(* returns change what every address of the world returns: the checks at   *)
(* the end of build_control_view never stop an evaluation.                 *)
ControlsKeepTheirPromise ==
  input.of = "controls" =>
    \A v \in ViewsOf(input) :
      /\ Effect(Before(input), OracleAnswer(v.item, v.store))
           \in ExpectedEffects(input.control)
      /\ \A r \in input.graph \ ControlRows(input.item, input.graph) :
           Lookup(v.store, r.at) = r
      /\ ShufflesAreDeranged(input, v)

RowsOf(in) ==
  {EvalRow(v, in.control, Decoded(v, in.mode, in.model), Before(in)) : v \in ViewsOf(in)}

(* Whatever the model does, the row that is made of it under every control *)
(* but the gold returns is one the contract accepts: no trace of a model   *)
(* stops an evaluation (_states_to_eval_rows against EvalRow.from_dict).   *)
RowsAreAccepted ==
  input.of = "controls" /\ input.control # "gold_returns" =>
    \A row \in RowsOf(input) : RowAccepted(row)

(* The same under gold returns, "scores model generated actions" in        *)
(* tests/test_relational_generate.py:359.  A model that reads another      *)
(* relation than the gold path is returned the gold row, whose address the *)
(* contract refuses as a mismatch.                                         *)
GoldReturnsAreAccepted ==
  input.of = "controls" /\ input.control = "gold_returns" =>
    \A row \in RowsOf(input) : RowAccepted(row)
=============================================================================
