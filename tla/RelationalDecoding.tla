-------------------------- MODULE RelationalDecoding --------------------------
(***************************************************************************)
(* evals/relational_generate.py: constrained decoding over a graph store,  *)
(* one item at a time (decode_item) and in batches (decode_items) that     *)
(* split whenever their rows' sequences would differ in length.            *)
(*                                                                         *)
(* A token sequence is the items it is made of: an action, a return or an  *)
(* answer.  What the model would choose is an input, an action for each    *)
(* step; relation and direction are one edge label.  A model's cache is    *)
(* what it has been fed.                                                   *)
(***************************************************************************)
EXTENDS Naturals, Sequences, SequencesExt, FiniteSetsExt

VARIABLE input        \* one of the bounded inputs; input.of names the module it is for

Nowhere == 0                                  \* an empty slot, no entity
Miss    == [at |-> << >>, target |-> Nowhere]
NoStore == {}

Read(slot, edge) == [slot |-> slot, edge |-> edge, read |-> TRUE, halt |-> FALSE]
Halt == [slot |-> 1, edge |-> 1, read |-> FALSE, halt |-> TRUE]
Noop == [slot |-> 1, edge |-> 1, read |-> FALSE, halt |-> FALSE]

(* A store is the set of its rows, one at an address; a literal has        *)
(* target 0.                                                               *)
Lookup(store, at) == LET hit == {r \in store : r.at = at}
                     IN  IF hit = {} THEN Miss ELSE CHOOSE r \in hit : TRUE

FreshState(item) == [slots |-> item.slots, actions |-> << >>, rows |-> << >>,
                     answers |-> << >>, misses |-> 0, halt |-> 0, bad |-> FALSE]

Returned(state, action, row) ==
  [state EXCEPT !.actions = Append(@, action), !.rows = Append(@, row),
                !.misses = IF action.read /\ row = Miss THEN @ + 1 ELSE @,
                !.halt = IF action.halt /\ @ = 0 THEN Len(state.actions) + 1 ELSE @,
                !.slots = IF row # Miss /\ row.target # Nowhere
                          THEN [@ EXCEPT ![action.slot] = row.target] ELSE @]

Address(state, action) == <<state.slots[action.slot], action.edge>>

(* apply_action: without a store, or from an empty slot, a read misses.    *)
ApplyAction(state, action, store) ==
  Returned(state, action,
           IF action.read /\ state.slots[action.slot] # Nowhere
           THEN Lookup(store, Address(state, action)) ELSE Miss)

(* _apply_forced_return: the row must be the store's at the address read,  *)
(* or at its own when the actions are the model's.  Another row ends the   *)
(* whole call with an error: bad says so, and what the call would have     *)
(* answered of this item and the others is then not returned.              *)
ApplyForcedReturn(state, action, row, store, bind) ==
  LET at == IF bind THEN Address(state, action) ELSE row.at
  IN  [Returned(state, action, row) EXCEPT
         !.bad = state.bad \/ row # IF action.read THEN Lookup(store, at) ELSE Miss]

(* _validate_forced_actions and _validate_forced_returns.                  *)
ReplayIsLegal(item, steps) ==
  LET a == item.acts
      halts == {k \in DOMAIN a : a[k].halt}
      last  == IF halts = {} THEN Len(a) + 1 ELSE Min(halts)
  IN  /\ a # << >> =>
           /\ Len(a) = steps /\ last > 1
           /\ \A k \in DOMAIN a : /\ k < last => a[k].read /\ ~ a[k].halt
                                  /\ k > last => ~ a[k].read /\ ~ a[k].halt
      /\ item.returns # << >> =>
           /\ Len(item.returns) = steps
           /\ \A k \in DOMAIN a : ~ a[k].read => item.returns[k] = Miss

(* The action of a step: forced, the model's, or NOOP after its HALT.      *)
Chosen(item, state, s) == IF item.acts # << >> THEN item.acts[s]
                          ELSE IF state.halt = 0 THEN item.model[s] ELSE Noop

(* One action and its return; the forced returns are taken by the reads.   *)
ActAndReturn(item, state, taken, s) ==
  LET action == Chosen(item, state, s)
  IN  IF item.returns = << >> THEN ApplyAction(state, action, item.store)
      ELSE ApplyForcedReturn(state, action,
             IF action.read THEN item.returns[taken + 1] ELSE Miss,
             item.validation, item.acts # << >>)

Taken(item, state, taken, s) ==
  IF item.returns # << >> /\ Chosen(item, state, s).read THEN taken + 1 ELSE taken

(* The answer is chosen among the item's own choices: it names the item.   *)
Answered(state, item) == [state EXCEPT !.answers = Append(@, item.qid)]
Fed(cache, state, item) == cache \o <<Last(state.actions), Last(state.rows), item.qid>>

-----------------------------------------------------------------------------
(* decode_item.                                                            *)
FreshDecode(item) == [state |-> FreshState(item), taken |-> 0, cache |-> <<item.qid>>]

DecodeStep(item, d, s) ==
  LET next == ActAndReturn(item, d.state, d.taken, s)
  IN  [state |-> Answered(next, item),
       taken |-> Taken(item, d.state, d.taken, s),
       cache |-> Fed(d.cache, next, item)]

Alone(item, steps) ==
  LET decoded[s \in 0..steps] ==
        IF s = 0 THEN FreshDecode(item) ELSE DecodeStep(item, decoded[s - 1], s)
  IN  decoded[steps]

(* A batch is lists of equal length, one entry per row (_DecodeBatch).     *)
(* _subgroup with the list of taken returns cut, not selected.             *)
SubgroupSharingTaken(batch, rows) ==
  [f \in DOMAIN batch |-> IF f = "taken" THEN SubSeq(batch[f], 1, Len(rows))
                          ELSE [k \in DOMAIN rows |-> batch[f][rows[k]]]]

Subgroup(batch, rows) ==
  [f \in DOMAIN batch |-> [k \in DOMAIN rows |-> batch[f][rows[k]]]]

Ascending(numbers) ==
  CHOOSE o \in SetToSeqs(numbers) : \A j, k \in DOMAIN o : j < k => o[j] < o[k]

ReturnLength(row) == IF row = Miss THEN 1 ELSE 2

(* Rows whose return and answer choices have one length stay together; a   *)
(* row with choices of several lengths is decoded by itself.               *)
Key(batch, k) ==
  LET n == ReturnLength(Last(batch.states[k].rows))
      c == batch.items[k].choices
  IN  IF c = 0 THEN <<n, 0, k>> ELSE <<n, c, 0>>

PartitionReturns(batch) ==
  LET Same(k) == {j \in DOMAIN batch.states : Key(batch, j) = Key(batch, k)}
  IN  {Subgroup(batch, Ascending(Same(k))) : k \in DOMAIN batch.states}

(* _batch_actions and the returns, for every row of the batch.             *)
BatchReturn(batch, s) ==
  [batch EXCEPT
     !.states = [k \in DOMAIN @ |->
                   ActAndReturn(batch.items[k], @[k], batch.taken[k], s)],
     !.taken  = [k \in DOMAIN @ |->
                   Taken(batch.items[k], batch.states[k], @[k], s)]]

(* _finish_batch_step feeds the rows what they have in common in length.   *)
FinishBatchStep(batch) ==
  [batch EXCEPT
     !.states = [k \in DOMAIN @ |-> Answered(@[k], batch.items[k])],
     !.caches = [k \in DOMAIN @ |-> Fed(@[k], batch.states[k], batch.items[k])]]

FirstBatch(indexes, items) ==
  [indexes |-> indexes, items |-> [k \in DOMAIN indexes |-> items[indexes[k]]],
   states |-> [k \in DOMAIN indexes |-> FreshState(items[indexes[k]])],
   taken  |-> [k \in DOMAIN indexes |-> 0],
   caches |-> [k \in DOMAIN indexes |-> <<items[indexes[k]].qid>>]]

(* The parts of a batch never meet again: they are a set.                  *)
NextBatches(batches, s) ==
  {FinishBatchStep(part) : part \in UNION {PartitionReturns(BatchReturn(b, s)) : b \in batches}}

DecodeBatch(indexes, items, steps) ==
  LET batches[s \in 0..steps] ==
        IF s = 0 THEN {FirstBatch(indexes, items)} ELSE NextBatches(batches[s - 1], s)
  IN  batches[steps]

(* decode_items: batches of one prompt length, at most batchSize items.    *)
Chunks(items, batchSize) ==
  LET Bucket(n) == Ascending({i \in DOMAIN items : items[i].prompt = n})
      Cuts(b) == {SubSeq(b, (c - 1) * batchSize + 1, Min({Len(b), c * batchSize})) :
                    c \in 1..((Len(b) + batchSize - 1) \div batchSize)}
  IN  UNION {Cuts(Bucket(items[i].prompt)) : i \in DOMAIN items}

Outcome(index, state, taken, cache) ==
  [index |-> index, state |-> state, taken |-> taken, cache |-> cache]

DecodeItems(items, batchSize, steps) ==
  UNION {{Outcome(b.indexes[k], b.states[k], b.taken[k], b.caches[k]) : k \in DOMAIN b.indexes} :
           b \in UNION {DecodeBatch(c, items, steps) : c \in Chunks(items, batchSize)}}

DecodedByItself(index, item, steps) ==
  LET d == Alone(item, steps) IN Outcome(index, d.state, d.taken, d.cache)

-----------------------------------------------------------------------------
(* Items and plans as they are read: no row is at an empty slot.           *)
ActionTypes == [slot : Nat \ {0}, edge : Nat, read : BOOLEAN, halt : BOOLEAN]
RowTypes    == [at : (Nat \ {0}) \X Nat, target : Nat]
DecodedType ==
  [qid : Nat, prompt : Nat, slots : Seq(Nat), store : SUBSET RowTypes,
   validation : SUBSET RowTypes, acts : Seq(ActionTypes),
   returns : Seq(RowTypes \cup {Miss}), model : Seq(ActionTypes), choices : Nat]

DecodingIsSound(in) ==
  /\ in.items \in Seq(DecodedType) /\ in.batch \in Nat \ {0} /\ in.steps \in Nat
  /\ \A k \in DOMAIN in.items : ReplayIsLegal(in.items[k], in.steps)

(* However the items are batched and the batches split, each item's model  *)
(* is fed, and each item's slots, rows, misses and halt are, what they are *)
(* when the item is decoded by itself (decode_items against decode_item);  *)
(* and replaying actions with the returns that are sealed to the store     *)
(* leaves all that reading them from the store leaves, so that the causal  *)
(* controls that force returns change nothing else (_apply_forced_return   *)
(* against apply_action).                                                  *)
ForcedIsFree(item, steps) ==
  LET forced == Alone(item, steps).state
  IN  item.acts # << >> /\ item.returns # << >> /\ ~ forced.bad =>
        forced = Alone([item EXCEPT !.returns = << >>, !.store = item.validation], steps).state
DecodedAlone ==
  input.of = "decoding" =>
    /\ DecodeItems(input.items, input.batch, input.steps) =
         {DecodedByItself(i, input.items[i], input.steps) : i \in DOMAIN input.items}
    /\ \A i \in DOMAIN input.items : ForcedIsFree(input.items[i], input.steps)
=============================================================================
