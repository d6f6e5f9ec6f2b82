--------------------------- MODULE CorpusSchedule ---------------------------
(***************************************************************************)
(* corpusgen/parallel: from rendered records to packed shards.  Tasks take *)
(* strided partitions of the catalog and their results are put together    *)
(* again (tasks.py); records are ordered by largest remaining deficit and  *)
(* the padded stream is divided in whole updates (schedule.py); the stream *)
(* is cut into the shards it was assigned to (publication.py).             *)
(*                                                                         *)
(* A record is its ordinal; a token is a pair of its record and its place  *)
(* in it, or Pad.  A lane's exact fraction of the tokens is kept over the  *)
(* common denominator, the total weight.                                   *)
(***************************************************************************)
EXTENDS Integers, Sequences, FiniteSets, FiniteSetsExt, SequencesExt

CONSTANTS Lanes,        \* lane names, in the order of the weights
          MaxRecords, MaxRecordLength, MaxWeight,
          MaxTasks, MaxUpdate, MaxShards   \* bounds on the inputs

ASSUME ScheduleAssumption ==
  /\ Lanes \in Seq(STRING)
  /\ MaxRecords \in Nat /\ MaxRecordLength \in Nat /\ MaxWeight \in Nat
  /\ MaxTasks \in Nat /\ MaxUpdate \in Nat /\ MaxShards \in Nat

VARIABLES
  lane, length,      \* the records: ordinal -> lane number, token length
  weight,            \* lane number -> weight
  tasks, done,       \* task count, indexes of the results that are in
  update, shards,    \* tokens per update, shard count asked for
  phase,             \* reduce, schedule, pack, packed, refused
  order,             \* the schedule: ordinals in the order emitted
  position,          \* token_position
  sink,              \* index of the open shard, from 0
  packed             \* per shard, its tokens

scheduleVars == <<lane, length, weight, tasks, done, update, shards, phase, order,
                  position, sink, packed>>
inputs       == <<lane, length, weight, tasks, update, shards>>

Records  == DOMAIN length
LaneIds  == 1..Len(Lanes)
Pad      == <<0, 0>>
Tokens(r) == [k \in 1..length[r] |-> <<r, k>>]

(* partition_ordinals.                                                     *)
Partition(k, n) == {r \in Records : (r - 1) % n = k}

(* largest_deficit_schedule.                                               *)
Total       == SumFunction(length)
TotalWeight == SumFunction(weight)
Lengths     == [k \in DOMAIN order |-> length[order[k]]]
Emitted(l)  == SumFunctionOnSet(Lengths, {k \in DOMAIN order : lane[order[k]] = l})
Deficit(l)  == Total * weight[l] - TotalWeight * Emitted(l)
Queue(l)    == {r \in Records : lane[r] = l /\ ~ \E k \in DOMAIN order : order[k] = r}
Active      == {l \in LaneIds : Queue(l) # {}}
ChosenLane  == CHOOSE l \in Active :
                 \A m \in Active \ {l} :
                   Deficit(l) > Deficit(m) \/ (Deficit(l) = Deficit(m) /\ l < m)

(* assign_update_aligned_shards, with fewer shards allowed.                *)
(* An update of padding where none is needed.                              *)
UpdatesOver == (Total + update) \div update

Updates     == (Total + update - 1) \div update

ShardCount  == IF Updates < shards THEN Updates ELSE shards
UpdateStart(k) ==
  k * (Updates \div ShardCount)
    + (IF k < Updates % ShardCount THEN k ELSE Updates % ShardCount)
TokenStart(k) == UpdateStart(k) * update
TokenEnd(k)   == UpdateStart(k + 1) * update

-----------------------------------------------------------------------------
(* Any catalog whose lanes are those of the weights.                       *)
ScheduleInit ==
  /\ \E n \in 1..MaxRecords :
       /\ lane \in [1..n -> LaneIds] /\ length \in [1..n -> 1..MaxRecordLength]
       /\ {lane[r] : r \in 1..n} = LaneIds
  /\ weight \in [LaneIds -> 1..MaxWeight]
  /\ tasks \in 1..MaxTasks /\ done = {}
  /\ update \in 1..MaxUpdate /\ shards \in 1..MaxShards
  /\ phase = "reduce" /\ order = << >>
  /\ position = 0 /\ sink = 0 /\ packed = << >>

(* A task's result comes in, in any order.                                 *)
TaskResult ==
  /\ phase = "reduce"
  /\ \E k \in (0..tasks - 1) \ done : done' = done \cup {k}
  /\ UNCHANGED <<inputs, phase, order, position, sink, packed>>

(* reduce_task_results: every index is there and the union is the catalog. *)
Reduce ==
  /\ phase = "reduce" /\ done = 0..tasks - 1
  /\ phase' = IF UNION {Partition(k, tasks) : k \in done} = Records
              THEN "schedule" ELSE "refused"
  /\ UNCHANGED <<inputs, done, order, position, sink, packed>>

Emit ==
  /\ phase = "schedule" /\ Active # {}
  /\ order' = Append(order, Min(Queue(ChosenLane)))
  /\ UNCHANGED <<inputs, done, phase, position, sink, packed>>

(* _rerender_and_pack_pinned opens the first shard.                        *)
OpenShards ==
  /\ phase = "schedule" /\ Active = {}
  /\ phase' = "pack"
  /\ packed' = [k \in 1..ShardCount |-> << >>]
  /\ UNCHANGED <<inputs, done, order, position, sink>>

Stream == FlattenSeq([k \in DOMAIN order |-> Tokens(order[k])])

(* write_packed: a chunk ends with its record or with the open shard,      *)
(* which is then finished and the next one opened.  Zeros fill the last.   *)
RecordEnd ==
  LET ends == {SumFunctionOnSet(Lengths, 1..k) : k \in DOMAIN order}
  IN  Min({e \in ends : e > position} \cup
          (IF position >= Total THEN {TokenEnd(ShardCount - 1)} ELSE {}))

NextSink ==
  /\ phase = "pack" /\ position = TokenEnd(sink) /\ sink + 1 < ShardCount
  /\ sink' = sink + 1
  /\ UNCHANGED <<inputs, done, phase, order, position, packed>>

WriteChunk ==
  LET take  == Min({TokenEnd(sink), RecordEnd}) - position
      chunk == [k \in 1..take |->
                  IF position + k <= Total THEN Stream[position + k] ELSE Pad]
  IN  /\ phase = "pack" /\ position < TokenEnd(sink)
      /\ packed' = [packed EXCEPT ![sink + 1] = @ \o chunk]
      /\ position' = position + take
      /\ UNCHANGED <<inputs, done, phase, order, sink>>

FinishPack ==
  /\ phase = "pack" /\ sink + 1 = ShardCount /\ position = TokenEnd(sink)
  /\ phase' = IF \A k \in 1..ShardCount :
                   Len(packed[k]) = TokenEnd(k - 1) - TokenStart(k - 1)
              THEN "packed" ELSE "refused"
  /\ UNCHANGED <<inputs, done, order, position, sink, packed>>

ScheduleNext == TaskResult \/ Reduce \/ Emit \/ OpenShards \/ NextSink \/ WriteChunk \/ FinishPack

ScheduleSpec == ScheduleInit /\ [][ScheduleNext]_scheduleVars

-----------------------------------------------------------------------------
(* The shards, one after the other, are the records whole and in schedule  *)
(* order, then less than one update of padding; each is whole updates,     *)
(* none is empty and no two differ by more than one update; and a complete *)
(* set of results is never refused (publication.py                         *)
(* _rerender_and_pack_pinned, schedule.py assign_update_aligned_shards).   *)
StreamIsWhole ==
  /\ phase # "refused"
  /\ phase = "packed" =>
       /\ \E pad \in 0..update - 1 : FlattenSeq(packed) = Stream \o [k \in 1..pad |-> Pad]
       /\ Len(order) = Cardinality(Records) /\ Range(order) = Records
       /\ \A j, k \in 1..Len(packed) :
            /\ Len(packed[k]) > 0 /\ Len(packed[k]) % update = 0
            /\ Len(packed[j]) - Len(packed[k]) <= update

(* Lanes that have been drawn from and still have records are level: their *)
(* remaining deficits are within one record of the largest there is        *)
(* (schedule.py largest_deficit_schedule).                                 *)
LanesAreLevel ==
  phase = "schedule" => \A l, m \in Active :
    Emitted(l) > 0 => Deficit(m) - Deficit(l) <= TotalWeight * MaxRecordLength

(* Both: what every step from the catalog to the shards keeps.             *)
PackedIsStream == StreamIsWhole /\ LanesAreLevel
=============================================================================
