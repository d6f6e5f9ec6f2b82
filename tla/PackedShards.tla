----------------------------- MODULE PackedShards -----------------------------
(***************************************************************************)
(* train/data.py of both tiers: the trainer reads batches of targets from  *)
(* the packed stream, cyclically; its cursor goes into each checkpoint,    *)
(* and the trainer that resumes takes it from there.  The 1b reader goes   *)
(* over several segments and takes one window per batch; the 160m reader   *)
(* has one file and cuts its window into rows that share no token.         *)
(*                                                                         *)
(* A token is the pair of its segment and its offset there.  The values of *)
(* tokens, masks and weights, and the devices, are left out.               *)
(***************************************************************************)
EXTENDS Naturals, Sequences, SequencesExt, FiniteSetsExt

CONSTANTS Tiers, MaxSegments, MaxLength, MaxContext, MaxRows,  \* inputs
          MaxBatches                         \* bound on the batches of a run

ASSUME ReaderAssumption ==
  /\ Tiers \subseteq {"1b", "160m"}
  /\ MaxSegments \in Nat /\ MaxLength \in Nat /\ MaxContext \in Nat /\ MaxRows \in Nat

VARIABLES
  tier, lens, ctx, rows,   \* the tier, the segments' lengths, the batch shape
  origin,                  \* the position the run began at
  reader,                  \* "on", "off" (not started, or killed), "refused"
  cursor, epoch,
  trained, weighted,       \* the tokens that were targets, those that gave
                           \* the weights; raw_positions is their number
  saved                    \* the checkpoint: cursor, epoch, targets so far

shape      == <<tier, lens, ctx, rows, origin>>
readerVars == <<shape, reader, cursor, epoch, trained, weighted, saved>>

Size    == SumFunction(lens)
Stride  == rows * ctx
Span    == rows * (ctx + 1)

(* _window: bisect_right over _segment_ends finds a position's segment.    *)
End(k)   == SumFunctionOnSet(lens, 1..k)
Token(p) == LET k == Min({j \in DOMAIN lens : End(j) > p % Size})
            IN  <<k, (p % Size) - End(k - 1)>>

(* The positions of the targets of a batch that starts at a position: the  *)
(* 1b reader shifts the window by one, the 160m reader shifts each row.    *)
Targets(start) ==
  [i \in 1..Stride |->
     Token(start + i + (IF tier = "1b" THEN 0 ELSE (i - 1) \div ctx))]

-----------------------------------------------------------------------------
(* A fresh run, or in the 1b tier also a checkpoint of the older kind, its *)
(* cursor counted within the epoch.  Each reader refuses a corpus smaller  *)
(* than a batch, by its own count.                                         *)
ReaderInit ==
  /\ tier \in Tiers
  /\ \E k \in 1..MaxSegments :
       /\ tier = "160m" => k = 1
       /\ lens \in [1..k -> 1..MaxLength]
  /\ ctx \in 1..MaxContext /\ rows \in 1..MaxRows
  /\ IF tier = "1b" THEN Size >= Stride ELSE Size > Span
  /\ \/ saved = [cursor |-> 0, epoch |-> 0, count |-> 0] /\ origin = 0
     \/ /\ tier = "1b"
        /\ \E c \in 0..(Size - 1), e \in 1..2 :
             /\ saved = [cursor |-> c, epoch |-> e, count |-> 0]
             /\ origin = e * Size + c
  /\ reader = "off" /\ cursor = 0 /\ epoch = 0
  /\ trained = << >> /\ weighted = << >>

(* load_state_dict; what the dead trainer did after the checkpoint is done *)
(* again.                                                                  *)
Migrated == IF saved.epoch > 0 /\ saved.cursor < Size
            THEN saved.cursor + saved.epoch * Size ELSE saved.cursor
Loadable == IF tier = "1b" THEN saved.epoch = Migrated \div Size
            ELSE saved.cursor <= Size /\ saved.cursor % Stride = 0

Restore ==
  /\ reader = "off"
  /\ IF Loadable
     THEN /\ reader' = "on"
          /\ cursor' = (IF tier = "1b" THEN Migrated ELSE saved.cursor)
          /\ epoch' = saved.epoch
          /\ trained' = SubSeq(trained, 1, saved.count)
          /\ weighted' = SubSeq(weighted, 1, saved.count)
     ELSE reader' = "refused" /\ UNCHANGED <<cursor, epoch, trained, weighted>>
  /\ UNCHANGED <<shape, saved>>

(* Where next_batch reads: the 160m reader goes back to the start when the *)
(* window would touch the end.                                             *)
BatchStart == IF tier = "160m" /\ cursor + Span >= Size THEN 0 ELSE cursor

(* The weights read with the spans of the windows.                         *)
WeightStartBySpan(next) == IF next < Span THEN 0 ELSE next - Span

(* Where the weights of the batch are read: the 160m reader works it out   *)
(* from the cursor that next_batch has left.                               *)
WeightStart(next) == next - Stride

NextBatch ==
  /\ reader = "on" /\ Len(trained) < MaxBatches * Stride
  /\ trained' = trained \o Targets(BatchStart)
  /\ cursor' = BatchStart + Stride
  /\ weighted' = weighted \o Targets(WeightStart(cursor'))
  /\ epoch' = IF tier = "1b" THEN cursor' \div Size
              ELSE IF cursor + Span >= Size THEN epoch + 1 ELSE epoch
  /\ UNCHANGED <<shape, reader, saved>>

Save ==
  /\ reader = "on"
  /\ saved' = [cursor |-> cursor, epoch |-> epoch, count |-> Len(trained)]
  /\ UNCHANGED <<shape, reader, cursor, epoch, trained, weighted>>

KillTrainer ==
  /\ reader = "on" /\ reader' = "off"
  /\ UNCHANGED <<shape, cursor, epoch, trained, weighted, saved>>

ReaderNext == Restore \/ NextBatch \/ Save \/ KillTrainer
ReaderSpec == ReaderInit /\ [][ReaderNext]_readerVars

-----------------------------------------------------------------------------
(* What a run that is never killed trains, in order: in the 1b tier every  *)
(* token after the first position, cyclically; in the 160m tier the rows   *)
(* of as many batches as end before the file does, over and over.          *)
Nth(i) ==
  IF tier = "1b" THEN origin + i
  ELSE LET perEpoch == 1 + (Size - Span - 1) \div Stride
           batch    == ((i - 1) \div Stride) % perEpoch
           within   == (i - 1) % Stride
       IN  batch * Stride + within + within \div ctx + 1

(* However a run is killed and resumed (the 1b one also from an older      *)
(* checkpoint), its targets are those of an uninterrupted run, in order,   *)
(* across segments and epochs; each has its own weight; and no checkpoint  *)
(* it wrote is refused.  The 1b docstring (data.py:6): "every causal       *)
(* target occurs once and in order".                                       *)
TargetsInOrder ==
  /\ reader # "refused"
  /\ trained = [i \in DOMAIN trained |-> Token(Nth(i))]
  /\ weighted = trained
=============================================================================
