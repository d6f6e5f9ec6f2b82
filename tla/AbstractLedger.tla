--------------------------- MODULE AbstractLedger ---------------------------
(***************************************************************************)
(* What a run ledger promises its callers: one sequence of events, every   *)
(* step of it a legal transition, extended at the end only, one event ID   *)
(* used at most once.  An event becomes acknowledged when the append that  *)
(* wrote it returns.  Losing power may cost the newest events, never one   *)
(* that was acknowledged.                                                  *)
(***************************************************************************)
EXTENDS LedgerEvents

CONSTANT EventId        \* event identifiers, given or generated

VARIABLES log,          \* sequence of [type, id], oldest first
          acknowledged  \* positions of log whose append has returned

vars == <<log, acknowledged>>

Types(l) == [i \in 1..Len(l) |-> l[i].type]

Init == log = << >> /\ acknowledged = {}

Record(t, id) ==
  /\ log' = Append(log, [type |-> t, id |-> id])
  /\ MayFollow(Types(log), t)
  /\ \A i \in 1..Len(log) : log[i].id # id
  /\ UNCHANGED acknowledged

Acknowledge(i) ==
  /\ i \in 1..Len(log)
  /\ acknowledged' = acknowledged \cup {i}
  /\ UNCHANGED log

LosePower ==
  /\ \E n \in 0..Len(log) :
       /\ \A i \in acknowledged : i <= n
       /\ log' = SubSeq(log, 1, n)
  /\ UNCHANGED acknowledged

Next ==
  \/ \E t \in EventTypes, id \in EventId : Record(t, id)
  \/ \E i \in 1..Len(log) : Acknowledge(i)
  \/ LosePower

Spec == Init /\ [][Next]_vars
=============================================================================
