---------------------------- MODULE LedgerEvents ----------------------------
(***************************************************************************)
(* The event vocabulary of a run ledger (experiment/ledger.py): the types  *)
(* of event, which type may follow which, and what a sequence of types     *)
(* tells an operator.  Shared by the abstract ledger, the concurrent       *)
(* implementation of it, and the trainer that appends to it.               *)
(***************************************************************************)
EXTENDS Naturals, Sequences

EventTypes ==
  {"planned", "preflight_passed", "launch_requested", "started",
   "checkpointed", "failed", "resumed", "excluded", "completed"}

(* The types that may directly follow an event of type t.                  *)
Transitions ==
  [planned          |-> {"preflight_passed", "failed", "excluded"},
   preflight_passed |-> {"launch_requested", "failed", "excluded"},
   launch_requested |-> {"started", "failed", "excluded"},
   started          |-> {"checkpointed", "failed", "completed"},
   checkpointed     |-> {"checkpointed", "failed", "resumed", "completed"},
   failed           |-> {"preflight_passed", "launch_requested",
                         "checkpointed", "resumed", "excluded"},
   resumed          |-> {"started", "checkpointed", "failed", "completed"},
   excluded         |-> {},
   completed        |-> {}]

(* _validate_transition on a history of types, oldest first.               *)
MayFollow(types, t) ==
  IF types = << >> THEN t = "planned" ELSE t \in Transitions[types[Len(types)]]

=============================================================================
