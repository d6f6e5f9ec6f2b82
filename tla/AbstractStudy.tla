---------------------------- MODULE AbstractStudy ----------------------------
(***************************************************************************)
(* What the evaluation of a paired relational study promises, whoever runs *)
(* it and however often: each checkpoint is evaluated once, in the order   *)
(* of its training, under one identity (the evaluator's sources and the    *)
(* data); a pair is receipted once, after both of its arms, and reported   *)
(* once, after its receipt; the verdict is about that pair.  Nothing that  *)
(* was published changes or disappears.                                    *)
(***************************************************************************)
EXTENDS Naturals

CONSTANTS Multiples, Frozen, Identities

VARIABLES evaluated, receipts, reports, verdicts

avars == <<evaluated, receipts, reports, verdicts>>

Arms == {"split", "dense"}

Evaluation(a, m, id) == [arm |-> a, mult |-> m, id |-> id]
Pair(m, id) == {Evaluation(a, m, id) : a \in Arms}

AInit == evaluated = {} /\ receipts = {} /\ reports = {} /\ verdicts = {}

Evaluate(a, m, id) ==
  /\ \A x \in evaluated : ~ (x.arm = a /\ x.mult = m)
  /\ \A k \in Multiples : k < m => Evaluation(a, k, id) \in evaluated
  /\ evaluated' = evaluated \cup {Evaluation(a, m, id)}
  /\ UNCHANGED <<receipts, reports, verdicts>>

Receipt(m, id) ==
  /\ receipts = {} /\ Pair(m, id) \subseteq evaluated
  /\ receipts' = {Pair(m, id)}
  /\ UNCHANGED <<evaluated, reports, verdicts>>

ReportPair ==
  /\ reports = {} /\ receipts # {}
  /\ reports' = receipts
  /\ UNCHANGED <<evaluated, receipts, verdicts>>

Decide(id) ==
  /\ verdicts = {} /\ Pair(Frozen, id) \in reports
  /\ verdicts' = {Pair(Frozen, id)}
  /\ UNCHANGED <<evaluated, receipts, reports>>

ANext ==
  \/ \E id \in Identities : \/ \E m \in Multiples : \/ Receipt(m, id)
                                                  \/ \E a \in Arms : Evaluate(a, m, id)
                            \/ Decide(id)
  \/ ReportPair

ASpec == AInit /\ [][ANext]_avars
=============================================================================
