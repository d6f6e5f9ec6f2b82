------------------------- MODULE AbstractPublication -------------------------
(***************************************************************************)
(* What corpusgen/parallel/publication.py promises: a destination receives *)
(* at most one corpus, whole, and keeps it.                                *)
(***************************************************************************)
CONSTANTS Builds, Nothing

VARIABLE published   \* the build whose corpus the destination holds

Init == published = Nothing

(* build_parallel_corpus returns having renamed its stage to the output.   *)
Publish(b) == published = Nothing /\ published' = b

Next == \E b \in Builds : Publish(b)

Spec == Init /\ [][Next]_published
=============================================================================
