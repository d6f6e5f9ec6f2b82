---------------------------- MODULE MCRunLedger ----------------------------
(* TLC instances of RunLedger: see the .cfg files for their sizes.         *)
EXTENDS RunLedger, TLC
CONSTANTS a1, a2, r1, id1
Symmetric == Permutations(Appenders)
=============================================================================
