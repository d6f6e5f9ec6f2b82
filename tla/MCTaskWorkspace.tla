--------------------------- MODULE MCTaskWorkspace ---------------------------
EXTENDS TaskWorkspace

CONSTANTS w1, w2, t1, p1, p2, l1, c2

(* p1 and p2 race for one workspace, and disagree on the bytes; c2 removes *)
(* the other and shares the tombstone directory with them.                 *)
TwoWorkspaces == [p \in {p1, p2, l1, c2} |-> IF p = c2 THEN w2 ELSE w1]
OneTask       == [p \in {p1, p2} |-> t1]
OtherBytes    == [p \in {p1, p2} |-> IF p = p2 THEN "b" ELSE "a"]
=============================================================================
