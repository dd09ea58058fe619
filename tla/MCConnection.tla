----------------------------- MODULE MCConnection -----------------------------
(* Small instances of Connection. *)
EXTENDS Connection, TLC

CONSTANTS c1, c2, c3, n1, n2

MCNode == {n1, n2}
TwoCallers == {c1, c2}
ThreeCallers == {c1, c2, c3}

===============================================================================
