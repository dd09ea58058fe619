----------------------------- MODULE MCBatchAppend ----------------------------
(* A small instance of BatchAppend. *)
EXTENDS BatchAppend

CONSTANTS a1, a2, a3

ThreeAppends == {a1, a2, a3}

===============================================================================
