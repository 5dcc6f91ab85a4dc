----------------------------- MODULE MCFsckQueue -----------------------------
EXTENDS FsckQueue

CONSTANTS j1, j2, j3, j4, d1, d2, iso

(* A repeated event for d1 and a CD.                                       *)
SomeEvents ==
    [p \in Jobs |-> CASE p = j1 -> d1 [] p = j2 -> d1 [] p = j3 -> d2 [] OTHER -> iso]
=============================================================================
