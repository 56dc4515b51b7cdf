-------------------------- MODULE MCThreadPrograms --------------------------
(* Two producers and two consumers, four counting threads; arrays of two    *)
(* that are full and empty again and again.                                 *)
EXTENDS ThreadPrograms

CONSTANTS p1, p2, k1, k2, r1, r2, r3, r4
=============================================================================
