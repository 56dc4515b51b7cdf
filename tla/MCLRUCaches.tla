---------------------------- MODULE MCLRUCaches -----------------------------
(* Four keys in two buckets, caches of one, two and three entries.          *)
EXTENDS LRUCaches

CONSTANTS k1, k2, k3, k4

MCHash == [k \in Keys |-> IF k \in {k1, k2, k3} THEN 0 ELSE 1]
=============================================================================
