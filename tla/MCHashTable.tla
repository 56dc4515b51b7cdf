---------------------------- MODULE MCHashTable -----------------------------
(* Three slots and five keys: two pairs collide, and the table gets full.   *)
EXTENDS HashTable
=============================================================================
