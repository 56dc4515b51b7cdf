-------------------------------- MODULE LRU ---------------------------------
(***************************************************************************)
(* What a least-recently-used cache promises, whatever it is built from:   *)
(* it returns the value put last under a key, and a put into a full cache  *)
(* takes the place of the entry whose last use lies furthest back.         *)
(***************************************************************************)
EXTENDS Naturals, FiniteSets

CONSTANTS Keys, Values, NoValue, Capacities

VARIABLES
    capacity,
    store,     \* what a get of each key returns, NoValue when it is not cached
    newer      \* <<j, k>>: both are cached and j was used after k

vars == <<capacity, store, newer>>

Cached == {k \in Keys : store[k] # NoValue}

Init ==
    /\ capacity \in Capacities
    /\ store = [k \in Keys |-> NoValue]
    /\ newer = {}

\* k becomes the newest of the entries that stay.
UsedAmong(k, stay) ==
    {p \in newer : p[1] \in stay \ {k} /\ p[2] \in stay \ {k}}
        \cup {k} \X (stay \ {k})

Get(k) ==
    /\ k \in Cached
    /\ newer' = UsedAmong(k, Cached)
    /\ UNCHANGED <<capacity, store>>

Put(k, v) ==
    /\ k \in Cached \/ Cardinality(Cached) < capacity
    /\ store' = [store EXCEPT ![k] = v]
    /\ newer' = UsedAmong(k, Cached)
    /\ UNCHANGED capacity

IsOldest(k) == k \in Cached /\ \A j \in Cached \ {k} : <<j, k>> \in newer

Replace(old, k, v) ==
    /\ k \notin Cached /\ Cardinality(Cached) = capacity
    /\ IsOldest(old)
    /\ store' = [store EXCEPT ![old] = NoValue, ![k] = v]
    /\ newer' = UsedAmong(k, Cached \ {old})
    /\ UNCHANGED capacity

Next ==
    \E k \in Keys :
        \/ Get(k)
        \/ \E v \in Values : Put(k, v) \/ \E old \in Keys : Replace(old, k, v)

Spec == Init /\ [][Next]_vars
=============================================================================
