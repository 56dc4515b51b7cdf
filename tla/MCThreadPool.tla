---------------------------- MODULE MCThreadPool ----------------------------
(* Three workers and four tasks: more tasks than workers, and the reverse    *)
(* while main submits.                                                       *)
EXTENDS ThreadPool

CONSTANTS w1, w2, w3
=============================================================================
