--------------------------- MODULE MCThreadServer ---------------------------
(* Three connections over two descriptors, served by two threads.           *)
EXTENDS ThreadServer
=============================================================================
