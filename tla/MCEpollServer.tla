--------------------------- MODULE MCEpollServer ----------------------------
(* Three clients, two descriptors, and fewer events than may be ready.      *)
EXTENDS EpollServer
=============================================================================
