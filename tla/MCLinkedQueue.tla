--------------------------- MODULE MCLinkedQueue ---------------------------
(* LinkedQueue on a few pushers and nodes. *)
EXTENDS LinkedQueue
=============================================================================
