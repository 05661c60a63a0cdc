--------------------------- MODULE MCObjectArena ---------------------------
(* ObjectArena on small groups. *)
EXTENDS ObjectArena
=============================================================================
