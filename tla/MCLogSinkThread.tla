-------------------------- MODULE MCLogSinkThread --------------------------
(* LogSinkThread on small buffers. *)
EXTENDS LogSinkThread, TLC

ThreadSymmetry == Permutations(Threads)
=============================================================================
