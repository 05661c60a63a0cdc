------------------------------ MODULE MCTimer ------------------------------
(* Small instances of Timer for TLC. *)
EXTENDS TimerInv, TLC

\* Threads are spread over the buckets in some fixed way.
MCBucketOf == [c \in Callers |-> IF c = Owner THEN 0 ELSE BucketNumber - 1]

TimerSymmetry == Permutations(Timers)
=============================================================================
