--------------------------- MODULE MCObjectPools ---------------------------
(* Both pools on one small instance: which one it is is chosen at the start. *)
EXTENDS ObjectPool, ArenaObjectPool, TLC

VARIABLE kind

PoolInit == Init /\ kind \in {"object", "arena"}

PoolNext ==
    /\ kind' = kind
    /\ \/ kind = "object" /\ Next
       \/ kind = "arena" /\ ArenaNext

PoolSpec == PoolInit /\ [][PoolNext]_<<vars, kind>>

ThreadSymmetry == Permutations(Threads)

\* ObjectPool makes objects only for want of free ones: Economy.
PoolEconomy == kind = "object" => Economy
=============================================================================
