--------------------------- MODULE ArenaObjectPool ---------------------------
(***************************************************************************)
(* ArenaObjectPool<T> (src/include/p/base/object_pool.h): a pool of ids of *)
(* objects that an ObjectArena allocates K at a time.                      *)
(***************************************************************************)
EXTENDS ObjectGroups

\* ObjectArena::acquire: the first new id is answered, the others fill the
\* group that new_free_object_group found.
AcquireFill(t) ==
    /\ pc[t] = "fill" /\ obj[t] = NoObject
    /\ items' = [items EXCEPT ![object_group_ptr[t]] = [i \in 1 .. K - 1 |-> made + 1 + i]]
    /\ used' = used \cup {made + 1}
    /\ made' = made + K
    /\ Goto(t, "idle")
    /\ UNCHANGED <<object_group_ptr, globals, carved, obj, fresh>>

ArenaAcquire(t) ==
    \/ AcquireLocal(t) \/ AcquirePush(t) \/ AcquirePop(t)
    \/ AcquireNone(t, K, "free") \/ AcquireFill(t)

ArenaRelease(t) ==
    \/ \E o \in used : ReleaseLocal(t, o) \/ ReleasePush(t, o) \/ ReleaseFirst(t, o)
    \/ ReleasePut(t)

\* new_free_object_group, for acquire and for release
NewFreeObjectGroup(t) == FreePop(t) \/ FreeCarve(t) \/ FreePush(t)

ArenaNext ==
    \E t \in Threads : ArenaAcquire(t) \/ ArenaRelease(t) \/ NewFreeObjectGroup(t) \/ ThreadExit(t)

ArenaSpec == Init /\ [][ArenaNext]_vars
=============================================================================
