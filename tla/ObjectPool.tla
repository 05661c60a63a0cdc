----------------------------- MODULE ObjectPool -----------------------------
(***************************************************************************)
(* ObjectPool<T> (src/include/p/base/object_pool.h): a pool of objects     *)
(* that T::NewThis makes one at a time.                                    *)
(***************************************************************************)
EXTENDS ObjectGroups

\* object_group_ptr_ = nullptr and T::NewThis
AcquireNew(t) ==
    /\ pc[t] = "new"
    /\ object_group_ptr' = [object_group_ptr EXCEPT ![t] = NoGroup]
    /\ made' = made + 1
    /\ used' = used \cup {made + 1}
    /\ Goto(t, "idle")
    /\ UNCHANGED <<items, globals, carved, obj, fresh>>

\* acquire(), and acquire(arg)
Acquire(t) ==
    \/ AcquireLocal(t) \/ AcquirePush(t) \/ AcquirePop(t)
    \/ AcquireNone(t, 1, "new") \/ AcquireNew(t)

Release(t) ==
    \/ \E o \in used : ReleaseLocal(t, o) \/ ReleasePush(t, o) \/ ReleaseFirst(t, o)
    \/ FreePop(t) \/ FreeCarve(t) \/ FreePush(t) \/ ReleasePut(t)

Next == \E t \in Threads : Acquire(t) \/ Release(t) \/ ThreadExit(t)

Spec == Init /\ [][Next]_vars

\* Objects are made only for want of free ones, wherever the groups have
\* travelled: there are never more than callers want at the same time, and a
\* group full for every other thread.
Economy == made <= MaxWanted + (Cardinality(Threads) - 1) * K
=============================================================================
