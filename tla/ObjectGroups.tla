---------------------------- MODULE ObjectGroups ----------------------------
(***************************************************************************)
(* LocalObjectGroup, shared by ObjectPool<T> and ArenaObjectPool<T>        *)
(* (src/include/p/base/object_pool.h): every thread keeps one group of     *)
(* free objects, groups with objects in them travel between the threads on *)
(* one global stack, groups without on another.  A push or pop of a global *)
(* stack is one step, as LockFreeStack is proved to implement              *)
(* AbstractStack.  The two pools differ in what an acquire does when there *)
(* is no free object, and add their own steps to these.                    *)
(***************************************************************************)
EXTENDS Naturals, Sequences, FiniteSets

CONSTANTS
    Threads,
    K,           \* kObjectGroupItemSize
    N,           \* ObjectArena<ObjectGroup>::N, groups allocated at a time
    MaxWanted,   \* bound: objects that callers want at the same time
    MaxObjects,  \* bound: objects ever made, more than Economy allows
    MaxGroups    \* bound: groups ever allocated

ASSUME ThreadsAssumption == IsFiniteSet(Threads) /\ Threads # {}
ASSUME SizesAssumption == K \in Nat \ {0} /\ N \in Nat \ {0, 1}
ASSUME BoundsAssumption == MaxWanted \in Nat /\ MaxObjects \in Nat /\ MaxGroups \in Nat

Objects == 1 .. MaxObjects
Groups == 1 .. MaxGroups
NoGroup == 0   \* nullptr
NoObject == 0

VARIABLES
    object_group_ptr,  \* tls_local_object_group_ of every thread
    items,             \* items[0 .. size - 1] of every group
    object_groups,     \* global_object_group_stack_
    free_groups,       \* global_free_object_group_stack_
    made, carved,      \* how many objects and groups there are
    pc,                \* where a thread is in acquire or release
    obj,               \* the object that a release has not stored yet
    fresh,             \* new groups that new_free_object_group has not pushed yet
    used               \* the objects that callers have acquired

globals == <<object_groups, free_groups>>
calls == <<pc, obj, fresh>>
vars == <<object_group_ptr, items, globals, made, carved, calls, used>>

Init ==
    /\ object_group_ptr = [t \in Threads |-> NoGroup]
    /\ items = [g \in Groups |-> <<>>]
    /\ object_groups = <<>> /\ free_groups = <<>>
    /\ made = 0 /\ carved = 0
    /\ pc = [t \in Threads |-> "idle"]
    /\ obj = [t \in Threads |-> NoObject]
    /\ fresh = [t \in Threads |-> {}]
    /\ used = {}

Goto(t, label) == pc' = [pc EXCEPT ![t] = label]
Top(s) == s[Len(s)]
Front(s) == SubSeq(s, 1, Len(s) - 1)

\* A caller whose acquire is under way wants an object too.
Making == {t \in Threads : pc[t] \in {"new", "free", "push", "fill"} /\ obj[t] = NoObject}
Wanted == Cardinality(used) + Cardinality(Making) + Cardinality({t \in Threads : pc[t] = "pop"})
Starts(t) == pc[t] = "idle" /\ Wanted < MaxWanted

-----------------------------------------------------------------------------
(* acquire *)

\* --size: what is left of the items of a group that gives one away.
Taken(g) == Front(items[g])

\* The local group has an object.
AcquireLocal(t) ==
    LET g == object_group_ptr[t] IN
    /\ Starts(t) /\ g # NoGroup /\ items[g] # <<>>
    /\ items' = [items EXCEPT ![g] = Taken(g)]
    /\ used' = used \cup {Top(items[g])}
    /\ UNCHANGED <<object_group_ptr, globals, made, carved, calls>>

\* It has none: it goes to the free stack.  object_group_ptr_ still points to it.
KeepEmpty(g) == free_groups
PushEmpty(g) == Append(free_groups, g)
AcquirePush(t) ==
    LET g == object_group_ptr[t] IN
    /\ Starts(t) /\ g # NoGroup /\ items[g] = <<>>
    /\ free_groups' = PushEmpty(g)
    /\ Goto(t, "pop")
    /\ UNCHANGED <<object_group_ptr, items, object_groups, made, carved, obj, fresh, used>>

Popping(t) == pc[t] = "pop" \/ (Starts(t) /\ object_group_ptr[t] = NoGroup)

\* A group from the global stack becomes the local one and gives an object.
AcquirePop(t) ==
    /\ Popping(t) /\ object_groups # <<>>
    /\ LET g == Top(object_groups) IN
       /\ object_groups' = Front(object_groups)
       /\ object_group_ptr' = [object_group_ptr EXCEPT ![t] = g]
       /\ items' = [items EXCEPT ![g] = Taken(g)]
       /\ used' = used \cup {Top(items[g])}
    /\ Goto(t, "idle")
    /\ UNCHANGED <<free_groups, made, carved, obj, fresh>>

NoneLeftAlways == TRUE
NoneLeft == object_groups = <<>>

\* There is no free object: the pool makes n new ones, at "label".
AcquireNone(t, n, label) ==
    /\ Popping(t) /\ NoneLeft
    /\ made + n * (Cardinality(Making) + 1) <= MaxObjects
    /\ Goto(t, label)
    /\ UNCHANGED <<object_group_ptr, items, globals, made, carved, obj, fresh, used>>

-----------------------------------------------------------------------------
(* release *)

HasRoom(g) == Len(items[g]) < K

\* The local group has room.
ReleaseLocal(t, o) ==
    LET g == object_group_ptr[t] IN
    /\ pc[t] = "idle" /\ o \in used /\ g # NoGroup /\ HasRoom(g)
    /\ items' = [items EXCEPT ![g] = Append(items[g], o)]
    /\ used' = used \ {o}
    /\ UNCHANGED <<object_group_ptr, globals, made, carved, calls>>

\* It is full and goes to the global stack.
ReleasePush(t, o) ==
    LET g == object_group_ptr[t] IN
    /\ pc[t] = "idle" /\ o \in used /\ g # NoGroup /\ ~HasRoom(g)
    /\ object_groups' = Append(object_groups, g)
    /\ used' = used \ {o} /\ obj' = [obj EXCEPT ![t] = o]
    /\ Goto(t, "free")
    /\ UNCHANGED <<object_group_ptr, items, free_groups, made, carved, fresh>>

\* There is none.
ReleaseFirst(t, o) ==
    /\ pc[t] = "idle" /\ o \in used /\ object_group_ptr[t] = NoGroup
    /\ used' = used \ {o} /\ obj' = [obj EXCEPT ![t] = o]
    /\ Goto(t, "free")
    /\ UNCHANGED <<object_group_ptr, items, globals, made, carved, fresh>>

\* size = 1, items[0] = obj in the group that new_free_object_group found.
ReleasePut(t) ==
    /\ pc[t] = "fill" /\ obj[t] # NoObject
    /\ items' = [items EXCEPT ![object_group_ptr[t]] = <<obj[t]>>]
    /\ obj' = [obj EXCEPT ![t] = NoObject]
    /\ Goto(t, "idle")
    /\ UNCHANGED <<object_group_ptr, globals, made, carved, fresh, used>>

-----------------------------------------------------------------------------
(* new_free_object_group, and the end of a thread *)

\* A group from the free stack ...
FreePop(t) ==
    /\ pc[t] = "free" /\ free_groups # <<>>
    /\ object_group_ptr' = [object_group_ptr EXCEPT ![t] = Top(free_groups)]
    /\ free_groups' = Front(free_groups)
    /\ Goto(t, "fill")
    /\ UNCHANGED <<items, object_groups, made, carved, obj, fresh, used>>

\* ... or the first of N new ones (ObjectArena::acquire); ...
FreeCarve(t) ==
    /\ pc[t] = "free" /\ free_groups = <<>> /\ carved + N <= MaxGroups
    /\ object_group_ptr' = [object_group_ptr EXCEPT ![t] = carved + 1]
    /\ fresh' = [fresh EXCEPT ![t] = carved + 2 .. carved + N]
    /\ carved' = carved + N
    /\ Goto(t, "push")
    /\ UNCHANGED <<items, globals, made, obj, used>>

\* ... the others are pushed on the free stack one by one.
FreshAll(t) == fresh[t] \cup {object_group_ptr[t]}
FreshLeft(t) == fresh[t]
FreePush(t) ==
    /\ pc[t] = "push"
    /\ \/ \E g \in FreshLeft(t) :
          /\ \A h \in FreshLeft(t) : g <= h
          /\ free_groups' = Append(free_groups, g)
          /\ fresh' = [fresh EXCEPT ![t] = fresh[t] \ {g}]
          /\ pc' = pc
       \/ fresh[t] = {} /\ Goto(t, "fill") /\ UNCHANGED <<free_groups, fresh>>
    /\ UNCHANGED <<object_group_ptr, items, object_groups, made, carved, obj, used>>

\* ~LocalObjectGroup: the local group goes to the stack it belongs to.  The
\* thread may be followed by another one of the same name.
BelongsAlways(g) == TRUE
BelongsToObjectGroups(g) == items[g] # <<>>
ThreadExit(t) ==
    LET g == object_group_ptr[t] IN
    /\ pc[t] = "idle" /\ g # NoGroup
    /\ IF BelongsToObjectGroups(g)
       THEN object_groups' = Append(object_groups, g) /\ UNCHANGED free_groups
       ELSE free_groups' = Append(free_groups, g) /\ UNCHANGED object_groups
    /\ object_group_ptr' = [object_group_ptr EXCEPT ![t] = NoGroup]
    /\ UNCHANGED <<items, made, carved, calls, used>>

-----------------------------------------------------------------------------
(* Properties *)

\* After its group is pushed away a thread's object_group_ptr_ dangles until
\* the call has found another group.
Owns(t, g) == object_group_ptr[t] = g /\ pc[t] \in {"idle", "push", "fill"}
At(s, i, g) == i \in DOMAIN s /\ s[i] = g
GroupPlaces(g) ==
    {<<"local", t>> : t \in {u \in Threads : Owns(u, g)}}
        \cup {<<"fresh", t>> : t \in {u \in Threads : g \in fresh[u]}}
        \cup {<<"objects", i>> : i \in {j \in DOMAIN object_groups : object_groups[j] = g}}
        \cup {<<"free", i>> : i \in {j \in DOMAIN free_groups : free_groups[j] = g}}

\* Every group that was allocated belongs to one thread or is once on one
\* of the global stacks; it is never lost and never in two threads' hands.
GroupInOnePlace == \A g \in Groups : Cardinality(GroupPlaces(g)) = IF g <= carved THEN 1 ELSE 0

Free(o) == {p \in Groups \X (1 .. K) : At(items[p[1]], p[2], o)}

\* Every object that was made is with one caller or free in one group, from
\* which it can be acquired again: none is lost, none is handed out twice.
ObjectInOnePlace ==
    \A o \in Objects :
        Cardinality({t \in Threads : obj[t] = o}) + Cardinality(Free(o)) + (IF o \in used THEN 1 ELSE 0)
            = IF o <= made THEN 1 ELSE 0

\* Both: see the two above.
InOnePlace == GroupInOnePlace /\ ObjectInOnePlace

\* The assert of acquire: a group on the global stack has 1 to K objects, and
\* no group has more.  A group on the free stack has none, so overwriting it
\* loses nothing.
GroupSizes ==
    /\ \A g \in Groups : Len(items[g]) <= K
    /\ \A i \in DOMAIN object_groups : Len(items[object_groups[i]]) \in 1 .. K
    /\ \A i \in DOMAIN free_groups : items[free_groups[i]] = <<>>
=============================================================================
