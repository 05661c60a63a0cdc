------------------------- MODULE ObjectPoolsProofs -------------------------
(***************************************************************************)
(* ObjectPool and ArenaObjectPool, for any number of threads and any group *)
(* size: every group and every object is in one place, and the sizes of the*)
(* groups on the two global stacks are what acquire and release rely on.   *)
(***************************************************************************)
EXTENDS MCObjectPools, FiniteSetTheorems, TLAPS

\* Objects, whether made or not
AnyObject == Nat \ {0}

Positions(s, x) == {i \in DOMAIN s : s[i] = x}

\* Where a group may be, ...
Local(g) == {t \in Threads : Owns(t, g)}
Carried(g) == {t \in Threads : g \in fresh[t]}

\* ... and where an object may be.
Returned(o) == {t \in Threads : obj[t] = o}
Given(o) == used \cap {o}

\* Exactly one of these sets has an element, and it has only one.
Single(S) == \E x \in S : S = {x}
OneOfFour(A, B, C, D) ==
    \/ Single(A) /\ B = {} /\ C = {} /\ D = {}
    \/ A = {} /\ Single(B) /\ C = {} /\ D = {}
    \/ A = {} /\ B = {} /\ Single(C) /\ D = {}
    \/ A = {} /\ B = {} /\ C = {} /\ Single(D)
OneOfThree(A, B, C) ==
    \/ Single(A) /\ B = {} /\ C = {}
    \/ A = {} /\ Single(B) /\ C = {}
    \/ A = {} /\ B = {} /\ Single(C)

PoolType ==
    /\ object_group_ptr \in [Threads -> Groups \cup {NoGroup}]
    /\ items \in [Groups -> Seq(AnyObject)]
    /\ object_groups \in Seq(Groups) /\ free_groups \in Seq(Groups)
    /\ made \in Nat /\ carved \in 0 .. MaxGroups
    /\ pc \in [Threads -> {"idle", "pop", "new", "free", "push", "fill"}]
    /\ obj \in [Threads -> Nat]
    /\ fresh \in [Threads -> SUBSET Groups]
    /\ used \subseteq AnyObject

GroupsPlaced ==
    \A g \in Groups :
        LET A == Local(g)
            B == Carried(g)
            C == Positions(object_groups, g)
            D == Positions(free_groups, g)
        IN IF g <= carved THEN OneOfFour(A, B, C, D) ELSE A = {} /\ B = {} /\ C = {} /\ D = {}

ObjectsPlaced ==
    \A o \in AnyObject :
        LET A == Returned(o)
            B == Free(o)
            C == Given(o)
        IN IF o <= made THEN OneOfThree(A, B, C) ELSE A = {} /\ B = {} /\ C = {}

\* A group that nobody has put an object into is empty, and a thread that looks
\* for a group has an object or makes some.
GroupsEmpty ==
    /\ \A t \in Threads :
          /\ pc[t] \in {"push", "fill"} => object_group_ptr[t] # NoGroup /\ items[object_group_ptr[t]] = <<>>
          /\ pc[t] # "push" => fresh[t] = {}
          /\ obj[t] # NoObject => pc[t] \in {"free", "push", "fill"}
          /\ \A g \in fresh[t] : items[g] = <<>>
    /\ \A g \in Groups : g > carved => items[g] = <<>>

\* GroupSizes, in terms of places
GroupsSized ==
    \A g \in Groups :
        /\ Len(items[g]) <= K
        /\ Positions(object_groups, g) # {} => items[g] # <<>>
        /\ Positions(free_groups, g) # {} => items[g] = <<>>

\* The inductive invariant of the pools.
PoolInv == PoolType /\ GroupsPlaced /\ ObjectsPlaced /\ GroupsEmpty /\ GroupsSized

-----------------------------------------------------------------------------
(* Sequences used as stacks *)

\* push
LEMMA Pushed ==
  ASSUME NEW S, NEW s \in Seq(S), NEW x \in S
  PROVE  /\ Append(s, x) \in Seq(S) /\ Len(Append(s, x)) = Len(s) + 1 /\ Len(s) \in Nat
         /\ Positions(Append(s, x), x) = Positions(s, x) \cup {Len(s) + 1}
         /\ \A y : y # x => Positions(Append(s, x), y) = Positions(s, y)
<1>1. /\ Append(s, x) \in Seq(S) /\ Len(Append(s, x)) = Len(s) + 1 /\ Len(s) \in Nat
      /\ DOMAIN Append(s, x) = 1 .. Len(s) + 1 /\ DOMAIN s = 1 .. Len(s)
      /\ \A i \in 1 .. Len(s) : Append(s, x)[i] = s[i]
      /\ Append(s, x)[Len(s) + 1] = x
  OBVIOUS
<1>2. \A i : i \in 1 .. Len(s) + 1 <=> i \in 1 .. Len(s) \/ i = Len(s) + 1
  BY <1>1
<1>3. Positions(Append(s, x), x) = Positions(s, x) \cup {Len(s) + 1}
  BY <1>1, <1>2 DEF Positions
<1>4. ASSUME NEW y, y # x PROVE Positions(Append(s, x), y) = Positions(s, y)
  BY <1>1, <1>2, <1>4 DEF Positions
<1> QED
  BY <1>1, <1>3, <1>4

\* pop
LEMMA TopTaken ==
  ASSUME NEW S, NEW s \in Seq(S), s # <<>>
  PROVE  /\ Front(s) \in Seq(S) /\ Len(Front(s)) = Len(s) - 1 /\ Len(s) \in Nat \ {0}
         /\ Top(s) \in S /\ Len(s) \in Positions(s, Top(s))
         /\ \A y : Positions(Front(s), y) = Positions(s, y) \ {Len(s)}
         /\ \A i \in DOMAIN Front(s) : i \in DOMAIN s /\ i # Len(s) /\ Front(s)[i] = s[i]
<1>1. Len(s) \in Nat \ {0} /\ DOMAIN s = 1 .. Len(s)
  OBVIOUS
<1>2. /\ Front(s) \in Seq(S) /\ Len(Front(s)) = Len(s) - 1 /\ DOMAIN Front(s) = 1 .. Len(s) - 1
      /\ \A i \in 1 .. Len(s) - 1 : Front(s)[i] = s[i]
  BY <1>1 DEF Front
<1>3. \A i : i \in 1 .. Len(s) - 1 <=> i \in 1 .. Len(s) /\ i # Len(s)
  BY <1>1
<1>4. ASSUME NEW y PROVE Positions(Front(s), y) = Positions(s, y) \ {Len(s)}
  BY <1>1, <1>2, <1>3 DEF Positions
<1>5. Top(s) \in S /\ Len(s) \in Positions(s, Top(s))
  BY <1>1 DEF Top, Positions
<1> QED
  BY <1>1, <1>2, <1>3, <1>4, <1>5

-----------------------------------------------------------------------------
(* The steps of both pools *)

\* The steps that the two pools share are those of ObjectGroups.
SharedStep(t) ==
    \/ AcquireLocal(t) \/ AcquirePush(t) \/ AcquirePop(t)
    \/ \E n \in Nat, label \in {"new", "free"} : AcquireNone(t, n, label)
    \/ \E o \in used : ReleaseLocal(t, o) \/ ReleasePush(t, o) \/ ReleaseFirst(t, o)
    \/ FreePop(t) \/ FreeCarve(t) \/ FreePush(t) \/ ReleasePut(t) \/ ThreadExit(t)

\* A step of either pool is a shared one or the one that makes objects.
LEMMA PoolSteps ==
  ASSUME PoolNext
  PROVE  \E t \in Threads : SharedStep(t) \/ AcquireNew(t) \/ AcquireFill(t)
<1>1. ASSUME NEW t \in Threads, Acquire(t) \/ Release(t) \/ ThreadExit(t)
      PROVE  SharedStep(t) \/ AcquireNew(t)
  BY <1>1 DEF SharedStep, Acquire, Release
<1>2. ASSUME NEW t \in Threads,
             ArenaAcquire(t) \/ ArenaRelease(t) \/ NewFreeObjectGroup(t) \/ ThreadExit(t)
      PROVE  SharedStep(t) \/ AcquireFill(t)
  BY <1>2, SizesAssumption DEF SharedStep, ArenaAcquire, ArenaRelease, NewFreeObjectGroup
<1> QED
  BY <1>1, <1>2 DEF PoolNext, Next, ArenaNext

-----------------------------------------------------------------------------
(* Moving one group or one object *)

\* A group goes from its one place to another one.
LEMMA GroupMoves ==
  ASSUME NEW A, NEW B, NEW C, NEW D, OneOfFour(A, B, C, D), NEW x, NEW y
  PROVE  /\ x \in A => OneOfFour(A \ {x}, B, C \cup {y}, D) /\ OneOfFour(A \ {x}, B, C, D \cup {y})
         /\ x \in B => OneOfFour(A, B \ {x}, C, D \cup {y})
         /\ x \in C => OneOfFour(A \cup {y}, B, C \ {x}, D)
         /\ x \in D => OneOfFour(A \cup {y}, B, C, D \ {x})
BY DEF OneOfFour, Single

\* An object does.
LEMMA ObjectMoves ==
  ASSUME NEW A, NEW B, NEW C, OneOfThree(A, B, C), NEW x, NEW y
  PROVE  /\ x \in C => OneOfThree(A \cup {y}, B, C \ {x}) /\ OneOfThree(A, B \cup {y}, C \ {x})
         /\ x \in B => OneOfThree(A, B \ {x}, C \cup {y})
         /\ x \in A => OneOfThree(A \ {x}, B \cup {y}, C)
BY DEF OneOfThree, Single

\* No group moves.
LEMMA GroupsKept ==
  ASSUME GroupsPlaced, UNCHANGED <<carved, object_groups, free_groups>>,
         \A g \in Groups : Local(g)' = Local(g) /\ Carried(g)' = Carried(g)
  PROVE  GroupsPlaced'
BY DEF GroupsPlaced

\* No object moves.
LEMMA ObjectsKept ==
  ASSUME ObjectsPlaced, UNCHANGED <<made, obj, items, used>>
  PROVE  ObjectsPlaced'
<1>1. \A o \in AnyObject : Returned(o)' = Returned(o) /\ Free(o)' = Free(o) /\ Given(o)' = Given(o)
  BY DEF Returned, Free, Given
<1> QED
  BY <1>1 DEF ObjectsPlaced

\* The positions of an object in the groups
LEMMA FreeAt ==
  ASSUME NEW o
  PROVE  \A p : p \in Free(o) <=>
            \E g \in Groups, i \in 1 .. K : p = <<g, i>> /\ i \in Positions(items[g], o)
BY DEF Free, At, Positions

\* acquire takes the last object of a group, ...
LEMMA ObjectTaken ==
  ASSUME PoolType, ObjectsPlaced, GroupsSized, NEW g \in Groups, items[g] # <<>>,
         items' = [items EXCEPT ![g] = Front(items[g])],
         used' = used \cup {Top(items[g])}, UNCHANGED <<made, obj>>
  PROVE  /\ items' \in [Groups -> Seq(AnyObject)] /\ used' \subseteq AnyObject
         /\ \A h \in Groups : items[h] = <<>> => items'[h] = <<>>
         /\ \A h \in Groups : Len(items'[h]) <= K
         /\ \A h \in Groups \ {g} : items'[h] = items[h]
         /\ ObjectsPlaced'
<1> DEFINE x == Top(items[g])
           n == Len(items[g])
<1>1. /\ items[g] \in Seq(AnyObject) /\ Front(items[g]) \in Seq(AnyObject) /\ x \in AnyObject
      /\ Len(Front(items[g])) = n - 1 /\ n \in Nat \ {0} /\ n \in Positions(items[g], x)
      /\ \A y : Positions(Front(items[g]), y) = Positions(items[g], y) \ {n}
  <2>1. items[g] \in Seq(AnyObject)
    BY DEF PoolType
  <2> QED
    BY <2>1, TopTaken, Zenon
<1>2. items' \in [Groups -> Seq(AnyObject)] /\ items'[g] = Front(items[g])
      /\ \A h \in Groups \ {g} : items'[h] = items[h]
  BY <1>1 DEF PoolType
<1>3. \A h \in Groups : Len(items'[h]) <= K
  BY <1>1, <1>2, SizesAssumption DEF GroupsSized
<1>4. \A o : Free(o)' = Free(o) \ {<<g, n>>}
  <2> SUFFICES ASSUME NEW o, NEW p PROVE p \in Free(o)' <=> p \in Free(o) \ {<<g, n>>}
    OBVIOUS
  <2>1. p \in Free(o)' <=> \E h \in Groups, i \in 1 .. K : p = <<h, i>> /\ i \in Positions(items'[h], o)
    BY DEF Free, At, Positions
  <2>2. \A h \in Groups : \A i : i \in Positions(items'[h], o) <=>
           i \in Positions(items[h], o) /\ ~(h = g /\ i = n)
    BY <1>1, <1>2
  <2> QED
    BY <2>1, <2>2, FreeAt
<1>5. <<g, n>> \in Free(x)
  <2>1. n \in 1 .. K
    BY <1>1, SizesAssumption DEF GroupsSized
  <2> QED
    BY <1>1, <2>1, FreeAt
<1>6. \A o : o # x => <<g, n>> \notin Free(o)
  BY <1>1, FreeAt DEF Positions
<1>7. \A o : Returned(o)' = Returned(o) /\ Given(o)' = IF o = x THEN Given(o) \cup {x} ELSE Given(o)
  BY DEF Returned, Given
<1>8. ObjectsPlaced'
  <2> SUFFICES ASSUME NEW o \in AnyObject
               PROVE  IF o <= made THEN OneOfThree(Returned(o)', Free(o)', Given(o)')
                      ELSE Returned(o)' = {} /\ Free(o)' = {} /\ Given(o)' = {}
    BY DEF ObjectsPlaced
  <2>1. CASE o # x
    BY <1>4, <1>6, <1>7, <2>1 DEF ObjectsPlaced
  <2>2. CASE o = x
    <3>1. o <= made /\ OneOfThree(Returned(o), Free(o), Given(o))
      BY <1>5, <2>2 DEF ObjectsPlaced
    <3>2. OneOfThree(Returned(o), Free(o) \ {<<g, n>>}, Given(o) \cup {x})
      BY <1>5, <2>2, <3>1, ObjectMoves
    <3> QED
      BY <1>4, <1>7, <2>2, <3>1, <3>2
  <2> QED
    BY <2>1, <2>2
<1>9. \A h \in Groups : items[h] = <<>> => items'[h] = <<>>
  BY <1>2
<1> QED
  BY <1>1, <1>2, <1>3, <1>8, <1>9 DEF PoolType

\* ... release stores one behind the last.
LEMMA ObjectStored ==
  ASSUME PoolType, GroupsSized, NEW g \in Groups, Len(items[g]) < K, NEW x \in AnyObject,
         items' = [items EXCEPT ![g] = Append(items[g], x)]
  PROVE  /\ items' \in [Groups -> Seq(AnyObject)]
         /\ \A h \in Groups \ {g} : items'[h] = items[h]
         /\ \A h \in Groups : Len(items'[h]) <= K
         /\ \A o : Free(o)' = IF o = x THEN Free(o) \cup {<<g, Len(items[g]) + 1>>} ELSE Free(o)
<1> DEFINE n == Len(items[g]) + 1
<1>1. /\ items[g] \in Seq(AnyObject) /\ Append(items[g], x) \in Seq(AnyObject)
      /\ Len(Append(items[g], x)) = n /\ Len(items[g]) \in Nat
      /\ Positions(Append(items[g], x), x) = Positions(items[g], x) \cup {n}
      /\ \A y : y # x => Positions(Append(items[g], x), y) = Positions(items[g], y)
  <2> DEFINE s == items[g]
  <2>1. s \in Seq(AnyObject)
    BY DEF PoolType
  <2> HIDE DEF s
  <2>2. /\ Append(s, x) \in Seq(AnyObject) /\ Len(Append(s, x)) = Len(s) + 1 /\ Len(s) \in Nat
        /\ Positions(Append(s, x), x) = Positions(s, x) \cup {Len(s) + 1}
        /\ \A y : y # x => Positions(Append(s, x), y) = Positions(s, y)
    BY <2>1, Pushed
  <2> QED
    BY <2>1, <2>2 DEF s
<1>2. items' \in [Groups -> Seq(AnyObject)] /\ items'[g] = Append(items[g], x)
      /\ \A h \in Groups \ {g} : items'[h] = items[h]
  BY <1>1 DEF PoolType
<1>3. n \in 1 .. K
  BY <1>1, SizesAssumption
<1>4. \A h \in Groups : Len(items'[h]) <= K
  BY <1>1, <1>2, <1>3 DEF GroupsSized
<1>5. ASSUME NEW o PROVE Free(o)' = IF o = x THEN Free(o) \cup {<<g, n>>} ELSE Free(o)
  <2> SUFFICES ASSUME NEW p
               PROVE  p \in Free(o)' <=> p \in (IF o = x THEN Free(o) \cup {<<g, n>>} ELSE Free(o))
    BY DEF Free
  <2>1. p \in Free(o)' <=> \E h \in Groups, i \in 1 .. K : p = <<h, i>> /\ i \in Positions(items'[h], o)
    BY DEF Free, At, Positions
  <2>2. \A h \in Groups : \A i : i \in Positions(items'[h], o) <=>
           i \in Positions(items[h], o) \/ (h = g /\ i = n /\ o = x)
    BY <1>1, <1>2
  <2>3. CASE o = x
    <3>1. p = <<g, n>> => p \in Free(o)'
      BY <1>3, <2>1, <2>2, <2>3
    <3>2. p \in Free(o) => p \in Free(o)'
      BY <2>1, <2>2, FreeAt
    <3>3. p \in Free(o)' => p \in Free(o) \/ p = <<g, n>>
      BY <2>1, <2>2, FreeAt
    <3> QED
      BY <2>3, <3>1, <3>2, <3>3
  <2>4. CASE o # x
    BY <2>1, <2>2, <2>4, FreeAt
  <2> QED
    BY <2>3, <2>4
<1> QED
  BY <1>2, <1>4, <1>5

\* A group that a thread has is nowhere else.
LEMMA Owned ==
  ASSUME PoolType, GroupsPlaced, NEW t \in Threads, NEW g \in Groups, Owns(t, g)
  PROVE  /\ g <= carved /\ Local(g) = {t} /\ Carried(g) = {}
         /\ Positions(object_groups, g) = {} /\ Positions(free_groups, g) = {}
<1>1. t \in Local(g)
  BY DEF Local
<1>2. Local(g) # {}
  BY <1>1
<1>3. g <= carved /\ OneOfFour(Local(g), Carried(g), Positions(object_groups, g), Positions(free_groups, g))
  BY <1>2 DEF GroupsPlaced
<1> QED
  BY <1>1, <1>3 DEF OneOfFour, Single

\* The thread that has a group pushes it on one of the global stacks.
LEMMA GroupPushed ==
  ASSUME PoolType, GroupsPlaced, NEW t \in Threads, NEW g \in Groups, Owns(t, g), carved' = carved,
         \A h \in Groups : Carried(h)' = Carried(h) /\ Local(h)' = (IF h = g THEN Local(h) \ {t} ELSE Local(h)),
         \/ free_groups' = Append(free_groups, g) /\ object_groups' = object_groups
         \/ object_groups' = Append(object_groups, g) /\ free_groups' = free_groups
  PROVE  /\ GroupsPlaced' /\ object_groups' \in Seq(Groups) /\ free_groups' \in Seq(Groups)
         /\ \A h \in Groups : h # g =>
               /\ Positions(object_groups', h) = Positions(object_groups, h)
               /\ Positions(free_groups', h) = Positions(free_groups, h)
<1> DEFINE A(h) == Local(h)
           B(h) == Carried(h)
           C(h) == Positions(object_groups, h)
           D(h) == Positions(free_groups, h)
<1>1. g <= carved /\ t \in A(g) /\ OneOfFour(A(g), B(g), C(g), D(g))
  BY Owned DEF GroupsPlaced
<1>2. CASE free_groups' = Append(free_groups, g) /\ object_groups' = object_groups
  <2> DEFINE n == Len(free_groups) + 1
  <2>1. /\ free_groups' \in Seq(Groups) /\ Positions(free_groups', g) = D(g) \cup {n}
        /\ \A h : h # g => Positions(free_groups', h) = D(h)
    BY <1>2, Pushed DEF PoolType
  <2>2. OneOfFour(A(g) \ {t}, B(g), C(g), D(g) \cup {n})
    BY <1>1, GroupMoves
  <2>3. ASSUME NEW h \in Groups
        PROVE  IF h <= carved THEN OneOfFour(A(h)', B(h)', C(h), Positions(free_groups', h))
               ELSE A(h)' = {} /\ B(h)' = {} /\ C(h) = {} /\ Positions(free_groups', h) = {}
    <3>1. CASE h = g
      BY <1>1, <2>1, <2>2, <3>1
    <3>2. CASE h # g
      BY <2>1, <3>2 DEF GroupsPlaced
    <3> QED
      BY <3>1, <3>2
  <2> QED
    BY <1>2, <2>1, <2>3 DEF GroupsPlaced, PoolType
<1>3. CASE object_groups' = Append(object_groups, g) /\ free_groups' = free_groups
  <2> DEFINE n == Len(object_groups) + 1
  <2>1. /\ object_groups' \in Seq(Groups) /\ Positions(object_groups', g) = C(g) \cup {n}
        /\ \A h : h # g => Positions(object_groups', h) = C(h)
    BY <1>3, Pushed DEF PoolType
  <2>2. OneOfFour(A(g) \ {t}, B(g), C(g) \cup {n}, D(g))
    BY <1>1, GroupMoves
  <2>3. ASSUME NEW h \in Groups
        PROVE  IF h <= carved THEN OneOfFour(A(h)', B(h)', Positions(object_groups', h), D(h))
               ELSE A(h)' = {} /\ B(h)' = {} /\ Positions(object_groups', h) = {} /\ D(h) = {}
    <3>1. CASE h = g
      BY <1>1, <2>1, <2>2, <3>1
    <3>2. CASE h # g
      BY <2>1, <3>2 DEF GroupsPlaced
    <3> QED
      BY <3>1, <3>2
  <2> QED
    BY <1>3, <2>1, <2>3 DEF GroupsPlaced, PoolType
<1> QED
  BY <1>2, <1>3

-----------------------------------------------------------------------------
(* Every step keeps PoolInv *)

\* acquire, when the local group has an object
LEMMA StepAcquireLocal ==
  ASSUME PoolInv, NEW t \in Threads, AcquireLocal(t)
  PROVE  PoolInv'
<1> USE DEF PoolInv
<1> DEFINE g == object_group_ptr[t]
<1>1. /\ g \in Groups /\ Owns(t, g) /\ items[g] # <<>>
      /\ items' = [items EXCEPT ![g] = Front(items[g])] /\ used' = used \cup {Top(items[g])}
      /\ UNCHANGED <<object_group_ptr, object_groups, free_groups, made, carved, pc, obj, fresh>>
  BY DEF AcquireLocal, Starts, Taken, PoolType, Owns, globals, calls
<1>2. /\ items' \in [Groups -> Seq(AnyObject)] /\ used' \subseteq AnyObject
      /\ \A h \in Groups : items[h] = <<>> => items'[h] = <<>>
      /\ \A h \in Groups : Len(items'[h]) <= K
      /\ \A h \in Groups \ {g} : items'[h] = items[h]
      /\ ObjectsPlaced'
  BY <1>1, ObjectTaken
<1>3. PoolType'
  BY <1>1, <1>2 DEF PoolType
<1>4. GroupsPlaced'
  BY <1>1, GroupsKept DEF Local, Owns, Carried
<1>5. GroupsEmpty'
  BY <1>1, <1>2 DEF GroupsEmpty, PoolType
<1>6. GroupsSized'
  BY <1>1, <1>2, Owned DEF GroupsSized
<1> QED
  BY <1>2, <1>3, <1>4, <1>5, <1>6

\* acquire, when it has none: the group leaves the thread
LEMMA StepAcquirePush ==
  ASSUME PoolInv, NEW t \in Threads, AcquirePush(t)
  PROVE  PoolInv'
<1> USE DEF PoolInv
<1> DEFINE g == object_group_ptr[t]
<1>1. /\ g \in Groups /\ Owns(t, g) /\ items[g] = <<>> /\ pc[t] = "idle" /\ pc'[t] = "pop"
      /\ \A u \in Threads \ {t} : pc'[u] = pc[u]
      /\ free_groups' = Append(free_groups, g)
      /\ UNCHANGED <<object_group_ptr, object_groups, items, used, made, carved, obj, fresh>>
  BY DEF AcquirePush, Starts, PushEmpty, PoolType, Owns, Goto
<1>2. \A h \in Groups : Carried(h)' = Carried(h) /\ Local(h)' = (IF h = g THEN Local(h) \ {t} ELSE Local(h))
  BY <1>1 DEF Local, Carried, Owns
<1>3. /\ GroupsPlaced' /\ free_groups' \in Seq(Groups)
      /\ \A h \in Groups : h # g => Positions(free_groups', h) = Positions(free_groups, h)
  BY <1>1, <1>2, GroupPushed
<1>4. PoolType'
  BY <1>1, <1>3 DEF PoolType, AcquirePush, Goto
<1>5. ObjectsPlaced'
  BY <1>1, ObjectsKept
<1>6. GroupsEmpty'
  BY <1>1 DEF GroupsEmpty
<1>7. GroupsSized'
  BY <1>1, <1>3 DEF GroupsSized
<1> QED
  BY <1>3, <1>4, <1>5, <1>6, <1>7

\* acquire takes over a group from the global stack
LEMMA StepAcquirePop ==
  ASSUME PoolInv, NEW t \in Threads, AcquirePop(t)
  PROVE  PoolInv'
<1> USE DEF PoolInv
<1> DEFINE g == Top(object_groups)
           n == Len(object_groups)
<1>1. /\ object_groups # <<>> /\ (pc[t] = "pop" \/ (pc[t] = "idle" /\ object_group_ptr[t] = NoGroup))
      /\ object_groups' = Front(object_groups)
      /\ items' = [items EXCEPT ![g] = Front(items[g])] /\ used' = used \cup {Top(items[g])}
      /\ object_group_ptr' = [object_group_ptr EXCEPT ![t] = g]
      /\ pc' = [pc EXCEPT ![t] = "idle"]
      /\ UNCHANGED <<free_groups, made, carved, obj, fresh>>
  BY DEF AcquirePop, Popping, Starts, Taken, Goto
<1>2. /\ g \in Groups /\ object_groups' \in Seq(Groups) /\ n \in Positions(object_groups, g)
      /\ \A h : Positions(object_groups', h) = Positions(object_groups, h) \ {n}
  BY <1>1, TopTaken DEF PoolType
<1>3. items[g] # <<>>
  BY <1>2 DEF GroupsSized
<1>4. /\ items' \in [Groups -> Seq(AnyObject)] /\ used' \subseteq AnyObject
      /\ \A h \in Groups : items[h] = <<>> => items'[h] = <<>>
      /\ \A h \in Groups : Len(items'[h]) <= K
      /\ \A h \in Groups \ {g} : items'[h] = items[h]
      /\ ObjectsPlaced'
  BY <1>1, <1>2, <1>3, ObjectTaken
<1>5. PoolType'
  BY <1>1, <1>2, <1>4 DEF PoolType
<1>6. /\ g <= carved
      /\ OneOfFour(Local(g), Carried(g), Positions(object_groups, g), Positions(free_groups, g))
  BY <1>2 DEF GroupsPlaced
<1>7. \A h \in Groups : Carried(h)' = Carried(h) /\ Local(h)' = IF h = g THEN Local(h) \cup {t} ELSE Local(h)
  <2>1. NoGroup \notin Groups
    BY BoundsAssumption DEF NoGroup, Groups
  <2> QED
    BY <1>1, <2>1 DEF Local, Carried, Owns, PoolType
<1>8. \A h \in Groups : h # g => n \notin Positions(object_groups, h)
  BY <1>2 DEF Positions
<1>9. GroupsPlaced'
  <2>1. OneOfFour(Local(g) \cup {t}, Carried(g), Positions(object_groups, g) \ {n}, Positions(free_groups, g))
    BY <1>2, <1>6, GroupMoves
  <2>2. \A h \in Groups : h # g => Positions(object_groups', h) = Positions(object_groups, h)
    BY <1>2, <1>8
  <2> QED
    BY <1>1, <1>2, <1>6, <1>7, <2>1, <2>2 DEF GroupsPlaced
<1>10. GroupsEmpty'
  <2>1. /\ pc'[t] = "idle" /\ fresh'[t] = fresh[t] /\ obj'[t] = obj[t] /\ pc[t] \in {"pop", "idle"}
        /\ \A u \in Threads \ {t} : pc'[u] = pc[u] /\ object_group_ptr'[u] = object_group_ptr[u]
    BY <1>1 DEF PoolType
  <2>2. \A u \in Threads : object_group_ptr[u] # NoGroup => object_group_ptr[u] \in Groups
    BY DEF PoolType
  <2> QED
    BY <1>1, <1>4, <2>1, <2>2 DEF GroupsEmpty
<1>11. GroupsSized'
  <2>1. Positions(free_groups, g) = {} /\ Positions(object_groups, g) = {n}
    BY <1>2, <1>6 DEF OneOfFour, Single
  <2> QED
    BY <1>1, <1>2, <1>4, <2>1 DEF GroupsSized
<1> QED
  BY <1>4, <1>5, <1>9, <1>10, <1>11

\* acquire finds no free object
LEMMA StepAcquireNone ==
  ASSUME PoolInv, NEW t \in Threads, NEW m \in Nat, NEW label \in {"new", "free"}, AcquireNone(t, m, label)
  PROVE  PoolInv'
<1> USE DEF PoolInv
<1>1. /\ pc[t] = "pop" \/ (pc[t] = "idle" /\ object_group_ptr[t] = NoGroup)
      /\ pc' = [pc EXCEPT ![t] = label]
      /\ UNCHANGED <<object_group_ptr, items, object_groups, free_groups, made, carved, obj, fresh, used>>
  BY DEF AcquireNone, Popping, Starts, Goto, globals
<1>2. PoolType'
  BY <1>1 DEF PoolType
<1>3. \A h \in Groups : Carried(h)' = Carried(h) /\ Local(h)' = Local(h)
  <2>1. NoGroup \notin Groups
    BY BoundsAssumption DEF NoGroup, Groups
  <2> QED
    BY <1>1, <2>1 DEF Local, Carried, Owns, PoolType
<1>4. GroupsPlaced' /\ ObjectsPlaced'
  BY <1>1, <1>3, GroupsKept, ObjectsKept
<1>5. GroupsEmpty' /\ GroupsSized'
  BY <1>1 DEF GroupsEmpty, GroupsSized, PoolType
<1> QED
  BY <1>2, <1>4, <1>5

\* release, when the local group has room
LEMMA StepReleaseLocal ==
  ASSUME PoolInv, NEW t \in Threads, NEW o \in used, ReleaseLocal(t, o)
  PROVE  PoolInv'
<1> USE DEF PoolInv
<1> DEFINE g == object_group_ptr[t]
           p == <<g, Len(items[g]) + 1>>
<1>1. /\ g \in Groups /\ Owns(t, g) /\ Len(items[g]) < K /\ o \in AnyObject
      /\ items' = [items EXCEPT ![g] = Append(items[g], o)] /\ used' = used \ {o}
      /\ UNCHANGED <<object_group_ptr, object_groups, free_groups, made, carved, pc, obj, fresh>>
  BY DEF ReleaseLocal, HasRoom, PoolType, Owns, globals, calls
<1>2. /\ items' \in [Groups -> Seq(AnyObject)]
      /\ \A h \in Groups \ {g} : items'[h] = items[h]
      /\ \A h \in Groups : Len(items'[h]) <= K
      /\ \A x : Free(x)' = IF x = o THEN Free(x) \cup {p} ELSE Free(x)
  BY <1>1, ObjectStored
<1>3. PoolType'
  BY <1>1, <1>2 DEF PoolType
<1>4. GroupsPlaced'
  BY <1>1, GroupsKept DEF Local, Owns, Carried
<1>5. ObjectsPlaced'
  <2> SUFFICES ASSUME NEW x \in AnyObject
               PROVE  IF x <= made THEN OneOfThree(Returned(x)', Free(x)', Given(x)')
                      ELSE Returned(x)' = {} /\ Free(x)' = {} /\ Given(x)' = {}
    BY <1>1 DEF ObjectsPlaced
  <2>1. Returned(x)' = Returned(x)
    BY <1>1 DEF Returned
  <2>2. CASE x = o
    <3>1. o \in Given(x) /\ Given(x)' = Given(x) \ {o}
      BY <1>1, <2>2 DEF Given
    <3>2. x <= made /\ OneOfThree(Returned(x), Free(x), Given(x))
      BY <3>1 DEF ObjectsPlaced
    <3>3. OneOfThree(Returned(x), Free(x) \cup {p}, Given(x) \ {o})
      BY <3>1, <3>2, ObjectMoves
    <3> QED
      BY <1>2, <2>1, <2>2, <3>1, <3>2, <3>3
  <2>3. CASE x # o
    <3>1. Given(x)' = Given(x)
      BY <1>1, <2>3 DEF Given
    <3> QED
      BY <1>2, <2>1, <2>3, <3>1 DEF ObjectsPlaced
  <2> QED
    BY <2>2, <2>3
<1>6. GroupsEmpty'
  <2>1. \A u \in Threads : u # t /\ pc[u] \in {"push", "fill"} => object_group_ptr[u] # g
    BY <1>1, Owned DEF Local, Owns
  <2>2. pc[t] = "idle" /\ g <= carved /\ \A u \in Threads : g \notin fresh[u]
    BY <1>1, Owned DEF ReleaseLocal, Carried
  <2>3. ~(g > carved)
    BY <2>2, <1>1, BoundsAssumption DEF PoolType, Groups
  <2> QED
    BY <1>1, <1>2, <2>1, <2>2, <2>3 DEF GroupsEmpty, PoolType
<1>7. GroupsSized'
  BY <1>1, <1>2, Owned DEF GroupsSized
<1> QED
  BY <1>3, <1>4, <1>5, <1>6, <1>7

\* The object that a release has not stored yet is in its caller's hand.
LEMMA ObjectReturned ==
  ASSUME PoolType, ObjectsPlaced, NEW t \in Threads, NEW o \in used, obj[t] = NoObject,
         used' = used \ {o}, obj' = [obj EXCEPT ![t] = o], UNCHANGED <<items, made>>
  PROVE  ObjectsPlaced'
<1>1. o \in AnyObject
  BY DEF PoolType
<1> SUFFICES ASSUME NEW x \in AnyObject
             PROVE  IF x <= made THEN OneOfThree(Returned(x)', Free(x)', Given(x)')
                    ELSE Returned(x)' = {} /\ Free(x)' = {} /\ Given(x)' = {}
  BY DEF ObjectsPlaced
<1>2. Free(x)' = Free(x)
  BY DEF Free
<1>3. x # NoObject
  BY DEF AnyObject, NoObject
<1>4. CASE x = o
  <2>1. o \in Given(x) /\ Given(x)' = Given(x) \ {o} /\ Returned(x)' = Returned(x) \cup {t}
    BY <1>3, <1>4 DEF Given, Returned, PoolType
  <2>2. x <= made /\ OneOfThree(Returned(x), Free(x), Given(x))
    BY <2>1 DEF ObjectsPlaced
  <2>3. OneOfThree(Returned(x) \cup {t}, Free(x), Given(x) \ {o})
    BY <2>1, <2>2, ObjectMoves
  <2> QED
    BY <1>2, <2>1, <2>2, <2>3
<1>5. CASE x # o
  <2>1. Given(x)' = Given(x) /\ Returned(x)' = Returned(x)
    BY <1>3, <1>5 DEF Given, Returned, PoolType
  <2> QED
    BY <1>2, <2>1 DEF ObjectsPlaced
<1> QED
  BY <1>4, <1>5

\* release, when it is full: the group leaves the thread
LEMMA StepReleasePush ==
  ASSUME PoolInv, NEW t \in Threads, NEW o \in used, ReleasePush(t, o)
  PROVE  PoolInv'
<1> USE DEF PoolInv
<1> DEFINE g == object_group_ptr[t]
<1>1. /\ g \in Groups /\ Owns(t, g) /\ ~(Len(items[g]) < K) /\ pc[t] = "idle"
      /\ object_groups' = Append(object_groups, g) /\ used' = used \ {o}
      /\ obj' = [obj EXCEPT ![t] = o] /\ pc' = [pc EXCEPT ![t] = "free"]
      /\ UNCHANGED <<object_group_ptr, items, free_groups, made, carved, fresh>>
  BY DEF ReleasePush, HasRoom, PoolType, Owns, Goto
<1>2. \A h \in Groups : Carried(h)' = Carried(h) /\ Local(h)' = (IF h = g THEN Local(h) \ {t} ELSE Local(h))
  BY <1>1 DEF Local, Carried, Owns, PoolType
<1>3. /\ GroupsPlaced' /\ object_groups' \in Seq(Groups)
      /\ \A h \in Groups : h # g => Positions(object_groups', h) = Positions(object_groups, h)
  BY <1>1, <1>2, GroupPushed
<1>4. PoolType'
  BY <1>1, <1>3 DEF PoolType, AnyObject
<1>5. obj[t] = NoObject
  BY <1>1 DEF GroupsEmpty
<1>6. ObjectsPlaced'
  BY <1>1, <1>5, ObjectReturned
<1>7. GroupsEmpty'
  BY <1>1 DEF GroupsEmpty, PoolType
<1>8. items[g] # <<>> /\ Positions(free_groups, g) = {}
  BY <1>1, Owned, SizesAssumption
<1>9. GroupsSized'
  BY <1>1, <1>3, <1>8 DEF GroupsSized
<1> QED
  BY <1>3, <1>4, <1>6, <1>7, <1>9

\* release, when the thread has no group
LEMMA StepReleaseFirst ==
  ASSUME PoolInv, NEW t \in Threads, NEW o \in used, ReleaseFirst(t, o)
  PROVE  PoolInv'
<1> USE DEF PoolInv
<1>1. /\ pc[t] = "idle" /\ object_group_ptr[t] = NoGroup /\ used' = used \ {o}
      /\ obj' = [obj EXCEPT ![t] = o] /\ pc' = [pc EXCEPT ![t] = "free"]
      /\ UNCHANGED <<object_group_ptr, items, object_groups, free_groups, made, carved, fresh>>
  BY DEF ReleaseFirst, Goto, globals
<1>2. PoolType'
  BY <1>1 DEF PoolType, AnyObject
<1>3. \A h \in Groups : Carried(h)' = Carried(h) /\ Local(h)' = Local(h)
  <2>1. NoGroup \notin Groups
    BY BoundsAssumption DEF NoGroup, Groups
  <2> QED
    BY <1>1, <2>1 DEF Local, Carried, Owns, PoolType
<1>4. GroupsPlaced'
  BY <1>1, <1>3, GroupsKept
<1>5. ObjectsPlaced'
  BY <1>1, ObjectReturned DEF GroupsEmpty
<1>6. GroupsEmpty' /\ GroupsSized'
  BY <1>1 DEF GroupsEmpty, GroupsSized, PoolType
<1> QED
  BY <1>2, <1>4, <1>5, <1>6

\* release stores its object in a group that is empty
LEMMA StepReleasePut ==
  ASSUME PoolInv, NEW t \in Threads, ReleasePut(t)
  PROVE  PoolInv'
<1> USE DEF PoolInv
<1> DEFINE g == object_group_ptr[t]
           o == obj[t]
           p == <<g, Len(items[g]) + 1>>
<1>1. /\ g \in Groups /\ Owns(t, g) /\ items[g] = <<>> /\ o \in AnyObject /\ pc[t] = "fill"
      /\ items' = [items EXCEPT ![g] = <<o>>] /\ obj' = [obj EXCEPT ![t] = NoObject]
      /\ pc' = [pc EXCEPT ![t] = "idle"]
      /\ UNCHANGED <<object_group_ptr, object_groups, free_groups, made, carved, fresh, used>>
  BY DEF ReleasePut, PoolType, GroupsEmpty, Owns, Goto, AnyObject, NoObject, globals
<1>2. items' = [items EXCEPT ![g] = Append(items[g], o)] /\ Len(items[g]) < K
  BY <1>1, SizesAssumption
<1>3. /\ items' \in [Groups -> Seq(AnyObject)]
      /\ \A h \in Groups \ {g} : items'[h] = items[h]
      /\ \A h \in Groups : Len(items'[h]) <= K
      /\ \A x : Free(x)' = IF x = o THEN Free(x) \cup {p} ELSE Free(x)
  BY <1>1, <1>2, ObjectStored
<1>4. PoolType'
  BY <1>1, <1>3 DEF PoolType, NoObject
<1>5. GroupsPlaced'
  BY <1>1, GroupsKept DEF Local, Owns, Carried, PoolType
<1>6. ObjectsPlaced'
  <2> SUFFICES ASSUME NEW x \in AnyObject
               PROVE  IF x <= made THEN OneOfThree(Returned(x)', Free(x)', Given(x)')
                      ELSE Returned(x)' = {} /\ Free(x)' = {} /\ Given(x)' = {}
    BY <1>1 DEF ObjectsPlaced
  <2>1. Given(x)' = Given(x) /\ x # NoObject
    BY <1>1 DEF Given, AnyObject, NoObject
  <2>2. CASE x = o
    <3>1. t \in Returned(x) /\ Returned(x)' = Returned(x) \ {t}
      BY <1>1, <2>1, <2>2 DEF Returned, PoolType
    <3>2. x <= made /\ OneOfThree(Returned(x), Free(x), Given(x))
      BY <3>1 DEF ObjectsPlaced
    <3>3. OneOfThree(Returned(x) \ {t}, Free(x) \cup {p}, Given(x))
      BY <3>1, <3>2, ObjectMoves
    <3> QED
      BY <1>3, <2>1, <2>2, <3>1, <3>2, <3>3
  <2>3. CASE x # o
    <3>1. Returned(x)' = Returned(x)
      BY <1>1, <2>1, <2>3 DEF Returned, PoolType
    <3> QED
      BY <1>3, <2>1, <2>3, <3>1 DEF ObjectsPlaced
  <2> QED
    BY <2>2, <2>3
<1>7. GroupsEmpty'
  <2>1. \A u \in Threads : u # t /\ pc[u] \in {"push", "fill"} => object_group_ptr[u] # g
    BY <1>1, Owned DEF Local, Owns
  <2>2. g <= carved /\ \A u \in Threads : g \notin fresh[u]
    BY <1>1, Owned DEF Carried
  <2>3. ~(g > carved)
    BY <2>2, <1>1, BoundsAssumption DEF PoolType, Groups
  <2> QED
    BY <1>1, <1>3, <2>1, <2>2, <2>3 DEF GroupsEmpty, PoolType
<1>8. GroupsSized'
  BY <1>1, <1>3, Owned DEF GroupsSized
<1> QED
  BY <1>4, <1>5, <1>6, <1>7, <1>8

\* new_free_object_group finds a group on the free stack, ...
LEMMA StepFreePop ==
  ASSUME PoolInv, NEW t \in Threads, FreePop(t)
  PROVE  PoolInv'
<1> USE DEF PoolInv
<1> DEFINE g == Top(free_groups)
           n == Len(free_groups)
<1>1. /\ free_groups # <<>> /\ pc[t] = "free" /\ free_groups' = Front(free_groups)
      /\ object_group_ptr' = [object_group_ptr EXCEPT ![t] = g] /\ pc' = [pc EXCEPT ![t] = "fill"]
      /\ UNCHANGED <<items, object_groups, made, carved, obj, fresh, used>>
  BY DEF FreePop, Goto
<1>2. /\ g \in Groups /\ free_groups' \in Seq(Groups) /\ n \in Positions(free_groups, g)
      /\ \A h : Positions(free_groups', h) = Positions(free_groups, h) \ {n}
  BY <1>1, TopTaken DEF PoolType
<1>3. PoolType'
  BY <1>1, <1>2 DEF PoolType
<1>4. /\ g <= carved
      /\ OneOfFour(Local(g), Carried(g), Positions(object_groups, g), Positions(free_groups, g))
  BY <1>2 DEF GroupsPlaced
<1>5. \A h \in Groups : Carried(h)' = Carried(h) /\ Local(h)' = IF h = g THEN Local(h) \cup {t} ELSE Local(h)
  BY <1>1 DEF Local, Carried, Owns, PoolType
<1>6. GroupsPlaced'
  <2>1. OneOfFour(Local(g) \cup {t}, Carried(g), Positions(object_groups, g), Positions(free_groups, g) \ {n})
    BY <1>2, <1>4, GroupMoves
  <2>2. \A h \in Groups : h # g => Positions(free_groups', h) = Positions(free_groups, h)
    BY <1>2 DEF Positions
  <2> QED
    BY <1>1, <1>2, <1>4, <1>5, <2>1, <2>2 DEF GroupsPlaced
<1>7. ObjectsPlaced'
  BY <1>1, ObjectsKept
<1>8. GroupsEmpty'
  <2>1. g # NoGroup /\ items[g] = <<>>
    BY <1>2, BoundsAssumption DEF GroupsSized, NoGroup, Groups
  <2> QED
    BY <1>1, <2>1 DEF GroupsEmpty, PoolType
<1>9. GroupsSized'
  BY <1>1, <1>2 DEF GroupsSized
<1> QED
  BY <1>3, <1>6, <1>7, <1>8, <1>9

\* ... allocates N of them ...
LEMMA StepFreeCarve ==
  ASSUME PoolInv, NEW t \in Threads, FreeCarve(t)
  PROVE  PoolInv'
<1> USE DEF PoolInv
<1>1. /\ pc[t] = "free" /\ carved' = carved + N /\ carved + N <= MaxGroups /\ fresh[t] = {}
      /\ object_group_ptr' = [object_group_ptr EXCEPT ![t] = carved + 1]
      /\ fresh' = [fresh EXCEPT ![t] = carved + 2 .. carved + N] /\ pc' = [pc EXCEPT ![t] = "push"]
      /\ UNCHANGED <<items, object_groups, free_groups, made, obj, used>>
  BY DEF FreeCarve, Goto, globals, GroupsEmpty
<1>2. carved \in Nat /\ N \in Nat /\ N > 1 /\ MaxGroups \in Nat /\ \A h \in Groups : h \in Nat \ {0}
  BY SizesAssumption, BoundsAssumption DEF PoolType, Groups
<1>3. carved + 1 \in Groups /\ (carved + 2 .. carved + N) \in SUBSET Groups /\ carved + N \in 0 .. MaxGroups
  BY <1>1, <1>2 DEF Groups
<1>4. PoolType'
  BY <1>1, <1>3 DEF PoolType
<1>5. \A h \in Groups : Local(h)' = IF h = carved + 1 THEN Local(h) \cup {t} ELSE Local(h)
  BY <1>1 DEF Local, Owns, PoolType
<1>6. \A h \in Groups : Carried(h)' = IF h \in carved + 2 .. carved + N THEN Carried(h) \cup {t} ELSE Carried(h)
  BY <1>1 DEF Carried, PoolType
<1>7. GroupsPlaced'
  <2> SUFFICES ASSUME NEW h \in Groups
               PROVE  LET A == Local(h)'
                          B == Carried(h)'
                          C == Positions(object_groups, h)
                          D == Positions(free_groups, h)
                      IN IF h <= carved + N THEN OneOfFour(A, B, C, D) ELSE A = {} /\ B = {} /\ C = {} /\ D = {}
    BY <1>1 DEF GroupsPlaced
  <2>1. CASE h <= carved
    <3>1. Local(h)' = Local(h) /\ Carried(h)' = Carried(h) /\ h <= carved + N
      BY <1>2, <1>5, <1>6, <2>1
    <3> QED
      BY <2>1, <3>1 DEF GroupsPlaced
  <2>2. CASE ~(h <= carved)
    <3>1. Local(h) = {} /\ Carried(h) = {} /\ Positions(object_groups, h) = {} /\ Positions(free_groups, h) = {}
      BY <2>2 DEF GroupsPlaced
    <3>2. h = carved + 1 \/ h \in carved + 2 .. carved + N \/ ~(h <= carved + N)
      BY <1>2, <2>2
    <3>3. CASE h = carved + 1
      <4>1. Local(h)' = {t} /\ Carried(h)' = {} /\ h <= carved + N
        BY <1>2, <1>5, <1>6, <3>1, <3>3
      <4> QED
        BY <3>1, <4>1 DEF OneOfFour, Single
    <3>4. CASE h \in carved + 2 .. carved + N
      <4>1. Local(h)' = {} /\ Carried(h)' = {t} /\ h <= carved + N
        BY <1>2, <1>5, <1>6, <3>1, <3>4
      <4> QED
        BY <3>1, <4>1 DEF OneOfFour, Single
    <3>5. CASE ~(h <= carved + N)
      BY <1>2, <1>5, <1>6, <3>1, <3>5
    <3> QED
      BY <3>2, <3>3, <3>4, <3>5
  <2> QED
    BY <2>1, <2>2
<1>8. ObjectsPlaced'
  BY <1>1, ObjectsKept
<1>9. GroupsEmpty'
  <2>1. \A h \in Groups : h \in carved + 1 .. carved + N \/ h > carved + N => h > carved
    BY <1>2
  <2>2. \A h \in Groups : h \in carved + 1 .. carved + N \/ h > carved + N => items[h] = <<>>
    BY <2>1 DEF GroupsEmpty
  <2>3. carved + 1 # NoGroup /\ items[carved + 1] = <<>> /\ \A h \in carved + 2 .. carved + N : items[h] = <<>>
    BY <1>2, <1>3, <2>2 DEF NoGroup
  <2> QED
    BY <1>1, <2>2, <2>3 DEF GroupsEmpty, PoolType
<1>10. GroupsSized'
  BY <1>1 DEF GroupsSized
<1> QED
  BY <1>4, <1>7, <1>8, <1>9, <1>10

\* ... and pushes all but one on the free stack
LEMMA StepFreePush ==
  ASSUME PoolInv, NEW t \in Threads, FreePush(t)
  PROVE  PoolInv'
<1> USE DEF PoolInv
<1>1. /\ pc[t] = "push"
      /\ UNCHANGED <<object_group_ptr, items, object_groups, made, carved, obj, used>>
  BY DEF FreePush
<1>2. ObjectsPlaced'
  BY <1>1, ObjectsKept
<1>3. CASE fresh[t] = {} /\ pc' = [pc EXCEPT ![t] = "fill"] /\ UNCHANGED <<free_groups, fresh>>
  <2>1. PoolType'
    BY <1>1, <1>3 DEF PoolType
  <2>2. GroupsPlaced'
    BY <1>1, <1>3, GroupsKept DEF Local, Owns, Carried, PoolType
  <2>3. GroupsEmpty' /\ GroupsSized'
    BY <1>1, <1>3 DEF GroupsEmpty, GroupsSized, PoolType
  <2> QED
    BY <1>2, <2>1, <2>2, <2>3
<1>4. ASSUME NEW g \in fresh[t], free_groups' = Append(free_groups, g),
             fresh' = [fresh EXCEPT ![t] = fresh[t] \ {g}], pc' = pc
      PROVE  PoolInv'
  <2> DEFINE n == Len(free_groups) + 1
  <2>1. g \in Groups /\ items[g] = <<>>
    BY DEF PoolType, GroupsEmpty
  <2>2. /\ free_groups' \in Seq(Groups) /\ Positions(free_groups', g) = Positions(free_groups, g) \cup {n}
        /\ \A h : h # g => Positions(free_groups', h) = Positions(free_groups, h)
    BY <1>4, <2>1, Pushed DEF PoolType
  <2>3. PoolType'
    BY <1>1, <1>4, <2>2 DEF PoolType
  <2>4. \A h \in Groups : Local(h)' = Local(h) /\ Carried(h)' = IF h = g THEN Carried(h) \ {t} ELSE Carried(h)
    BY <1>1, <1>4 DEF Local, Carried, Owns, PoolType
  <2>5. t \in Carried(g)
    BY DEF Carried
  <2>6. /\ g <= carved
        /\ OneOfFour(Local(g), Carried(g), Positions(object_groups, g), Positions(free_groups, g))
    BY <2>1, <2>5 DEF GroupsPlaced
  <2>7. OneOfFour(Local(g), Carried(g) \ {t}, Positions(object_groups, g), Positions(free_groups, g) \cup {n})
    BY <2>5, <2>6, GroupMoves
  <2>8. GroupsPlaced'
    BY <1>1, <2>1, <2>2, <2>4, <2>6, <2>7 DEF GroupsPlaced
  <2>9. GroupsEmpty'
    BY <1>1, <1>4 DEF GroupsEmpty, PoolType
  <2>10. GroupsSized'
    BY <1>1, <2>1, <2>2 DEF GroupsSized
  <2> QED
    BY <1>2, <2>3, <2>8, <2>9, <2>10
<1> QED
  BY <1>3, <1>4 DEF FreePush, FreshLeft, Goto

\* ~LocalObjectGroup
LEMMA StepThreadExit ==
  ASSUME PoolInv, NEW t \in Threads, ThreadExit(t)
  PROVE  PoolInv'
<1> USE DEF PoolInv
<1> DEFINE g == object_group_ptr[t]
<1>1. /\ g \in Groups /\ Owns(t, g) /\ pc[t] = "idle"
      /\ \/ free_groups' = Append(free_groups, g) /\ object_groups' = object_groups /\ items[g] = <<>>
         \/ object_groups' = Append(object_groups, g) /\ free_groups' = free_groups /\ items[g] # <<>>
      /\ object_group_ptr' = [object_group_ptr EXCEPT ![t] = NoGroup]
      /\ UNCHANGED <<items, made, carved, pc, obj, fresh, used>>
  BY DEF ThreadExit, BelongsToObjectGroups, PoolType, Owns, calls
<1>2. \A h \in Groups : Carried(h)' = Carried(h) /\ Local(h)' = (IF h = g THEN Local(h) \ {t} ELSE Local(h))
  <2>1. NoGroup \notin Groups
    BY BoundsAssumption DEF NoGroup, Groups
  <2> QED
    BY <1>1, <2>1 DEF Local, Carried, Owns, PoolType
<1>3. /\ GroupsPlaced' /\ object_groups' \in Seq(Groups) /\ free_groups' \in Seq(Groups)
      /\ \A h \in Groups : h # g =>
            /\ Positions(object_groups', h) = Positions(object_groups, h)
            /\ Positions(free_groups', h) = Positions(free_groups, h)
  BY <1>1, <1>2, GroupPushed
<1>4. PoolType'
  BY <1>1, <1>3 DEF PoolType
<1>5. ObjectsPlaced'
  BY <1>1, ObjectsKept
<1>6. GroupsEmpty'
  BY <1>1 DEF GroupsEmpty, PoolType
<1>7. GroupsSized'
  <2>1. Positions(object_groups, g) = {} /\ Positions(free_groups, g) = {}
    BY <1>1, Owned
  <2> QED
    BY <1>1, <1>3, <2>1 DEF GroupsSized
<1> QED
  BY <1>3, <1>4, <1>5, <1>6, <1>7

\* ObjectPool makes an object
LEMMA StepAcquireNew ==
  ASSUME PoolInv, NEW t \in Threads, AcquireNew(t)
  PROVE  PoolInv'
<1> USE DEF PoolInv
<1> DEFINE o == made + 1
<1>1. /\ pc[t] = "new" /\ object_group_ptr' = [object_group_ptr EXCEPT ![t] = NoGroup]
      /\ made' = made + 1 /\ used' = used \cup {o} /\ pc' = [pc EXCEPT ![t] = "idle"]
      /\ UNCHANGED <<items, object_groups, free_groups, carved, obj, fresh>>
  BY DEF AcquireNew, Goto, globals
<1>2. made \in Nat /\ o \in AnyObject /\ \A x \in AnyObject : x \in Nat
  BY DEF PoolType, AnyObject
<1>3. PoolType'
  BY <1>1, <1>2 DEF PoolType
<1>4. \A h \in Groups : Carried(h)' = Carried(h) /\ Local(h)' = Local(h)
  <2>1. NoGroup \notin Groups
    BY BoundsAssumption DEF NoGroup, Groups
  <2> QED
    BY <1>1, <2>1 DEF Local, Carried, Owns, PoolType
<1>5. GroupsPlaced'
  BY <1>1, <1>4, GroupsKept
<1>6. ObjectsPlaced'
  <2> SUFFICES ASSUME NEW x \in AnyObject
               PROVE  IF x <= made + 1 THEN OneOfThree(Returned(x)', Free(x)', Given(x)')
                      ELSE Returned(x)' = {} /\ Free(x)' = {} /\ Given(x)' = {}
    BY <1>1 DEF ObjectsPlaced
  <2>1. Returned(x)' = Returned(x) /\ Free(x)' = Free(x)
    BY <1>1 DEF Returned, Free
  <2>2. CASE x = o
    <3>1. Returned(x) = {} /\ Free(x) = {} /\ ~(x <= made) /\ x <= made + 1
      BY <1>2, <2>2 DEF ObjectsPlaced
    <3>2. Given(x)' = {x}
      BY <1>1, <2>2 DEF Given
    <3> QED
      BY <2>1, <3>1, <3>2 DEF OneOfThree, Single
  <2>3. CASE x # o
    <3>1. Given(x)' = Given(x) /\ (x <= made + 1 <=> x <= made)
      BY <1>1, <1>2, <2>3 DEF Given
    <3> QED
      BY <2>1, <3>1 DEF ObjectsPlaced
  <2> QED
    BY <2>2, <2>3
<1>7. GroupsEmpty' /\ GroupsSized'
  BY <1>1 DEF GroupsEmpty, GroupsSized, PoolType
<1> QED
  BY <1>3, <1>5, <1>6, <1>7

\* ArenaObjectPool makes K of them
LEMMA StepAcquireFill ==
  ASSUME PoolInv, NEW t \in Threads, AcquireFill(t)
  PROVE  PoolInv'
<1> USE DEF PoolInv
<1> DEFINE g == object_group_ptr[t]
           filled == [i \in 1 .. K - 1 |-> made + 1 + i]
<1>1. /\ g \in Groups /\ Owns(t, g) /\ items[g] = <<>> /\ pc[t] = "fill"
      /\ items' = [items EXCEPT ![g] = filled] /\ used' = used \cup {made + 1} /\ made' = made + K
      /\ pc' = [pc EXCEPT ![t] = "idle"]
      /\ UNCHANGED <<object_group_ptr, object_groups, free_groups, carved, obj, fresh>>
  BY DEF AcquireFill, PoolType, GroupsEmpty, Owns, Goto, globals
<1>2. made \in Nat /\ made + 1 \in AnyObject /\ K \in Nat \ {0} /\ \A x \in AnyObject : x \in Nat \ {0}
  BY SizesAssumption DEF PoolType, AnyObject
<1>3. filled \in Seq(AnyObject) /\ Len(filled) = K - 1 /\ DOMAIN filled = 1 .. K - 1
  <2>1. \A i \in 1 .. K - 1 : made + 1 + i \in AnyObject
    BY <1>2 DEF AnyObject
  <2> QED
    BY <1>2, <2>1
<1>4. /\ items' \in [Groups -> Seq(AnyObject)] /\ items'[g] = filled
      /\ \A h \in Groups \ {g} : items'[h] = items[h]
  BY <1>1, <1>3 DEF PoolType
<1>5. PoolType'
  BY <1>1, <1>2, <1>4 DEF PoolType
<1>6. GroupsPlaced'
  BY <1>1, GroupsKept DEF Local, Owns, Carried, PoolType
<1>7. ObjectsPlaced'
  <2> SUFFICES ASSUME NEW x \in AnyObject
               PROVE  IF x <= made + K THEN OneOfThree(Returned(x)', Free(x)', Given(x)')
                      ELSE Returned(x)' = {} /\ Free(x)' = {} /\ Given(x)' = {}
    BY <1>1 DEF ObjectsPlaced
  <2>1. Returned(x)' = Returned(x) /\ Given(x)' = Given(x) \cup (IF x = made + 1 THEN {x} ELSE {})
    BY <1>1 DEF Returned, Given
  <2>2. \A p : p \in Free(x)' <=>
           p \in Free(x) \/ (x \in made + 2 .. made + K /\ p = <<g, x - made - 1>>)
    <3> TAKE p
    <3>1. p \in Free(x)' <=> \E h \in Groups, i \in 1 .. K : p = <<h, i>> /\ i \in Positions(items'[h], x)
      BY DEF Free, At, Positions
    <3>2. \A i : i \in Positions(items'[g], x) <=> x \in made + 2 .. made + K /\ i = x - made - 1
      <4>1. \A i : i \in Positions(filled, x) <=> i \in 1 .. K - 1 /\ made + 1 + i = x
        BY <1>3 DEF Positions
      <4>2. \A i : i \in 1 .. K - 1 /\ made + 1 + i = x <=> x \in made + 2 .. made + K /\ i = x - made - 1
        BY <1>2
      <4> QED
        BY <1>4, <4>1, <4>2
    <3>3. Positions(items[g], x) = {}
      BY <1>1 DEF Positions
    <3>4. x \in made + 2 .. made + K => x - made - 1 \in 1 .. K
      BY <1>2
    <3>5. p \in Free(x)' => p \in Free(x) \/ (x \in made + 2 .. made + K /\ p = <<g, x - made - 1>>)
      BY <1>4, <3>1, <3>2, FreeAt
    <3>6. p \in Free(x) => p \in Free(x)'
      BY <1>4, <3>1, <3>3, FreeAt
    <3>7. x \in made + 2 .. made + K /\ p = <<g, x - made - 1>> => p \in Free(x)'
      BY <1>1, <3>1, <3>2, <3>4
    <3> QED
      BY <3>5, <3>6, <3>7
  <2>3. x > made => Returned(x) = {} /\ Free(x) = {} /\ Given(x) = {}
    BY <1>2 DEF ObjectsPlaced
  <2>4. CASE x <= made
    <3>1. x # made + 1 /\ x \notin made + 2 .. made + K /\ x <= made + K
      BY <1>2, <2>4
    <3>2. Given(x)' = Given(x) /\ Free(x)' = Free(x)
      BY <2>1, <2>2, <3>1
    <3> QED
      BY <2>1, <2>4, <3>1, <3>2 DEF ObjectsPlaced
  <2>5. CASE x = made + 1
    <3>1. x > made /\ x \notin made + 2 .. made + K /\ x <= made + K
      BY <1>2, <2>5
    <3>2. Given(x)' = {x} /\ Free(x)' = {} /\ Returned(x)' = {}
      BY <2>1, <2>2, <2>3, <2>5, <3>1
    <3> QED
      BY <3>1, <3>2 DEF OneOfThree, Single
  <2>6. CASE x \in made + 2 .. made + K
    <3>1. x > made /\ x # made + 1 /\ x <= made + K
      BY <1>2, <2>6
    <3>2. Given(x)' = {} /\ Free(x)' = {<<g, x - made - 1>>} /\ Returned(x)' = {}
      BY <2>1, <2>2, <2>3, <2>6, <3>1
    <3> QED
      BY <3>1, <3>2 DEF OneOfThree, Single
  <2>7. CASE ~(x <= made + K)
    <3>1. x > made /\ x # made + 1 /\ x \notin made + 2 .. made + K
      BY <1>2, <2>7
    <3> QED
      BY <2>1, <2>2, <2>3, <2>7, <3>1
  <2> QED
    BY <1>2, <2>4, <2>5, <2>6, <2>7
<1>8. GroupsEmpty'
  <2>1. \A u \in Threads : u # t /\ pc[u] \in {"push", "fill"} => object_group_ptr[u] # g
    BY <1>1, Owned DEF Local, Owns
  <2>2. g <= carved /\ (\A u \in Threads : g \notin fresh[u]) /\ obj[t] = NoObject
    BY <1>1, Owned DEF Carried, AcquireFill
  <2>3. ~(g > carved)
    BY <2>2, <1>1, BoundsAssumption DEF PoolType, Groups
  <2> QED
    BY <1>1, <1>4, <2>1, <2>2, <2>3 DEF GroupsEmpty, PoolType
<1>9. GroupsSized'
  <2>1. Positions(object_groups, g) = {} /\ Positions(free_groups, g) = {} /\ Len(items'[g]) <= K
    BY <1>1, <1>2, <1>3, <1>4, Owned
  <2> QED
    BY <1>1, <1>4, <2>1 DEF GroupsSized
<1> QED
  BY <1>5, <1>6, <1>7, <1>8, <1>9

\* Nothing is allocated at the start.
LEMMA PoolInvInit == Init => PoolInv
<1> SUFFICES ASSUME Init PROVE PoolInv
  OBVIOUS
<1>1. PoolType
  BY BoundsAssumption DEF Init, PoolType, NoGroup, NoObject
<1>2. GroupsPlaced
  <2>1. NoGroup \notin Groups /\ \A g \in Groups : ~(g <= 0)
    BY BoundsAssumption DEF NoGroup, Groups
  <2>2. \A g \in Groups : Local(g) = {} /\ Carried(g) = {}
    BY <2>1 DEF Init, Local, Carried, Owns
  <2>3. \A g \in Groups : Positions(object_groups, g) = {} /\ Positions(free_groups, g) = {}
    BY DEF Init, Positions
  <2>4. carved = 0
    BY DEF Init
  <2> QED
    BY <2>1, <2>2, <2>3, <2>4 DEF GroupsPlaced
<1>3. ObjectsPlaced
  <2>1. \A o \in AnyObject : ~(o <= 0) /\ o # NoObject
    BY DEF AnyObject, NoObject
  <2>2. \A o \in AnyObject : Returned(o) = {} /\ Given(o) = {}
    BY <2>1 DEF Init, Returned, Given
  <2>3. \A g \in Groups : items[g] = <<>>
    BY DEF Init
  <2>4. \A o \in AnyObject : Free(o) = {}
    BY <2>3 DEF Free, At
  <2>5. made = 0
    BY DEF Init
  <2> QED
    BY <2>1, <2>2, <2>4, <2>5 DEF ObjectsPlaced
<1>4. GroupsEmpty
  BY DEF Init, GroupsEmpty
<1>5. GroupsSized
  BY SizesAssumption DEF Init, GroupsSized, Positions
<1> QED
  BY <1>1, <1>2, <1>3, <1>4, <1>5 DEF PoolInv

\* Every step of either pool keeps the invariant.
LEMMA PoolInvNext == PoolInv /\ [PoolNext]_<<vars, kind>> => PoolInv'
<1> SUFFICES ASSUME PoolInv, [PoolNext]_<<vars, kind>> PROVE PoolInv'
  OBVIOUS
<1>1. ASSUME NEW t \in Threads, SharedStep(t) PROVE PoolInv'
  BY <1>1, StepAcquireLocal, StepAcquirePush, StepAcquirePop, StepAcquireNone, StepReleaseLocal,
     StepReleasePush, StepReleaseFirst, StepFreePop, StepFreeCarve, StepFreePush, StepReleasePut,
     StepThreadExit
     DEF SharedStep
<1>2. CASE UNCHANGED <<vars, kind>>
  <2>1. UNCHANGED <<object_group_ptr, items, object_groups, free_groups, made, carved, pc, obj, fresh, used>>
    BY <1>2 DEF vars, globals, calls
  <2>2. GroupsPlaced'
    BY <2>1, GroupsKept DEF PoolInv, Local, Owns, Carried
  <2> QED
    BY <2>1, <2>2, ObjectsKept DEF PoolInv, PoolType, GroupsEmpty, GroupsSized
<1> QED
  BY <1>1, <1>2, PoolSteps, StepAcquireNew, StepAcquireFill

\* PoolInv holds in every reachable state of both pools.
THEOREM PoolInvariant == PoolSpec => []PoolInv
<1>1. PoolInit => PoolInv
  BY PoolInvInit DEF PoolInit
<1> QED
  BY <1>1, PoolInvNext, PTL DEF PoolSpec

-----------------------------------------------------------------------------
(* What the invariant says *)

\* The places of a group, counted: the sets of GroupsPlaced, with tags
LEMMA GroupsCounted == PoolInv => GroupInOnePlace
<1> SUFFICES ASSUME PoolInv, NEW g \in Groups
             PROVE  Cardinality(GroupPlaces(g)) = IF g <= carved THEN 1 ELSE 0
  BY DEF GroupInOnePlace
<1> DEFINE A == Local(g)
           B == Carried(g)
           C == Positions(object_groups, g)
           D == Positions(free_groups, g)
<1>1. GroupPlaces(g) = {<<"local", t>> : t \in A} \cup {<<"fresh", t>> : t \in B}
                          \cup {<<"objects", i>> : i \in C} \cup {<<"free", i>> : i \in D}
  BY DEF GroupPlaces, Local, Carried, Positions
<1>2. IF g <= carved THEN OneOfFour(A, B, C, D) ELSE A = {} /\ B = {} /\ C = {} /\ D = {}
  BY DEF PoolInv, GroupsPlaced
<1> HIDE DEF A, B, C, D
<1>3. CASE g <= carved
  <2>1. \E p : GroupPlaces(g) = {p}
    <3>1. ASSUME NEW x, A = {x} /\ B = {} /\ C = {} /\ D = {}
          PROVE  GroupPlaces(g) = {<<"local", x>>}
      BY <1>1, <3>1
    <3>2. ASSUME NEW x, A = {} /\ B = {x} /\ C = {} /\ D = {}
          PROVE  GroupPlaces(g) = {<<"fresh", x>>}
      BY <1>1, <3>2
    <3>3. ASSUME NEW x, A = {} /\ B = {} /\ C = {x} /\ D = {}
          PROVE  GroupPlaces(g) = {<<"objects", x>>}
      BY <1>1, <3>3
    <3>4. ASSUME NEW x, A = {} /\ B = {} /\ C = {} /\ D = {x}
          PROVE  GroupPlaces(g) = {<<"free", x>>}
      BY <1>1, <3>4
    <3> QED
      BY <1>2, <1>3, <3>1, <3>2, <3>3, <3>4, Zenon DEF OneOfFour, Single
  <2> QED
    BY <1>3, <2>1, FS_Singleton
<1>4. CASE ~(g <= carved)
  <2>1. GroupPlaces(g) = {}
    BY <1>1, <1>2, <1>4
  <2> QED
    BY <1>4, <2>1, FS_EmptySet
<1> QED
  BY <1>3, <1>4

\* The places of an object, counted
LEMMA ObjectsCounted == PoolInv => ObjectInOnePlace
<1> SUFFICES ASSUME PoolInv, NEW o \in Objects
             PROVE  Cardinality(Returned(o)) + Cardinality(Free(o)) + (IF o \in used THEN 1 ELSE 0)
                       = IF o <= made THEN 1 ELSE 0
  BY DEF ObjectInOnePlace, Returned
<1> DEFINE A == Returned(o)
           B == Free(o)
           C == Given(o)
<1>1. o \in AnyObject
  BY BoundsAssumption DEF Objects, AnyObject
<1>2. IF o <= made THEN OneOfThree(A, B, C) ELSE A = {} /\ B = {} /\ C = {}
  BY <1>1 DEF PoolInv, ObjectsPlaced
<1>3. o \in used <=> C # {}
  BY DEF Given
<1>4. Cardinality({}) = 0 /\ \A S : Single(S) => Cardinality(S) = 1
  BY FS_EmptySet, FS_Singleton DEF Single
<1> HIDE DEF A, B, C
<1>5. (Single(A) => A # {}) /\ (Single(B) => B # {}) /\ (Single(C) => C # {})
  BY DEF Single
<1>6. CASE o <= made
  <2>1. CASE Single(A) /\ B = {} /\ C = {}
    BY <1>3, <1>4, <1>6, <2>1 DEF A, B
  <2>2. CASE A = {} /\ Single(B) /\ C = {}
    BY <1>3, <1>4, <1>6, <2>2 DEF A, B
  <2>3. CASE A = {} /\ B = {} /\ Single(C)
    BY <1>3, <1>4, <1>5, <1>6, <2>3 DEF A, B
  <2> QED
    BY <1>2, <1>6, <2>1, <2>2, <2>3 DEF OneOfThree
<1>7. CASE ~(o <= made)
  BY <1>2, <1>3, <1>4, <1>7 DEF A, B
<1> QED
  BY <1>6, <1>7

\* Every group that was allocated is in one thread's hands or once on one of
\* the global stacks, and every object that was made is with one caller or free
\* in one group, whatever the threads do and whenever they end: no group or
\* object is lost by acquire, release or ~LocalObjectGroup, and none is handed
\* out twice.
THEOREM NothingLostOrTwice == PoolSpec => []InOnePlace
<1>1. PoolInv => InOnePlace
  BY GroupsCounted, ObjectsCounted DEF InOnePlace
<1> QED
  BY <1>1, PoolInvariant, PTL

\* The assert of acquire holds for every group that it pops; a group from the
\* free stack has no objects that ReleasePut or AcquireFill would overwrite.
THEOREM PoppedGroupsSized == PoolSpec => []GroupSizes
<1>1. ASSUME PoolInv PROVE GroupSizes
  <2>1. \A g \in Groups : items[g] \in Seq(AnyObject) /\ Len(items[g]) \in Nat
    BY <1>1 DEF PoolInv, PoolType
  <2>2. \A g \in Groups : Len(items[g]) <= K
    BY <1>1 DEF PoolInv, GroupsSized
  <2>3. ASSUME NEW i \in DOMAIN object_groups
        PROVE  Len(items[object_groups[i]]) \in 1 .. K
    <3>1. object_groups[i] \in Groups /\ i \in Positions(object_groups, object_groups[i])
      BY <1>1 DEF PoolInv, PoolType, Positions
    <3>2. items[object_groups[i]] # <<>>
      BY <1>1, <3>1 DEF PoolInv, GroupsSized
    <3> QED
      BY <2>1, <2>2, <3>1, <3>2, SizesAssumption
  <2>4. ASSUME NEW i \in DOMAIN free_groups
        PROVE  items[free_groups[i]] = <<>>
    <3>1. free_groups[i] \in Groups /\ i \in Positions(free_groups, free_groups[i])
      BY <1>1 DEF PoolInv, PoolType, Positions
    <3> QED
      BY <1>1, <3>1 DEF PoolInv, GroupsSized
  <2> QED
    BY <2>2, <2>3, <2>4 DEF GroupSizes
<1> QED
  BY <1>1, PoolInvariant, PTL

-----------------------------------------------------------------------------
(* ObjectPool makes no more objects than it must *)

News == {t \in Threads : pc[t] = "new"}
Pops == {t \in Threads : pc[t] = "pop"}

\* The bound of Economy
Most == MaxWanted + (Cardinality(Threads) - 1) * K

\* The objects that callers have or wait for, and those under way
Lean ==
    /\ \A t \in Threads : pc[t] \in {"free", "push", "fill"} => obj[t] # NoObject
    /\ Cardinality(used) + Cardinality(News) + Cardinality(Pops) <= MaxWanted
    /\ made + Cardinality(News) <= Most

\* The sets that are counted are finite.
LEMMA Countable ==
  ASSUME PoolInv
  PROVE  /\ used \subseteq 1 .. made
         /\ IsFiniteSet(used) /\ IsFiniteSet(News) /\ IsFiniteSet(Pops) /\ IsFiniteSet(1 .. made)
         /\ Cardinality(used) \in Nat /\ Cardinality(News) \in Nat /\ Cardinality(Pops) \in Nat
         /\ Cardinality(1 .. made) = made /\ made \in Nat /\ MaxWanted \in Nat /\ Most \in Int
<1>1. made \in Nat /\ MaxWanted \in Nat /\ used \subseteq AnyObject
  BY BoundsAssumption DEF PoolInv, PoolType
<1>2. used \subseteq 1 .. made
  <2> SUFFICES ASSUME NEW o \in used PROVE o \in 1 .. made
    OBVIOUS
  <2>1. o \in AnyObject /\ Given(o) # {}
    BY <1>1 DEF Given
  <2>2. o <= made
    BY <2>1 DEF PoolInv, ObjectsPlaced
  <2> QED
    BY <1>1, <2>1, <2>2 DEF AnyObject
<1>3. IsFiniteSet(1 .. made) /\ Cardinality(1 .. made) = made
  BY <1>1, FS_Interval
<1>4. IsFiniteSet(used) /\ IsFiniteSet(News) /\ IsFiniteSet(Pops)
  BY <1>2, <1>3, ThreadsAssumption, FS_Subset DEF News, Pops
<1>5. Most \in Int
  <2>1. Cardinality(Threads) \in Nat
    BY ThreadsAssumption, FS_CardinalityType
  <2> QED
    BY <1>1, <2>1, SizesAssumption DEF Most
<1> QED
  BY <1>1, <1>2, <1>3, <1>4, <1>5, FS_CardinalityType

\* A caller of ObjectPool that waits for a group has brought an object.
LEMMA Counted ==
  ASSUME PoolInv, Lean
  PROVE  Wanted = Cardinality(used) + Cardinality(News) + Cardinality(Pops)
<1>1. Making = News
  BY DEF Making, News, Lean, PoolInv, GroupsEmpty
<1> QED
  BY <1>1 DEF Wanted, Pops

\* An object that is nobody's is in a release of another thread, or in the
\* group of another thread, when acquire has none and the global stack is empty.
LEMMA FreeElsewhere ==
  ASSUME PoolInv, NEW t \in Threads, Popping(t), object_groups = <<>>, NEW o \in (1 .. made) \ used
  PROVE  \E u \in Threads \ {t}, i \in 1 .. K :
            o = IF pc[u] = "idle" THEN items[object_group_ptr[u]][i] ELSE obj[u]
<1> USE DEF PoolInv
<1>1. o \in AnyObject /\ o # NoObject /\ o <= made
  BY DEF AnyObject, PoolType, NoObject
<1>2. pc[t] \in {"idle", "pop"} /\ (pc[t] = "idle" => object_group_ptr[t] = NoGroup)
  BY DEF Popping, Starts
<1>3. Given(o) = {}
  BY DEF Given
<1>4. OneOfThree(Returned(o), Free(o), Given(o))
  BY <1>1 DEF ObjectsPlaced
<1>5. CASE Returned(o) # {}
  <2>1. PICK u \in Threads : obj[u] = o
    BY <1>5 DEF Returned
  <2>2. pc[u] \in {"free", "push", "fill"}
    BY <1>1, <2>1 DEF GroupsEmpty
  <2>3. 1 \in 1 .. K /\ u # t /\ pc[u] # "idle"
    BY <1>2, <2>2, SizesAssumption
  <2> QED
    BY <2>1, <2>3
<1>6. CASE Free(o) # {}
  <2>1. PICK g \in Groups, i \in 1 .. K : i \in Positions(items[g], o)
    BY <1>6, FreeAt
  <2>2. items[g] # <<>> /\ items[g][i] = o
    BY <2>1 DEF Positions
  <2>3. g <= carved
    <3>1. g \in Nat /\ carved \in Nat
      BY BoundsAssumption DEF PoolType, Groups
    <3> QED
      BY <2>2, <3>1 DEF GroupsEmpty
  <2>4. Positions(free_groups, g) = {} /\ Positions(object_groups, g) = {} /\ Carried(g) = {}
    BY <2>2 DEF GroupsSized, GroupsEmpty, Carried, Positions
  <2>5. Single(Local(g))
    BY <2>3, <2>4 DEF GroupsPlaced, OneOfFour, Single
  <2>6. PICK u \in Threads : Owns(u, g)
    BY <2>5 DEF Single, Local
  <2>7. pc[u] = "idle" /\ object_group_ptr[u] = g
    BY <2>2, <2>6 DEF Owns, GroupsEmpty
  <2>8. u # t
    <3>1. NoGroup \notin Groups
      BY BoundsAssumption DEF NoGroup, Groups
    <3> QED
      BY <1>2, <2>7, <3>1
  <2> QED
    BY <2>2, <2>7, <2>8
<1> QED
  BY <1>3, <1>4, <1>5, <1>6 DEF OneOfThree, Single

\* So there are at most K of them for every other thread.
LEMMA FreeBounded ==
  ASSUME PoolInv, NEW t \in Threads, Popping(t), object_groups = <<>>
  PROVE  made - Cardinality(used) <= (Cardinality(Threads) - 1) * K
<1> DEFINE T == (1 .. made) \ used
           P == (Threads \ {t}) \X (1 .. K)
           At1(p) == IF pc[p[1]] = "idle" THEN items[object_group_ptr[p[1]]][p[2]] ELSE obj[p[1]]
           S == {p \in P : At1(p) \in T}
           f == [p \in S |-> At1(p)]
<1>1. IsFiniteSet(T) /\ Cardinality(T) = made - Cardinality(used)
  <2>1. /\ used \subseteq 1 .. made /\ IsFiniteSet(1 .. made) /\ Cardinality(1 .. made) = made
        /\ IsFiniteSet(T) /\ Cardinality(T) = Cardinality(1 .. made) - Cardinality((1 .. made) \cap used)
    BY Countable, FS_Difference
  <2>2. (1 .. made) \cap used = used
    BY <2>1
  <2> QED
    BY <2>1, <2>2
<1>2. IsFiniteSet(P) /\ Cardinality(P) = (Cardinality(Threads) - 1) * K
  <2>1. IsFiniteSet(Threads \ {t}) /\ Cardinality(Threads \ {t}) = Cardinality(Threads) - 1
    BY ThreadsAssumption, FS_RemoveElement
  <2>2. IsFiniteSet(1 .. K) /\ Cardinality(1 .. K) = K
    BY SizesAssumption, FS_Interval
  <2>3. IsFiniteSet(P) /\ Cardinality(P) = Cardinality(Threads \ {t}) * Cardinality(1 .. K)
    BY <2>1, <2>2, FS_Product, Zenon
  <2> QED
    BY <2>1, <2>2, <2>3, Zenon
<1>3. f \in Surjection(S, T)
  <2>1. f \in [S -> T]
    OBVIOUS
  <2>2. ASSUME NEW o \in T PROVE \E p \in S : f[p] = o
    <3>1. PICK u \in Threads \ {t}, i \in 1 .. K :
             o = IF pc[u] = "idle" THEN items[object_group_ptr[u]][i] ELSE obj[u]
      BY FreeElsewhere
    <3>2. <<u, i>> \in P /\ At1(<<u, i>>) = o
      BY <3>1
    <3> QED
      BY <3>2
  <2> QED
    BY <2>1, <2>2 DEF Surjection
<1> HIDE DEF T, P, S, f
<1>4. IsFiniteSet(S) /\ Cardinality(S) <= Cardinality(P)
  <2>1. S \in SUBSET P
    BY DEF S
  <2> QED
    BY <1>2, <2>1, FS_Subset
<1>5. Cardinality(T) <= Cardinality(S)
  BY <1>3, <1>4, FS_Surjection
<1>6. Cardinality(T) \in Nat /\ Cardinality(S) \in Nat /\ Cardinality(P) \in Nat
  BY <1>1, <1>2, <1>4, FS_CardinalityType
<1>7. Cardinality(T) <= Cardinality(P)
  BY <1>4, <1>5, <1>6
<1> QED
  BY <1>1, <1>2, <1>7

\* One element more
LEMMA OneMore ==
  ASSUME NEW S, IsFiniteSet(S), NEW x
  PROVE  Cardinality(S \cup {x}) \in Nat /\ Cardinality(S \cup {x}) <= Cardinality(S) + 1
<1>1. IsFiniteSet(S \cup {x}) /\ Cardinality(S \cup {x}) = IF x \in S THEN Cardinality(S) ELSE Cardinality(S) + 1
  BY FS_AddElement
<1>2. Cardinality(S) \in Nat /\ Cardinality(S \cup {x}) \in Nat
  BY <1>1, FS_CardinalityType
<1> QED
  BY <1>1, <1>2

\* A step that neither makes an object nor wants one more
LEMMA LeanKept ==
  ASSUME PoolInv, Lean, made' = made, News' = News, Pops' = Pops, used' \subseteq used,
         \A t \in Threads : pc'[t] \in {"free", "push", "fill"} => obj'[t] # NoObject
  PROVE  Lean'
<1>1. Cardinality(used') <= Cardinality(used) /\ Cardinality(used') \in Nat
  BY Countable, FS_Subset, FS_CardinalityType
<1>2. Cardinality(used') + Cardinality(News) + Cardinality(Pops) <= MaxWanted
  BY <1>1, Countable DEF Lean
<1> QED
  BY <1>2 DEF Lean, Most

\* acquire takes an object that is there.
LEMMA LeanTaken ==
  ASSUME PoolInv, Lean, NEW t \in Threads, NEW o, made' = made, News' = News, used' = used \cup {o},
         \/ pc[t] = "pop" /\ Pops' = Pops \ {t}
         \/ Starts(t) /\ Pops' = Pops,
         \A u \in Threads : pc'[u] \in {"free", "push", "fill"} => obj'[u] # NoObject
  PROVE  Lean'
<1>1. Cardinality(used') \in Nat /\ Cardinality(used') <= Cardinality(used) + 1
  BY Countable, OneMore
<1>2. CASE pc[t] = "pop" /\ Pops' = Pops \ {t}
  <2>1. Cardinality(Pops') = Cardinality(Pops) - 1
    <3>1. t \in Pops
      BY <1>2 DEF Pops
    <3> QED
      BY <1>2, <3>1, Countable, FS_RemoveElement
  <2>2. Cardinality(used') + Cardinality(News) + Cardinality(Pops') <= MaxWanted
    BY <1>1, <2>1, Countable DEF Lean
  <2> QED
    BY <2>2 DEF Lean, Most
<1>3. CASE Starts(t) /\ Pops' = Pops
  <2>1. Cardinality(used) + Cardinality(News) + Cardinality(Pops) < MaxWanted
    BY <1>3, Counted DEF Starts
  <2>2. Cardinality(used') + Cardinality(News) + Cardinality(Pops) <= MaxWanted
    BY <1>1, <2>1, Countable
  <2> QED
    BY <1>3, <2>2 DEF Lean, Most
<1> QED
  BY <1>2, <1>3

\* acquire finds none: the only step after which an object is made
LEMMA LeanNone ==
  ASSUME PoolInv, Lean, NEW t \in Threads, AcquireNone(t, 1, "new")
  PROVE  Lean'
<1>1. /\ Popping(t) /\ object_groups = <<>> /\ pc' = [pc EXCEPT ![t] = "new"]
      /\ UNCHANGED <<obj, made, used>>
  BY DEF AcquireNone, NoneLeft, Goto
<1>2. News' = News \cup {t} /\ Pops' = Pops \ {t} /\ t \notin News
  BY <1>1 DEF News, Pops, PoolInv, PoolType, Popping, Starts
<1>3. Cardinality(News') = Cardinality(News) + 1
  BY <1>2, Countable, FS_AddElement
<1>4. Cardinality(Pops') = IF t \in Pops THEN Cardinality(Pops) - 1 ELSE Cardinality(Pops)
  BY <1>2, Countable, FS_RemoveElement
<1>5. /\ Cardinality(used) + Cardinality(News) + 1 + Cardinality(Pops') <= MaxWanted
      /\ Cardinality(Pops') \in Nat
  <2>1. CASE pc[t] = "pop"
    <3>1. t \in Pops
      BY <2>1 DEF Pops
    <3>2. Cardinality(Pops) # 0
      BY <3>1, Countable, FS_EmptySet
    <3> QED
      BY <1>4, <3>1, <3>2, Countable DEF Lean
  <2>2. CASE Starts(t)
    <3>1. Cardinality(used) + Cardinality(News) + Cardinality(Pops) < MaxWanted /\ t \notin Pops
      BY <2>2, Counted DEF Starts, Pops
    <3> QED
      BY <1>4, <3>1, Countable
  <2> QED
    BY <1>1, <2>1, <2>2 DEF Popping
<1>6. made - Cardinality(used) <= (Cardinality(Threads) - 1) * K
  BY <1>1, FreeBounded
<1>7. made + Cardinality(News') <= Most
  <2> DEFINE c == (Cardinality(Threads) - 1) * K
  <2>1. c \in Int
    BY ThreadsAssumption, FS_CardinalityType, SizesAssumption
  <2>2. Most = MaxWanted + c
    BY DEF Most
  <2>3. made - Cardinality(used) <= c
    BY <1>6
  <2> HIDE DEF c
  <2> QED
    BY <1>3, <1>5, <2>1, <2>2, <2>3, Countable
<1>8. \A u \in Threads : pc'[u] \in {"free", "push", "fill"} => obj'[u] # NoObject
  BY <1>1 DEF Lean, PoolInv, PoolType
<1>9. Cardinality(used') + Cardinality(News') + Cardinality(Pops') <= MaxWanted
  BY <1>1, <1>3, <1>5, Countable
<1>10. made' + Cardinality(News') <= Most'
  BY <1>1, <1>7 DEF Most
<1> QED
  BY <1>8, <1>9, <1>10 DEF Lean

\* T::NewThis
LEMMA LeanNew ==
  ASSUME PoolInv, Lean, NEW t \in Threads, AcquireNew(t)
  PROVE  Lean'
<1>1. /\ pc[t] = "new" /\ made' = made + 1 /\ used' = used \cup {made + 1} /\ obj' = obj
      /\ pc' = [pc EXCEPT ![t] = "idle"]
  BY DEF AcquireNew, Goto
<1>2. News' = News \ {t} /\ Pops' = Pops /\ t \in News
  BY <1>1 DEF News, Pops, PoolInv, PoolType
<1>3. Cardinality(News') = Cardinality(News) - 1
  BY <1>2, Countable, FS_RemoveElement
<1>4. Cardinality(used') \in Nat /\ Cardinality(used') <= Cardinality(used) + 1
  BY <1>1, Countable, OneMore
<1>5. Cardinality(used') + Cardinality(News') + Cardinality(Pops') <= MaxWanted
  BY <1>2, <1>3, <1>4, Countable DEF Lean
<1>6. made' + Cardinality(News') <= Most'
  <2>1. made' + Cardinality(News') <= Most
    BY <1>1, <1>3, Countable DEF Lean
  <2> QED
    BY <2>1 DEF Most
<1>7. \A u \in Threads : pc'[u] \in {"free", "push", "fill"} => obj'[u] # NoObject
  BY <1>1 DEF Lean, PoolInv, PoolType
<1> QED
  BY <1>5, <1>6, <1>7 DEF Lean

\* The other steps of acquire
LEMMA LeanAcquire ==
  ASSUME PoolInv, Lean, NEW t \in Threads, AcquireLocal(t) \/ AcquirePush(t) \/ AcquirePop(t)
  PROVE  Lean'
<1>1. CASE AcquireLocal(t)
  <2>1. /\ Starts(t) /\ UNCHANGED <<made, pc, obj>>
        /\ used' = used \cup {Top(items[object_group_ptr[t]])}
    BY <1>1 DEF AcquireLocal, calls
  <2>2. News' = News /\ Pops' = Pops
    BY <2>1 DEF News, Pops
  <2> QED
    BY <2>1, <2>2, LeanTaken DEF Lean
<1>2. CASE AcquirePush(t)
  <2>1. Starts(t) /\ UNCHANGED <<made, obj, used>> /\ pc' = [pc EXCEPT ![t] = "pop"]
    BY <1>2 DEF AcquirePush, Goto
  <2>2. News' = News /\ Pops' = Pops \cup {t}
    BY <2>1 DEF News, Pops, PoolInv, PoolType, Starts
  <2>3. Cardinality(Pops') <= Cardinality(Pops) + 1 /\ Cardinality(Pops') \in Nat
    BY <2>2, Countable, OneMore
  <2>4. Cardinality(used) + Cardinality(News) + Cardinality(Pops) < MaxWanted
    BY <2>1, Counted DEF Starts
  <2>5. Cardinality(used) + Cardinality(News) + Cardinality(Pops') <= MaxWanted
    BY <2>3, <2>4, Countable
  <2>6. \A u \in Threads : pc'[u] \in {"free", "push", "fill"} => obj'[u] # NoObject
    BY <2>1 DEF Lean, PoolInv, PoolType
  <2> QED
    BY <2>1, <2>2, <2>5, <2>6 DEF Lean, Most
<1>3. CASE AcquirePop(t)
  <2>1. /\ Popping(t) /\ UNCHANGED <<made, obj>> /\ pc' = [pc EXCEPT ![t] = "idle"]
        /\ used' = used \cup {Top(items[Top(object_groups)])}
    BY <1>3 DEF AcquirePop, Goto
  <2>2. /\ News' = News
        /\ \/ pc[t] = "pop" /\ Pops' = Pops \ {t}
           \/ Starts(t) /\ Pops' = Pops
    BY <2>1 DEF News, Pops, PoolInv, PoolType, Popping, Starts
  <2>3. \A u \in Threads : pc'[u] \in {"free", "push", "fill"} => obj'[u] # NoObject
    BY <2>1 DEF Lean, PoolInv, PoolType
  <2> QED
    BY <2>1, <2>2, <2>3, LeanTaken
<1> QED
  BY <1>1, <1>2, <1>3

\* release, and the end of a thread
LEMMA LeanRelease ==
  ASSUME PoolInv, Lean, NEW t \in Threads, Release(t) \/ ThreadExit(t)
  PROVE  Lean'
<1>1. ASSUME NEW o \in used, ReleaseLocal(t, o) PROVE Lean'
  <2>1. used' = used \ {o} /\ UNCHANGED <<made, pc, obj>>
    BY <1>1 DEF ReleaseLocal, calls
  <2> QED
    BY <2>1, LeanKept DEF News, Pops, Lean
<1>2. ASSUME NEW o \in used, ReleasePush(t, o) \/ ReleaseFirst(t, o) PROVE Lean'
  <2>1. /\ pc[t] = "idle" /\ used' = used \ {o} /\ obj' = [obj EXCEPT ![t] = o]
        /\ pc' = [pc EXCEPT ![t] = "free"] /\ made' = made
    BY <1>2 DEF ReleasePush, ReleaseFirst, Goto
  <2>2. o # NoObject
    BY DEF PoolInv, PoolType, AnyObject, NoObject
  <2>3. News' = News /\ Pops' = Pops
    BY <2>1 DEF News, Pops, PoolInv, PoolType
  <2>4. \A u \in Threads : pc'[u] \in {"free", "push", "fill"} => obj'[u] # NoObject
    BY <2>1, <2>2 DEF Lean, PoolInv, PoolType
  <2> QED
    BY <2>1, <2>3, <2>4, LeanKept
<1>3. CASE FreePop(t) \/ FreeCarve(t) \/ FreePush(t) \/ ThreadExit(t)
  <2>1. /\ UNCHANGED <<made, obj, used>>
        /\ \/ pc' = pc
           \/ pc[t] \in {"free", "push"} /\ \E l \in {"push", "fill"} : pc' = [pc EXCEPT ![t] = l]
    BY <1>3 DEF FreePop, FreeCarve, FreePush, ThreadExit, Goto, calls
  <2>2. News' = News /\ Pops' = Pops
    BY <2>1 DEF News, Pops, PoolInv, PoolType
  <2>3. \A u \in Threads : pc'[u] \in {"free", "push", "fill"} => obj'[u] # NoObject
    BY <2>1 DEF Lean, PoolInv, PoolType
  <2> QED
    BY <2>1, <2>2, <2>3, LeanKept
<1>4. CASE ReleasePut(t)
  <2>1. /\ pc[t] = "fill" /\ obj' = [obj EXCEPT ![t] = NoObject] /\ pc' = [pc EXCEPT ![t] = "idle"]
        /\ UNCHANGED <<made, used>>
    BY <1>4 DEF ReleasePut, Goto
  <2>2. News' = News /\ Pops' = Pops
    BY <2>1 DEF News, Pops, PoolInv, PoolType
  <2>3. \A u \in Threads : pc'[u] \in {"free", "push", "fill"} => obj'[u] # NoObject
    BY <2>1 DEF Lean, PoolInv, PoolType
  <2> QED
    BY <2>1, <2>2, <2>3, LeanKept
<1> QED
  BY <1>1, <1>2, <1>3, <1>4 DEF Release

\* ObjectPool makes an object only when there is none free in the thread's
\* group or in any group of the global stack: there are never more than callers
\* want at the same time, and a group full for every other thread.
THEOREM NoMoreThanNeeded == PoolSpec => []PoolEconomy
<1> DEFINE Inv == kind = "object" => Lean
<1>1. PoolInit => Inv
  <2> SUFFICES ASSUME Init PROVE Lean
    BY DEF PoolInit
  <2>1. used = {} /\ News = {} /\ Pops = {} /\ made = 0
    BY DEF Init, News, Pops
  <2>2. Cardinality(Threads) \in Nat \ {0}
    BY ThreadsAssumption, FS_EmptySet, FS_CardinalityType
  <2>3. (Cardinality(Threads) - 1) * K >= 0
    BY <2>2, SizesAssumption
  <2>4. Cardinality({}) = 0
    BY FS_EmptySet
  <2>5. \A t \in Threads : pc[t] = "idle"
    BY DEF Init
  <2>6. (Cardinality(Threads) - 1) * K \in Int
    BY <2>2, SizesAssumption
  <2> QED
    BY <2>1, <2>3, <2>4, <2>5, <2>6, BoundsAssumption DEF Lean, Most
<1>2. PoolInv /\ Inv /\ [PoolNext]_<<vars, kind>> => Inv'
  <2> SUFFICES ASSUME PoolInv, Inv, [PoolNext]_<<vars, kind>>, kind' = "object" PROVE Lean'
    OBVIOUS
  <2>1. kind = "object" /\ Lean
    BY DEF PoolNext
  <2>2. CASE Next
    BY <2>1, <2>2, LeanAcquire, LeanNone, LeanNew, LeanRelease DEF Next, Acquire
  <2>3. CASE UNCHANGED <<vars, kind>>
    BY <2>1, <2>3, LeanKept DEF vars, calls, News, Pops, Lean
  <2> QED
    BY <2>1, <2>2, <2>3 DEF PoolNext
<1>3. PoolInv /\ Inv => PoolEconomy
  <2> SUFFICES ASSUME PoolInv, Lean PROVE made <= Most
    BY DEF PoolEconomy, Economy, Most
  <2> QED
    BY Countable DEF Lean
<1> QED
  BY <1>1, <1>2, <1>3, PoolInvariant, PTL DEF PoolSpec
=============================================================================
