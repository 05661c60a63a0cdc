------------------------- MODULE ObjectArenaProofs -------------------------
(***************************************************************************)
(* ObjectArena for any number of threads, any block and group size: a slot *)
(* is given once, find inverts every id that acquire answers, and groups   *)
(* are filled before the next one is added.                                *)
(***************************************************************************)
EXTENDS ObjectArena, FiniteSetTheorems, TLAPS

Slots == 0 .. N - 1
InGroupOf(t) == pc[t] \in {"add", "store", "sub", "group"}

\* The slots of group g that hold a block, the threads that have one of its
\* slots or have pushed its counter past the end, and the latter alone.
Filled(g) == {b \in Slots : block_list[g][b] # NoBlock}
Busy(g) == {t \in Threads : pc[t] \in {"store", "sub"} /\ loc[t].group = g}
Past(g) == {t \in Threads : pc[t] = "sub" /\ loc[t].group = g}

ArenaType ==
    /\ group_size \in GroupNumbers
    /\ block_size \in [GroupNumbers -> Nat]
    /\ block_list \in [GroupNumbers -> [Slots -> Nat]]
    /\ blocks \in Nat
    /\ pc \in [Threads -> {"idle", "load", "add", "store", "sub", "group"}]
    /\ loc \in [Threads -> [block : Nat, group : Nat, slot : Nat]]
    /\ failed \in BOOLEAN

\* What the locals of add_block say: a thread that gave up a group, or is about
\* to, has found it full.
ThreadsKnow ==
    \A t \in Threads :
        /\ pc[t] # "idle" => loc[t].block # NoBlock
        /\ InGroupOf(t) => loc[t].group \in 1 .. group_size
        /\ pc[t] = "store" => loc[t].slot \in Slots
        /\ pc[t] \in {"sub", "group"} => block_size[loc[t].group] >= N

\* The slots below the counter are those that were given: each one is filled,
\* or its one thread is about to fill it.
SlotsTaken ==
    /\ \A t \in Threads : pc[t] = "store" =>
          /\ loc[t].slot < block_size[loc[t].group]
          /\ block_list[loc[t].group][loc[t].slot] = NoBlock
          /\ \A u \in Threads : pc[u] = "store" /\ loc[u].group = loc[t].group
                                   /\ loc[u].slot = loc[t].slot => u = t
    /\ \A g \in GroupNumbers : \A b \in Slots : block_list[g][b] # NoBlock => b < block_size[g]

\* The counter of a group: what it counts, and how far it is past the end.
Counted ==
    \A g \in GroupNumbers :
        /\ block_size[g] = Cardinality(Filled(g)) + Cardinality(Busy(g))
        /\ Cardinality(Past(g)) = IF block_size[g] <= N THEN 0 ELSE block_size[g] - N

\* An id that was answered names a slot that holds its block.
GivenKept ==
    \A a \in given : \E g \in GroupNumbers, b \in Slots :
        a[1] = Id(g, b) /\ a[2] = block_list[g][b] /\ a[2] # NoBlock

\* The inductive invariant of the arena.
ArenaInv == ArenaType /\ ThreadsKnow /\ SlotsTaken /\ Counted /\ GivenKept /\ NoWaste

-----------------------------------------------------------------------------
(* Arithmetic of ids *)

\* Quotient and remainder of a number put together with +.
LEMMA DivMod ==
  ASSUME NEW m \in Nat \ {0}, NEW q \in Nat, NEW r \in 0 .. m - 1
  PROVE  (q * m + r) \div m = q /\ (q * m + r) % m = r
OBVIOUS

\* The id of an item, with a version above it or not, is the number of the item:
\* the mask takes the version away and nothing else.
LEMMA MaskedItem ==
  ASSUME NEW g \in GroupNumbers, NEW b \in Slots, NEW i \in Slots, NEW version \in Nat
  PROVE  Masked(version * 2 ^ BITS + Id(g, b) + i) = (g * N + b) * N + i
<1> DEFINE w == 2 ^ BITS
           x == (g * N + b) * N + i
<1>1. /\ N \in Nat \ {0} /\ NG \in Nat \ {0} /\ g \in Nat /\ g <= NG /\ b \in Nat /\ b <= N - 1
      /\ i \in Nat /\ i <= N - 1
  BY WidthAssumption DEF GroupNumbers, Slots
<1> HIDE DEF w
<1>2. w = 2 * NG * N * N
  BY WidthAssumption DEF w
<1>3. g * N + b \in Nat /\ g * N + b + 1 <= (NG + 1) * N
  <2>1. g * N \in Nat /\ NG * N \in Nat /\ g * N <= NG * N /\ (NG + 1) * N = NG * N + N
    BY <1>1
  <2> QED
    BY <1>1, <2>1
<1>4. x \in Nat /\ x + 1 <= (NG + 1) * N * N
  <2> DEFINE y == g * N + b
             z == (NG + 1) * N
  <2>1. y \in Nat /\ z \in Nat /\ y + 1 <= z
    BY <1>1, <1>3
  <2> HIDE DEF y, z
  <2>2. y * N \in Nat /\ (y + 1) * N <= z * N /\ (y + 1) * N = y * N + N /\ z * N \in Nat
    BY <1>1, <2>1
  <2>3. y * N + i \in Nat /\ y * N + i + 1 <= z * N
    BY <1>1, <2>2
  <2> QED
    BY <2>3 DEF y, z
<1>5. (NG + 1) * N * N <= w
  <2>1. N * N \in Nat /\ NG + 1 <= 2 * NG
    BY <1>1
  <2>2. (NG + 1) * (N * N) <= (2 * NG) * (N * N)
    BY <1>1, <2>1
  <2> QED
    BY <1>1, <1>2, <2>2
<1>6. w \in Nat \ {0} /\ x \in 0 .. w - 1
  <2>1. (NG + 1) * N * N \in Nat /\ w \in Nat
    BY <1>1, <1>2
  <2> HIDE DEF x
  <2> QED
    BY <1>4, <1>5, <2>1
<1>7. (version * w + x) % w = x
  <2> HIDE DEF x
  <2> QED
    BY <1>6, DivMod
<1>8. version * w + Id(g, b) + i = version * w + x
  <2>1. version * w \in Nat /\ (g * N + b) * N \in Nat
    BY <1>1, <1>3, <1>6
  <2> QED
    BY <1>1, <2>1 DEF Id
<1> QED
  BY <1>7, <1>8 DEF Masked, w

\* find computes the block and the item that acquire's id stands for.
LEMMA FindItem ==
  ASSUME NEW g \in GroupNumbers, NEW b \in Slots, NEW i \in Slots, NEW version \in Nat
  PROVE  /\ Find(version * 2 ^ BITS + Id(g, b) + i) = [block |-> block_list[g][b], item |-> i]
         /\ Id(g, b) # 0
<1>1. /\ N \in Nat \ {0} /\ g \in Nat \ {0} /\ b \in 0 .. N - 1 /\ i \in 0 .. N - 1
  BY WidthAssumption DEF GroupNumbers, Slots
<1>2. Masked(version * 2 ^ BITS + Id(g, b) + i) = (g * N + b) * N + i
  BY MaskedItem
<1>3. g * N + b \in Nat /\ g * N + b # 0
  <2>1. g * N \in Nat /\ g * N >= N
    BY <1>1
  <2> QED
    BY <1>1, <2>1
<1>4. ((g * N + b) * N + i) \div N = g * N + b /\ ((g * N + b) * N + i) % N = i
  BY <1>1, <1>3, DivMod
<1>5. (g * N + b) \div N = g /\ (g * N + b) % N = b
  BY <1>1, DivMod
<1>6. (g - 1) + 1 = g
  BY <1>1
<1>7. Id(g, b) # 0
  BY <1>1, <1>3 DEF Id
<1> QED
  BY <1>2, <1>4, <1>5, <1>6, <1>7 DEF Find

-----------------------------------------------------------------------------
(* The steps *)

\* Everything that is counted is finite.
LEMMA CountsFinite ==
  \A g \in GroupNumbers :
     /\ IsFiniteSet(Filled(g)) /\ Cardinality(Filled(g)) \in Nat
     /\ IsFiniteSet(Busy(g)) /\ Cardinality(Busy(g)) \in Nat
     /\ IsFiniteSet(Past(g)) /\ Cardinality(Past(g)) \in Nat
<1> SUFFICES ASSUME NEW g \in GroupNumbers
             PROVE  /\ IsFiniteSet(Filled(g)) /\ Cardinality(Filled(g)) \in Nat
                    /\ IsFiniteSet(Busy(g)) /\ Cardinality(Busy(g)) \in Nat
                    /\ IsFiniteSet(Past(g)) /\ Cardinality(Past(g)) \in Nat
  OBVIOUS
<1>1. IsFiniteSet(Slots)
  BY FS_Interval, WidthAssumption DEF Slots
<1>2. Filled(g) \in SUBSET Slots /\ Busy(g) \in SUBSET Threads /\ Past(g) \in SUBSET Threads
  BY DEF Filled, Busy, Past
<1>3. IsFiniteSet(Filled(g)) /\ IsFiniteSet(Busy(g)) /\ IsFiniteSet(Past(g))
  BY <1>1, <1>2, FS_Subset, ThreadsAssumption
<1> QED
  BY <1>3, FS_CardinalityType

\* A step that only moves a thread between labels at which it has no slot.
LEMMA CountedKept ==
  ASSUME Counted, UNCHANGED <<block_size, block_list>>, NEW t \in Threads,
         pc[t] \notin {"store", "sub"}, pc'[t] \notin {"store", "sub"},
         \A u \in Threads \ {t} : pc'[u] = pc[u] /\ loc'[u] = loc[u]
  PROVE  Counted'
<1>1. \A g \in GroupNumbers :
         Filled(g)' = Filled(g) /\ Busy(g)' = Busy(g) /\ Past(g)' = Past(g)
  BY DEF Filled, Busy, Past
<1> QED
  BY <1>1 DEF Counted

\* The group that a thread works on is one of those that were added.
LEMMA GroupAdded ==
  ASSUME ArenaType, ThreadsKnow
  PROVE  /\ group_size \in Nat /\ 1 <= group_size /\ group_size <= NG
         /\ \A t \in Threads : InGroupOf(t) => loc[t].group \in GroupNumbers /\ loc[t].group <= group_size
<1>1. NG \in Nat
  BY WidthAssumption
<1>2. group_size \in Nat /\ 1 <= group_size /\ group_size <= NG
  BY <1>1 DEF ArenaType, GroupNumbers
<1>3. \A t \in Threads : InGroupOf(t) => loc[t].group \in 1 .. group_size
  BY DEF ThreadsKnow
<1> QED
  BY <1>1, <1>2, <1>3 DEF GroupNumbers

\* The arena as the constructor leaves it
LEMMA ArenaInit == Init => ArenaInv
<1> SUFFICES ASSUME Init PROVE ArenaInv
  OBVIOUS
<1>1. N \in Nat \ {0} /\ NG \in Nat \ {0}
  BY WidthAssumption
<1>2. ArenaType
  <2>1. 1 \in GroupNumbers
    BY <1>1 DEF GroupNumbers
  <2> QED
    BY <2>1 DEF Init, ArenaType, Slots, NoBlock
<1>3. ThreadsKnow /\ SlotsTaken /\ GivenKept /\ NoWaste
  BY <1>1 DEF Init, ThreadsKnow, InGroupOf, SlotsTaken, GivenKept, NoWaste, GroupNumbers, Slots, NoBlock
<1>4. Counted
  <2>1. \A g \in GroupNumbers : Filled(g) = {} /\ Busy(g) = {} /\ Past(g) = {}
    BY DEF Init, Filled, Busy, Past, Slots
  <2>2. \A g \in GroupNumbers : block_size[g] = 0
    BY DEF Init
  <2> QED
    BY <1>1, <2>1, <2>2, FS_EmptySet DEF Counted
<1> QED
  BY <1>2, <1>3, <1>4 DEF ArenaInv

\* new ObjectBlock, and the load of group_size_
LEMMA StepBegin ==
  ASSUME ArenaInv, NEW t \in Threads, NewBlock(t) \/ LoadGroup(t)
  PROVE  ArenaInv'
<1> USE DEF ArenaInv
<1>1. /\ UNCHANGED <<group_size, block_size, block_list, given, failed>>
      /\ pc[t] \in {"idle", "load"} /\ pc'[t] \in {"load", "add"} /\ loc'[t].block # NoBlock
      /\ pc'[t] = "add" => loc'[t].group = group_size
      /\ \A u \in Threads \ {t} : pc'[u] = pc[u] /\ loc'[u] = loc[u]
  <2>1. CASE NewBlock(t)
    BY <2>1 DEF NewBlock, Goto, ArenaType, NoBlock
  <2>2. CASE LoadGroup(t)
    BY <2>2 DEF LoadGroup, Goto, ArenaType, ThreadsKnow
  <2> QED
    BY <2>1, <2>2
<1>2. ArenaType'
  <2>1. group_size \in Nat /\ loc[t] \in [block : Nat, group : Nat, slot : Nat]
    BY GroupAdded DEF ArenaType
  <2>2. CASE NewBlock(t)
    BY <1>1, <2>2 DEF NewBlock, Goto, ArenaType
  <2>3. CASE LoadGroup(t)
    BY <1>1, <2>1, <2>3 DEF LoadGroup, Goto, ArenaType
  <2> QED
    BY <2>2, <2>3
<1>3. ThreadsKnow'
  BY <1>1, GroupAdded DEF ThreadsKnow, InGroupOf
<1>4. SlotsTaken'
  BY <1>1 DEF SlotsTaken
<1>5. Counted'
  BY <1>1, CountedKept
<1>6. GivenKept' /\ NoWaste'
  BY <1>1 DEF GivenKept, NoWaste
<1> QED
  BY <1>2, <1>3, <1>4, <1>5, <1>6

\* fetch_add: a slot that nobody has, or one more thread past the end
LEMMA StepTake ==
  ASSUME ArenaInv, NEW t \in Threads, TakeSlot(t)
  PROVE  ArenaInv'
<1> USE DEF ArenaInv
<1> DEFINE h == loc[t].group
<1>1. h \in GroupNumbers /\ h <= group_size /\ pc[t] = "add" /\ loc[t].block # NoBlock
  BY GroupAdded DEF TakeSlot, ThreadsKnow, InGroupOf
<1>2. /\ UNCHANGED <<group_size, block_list, given, failed, blocks>>
      /\ loc'[t].group = h /\ loc'[t].block = loc[t].block /\ loc'[t].slot = block_size[h]
      /\ pc'[t] = IF block_size[h] < N THEN "store" ELSE "sub"
      /\ \A u \in Threads \ {t} : pc'[u] = pc[u] /\ loc'[u] = loc[u]
      /\ block_size'[h] = block_size[h] + 1
      /\ \A g \in GroupNumbers \ {h} : block_size'[g] = block_size[g]
  BY <1>1 DEF TakeSlot, Goto, ArenaType, InGroup
<1>3. N \in Nat \ {0} /\ \A g \in GroupNumbers : block_size[g] \in Nat
  BY WidthAssumption DEF ArenaType
<1>4. \A g \in GroupNumbers : block_size'[g] >= block_size[g] /\ block_size'[g] \in Nat
  BY <1>2, <1>3
<1>5. ArenaType'
  <2>1. loc[t] \in [block : Nat, group : Nat, slot : Nat]
    BY DEF ArenaType
  <2>2. loc' = [loc EXCEPT ![t] = [loc[t] EXCEPT !.slot = block_size[h]]]
    BY DEF TakeSlot
  <2>3. [loc[t] EXCEPT !.slot = block_size[h]] \in [block : Nat, group : Nat, slot : Nat]
    BY <1>1, <1>3, <2>1
  <2>4. loc' \in [Threads -> [block : Nat, group : Nat, slot : Nat]]
    BY <2>2, <2>3 DEF ArenaType
  <2>5. block_size' = [block_size EXCEPT ![h] = block_size[h] + 1]
    BY DEF TakeSlot
  <2>6. block_size' \in [GroupNumbers -> Nat]
    BY <1>1, <1>3, <2>5 DEF ArenaType
  <2> QED
    BY <1>2, <2>4, <2>6 DEF TakeSlot, Goto, ArenaType
<1>6. ThreadsKnow'
  <2> SUFFICES ASSUME NEW u \in Threads
               PROVE  /\ pc'[u] # "idle" => loc'[u].block # NoBlock
                      /\ InGroupOf(u)' => loc'[u].group \in 1 .. group_size'
                      /\ pc'[u] = "store" => loc'[u].slot \in Slots
                      /\ pc'[u] \in {"sub", "group"} => block_size'[loc'[u].group] >= N
    BY DEF ThreadsKnow
  <2>1. CASE u = t
    BY <1>1, <1>2, <1>3, <2>1, GroupAdded DEF GroupNumbers, Slots
  <2>2. CASE u # t
    <3>1. InGroupOf(u) => loc[u].group \in GroupNumbers
      BY GroupAdded
    <3>2. pc[u] \in {"sub", "group"} => block_size'[loc[u].group] >= N
      BY <1>3, <1>4, <3>1 DEF ThreadsKnow, InGroupOf
    <3> QED
      BY <1>2, <2>2, <3>2 DEF ThreadsKnow, InGroupOf
  <2> QED
    BY <2>1, <2>2
<1>7. SlotsTaken'
  <2>1. \A u \in Threads : pc[u] = "store" => loc[u].group \in GroupNumbers /\ loc[u].slot \in Nat
    BY GroupAdded DEF ArenaType, InGroupOf
  <2>2. \A u \in Threads : pc[u] = "store" /\ loc[u].group = h => loc[u].slot # block_size[h]
    BY <1>1, <1>3, <2>1 DEF SlotsTaken
  <2>3. \A u \in Threads : pc[u] = "store" => loc[u].slot < block_size'[loc[u].group]
    BY <1>3, <1>4, <2>1 DEF SlotsTaken
  <2>4. \A g \in GroupNumbers : \A b \in Slots : block_list[g][b] # NoBlock => b < block_size'[g]
    BY <1>3, <1>4 DEF SlotsTaken, Slots
  <2>5. pc'[t] = "store" => block_list[h][block_size[h]] = NoBlock /\ block_size[h] < block_size'[h]
    BY <1>1, <1>2, <1>3 DEF SlotsTaken, Slots
  <2> QED
    BY <1>1, <1>2, <2>1, <2>2, <2>3, <2>4, <2>5 DEF SlotsTaken
<1>8. Counted'
  <2>1. \A g \in GroupNumbers : Filled(g)' = Filled(g)
    BY <1>2 DEF Filled
  <2>2. \A g \in GroupNumbers \ {h} : Busy(g)' = Busy(g) /\ Past(g)' = Past(g)
    BY <1>1, <1>2 DEF Busy, Past
  <2> SUFFICES ASSUME NEW g \in GroupNumbers
               PROVE  /\ block_size'[g] = Cardinality(Filled(g)') + Cardinality(Busy(g)')
                      /\ Cardinality(Past(g)') = IF block_size'[g] <= N THEN 0 ELSE block_size'[g] - N
    BY DEF Counted
  <2>3. CASE g # h
    BY <1>2, <2>1, <2>2, <2>3 DEF Counted
  <2>4. CASE g = h
    <3>1. Busy(g)' = Busy(g) \cup {t} /\ t \notin Busy(g)
      BY <1>1, <1>2, <2>4 DEF Busy
    <3>2. Cardinality(Busy(g)') = Cardinality(Busy(g)) + 1
      BY <3>1, CountsFinite, FS_AddElement
    <3>3. block_size[g] < N => Past(g)' = Past(g)
      BY <1>1, <1>2, <2>4 DEF Past
    <3>4. ~(block_size[g] < N) => Past(g)' = Past(g) \cup {t} /\ t \notin Past(g)
      BY <1>1, <1>2, <2>4 DEF Past
    <3>5. ~(block_size[g] < N) => Cardinality(Past(g)') = Cardinality(Past(g)) + 1
      BY <3>4, CountsFinite, FS_AddElement
    <3>6. /\ block_size[g] = Cardinality(Filled(g)) + Cardinality(Busy(g))
          /\ Cardinality(Past(g)) = IF block_size[g] <= N THEN 0 ELSE block_size[g] - N
      BY DEF Counted
    <3>7. block_size'[g] = block_size[g] + 1
      BY <1>2, <2>4
    <3>8. block_size'[g] = Cardinality(Filled(g)') + Cardinality(Busy(g)')
      BY <2>1, <3>2, <3>6, <3>7, CountsFinite
    <3> QED
      BY <1>3, <3>3, <3>5, <3>6, <3>7, <3>8
  <2> QED
    BY <2>3, <2>4
<1>9. GivenKept' /\ NoWaste'
  BY <1>2, <1>3, <1>4 DEF GivenKept, NoWaste
<1> QED
  BY <1>5, <1>6, <1>7, <1>8, <1>9

\* The block is stored in the slot that its thread alone has.
LEMMA StepStore ==
  ASSUME ArenaInv, NEW t \in Threads, StoreBlock(t)
  PROVE  ArenaInv'
<1> USE DEF ArenaInv
<1> DEFINE h == loc[t].group
           s == loc[t].slot
<1>1. /\ h \in GroupNumbers /\ pc[t] = "store" /\ s \in Slots /\ loc[t].block # NoBlock
      /\ block_list[h][s] = NoBlock /\ s < block_size[h]
  BY GroupAdded DEF StoreBlock, ThreadsKnow, InGroupOf, SlotsTaken
<1>2. /\ UNCHANGED <<group_size, block_size, blocks, loc, failed>>
      /\ pc'[t] = "idle" /\ \A u \in Threads \ {t} : pc'[u] = pc[u]
      /\ given' = given \cup {<<Id(h, s), loc[t].block>>}
  BY DEF StoreBlock, Goto, ArenaType
<1>3. \A g \in GroupNumbers, b \in Slots :
         block_list'[g][b] = IF g = h /\ b = s THEN loc[t].block ELSE block_list[g][b]
  BY <1>1 DEF StoreBlock, ArenaType
<1>4. ArenaType'
  <2>1. loc[t].block \in Nat
    BY DEF ArenaType
  <2> QED
    BY <1>1, <1>2, <2>1 DEF StoreBlock, Goto, ArenaType
<1>5. ThreadsKnow'
  BY <1>2 DEF ThreadsKnow, InGroupOf
<1>6. SlotsTaken'
  <2>1. \A u \in Threads : pc'[u] = "store" => u # t /\ pc[u] = "store"
    BY <1>2
  <2>2. \A u \in Threads : pc'[u] = "store" =>
           loc[u].group \in GroupNumbers /\ loc[u].slot \in Slots /\ ~(loc[u].group = h /\ loc[u].slot = s)
    BY <1>1, <2>1, GroupAdded DEF SlotsTaken, ThreadsKnow, InGroupOf
  <2>3. \A u \in Threads : pc'[u] = "store" => block_list'[loc[u].group][loc[u].slot] = NoBlock
    BY <1>3, <2>1, <2>2 DEF SlotsTaken
  <2>4. \A g \in GroupNumbers : \A b \in Slots : block_list'[g][b] # NoBlock => b < block_size[g]
    BY <1>1, <1>3 DEF SlotsTaken
  <2> QED
    BY <1>2, <2>1, <2>3, <2>4 DEF SlotsTaken
<1>7. Counted'
  <2>1. \A g \in GroupNumbers : Past(g)' = Past(g)
    BY <1>1, <1>2 DEF Past
  <2>2. \A g \in GroupNumbers \ {h} : Busy(g)' = Busy(g) /\ Filled(g)' = Filled(g)
    BY <1>1, <1>2, <1>3 DEF Busy, Filled
  <2> SUFFICES ASSUME NEW g \in GroupNumbers
               PROVE  block_size[g] = Cardinality(Filled(g)') + Cardinality(Busy(g)')
    BY <1>2, <2>1 DEF Counted
  <2>3. CASE g # h
    BY <2>2, <2>3 DEF Counted
  <2>4. CASE g = h
    <3>1. Busy(g)' = Busy(g) \ {t} /\ t \in Busy(g)
      BY <1>1, <1>2, <2>4 DEF Busy
    <3>2. Filled(g)' = Filled(g) \cup {s} /\ s \notin Filled(g)
      BY <1>1, <1>3, <2>4 DEF Filled
    <3>3. Cardinality(Busy(g)') = Cardinality(Busy(g)) - 1
      BY <3>1, CountsFinite, FS_RemoveElement
    <3>4. Cardinality(Filled(g)') = Cardinality(Filled(g)) + 1
      BY <3>2, CountsFinite, FS_AddElement
    <3>5. block_size[g] = Cardinality(Filled(g)) + Cardinality(Busy(g))
      BY DEF Counted
    <3> QED
      BY <3>3, <3>4, <3>5, CountsFinite
  <2> QED
    BY <2>3, <2>4
<1>8. GivenKept'
  <2> SUFFICES ASSUME NEW a \in given'
               PROVE  \E g \in GroupNumbers, b \in Slots :
                         a[1] = Id(g, b) /\ a[2] = block_list'[g][b] /\ a[2] # NoBlock
    BY DEF GivenKept, Id
  <2>1. CASE a \in given
    BY <1>1, <1>3, <2>1 DEF GivenKept
  <2>2. CASE a = <<Id(h, s), loc[t].block>>
    BY <1>1, <1>3, <2>2
  <2> QED
    BY <1>2, <2>1, <2>2
<1>9. NoWaste'
  BY <1>2 DEF NoWaste
<1> QED
  BY <1>4, <1>5, <1>6, <1>7, <1>8, <1>9

\* fetch_sub: the counter was past the end by one for every such thread.
LEMMA StepGiveBack ==
  ASSUME ArenaInv, NEW t \in Threads, GiveSlotBack(t)
  PROVE  ArenaInv'
<1> USE DEF ArenaInv
<1> DEFINE h == loc[t].group
<1>1. h \in GroupNumbers /\ h <= group_size /\ pc[t] = "sub"
  BY GroupAdded DEF GiveSlotBack, InGroupOf
<1>2. /\ UNCHANGED <<group_size, block_list, blocks, loc, given, failed>>
      /\ pc'[t] = "group" /\ \A u \in Threads \ {t} : pc'[u] = pc[u]
      /\ block_size'[h] = block_size[h] - 1
      /\ \A g \in GroupNumbers \ {h} : block_size'[g] = block_size[g]
  BY <1>1 DEF GiveSlotBack, Goto, ArenaType
<1>3. N \in Nat \ {0} /\ \A g \in GroupNumbers : block_size[g] \in Nat
  BY WidthAssumption DEF ArenaType
<1>4. block_size[h] > N
  <2>1. Past(h) # {}
    BY <1>1 DEF Past
  <2>2. Cardinality(Past(h)) # 0
    BY <1>1, <2>1, CountsFinite, FS_EmptySet
  <2> QED
    BY <1>1, <1>3, <2>2 DEF Counted
<1>5. ArenaType'
  <2>1. block_size[h] - 1 \in Nat
    BY <1>1, <1>3, <1>4
  <2> QED
    BY <1>1, <1>2, <2>1 DEF GiveSlotBack, Goto, ArenaType
<1>6. \A g \in GroupNumbers : block_size[g] >= N => block_size'[g] >= N
  BY <1>1, <1>2, <1>3, <1>4
<1>7. ThreadsKnow'
  BY <1>1, <1>2, <1>6, GroupAdded DEF ThreadsKnow, InGroupOf
<1>8. \A g \in GroupNumbers : \A b \in Slots : b < block_size[g] => b < block_size'[g]
  BY <1>1, <1>2, <1>3, <1>4 DEF Slots
<1>9. SlotsTaken'
  <2>1. \A u \in Threads : pc'[u] = "store" => pc[u] = "store"
    BY <1>2
  <2>2. \A u \in Threads : pc'[u] = "store" => loc[u].slot < block_size'[loc[u].group]
    BY <1>8, <2>1, GroupAdded DEF SlotsTaken, ThreadsKnow, InGroupOf
  <2> QED
    BY <1>2, <1>8, <2>1, <2>2 DEF SlotsTaken
<1>10. Counted'
  <2>1. \A g \in GroupNumbers : Filled(g)' = Filled(g)
    BY <1>2 DEF Filled
  <2>2. \A g \in GroupNumbers \ {h} : Busy(g)' = Busy(g) /\ Past(g)' = Past(g)
    BY <1>1, <1>2 DEF Busy, Past
  <2> SUFFICES ASSUME NEW g \in GroupNumbers
               PROVE  /\ block_size'[g] = Cardinality(Filled(g)') + Cardinality(Busy(g)')
                      /\ Cardinality(Past(g)') = IF block_size'[g] <= N THEN 0 ELSE block_size'[g] - N
    BY DEF Counted
  <2>3. CASE g # h
    BY <1>2, <2>1, <2>2, <2>3 DEF Counted
  <2>4. CASE g = h
    <3>1. Busy(g)' = Busy(g) \ {t} /\ t \in Busy(g)
      BY <1>1, <1>2, <2>4 DEF Busy
    <3>2. Past(g)' = Past(g) \ {t} /\ t \in Past(g)
      BY <1>1, <1>2, <2>4 DEF Past
    <3>3. Cardinality(Busy(g)') = Cardinality(Busy(g)) - 1
      BY <3>1, CountsFinite, FS_RemoveElement
    <3>4. Cardinality(Past(g)') = Cardinality(Past(g)) - 1
      BY <3>2, CountsFinite, FS_RemoveElement
    <3>5. /\ block_size[g] = Cardinality(Filled(g)) + Cardinality(Busy(g))
          /\ Cardinality(Past(g)) = IF block_size[g] <= N THEN 0 ELSE block_size[g] - N
      BY DEF Counted
    <3>6. block_size'[g] = block_size[g] - 1 /\ block_size[g] > N
      BY <1>2, <1>4, <2>4
    <3>7. block_size'[g] = Cardinality(Filled(g)') + Cardinality(Busy(g)')
      BY <2>1, <3>3, <3>5, <3>6, CountsFinite
    <3> QED
      BY <1>3, <3>4, <3>5, <3>6, <3>7
  <2> QED
    BY <2>3, <2>4
<1>11. GivenKept' /\ NoWaste'
  BY <1>2, <1>6 DEF GivenKept, NoWaste
<1> QED
  BY <1>5, <1>7, <1>9, <1>10, <1>11

\* add_group: only the thread that has found the last group full adds one.
LEMMA StepGroup ==
  ASSUME ArenaInv, NEW t \in Threads, AddGroup(t)
  PROVE  ArenaInv'
<1> USE DEF ArenaInv
<1>1. /\ UNCHANGED <<block_size, block_list, blocks, loc, given>>
      /\ pc[t] = "group" /\ pc'[t] \in {"load", "group"}
      /\ \A u \in Threads \ {t} : pc'[u] = pc[u]
  BY DEF AddGroup, Goto, ArenaType
<1>2. loc[t].group \in GroupNumbers /\ block_size[loc[t].group] >= N
  BY <1>1, GroupAdded DEF ThreadsKnow, InGroupOf
<1>3. NG \in Nat /\ group_size \in Nat /\ 1 <= group_size /\ group_size <= NG
  BY WidthAssumption, GroupAdded
<1>4. group_size' \in GroupNumbers /\ group_size <= group_size'
  BY <1>3 DEF AddGroup, GroupNumbers
<1>5. ArenaType'
  BY <1>1, <1>4 DEF AddGroup, Goto, ArenaType
<1>6. ThreadsKnow'
  <2>1. 1 .. group_size \subseteq 1 .. group_size'
    BY <1>3, <1>4 DEF GroupNumbers
  <2> QED
    BY <1>1, <2>1 DEF ThreadsKnow, InGroupOf
<1>7. SlotsTaken' /\ GivenKept'
  BY <1>1 DEF SlotsTaken, GivenKept
<1>8. Counted'
  BY <1>1, CountedKept
<1>9. NoWaste'
  <2> SUFFICES ASSUME NEW g \in GroupNumbers, g < group_size' \/ failed' PROVE block_size[g] >= N
    BY <1>1 DEF NoWaste
  <2>1. g \in Nat /\ g <= NG
    BY <1>3 DEF GroupNumbers
  <2>2. CASE g < group_size \/ failed
    BY <2>2 DEF NoWaste
  <2>3. CASE ~(g < group_size \/ failed)
    <3>1. ~Stale(t) /\ (group_size' = group_size + 1 \/ group_size = NG)
      BY <2>3 DEF AddGroup
    <3>2. g = group_size
      BY <1>3, <2>1, <2>3, <3>1 DEF AddGroup
    <3> QED
      BY <1>2, <3>1, <3>2 DEF Stale
  <2> QED
    BY <2>2, <2>3
<1> QED
  BY <1>5, <1>6, <1>7, <1>8, <1>9

\* ArenaInv holds in every reachable state.
THEOREM ArenaInvariant == Spec => []ArenaInv
<1>1. ArenaInv /\ [Next]_vars => ArenaInv'
  <2> SUFFICES ASSUME ArenaInv, [Next]_vars PROVE ArenaInv'
    OBVIOUS
  <2>1. CASE UNCHANGED vars
    <3>1. \A g \in GroupNumbers :
             Filled(g)' = Filled(g) /\ Busy(g)' = Busy(g) /\ Past(g)' = Past(g)
      BY <2>1 DEF vars, Filled, Busy, Past
    <3>2. Counted'
      BY <2>1, <3>1 DEF vars, ArenaInv, Counted
    <3> QED
      BY <2>1, <3>2 DEF vars, ArenaInv, ArenaType, ThreadsKnow, InGroupOf, SlotsTaken, GivenKept, NoWaste
  <2>2. CASE \E t \in Threads : NewBlock(t) \/ Step(t)
    BY <2>2, StepBegin, StepTake, StepStore, StepGiveBack, StepGroup DEF Step
  <2> QED
    BY <2>1, <2>2 DEF Next
<1> QED
  BY <1>1, ArenaInit, PTL DEF Spec

\* find inverts the ids that acquire answers, for every item and version.
THEOREM FindInvertsIds == Spec => []FindInverts
<1>1. ArenaInv => FindInverts
  <2> SUFFICES ASSUME ArenaInv, NEW a \in given, NEW i \in 0 .. N - 1, NEW version \in {0, 1}
               PROVE  a[1] # 0 /\ Find(version * 2 ^ BITS + a[1] + i) = [block |-> a[2], item |-> i]
    <3>1. 0 \in 0 .. N - 1
      BY WidthAssumption
    <3> QED
      BY <3>1 DEF FindInverts
  <2>1. PICK g \in GroupNumbers, b \in Slots : a[1] = Id(g, b) /\ a[2] = block_list[g][b]
    BY DEF ArenaInv, GivenKept
  <2> QED
    BY <2>1, FindItem DEF Slots
<1> QED
  BY <1>1, ArenaInvariant, PTL

\* fetch_add gives a slot to one thread only, and fetch_sub undoes what went
\* past the end.
THEOREM SlotsGivenOnce == Spec => []SlotsApart
<1>1. ArenaInv => SlotsApart
  <2> SUFFICES ASSUME ArenaInv PROVE SlotsApart
    OBVIOUS
  <2>1. \A t \in Threads : pc[t] = "store" =>
          /\ loc[t].slot \in 0 .. N - 1
          /\ block_list[loc[t].group][loc[t].slot] = NoBlock
          /\ \A u \in Threads \ {t} : pc[u] = "store" =>
                <<loc[u].group, loc[u].slot>> # <<loc[t].group, loc[t].slot>>
    BY DEF ArenaInv, ThreadsKnow, SlotsTaken, Slots
  <2>2. \A g \in GroupNumbers :
          block_size[g] = Cardinality({b \in 0 .. N - 1 : block_list[g][b] # NoBlock})
              + Cardinality({t \in Threads : pc[t] \in {"store", "sub"} /\ loc[t].group = g})
    BY DEF ArenaInv, Counted, Filled, Busy, Slots
  <2> QED
    BY <2>1, <2>2 DEF SlotsApart
<1> QED
  BY <1>1, ArenaInvariant, PTL

\* A group is added only when those before it are full.
THEOREM GroupsFilled == Spec => []NoWaste
<1>1. ArenaInv => NoWaste
  BY DEF ArenaInv
<1> QED
  BY <1>1, ArenaInvariant, PTL
=============================================================================
