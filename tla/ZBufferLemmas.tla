--------------------------- MODULE ZBufferLemmas ---------------------------
(***************************************************************************)
(* What the calls of zbuffer.cpp do, one at a time: to the blocks and the  *)
(* caches of the threads, to sums of lengths, and to the slots of a ring.  *)
(* For any number of threads, buffers, blocks and references, and for      *)
(* blocks of any size.                                                     *)
(***************************************************************************)
EXTENDS ZBuffer, Integers, FiniteSetTheorems, WellFoundedInduction, TLAPS

-----------------------------------------------------------------------------
(* The caches: lists of blocks, no block in two places *)

InList(b, s) == \E i \in DOMAIN s : s[i] = b
Caches == [Threads -> Seq(Blocks)]
Apart(cache) ==
    \A t, u \in Threads : \A i \in DOMAIN cache[t], j \in DOMAIN cache[u] :
        cache[t][i] = cache[u][j] => t = u /\ i = j
InCache(cache) == {b \in Blocks : \E t \in Threads : InList(b, cache[t])}

\* The list of one thread is replaced; what it gets was in no cache.
LEMMA ListChanges ==
  ASSUME NEW cache \in Caches, Apart(cache), NEW t \in Threads, NEW s \in Seq(Blocks),
         \A i, j \in DOMAIN s : s[i] = s[j] => i = j,
         \A c \in Blocks : InList(c, s) => InList(c, cache[t]) \/ c \notin InCache(cache)
  PROVE  LET new == [cache EXCEPT ![t] = s]
         IN /\ new \in Caches /\ Apart(new)
            /\ InCache(new) = {c \in Blocks : \/ InList(c, s)
                                              \/ c \in InCache(cache) /\ ~ InList(c, cache[t])}
<1> DEFINE new == [cache EXCEPT ![t] = s]
<1>1. new \in Caches /\ new[t] = s /\ \A u \in Threads \ {t} : new[u] = cache[u]
  BY DEF Caches
<1> HIDE DEF new
<1>2. \A u \in Threads : \A i \in DOMAIN cache[u] : cache[u][i] \in Blocks
  BY DEF Caches
<1>3. \A i \in DOMAIN s : s[i] \in Blocks /\ InList(s[i], s)
  BY DEF InList
<1>4. ASSUME NEW u \in Threads \ {t}, NEW i \in DOMAIN s, NEW j \in DOMAIN cache[u]
      PROVE  s[i] # cache[u][j]
  <2> SUFFICES ASSUME s[i] = cache[u][j] PROVE FALSE
    OBVIOUS
  <2>1. s[i] \in InCache(cache)
    BY <1>3 DEF InCache, InList
  <2>2. PICK k \in DOMAIN cache[t] : cache[t][k] = s[i]
    BY <1>3, <2>1 DEF InList
  <2> QED
    BY <2>2 DEF Apart
<1>5. Apart(new)
  <2> SUFFICES ASSUME NEW v \in Threads, NEW u \in Threads,
                      NEW i \in DOMAIN new[v], NEW j \in DOMAIN new[u], new[v][i] = new[u][j]
               PROVE  v = u /\ i = j
    BY DEF Apart
  <2>1. CASE v = t /\ u = t
    BY <1>1, <2>1
  <2>2. CASE v = t /\ u # t
    BY <1>1, <1>4, <2>2
  <2>3. CASE v # t /\ u = t
    BY <1>1, <1>4, <2>3
  <2>4. CASE v # t /\ u # t
    BY <1>1, <2>4 DEF Apart
  <2> QED
    BY <2>1, <2>2, <2>3, <2>4
<1>6. ASSUME NEW c \in Blocks
      PROVE  c \in InCache(new) <=> \/ InList(c, s)
                                    \/ c \in InCache(cache) /\ ~ InList(c, cache[t])
  <2>1. ASSUME NEW u \in Threads \ {t}, InList(c, cache[u])
        PROVE  c \in InCache(cache) /\ ~ InList(c, cache[t])
    BY <2>1 DEF InCache, InList, Apart
  <2> QED
    BY <1>1, <2>1 DEF InCache
<1> QED
  BY <1>1, <1>5, <1>6 DEF InCache, new

LEMMA Linked ==
  ASSUME NEW cache \in Caches, Apart(cache), NEW t \in Threads,
         NEW b \in Blocks, b \notin InCache(cache)
  PROVE  LET new == [cache EXCEPT ![t] = <<b>> \o @]
         IN /\ new \in Caches /\ Apart(new) /\ InCache(new) = InCache(cache) \cup {b}
            /\ Len(new[t]) = Len(cache[t]) + 1
<1> DEFINE l == cache[t]
           s == <<b>> \o l
<1>1. l \in Seq(Blocks)
  BY DEF Caches
<1>2. s \in Seq(Blocks) /\ Len(s) = Len(l) + 1 /\ s[1] = b /\ \A i \in 1 .. Len(l) : s[i + 1] = l[i]
  BY <1>1
<1> HIDE DEF s, l
<1>3. \A i \in 2 .. Len(s) : i - 1 \in DOMAIN l /\ s[i] = l[i - 1]
  BY <1>1, <1>2
<1>4. \A i \in DOMAIN l : l[i] \in Blocks /\ l[i] # b
  BY <1>1 DEF l, InCache, InList
<1>5. DOMAIN s = 1 .. Len(s) /\ DOMAIN l = 1 .. Len(l) /\ Len(l) \in Nat
  BY <1>1, <1>2
<1>6. \A i, j \in DOMAIN s : s[i] = s[j] => i = j
  <2>1. \A i, j \in DOMAIN l : l[i] = l[j] => i = j
    BY DEF Apart, l
  <2> SUFFICES ASSUME NEW i \in DOMAIN s, NEW j \in DOMAIN s, s[i] = s[j] PROVE i = j
    OBVIOUS
  <2>a. \A x \in DOMAIN s : x # 1 => s[x] # b
    <3> SUFFICES ASSUME NEW x \in DOMAIN s, x # 1 PROVE s[x] # b
      OBVIOUS
    <3>1. x \in 2 .. Len(s)
      BY <1>5
    <3> QED
      BY <1>3, <1>4, <3>1
  <2>2. CASE i = 1 \/ j = 1
    BY <1>2, <2>2, <2>a
  <2>3. CASE i # 1 /\ j # 1
    <3>1. i \in 2 .. Len(s) /\ j \in 2 .. Len(s)
      BY <1>5, <2>3
    <3>2. i - 1 = j - 1
      BY <1>3, <2>1, <3>1
    <3> QED
      BY <3>1, <3>2
  <2> QED
    BY <2>2, <2>3
<1>7. \A c \in Blocks : InList(c, s) <=> c = b \/ InList(c, l)
  <2> SUFFICES ASSUME NEW c \in Blocks PROVE InList(c, s) <=> c = b \/ InList(c, l)
    OBVIOUS
  <2>1. ASSUME NEW i \in DOMAIN s, s[i] = c PROVE c = b \/ InList(c, l)
    BY <1>2, <1>3, <1>5, <2>1 DEF InList
  <2>2. ASSUME NEW i \in DOMAIN l, l[i] = c PROVE InList(c, s)
    <3>1. i + 1 \in DOMAIN s /\ s[i + 1] = c
      BY <1>2, <1>5, <2>2
    <3> QED
      BY <3>1 DEF InList
  <2>3. InList(b, s)
    BY <1>2, <1>5 DEF InList
  <2> QED
    BY <2>1, <2>2, <2>3 DEF InList
<1>8. \A c \in Blocks : InList(c, l) => c \in InCache(cache)
  BY DEF InCache, l
<1> DEFINE new == [cache EXCEPT ![t] = s]
<1>9. /\ new \in Caches /\ Apart(new)
      /\ InCache(new) = {c \in Blocks : \/ InList(c, s)
                                        \/ c \in InCache(cache) /\ ~ InList(c, l)}
  <2>1. \A c \in Blocks : InList(c, s) => InList(c, cache[t]) \/ c \notin InCache(cache)
    BY <1>7 DEF l
  <2> QED
    BY <1>2, <1>6, <2>1, ListChanges DEF l
<1>10. InCache(new) = InCache(cache) \cup {b}
  <2>1. InCache(cache) \subseteq Blocks
    BY DEF InCache
  <2> QED
    BY <1>7, <1>8, <1>9, <2>1
<1>11. new[t] = s
  BY DEF Caches
<1> QED
  BY <1>2, <1>9, <1>10, <1>11 DEF s, l

\* The first k blocks of a list are taken out.
LEMMA Unlinked ==
  ASSUME NEW cache \in Caches, Apart(cache), NEW t \in Threads, NEW k \in 0 .. Len(cache[t])
  PROVE  LET new == [cache EXCEPT ![t] = SubSeq(@, k + 1, Len(@))]
         IN /\ new \in Caches /\ Apart(new)
            /\ InCache(new) = InCache(cache) \ {cache[t][i] : i \in 1 .. k}
            /\ Len(new[t]) = Len(cache[t]) - k
<1> DEFINE l == cache[t]
           s == SubSeq(l, k + 1, Len(l))
<1>1. l \in Seq(Blocks)
  BY DEF Caches
<1>2. s \in Seq(Blocks) /\ Len(s) = Len(l) - k /\ \A i \in 1 .. Len(s) : s[i] = l[i + k]
  BY <1>1 DEF l
<1>3. k \in Nat /\ k <= Len(l) /\ Len(l) \in Nat
  BY <1>1 DEF l
<1> HIDE DEF s, l
<1>4. DOMAIN s = 1 .. Len(s) /\ DOMAIN l = 1 .. Len(l)
  BY <1>1, <1>2
<1>5. \A i, j \in DOMAIN l : l[i] = l[j] => i = j
  BY DEF Apart, l
<1>6. \A i, j \in DOMAIN s : s[i] = s[j] => i = j
  <2> SUFFICES ASSUME NEW i \in DOMAIN s, NEW j \in DOMAIN s, s[i] = s[j] PROVE i = j
    OBVIOUS
  <2>1. i + k \in DOMAIN l /\ j + k \in DOMAIN l
    BY <1>2, <1>3, <1>4
  <2>2. i + k = j + k
    BY <1>2, <1>4, <1>5, <2>1
  <2> QED
    BY <1>3, <1>4, <2>2
<1>7. \A c \in Blocks : InList(c, s) <=> InList(c, l) /\ c \notin {l[i] : i \in 1 .. k}
  <2> SUFFICES ASSUME NEW c \in Blocks
               PROVE  InList(c, s) <=> InList(c, l) /\ c \notin {l[i] : i \in 1 .. k}
    OBVIOUS
  <2>1. ASSUME NEW i \in DOMAIN s, s[i] = c
        PROVE  InList(c, l) /\ c \notin {l[j] : j \in 1 .. k}
    <3>1. i + k \in DOMAIN l /\ l[i + k] = c
      BY <1>2, <1>3, <1>4, <2>1
    <3>2. ASSUME NEW j \in 1 .. k PROVE l[j] # c
      <4>1. j \in DOMAIN l /\ j # i + k
        BY <1>3, <1>4
      <4> QED
        BY <1>5, <3>1, <4>1
    <3> QED
      BY <3>1, <3>2 DEF InList
  <2>2. ASSUME NEW i \in DOMAIN l, l[i] = c, c \notin {l[j] : j \in 1 .. k}
        PROVE  InList(c, s)
    <3>1. i > k
      BY <1>3, <1>4, <2>2
    <3>2. i - k \in DOMAIN s /\ s[i - k] = c
      BY <1>2, <1>3, <1>4, <2>2, <3>1
    <3> QED
      BY <3>2 DEF InList
  <2> QED
    BY <2>1, <2>2 DEF InList
<1>8. \A c \in Blocks : InList(c, l) => c \in InCache(cache)
  BY DEF InCache, l
<1> DEFINE new == [cache EXCEPT ![t] = s]
<1>9. /\ new \in Caches /\ Apart(new)
      /\ InCache(new) = {c \in Blocks : \/ InList(c, s)
                                        \/ c \in InCache(cache) /\ ~ InList(c, l)}
  BY <1>2, <1>6, <1>7, ListChanges DEF l
<1>10. InCache(new) = InCache(cache) \ {l[i] : i \in 1 .. k}
  <2>1. InCache(cache) \subseteq Blocks
    BY DEF InCache
  <2>2. \A i \in 1 .. k : InList(l[i], l)
    BY <1>3, <1>4 DEF InList
  <2> QED
    BY <1>7, <1>8, <1>9, <2>1, <2>2
<1>11. new[t] = s
  BY DEF Caches
<1> QED
  BY <1>2, <1>9, <1>10, <1>11 DEF s, l

LEMMA UnlinkedHead ==
  ASSUME NEW cache \in Caches, Apart(cache), NEW t \in Threads, cache[t] # <<>>
  PROVE  LET new == [cache EXCEPT ![t] = Tail(@)]
         IN /\ new \in Caches /\ Apart(new)
            /\ Head(cache[t]) \in InCache(cache)
            /\ InCache(new) = InCache(cache) \ {Head(cache[t])}
            /\ Len(new[t]) = Len(cache[t]) - 1
<1> DEFINE l == cache[t]
<1>1. l \in Seq(Blocks) /\ l # <<>>
  BY DEF Caches
<1>2. Len(l) >= 1 /\ Head(l) = l[1] /\ Tail(l) = SubSeq(l, 1 + 1, Len(l)) /\ 1 \in 0 .. Len(l)
  BY <1>1
<1>3. {l[i] : i \in 1 .. 1} = {Head(l)}
  BY <1>2
<1>4. Head(l) \in InCache(cache)
  BY <1>1, <1>2 DEF InCache, InList
<1> DEFINE new == [cache EXCEPT ![t] = SubSeq(@, 1 + 1, Len(@))]
<1>5. /\ new \in Caches /\ Apart(new)
      /\ InCache(new) = InCache(cache) \ {cache[t][i] : i \in 1 .. 1}
      /\ Len(new[t]) = Len(cache[t]) - 1
  BY <1>2, Unlinked
<1>6. new = [cache EXCEPT ![t] = Tail(@)]
  BY <1>2
<1> QED
  BY <1>3, <1>4, <1>5, <1>6
-----------------------------------------------------------------------------
(* The blocks *)

Memory == UNION {[0 .. n - 1 -> Nat] : n \in Nat}
BlockType == [ref_num : Nat, offset : Nat, capacity : Nat, mem : Memory]
Heaps == [live : SUBSET Blocks, block : [Blocks -> BlockType], cache : Caches,
          number : [Threads -> Nat], lost : SUBSET Blocks]

HeapOf(live, block, cache, number, lost) ==
    [live |-> live, block |-> block, cache |-> cache, number |-> number, lost |-> lost]

LEMMA HeapParts ==
  ASSUME NEW live, NEW block, NEW cache, NEW number, NEW lost
  PROVE  LET h == HeapOf(live, block, cache, number, lost)
         IN /\ h.live = live /\ h.block = block /\ h.cache = cache /\ h.number = number
            /\ h.lost = lost
            /\ h \in Heaps <=> /\ live \in SUBSET Blocks /\ block \in [Blocks -> BlockType]
                               /\ cache \in Caches /\ number \in [Threads -> Nat]
                               /\ lost \in SUBSET Blocks
BY DEF HeapOf, Heaps

LEMMA HeapForm ==
  ASSUME NEW h \in Heaps
  PROVE  h = HeapOf(h.live, h.block, h.cache, h.number, h.lost)
BY DEF HeapOf, Heaps

\* The calls on one field
LEMMA LinkIs ==
  ASSUME NEW live, NEW block, NEW cache, NEW number, NEW lost, NEW t, NEW b
  PROVE  Link(HeapOf(live, block, cache, number, lost), t, b)
         = HeapOf(live, block, [cache EXCEPT ![t] = <<b>> \o @], number, lost)
BY DEF HeapOf, Link

LEMMA IncRefIs ==
  ASSUME NEW live, NEW block, NEW cache, NEW number, NEW lost, NEW b
  PROVE  IncRef(HeapOf(live, block, cache, number, lost), b)
         = HeapOf(live, [block EXCEPT ![b].ref_num = @ + 1], cache, number, lost)
BY DEF HeapOf, IncRef

LEMMA PutIs ==
  ASSUME NEW live, NEW block, NEW cache, NEW number, NEW lost, NEW b, NEW y
  PROVE  [HeapOf(live, block, cache, number, lost) EXCEPT !.block[b] = y]
         = HeapOf(live, [block EXCEPT ![b] = y], cache, number, lost)
BY DEF HeapOf

LEMMA CountUpIs ==
  ASSUME NEW live, NEW block, NEW cache, NEW number, NEW lost, NEW t
  PROVE  [HeapOf(live, block, cache, number, lost) EXCEPT !.number[t] = @ + 1]
         = HeapOf(live, block, cache, [number EXCEPT ![t] = @ + 1], lost)
BY DEF HeapOf

LEMMA CreateIs ==
  ASSUME NEW h \in Heaps, NEW size
  PROVE  CreateBlock(h, size)
         = HeapOf(h.live \cup {Fresh(h)}, [h.block EXCEPT ![Fresh(h)] = EmptyBlock(1, size)],
                  h.cache, h.number, h.lost)
<1> DEFINE f == Fresh(h)
           y == EmptyBlock(1, size)
           live == h.live \cup {f}
<1>1. CreateBlock(h, size) = [h EXCEPT !.live = live, !.block[f] = y]
  BY DEF CreateBlock
<1> HIDE DEF f, y, live
<1>2. [h EXCEPT !.live = live] = HeapOf(live, h.block, h.cache, h.number, h.lost)
  BY DEF HeapOf, Heaps
<1>3. [h EXCEPT !.live = live, !.block[f] = y] = [[h EXCEPT !.live = live] EXCEPT !.block[f] = y]
  BY Zenon
<1>4. [HeapOf(live, h.block, h.cache, h.number, h.lost) EXCEPT !.block[f] = y]
      = HeapOf(live, [h.block EXCEPT ![f] = y], h.cache, h.number, h.lost)
  BY DEF HeapOf
<1> QED
  BY <1>1, <1>2, <1>3, <1>4, Zenon DEF f, y, live

\* Two assignments to a block
LEMMA BlockTwice ==
  ASSUME NEW block \in [Blocks -> BlockType], NEW b \in Blocks, NEW x \in BlockType
  PROVE  [[block EXCEPT ![b] = x] EXCEPT ![b].ref_num = @ + 1]
         = [block EXCEPT ![b] = [x EXCEPT !.ref_num = @ + 1]]
<1> DEFINE k == [block EXCEPT ![b] = x]
<1>1. k \in [Blocks -> BlockType] /\ k[b] = x
  OBVIOUS
<1> HIDE DEF k
<1>2. [k EXCEPT ![b].ref_num = @ + 1] = [k EXCEPT ![b] = [x EXCEPT !.ref_num = @ + 1]]
  BY <1>1
<1> DEFINE y == [x EXCEPT !.ref_num = @ + 1]
<1> HIDE DEF y
<1>3. [k EXCEPT ![b] = y] = [block EXCEPT ![b] = y]
  BY DEF k
<1> QED
  BY <1>2, <1>3 DEF k, y

\* How many references outside the caches each block has
Loads == [Blocks -> Nat]
More(F, b) == [F EXCEPT ![b] = @ + 1]
Less(F, b) == [F EXCEPT ![b] = @ - 1]

One(p) == IF p THEN 1 ELSE 0
Counted(h, F) ==
    \A b \in Blocks :
        /\ h.block[b].ref_num = F[b] + One(b \in InCache(h.cache)) + One(b \in h.lost)
        /\ b \in h.live <=> h.block[b].ref_num > 0
Sound(x) == x.offset <= x.capacity /\ x.capacity % Align = 0 /\ DOMAIN x.mem = 0 .. x.capacity - 1
Numbered(h) == \A t \in Threads : h.number[t] >= Len(h.cache[t])

\* The blocks and the caches are in order, with F references outside.
HeapOK(h, F) ==
    /\ h \in Heaps /\ Apart(h.cache) /\ Numbered(h)
    /\ Counted(h, F) /\ \A b \in h.live : Sound(h.block[b])

\* What is in use of a block stays as it is.
SameFront(x, y) ==
    /\ y.capacity = x.capacity /\ y.offset >= x.offset
    /\ \A i \in 0 .. x.offset - 1 : y.mem[i] = x.mem[i]

\* That goes for the blocks that F refers to; one that is in no cache is not
\* filled any further.
Keeps(h, g, F) ==
    \A c \in Blocks : F[c] > 0 =>
        /\ SameFront(h.block[c], g.block[c])
        /\ c \notin InCache(h.cache) =>
              c \notin InCache(g.cache) /\ g.block[c].offset = h.block[c].offset

\* The two numbers of a cache move together.
SameSlack(h, g) ==
    \A u \in Threads : g.number[u] - Len(g.cache[u]) = h.number[u] - Len(h.cache[u])

LEMMA EmptyBlockFits ==
  ASSUME NEW size \in Nat, size % Align = 0, NEW n \in Nat
  PROVE  LET x == EmptyBlock(n, size)
         IN x \in BlockType /\ x.ref_num = n /\ x.offset = 0 /\ x.capacity = size /\ Sound(x)
<1> DEFINE m == [i \in 0 .. size - 1 |-> Blank]
<1>1. m \in Memory /\ DOMAIN m = 0 .. size - 1
  BY DEF Memory, Blank
<1>2. EmptyBlock(n, size) = [ref_num |-> n, offset |-> 0, capacity |-> size, mem |-> m]
  BY DEF EmptyBlock
<1> HIDE DEF m
<1> QED
  BY <1>1, <1>2 DEF BlockType, Sound

LEMMA SameFrontSame ==
  ASSUME NEW x \in BlockType
  PROVE  SameFront(x, x)
BY DEF SameFront, BlockType

\* dec_ref: one reference outside is given back.
LEMMA DecRefKeeps ==
  ASSUME NEW h, NEW F \in Loads, HeapOK(h, F), NEW t \in Threads, NEW b \in Blocks, F[b] > 0
  PROVE  LET g == DecRef(h, t, b)
         IN /\ HeapOK(g, Less(F, b)) /\ Keeps(h, g, Less(F, b)) /\ SameSlack(h, g)
            /\ g.live \subseteq h.live /\ InCache(h.cache) \subseteq InCache(g.cache)
<1> DEFINE G == Less(F, b)
           g == DecRef(h, t, b)
           x == h.block[b]
<1>1. G \in Loads /\ G[b] = F[b] - 1 /\ \A c \in Blocks \ {b} : G[c] = F[c]
  BY DEF Loads, Less
<1>2. /\ h \in Heaps /\ Apart(h.cache) /\ Numbered(h) /\ Counted(h, F)
      /\ \A c \in h.live : Sound(h.block[c])
  BY DEF HeapOK
<1>3. \A c \in Blocks : h.block[c] \in BlockType /\ SameFront(h.block[c], h.block[c])
  BY <1>2, SameFrontSame DEF Heaps
<1>4. x.ref_num = F[b] + One(b \in InCache(h.cache)) + One(b \in h.lost) /\ b \in h.live
  BY <1>2 DEF Counted, One, Loads
<1>5. Sound(x) /\ x.capacity \in Nat /\ x.capacity % Align = 0
  BY <1>2, <1>3, <1>4 DEF Sound, BlockType
<1> HIDE DEF G
<1>6. CASE x.ref_num > 1
  <2> DEFINE y == [x EXCEPT !.ref_num = @ - 1]
  <2>1. y \in BlockType /\ y.ref_num = x.ref_num - 1 /\ SameFront(x, y) /\ Sound(y)
        /\ y.offset = x.offset
    BY <1>3, <1>5, <1>6 DEF BlockType, SameFront, Sound
  <2>2. g = [h EXCEPT !.block[b] = y]
    BY <1>3, <1>6 DEF DecRef, BlockType
  <2> HIDE DEF y, g
  <2>3. /\ g \in Heaps /\ g.live = h.live /\ g.cache = h.cache /\ g.number = h.number
        /\ g.lost = h.lost /\ g.block[b] = y /\ \A c \in Blocks \ {b} : g.block[c] = h.block[c]
    BY <1>2, <2>1, <2>2 DEF Heaps
  <2>4. Counted(g, G)
    <3> SUFFICES ASSUME NEW c \in Blocks
                 PROVE  /\ g.block[c].ref_num = G[c] + One(c \in InCache(g.cache)) + One(c \in g.lost)
                        /\ c \in g.live <=> g.block[c].ref_num > 0
      BY DEF Counted
    <3>1. CASE c = b
      BY <1>1, <1>3, <1>4, <1>6, <2>1, <2>3, <3>1 DEF One, BlockType, Loads
    <3>2. CASE c # b
      BY <1>1, <1>2, <2>3, <3>2 DEF Counted
    <3> QED
      BY <3>1, <3>2
  <2>a. \A c \in g.live : Sound(g.block[c])
    BY <1>2, <2>1, <2>3 DEF Heaps
  <2>5. HeapOK(g, G)
    BY <1>2, <2>3, <2>4, <2>a DEF HeapOK, Numbered
  <2>6. Keeps(h, g, G)
    BY <1>3, <2>1, <2>3 DEF Keeps
  <2> QED
    BY <2>3, <2>5, <2>6 DEF SameSlack, g, G
<1>7. CASE x.ref_num <= 1
  <2> DEFINE e == EmptyBlock(0, x.capacity)
             k == [h EXCEPT !.block[b] = e]
  <2>1. F[b] = 1 /\ b \notin InCache(h.cache) /\ b \notin h.lost /\ G[b] = 0
    BY <1>1, <1>4, <1>7 DEF One, Loads
  <2>2. g = ReleaseBlock(k, t, b)
    BY <1>3, <1>7 DEF DecRef, BlockType
  <2>3. h.number[t] \in Nat /\ h.cache \in Caches
    BY <1>2 DEF Heaps
  <2>4. CASE h.number[t] < Limit
    <3> DEFINE y == EmptyBlock(1, x.capacity)
    <3>1. y \in BlockType /\ y.ref_num = 1 /\ Sound(y)
      BY <1>5, EmptyBlockFits
    <3>2. e.ref_num = 0 /\ e \in BlockType
      BY <1>5, EmptyBlockFits
    <3>3. g = HeapOf(h.live, [h.block EXCEPT ![b] = y], [h.cache EXCEPT ![t] = <<b>> \o @],
                     [h.number EXCEPT ![t] = @ + 1], h.lost)
      <4>1. k.number = h.number
        BY <1>2 DEF Heaps
      <4>2. g = IncRef(Link([k EXCEPT !.number[t] = @ + 1], t, b), b)
        BY <2>2, <2>4, <4>1 DEF ReleaseBlock
      <4>3. k = HeapOf(h.live, [h.block EXCEPT ![b] = e], h.cache, h.number, h.lost)
        BY <1>2 DEF Heaps, HeapOf
      <4>5. y = [e EXCEPT !.ref_num = @ + 1]
        <5> DEFINE m == [i \in 0 .. x.capacity - 1 |-> Blank]
        <5>1. e = [ref_num |-> 0, offset |-> 0, capacity |-> x.capacity, mem |-> m]
              /\ y = [ref_num |-> 1, offset |-> 0, capacity |-> x.capacity, mem |-> m]
          BY DEF EmptyBlock
        <5> HIDE DEF m
        <5> QED
          BY <5>1
      <4> HIDE DEF e
      <4> HIDE DEF y
      <4>6. [[h.block EXCEPT ![b] = e] EXCEPT ![b].ref_num = @ + 1] = [h.block EXCEPT ![b] = y]
        BY <1>2, <3>2, <4>5, BlockTwice DEF Heaps
      <4> HIDE DEF k
      <4> DEFINE kb == [h.block EXCEPT ![b] = e]
                 kc == [h.cache EXCEPT ![t] = <<b>> \o @]
                 kn == [h.number EXCEPT ![t] = @ + 1]
      <4> HIDE DEF kb
      <4>7. [k EXCEPT !.number[t] = @ + 1] = HeapOf(h.live, kb, h.cache, kn, h.lost)
        BY <4>3 DEF HeapOf, kb
      <4> HIDE DEF kn
      <4>8. Link([k EXCEPT !.number[t] = @ + 1], t, b) = HeapOf(h.live, kb, kc, kn, h.lost)
        <5>1. Link(HeapOf(h.live, kb, h.cache, kn, h.lost), t, b) = HeapOf(h.live, kb, kc, kn, h.lost)
          BY LinkIs DEF kc
        <5> QED
          BY <4>7, <5>1, Zenon
      <4> HIDE DEF kc
      <4>9. g = HeapOf(h.live, [kb EXCEPT ![b].ref_num = @ + 1], kc, kn, h.lost)
        BY <4>2, <4>8 DEF HeapOf, IncRef
      <4> QED
        BY <4>6, <4>9, Zenon DEF kb, kc, kn
    <3> HIDE DEF e, k, g, y
    <3>4. /\ g.cache \in Caches /\ Apart(g.cache)
          /\ InCache(g.cache) = InCache(h.cache) \cup {b}
          /\ Len(g.cache[t]) = Len(h.cache[t]) + 1
      <4>1. g.cache = [h.cache EXCEPT ![t] = <<b>> \o @]
        BY <3>3 DEF HeapOf
      <4> DEFINE new == [h.cache EXCEPT ![t] = <<b>> \o @]
      <4>2. /\ new \in Caches /\ Apart(new) /\ InCache(new) = InCache(h.cache) \cup {b}
            /\ Len(new[t]) = Len(h.cache[t]) + 1
        BY <1>2, <2>1, <2>3, Linked, Zenon
      <4> HIDE DEF new
      <4>3. g.cache = new
        BY <4>1 DEF new
      <4> QED
        BY <4>2, <4>3, Zenon
    <3>5. /\ g \in Heaps /\ g.live = h.live /\ g.lost = h.lost
          /\ g.block[b] = y /\ \A c \in Blocks \ {b} : g.block[c] = h.block[c]
          /\ g.number[t] = h.number[t] + 1 /\ \A u \in Threads \ {t} : g.number[u] = h.number[u]
          /\ \A u \in Threads \ {t} : g.cache[u] = h.cache[u]
      <4>1. h.number \in [Threads -> Nat] /\ h.block \in [Blocks -> BlockType]
            /\ h.live \in SUBSET Blocks /\ h.lost \in SUBSET Blocks
        BY <1>2 DEF Heaps
      <4>2. [h.block EXCEPT ![b] = y] \in [Blocks -> BlockType]
            /\ [h.number EXCEPT ![t] = @ + 1] \in [Threads -> Nat]
        BY <3>1, <4>1
      <4>3. /\ g.live = h.live /\ g.lost = h.lost /\ g.block = [h.block EXCEPT ![b] = y]
            /\ g.number = [h.number EXCEPT ![t] = @ + 1]
            /\ g.cache = [h.cache EXCEPT ![t] = <<b>> \o @]
        BY <3>3 DEF HeapOf
      <4>4. g \in Heaps
        <5> DEFINE blk == [h.block EXCEPT ![b] = y]
                   num == [h.number EXCEPT ![t] = @ + 1]
                   cch == [h.cache EXCEPT ![t] = <<b>> \o @]
        <5>1. g = HeapOf(h.live, blk, cch, num, h.lost) /\ cch \in Caches
          BY <3>3, <3>4, <4>3
        <5> HIDE DEF blk, num, cch
        <5> QED
          BY <4>1, <4>2, <5>1 DEF Heaps, HeapOf, blk, num
      <4> QED
        BY <2>3, <4>1, <4>3, <4>4 DEF Caches
    <3>6. Counted(g, G)
      <4> SUFFICES ASSUME NEW c \in Blocks
                   PROVE  /\ g.block[c].ref_num = G[c] + One(c \in InCache(g.cache)) + One(c \in g.lost)
                          /\ c \in g.live <=> g.block[c].ref_num > 0
        BY DEF Counted
      <4>1. CASE c = b
        BY <1>4, <2>1, <3>1, <3>4, <3>5, <4>1 DEF One
      <4>2. CASE c # b
        BY <1>1, <1>2, <3>4, <3>5, <4>2 DEF Counted, One
      <4> QED
        BY <4>1, <4>2
    <3>a. \A u \in Threads : h.number[u] \in Nat /\ Len(h.cache[u]) \in Nat
      BY <1>2 DEF Heaps, Caches
    <3>7. SameSlack(h, g)
      <4> SUFFICES ASSUME NEW u \in Threads
                   PROVE  g.number[u] - Len(g.cache[u]) = h.number[u] - Len(h.cache[u])
        BY DEF SameSlack
      <4>1. CASE u = t
        <5>1. g.number[t] = h.number[t] + 1 /\ Len(g.cache[t]) = Len(h.cache[t]) + 1
          BY <3>4, <3>5
        <5> DEFINE n == h.number[t]
                   l == Len(h.cache[t])
        <5>2. n \in Nat /\ l \in Nat
          BY <3>a
        <5> HIDE DEF n, l
        <5>3. (n + 1) - (l + 1) = n - l
          BY <5>2
        <5> QED
          BY <4>1, <5>1, <5>3, Zenon DEF n, l
      <4>2. CASE u # t
        BY <3>5, <4>2
      <4> QED
        BY <4>1, <4>2
    <3>8. Numbered(g)
      <4> SUFFICES ASSUME NEW u \in Threads
                   PROVE  g.number[u] >= Len(g.cache[u])
        BY DEF Numbered
      <4>1. h.number[u] >= Len(h.cache[u])
        BY <1>2 DEF Numbered
      <4>2. CASE u = t
        BY <3>4, <3>5, <3>a, <4>1, <4>2
      <4>3. CASE u # t
        BY <3>5, <4>1, <4>3
      <4> QED
        BY <4>2, <4>3
    <3>b. \A c \in g.live : Sound(g.block[c])
      BY <1>2, <3>1, <3>5 DEF Heaps
    <3>9. HeapOK(g, G)
      BY <3>4, <3>5, <3>6, <3>8, <3>b DEF HeapOK
    <3>10. Keeps(h, g, G)
      BY <1>3, <2>1, <3>4, <3>5 DEF Keeps
    <3> QED
      BY <3>4, <3>5, <3>7, <3>9, <3>10 DEF g, G
  <2>5. CASE ~ (h.number[t] < Limit)
    <3>1. g = [live |-> h.live \ {b}, block |-> [h.block EXCEPT ![b] = NoBlock],
               cache |-> h.cache, number |-> h.number, lost |-> h.lost]
      <4>1. k.number = h.number
        BY <1>2 DEF Heaps
      <4>2. g = FreeBlock(k, b)
        BY <2>2, <2>5, <4>1 DEF ReleaseBlock
      <4> HIDE DEF e
      <4> QED
        BY ZenonT(60), <1>2, <4>2 DEF Heaps, FreeBlock
    <3>2. NoBlock \in BlockType /\ NoBlock.ref_num = 0
      BY DEF NoBlock, EmptyBlock, BlockType, Memory
    <3> HIDE DEF e, k, g
    <3>3. /\ g \in Heaps /\ g.live = h.live \ {b} /\ g.lost = h.lost /\ g.cache = h.cache
          /\ g.block[b] = NoBlock /\ \A c \in Blocks \ {b} : g.block[c] = h.block[c]
          /\ g.number = h.number
      BY <1>2, <3>1, <3>2 DEF Heaps
    <3>4. Counted(g, G)
      BY <1>1, <1>2, <2>1, <3>2, <3>3 DEF Counted, One
    <3>a. \A c \in g.live : Sound(g.block[c])
      BY <1>2, <3>3 DEF Heaps
    <3>5. HeapOK(g, G)
      BY <1>2, <3>3, <3>4, <3>a DEF HeapOK, Numbered
    <3>6. Keeps(h, g, G)
      BY <1>3, <2>1, <3>3 DEF Keeps
    <3> QED
      BY <3>3, <3>5, <3>6 DEF SameSlack, g, G
  <2> QED
    BY <2>4, <2>5
<1>8. x.ref_num \in Nat
  BY <1>3 DEF BlockType
<1> QED
  BY <1>6, <1>7, <1>8

\* A set of numbers has a least one.
LEMMA LeastOne ==
  ASSUME NEW S \in SUBSET Nat, S # {}
  PROVE  \E x \in S : \A y \in S : x <= y
<1> DEFINE R == OpToRel(<, Nat)
<1>1. IsWellFoundedOn(R, Nat)
  BY NatLessThanWellFounded, Zenon
<1> HIDE DEF R
<1>2. PICK x \in S : \A y \in S : ~ (<<y, x>> \in R)
  BY <1>1, WFMin
<1>3. \A y \in S : ~ (y < x)
  BY <1>2 DEF R, OpToRel
<1> QED
  BY <1>3

\* malloc answers a block that is not there yet.
LEMMA FreshIsFree ==
  ASSUME NEW h, NEW n \in Nat, h.live \subseteq 1 .. n, n + 1 \in Blocks
  PROVE  /\ Fresh(h) \in Blocks /\ Fresh(h) \notin h.live
         /\ h.live \cup {Fresh(h)} \subseteq 1 .. n + 1
<1> DEFINE S == Blocks \ h.live
<1>1. Blocks \subseteq Nat /\ \A b \in Blocks : b >= 1
  BY SizesAssumption DEF Blocks
<1>2. n + 1 \in S /\ S \in SUBSET Nat
  <2>1. n + 1 \notin 1 .. n
    OBVIOUS
  <2> QED
    BY <1>1, <2>1, Zenon
<1> HIDE DEF S
<1>3. \E x \in S : \A y \in S : x <= y
  BY <1>2, LeastOne
<1>4. Fresh(h) \in S /\ \A y \in S : Fresh(h) <= y
  BY <1>3, Zenon DEF Fresh, S
<1>5. Fresh(h) \in Blocks /\ Fresh(h) \notin h.live /\ Fresh(h) <= n + 1 /\ Fresh(h) \in Nat
      /\ Fresh(h) >= 1
  BY <1>1, <1>2, <1>4 DEF S
<1> QED
  BY <1>5

\* A heap is in order when its parts are.
PartsOK(live, block, cache, number, lost, F) ==
    /\ live \in SUBSET Blocks /\ block \in [Blocks -> BlockType] /\ cache \in Caches
    /\ number \in [Threads -> Nat] /\ lost \in SUBSET Blocks /\ Apart(cache)
    /\ \A u \in Threads : number[u] >= Len(cache[u])
    /\ \A c \in Blocks : /\ block[c].ref_num = F[c] + One(c \in InCache(cache)) + One(c \in lost)
                         /\ c \in live <=> block[c].ref_num > 0
                         /\ c \in live => Sound(block[c])

LEMMA HeapIsOK ==
  ASSUME NEW g, NEW live, NEW block, NEW cache, NEW number, NEW lost, NEW F,
         g = HeapOf(live, block, cache, number, lost),
         PartsOK(live, block, cache, number, lost, F)
  PROVE  /\ g.live = live /\ g.block = block /\ g.cache = cache /\ g.number = number
         /\ g.lost = lost /\ HeapOK(g, F)
<1>1. /\ g.live = live /\ g.block = block /\ g.cache = cache /\ g.number = number
      /\ g.lost = lost
  BY DEF HeapOf
<1>2. g \in Heaps
  BY DEF HeapOf, Heaps, PartsOK
<1> QED
  BY <1>1, <1>2 DEF HeapOK, Counted, Numbered, PartsOK

LEMMA HeapOKParts ==
  ASSUME NEW h, NEW F \in Loads, HeapOK(h, F)
  PROVE  /\ h = HeapOf(h.live, h.block, h.cache, h.number, h.lost)
         /\ h.live \in SUBSET Blocks /\ h.block \in [Blocks -> BlockType] /\ h.cache \in Caches
         /\ h.number \in [Threads -> Nat] /\ h.lost \in SUBSET Blocks /\ Apart(h.cache)
         /\ \A u \in Threads : /\ h.number[u] >= Len(h.cache[u]) /\ h.number[u] \in Nat
                               /\ Len(h.cache[u]) \in Nat
         /\ \A c \in Blocks :
               /\ h.block[c].ref_num = F[c] + One(c \in InCache(h.cache)) + One(c \in h.lost)
               /\ c \in h.live <=> h.block[c].ref_num > 0
               /\ c \in h.live => Sound(h.block[c])
               /\ h.block[c] \in BlockType /\ F[c] \in Nat
               /\ One(c \in InCache(h.cache)) \in Nat /\ One(c \in h.lost) \in Nat
               /\ F[c] > 0 \/ c \in InCache(h.cache) \/ c \in h.lost => c \in h.live
<1>1. h \in Heaps
  BY DEF HeapOK
<1>2. /\ h.live \in SUBSET Blocks /\ h.block \in [Blocks -> BlockType] /\ h.cache \in Caches
      /\ h.number \in [Threads -> Nat] /\ h.lost \in SUBSET Blocks
  BY <1>1 DEF Heaps
<1>3. \A u \in Threads : Len(h.cache[u]) \in Nat
  BY <1>2 DEF Caches
<1>4. ASSUME NEW c \in Blocks
      PROVE  /\ h.block[c].ref_num = F[c] + One(c \in InCache(h.cache)) + One(c \in h.lost)
             /\ c \in h.live <=> h.block[c].ref_num > 0
             /\ c \in h.live => Sound(h.block[c])
             /\ h.block[c] \in BlockType /\ F[c] \in Nat
             /\ One(c \in InCache(h.cache)) \in Nat /\ One(c \in h.lost) \in Nat
             /\ F[c] > 0 \/ c \in InCache(h.cache) \/ c \in h.lost => c \in h.live
  <2>1. h.block[c] \in BlockType /\ F[c] \in Nat
    BY <1>2 DEF Loads
  <2>2. h.block[c].ref_num = F[c] + One(c \in InCache(h.cache)) + One(c \in h.lost)
        /\ (c \in h.live <=> h.block[c].ref_num > 0)
    BY DEF HeapOK, Counted
  <2>3. c \in h.live => Sound(h.block[c])
    BY DEF HeapOK
  <2>4. F[c] > 0 \/ c \in InCache(h.cache) \/ c \in h.lost
        => F[c] + One(c \in InCache(h.cache)) + One(c \in h.lost) > 0
    BY <2>1 DEF One
  <2> QED
    BY <2>1, <2>2, <2>3, <2>4 DEF One
<1> QED
  BY <1>1, <1>2, <1>3, <1>4, HeapForm DEF HeapOK, Numbered

\* A block is counted once more.
LEMMA IncRefKeeps ==
  ASSUME NEW h, NEW F \in Loads, HeapOK(h, F), NEW b \in Blocks, b \in h.live
  PROVE  LET g == IncRef(h, b)
         IN /\ HeapOK(g, More(F, b)) /\ Keeps(h, g, F) /\ SameSlack(h, g)
            /\ g.live = h.live /\ g.cache = h.cache /\ g.number = h.number
            /\ \A c \in Blocks : /\ g.block[c].offset = h.block[c].offset
                                 /\ g.block[c].capacity = h.block[c].capacity
                                 /\ g.block[c].mem = h.block[c].mem
<1> DEFINE g == IncRef(h, b)
           G == More(F, b)
           y == [h.block[b] EXCEPT !.ref_num = @ + 1]
           blk == [h.block EXCEPT ![b] = y]
<1>1. /\ h = HeapOf(h.live, h.block, h.cache, h.number, h.lost)
      /\ h.live \in SUBSET Blocks /\ h.block \in [Blocks -> BlockType] /\ h.cache \in Caches
      /\ h.number \in [Threads -> Nat] /\ h.lost \in SUBSET Blocks /\ Apart(h.cache)
      /\ \A u \in Threads : h.number[u] >= Len(h.cache[u])
  BY HeapOKParts
<1>2. \A c \in Blocks :
        /\ h.block[c].ref_num = F[c] + One(c \in InCache(h.cache)) + One(c \in h.lost)
        /\ c \in h.live <=> h.block[c].ref_num > 0
        /\ c \in h.live => Sound(h.block[c])
        /\ h.block[c] \in BlockType /\ F[c] \in Nat
        /\ One(c \in InCache(h.cache)) \in Nat /\ One(c \in h.lost) \in Nat
  BY HeapOKParts
<1>3. G \in Loads /\ G[b] = F[b] + 1 /\ \A c \in Blocks \ {b} : G[c] = F[c]
  BY DEF Loads, More
<1>4. /\ y \in BlockType /\ y.ref_num = h.block[b].ref_num + 1 /\ y.offset = h.block[b].offset
      /\ y.capacity = h.block[b].capacity /\ y.mem = h.block[b].mem
  BY <1>1 DEF BlockType
<1>5. g = HeapOf(h.live, blk, h.cache, h.number, h.lost)
  <2>1. g = HeapOf(h.live, [h.block EXCEPT ![b].ref_num = @ + 1], h.cache, h.number, h.lost)
    BY <1>1, IncRefIs
  <2>2. [h.block EXCEPT ![b].ref_num = @ + 1] = blk
    BY <1>1
  <2> QED
    BY <2>1, <2>2
<1> HIDE DEF y
<1>6. blk \in [Blocks -> BlockType] /\ blk[b] = y /\ \A c \in Blocks \ {b} : blk[c] = h.block[c]
  BY <1>1, <1>4
<1> HIDE DEF blk, g, G
<1>7. ASSUME NEW c \in Blocks
      PROVE  /\ blk[c].ref_num = G[c] + One(c \in InCache(h.cache)) + One(c \in h.lost)
             /\ c \in h.live <=> blk[c].ref_num > 0
             /\ c \in h.live => Sound(blk[c])
             /\ blk[c].offset = h.block[c].offset /\ blk[c].capacity = h.block[c].capacity
             /\ blk[c].mem = h.block[c].mem
  <2>1. CASE c = b
    <3>1. h.block[b].ref_num > 0 /\ h.block[b].ref_num \in Nat /\ Sound(h.block[b])
      BY <1>2 DEF BlockType
    <3>2. Sound(y)
      BY <1>4, <3>1 DEF Sound
    <3> QED
      BY <1>2, <1>3, <1>4, <1>6, <2>1, <3>1, <3>2
  <2>2. CASE c # b
    BY <1>2, <1>3, <1>6, <2>2
  <2> QED
    BY <2>1, <2>2
<1>a. PartsOK(h.live, blk, h.cache, h.number, h.lost, G)
  BY <1>1, <1>6, <1>7 DEF PartsOK
<1>8. /\ g.live = h.live /\ g.block = blk /\ g.cache = h.cache /\ g.number = h.number
      /\ g.lost = h.lost /\ HeapOK(g, G)
  BY <1>5, <1>a, HeapIsOK
<1>9. Keeps(h, g, F)
  BY <1>2, <1>7, <1>8 DEF Keeps, SameFront, BlockType
<1> QED
  BY <1>7, <1>8, <1>9 DEF SameSlack, g, G

\* A new block with one reference, in the cache or outside
OneMore(h, F, f, t, size, live, blk, cache, num, G) ==
    /\ live = h.live \cup {f}
    /\ blk \in [Blocks -> BlockType] /\ blk[f] = EmptyBlock(1, size)
    /\ \A c \in Blocks \ {f} : blk[c] = h.block[c]
    /\ num \in [Threads -> Nat] /\ num[t] = h.number[t] + 1
    /\ \A u \in Threads \ {t} : num[u] = h.number[u]
    /\ cache \in Caches /\ Apart(cache) /\ \A u \in Threads \ {t} : cache[u] = h.cache[u]
    /\ Len(cache[t]) <= Len(h.cache[t]) + 1
    /\ \A c \in Blocks \ {f} : G[c] = F[c] /\ (c \in InCache(cache) <=> c \in InCache(h.cache))
    /\ G[f] + One(f \in InCache(cache)) = 1

Added(h, g, f, size, live, cache, num) ==
    /\ g.live = live /\ g.cache = cache /\ g.lost = h.lost /\ g.number = num
    /\ g.block[f].offset = 0 /\ g.block[f].capacity = size
    /\ \A c \in Blocks \ {f} : g.block[c] = h.block[c]

LEMMA BlockAdded ==
  ASSUME NEW h, NEW F \in Loads, HeapOK(h, F), NEW f \in Blocks, f \notin h.live,
         NEW size \in Nat, size % Align = 0, NEW t \in Threads, NEW G \in Loads,
         NEW live, NEW blk, NEW cache, NEW num,
         OneMore(h, F, f, t, size, live, blk, cache, num, G),
         NEW g, g = HeapOf(live, blk, cache, num, h.lost)
  PROVE  HeapOK(g, G) /\ Keeps(h, g, F) /\ Added(h, g, f, size, live, cache, num)
<1> DEFINE y == EmptyBlock(1, size)
<1>0. /\ live = h.live \cup {f}
      /\ blk \in [Blocks -> BlockType] /\ blk[f] = y
      /\ \A c \in Blocks \ {f} : blk[c] = h.block[c]
      /\ num \in [Threads -> Nat] /\ num[t] = h.number[t] + 1
      /\ \A u \in Threads \ {t} : num[u] = h.number[u]
      /\ cache \in Caches /\ Apart(cache) /\ \A u \in Threads \ {t} : cache[u] = h.cache[u]
      /\ Len(cache[t]) <= Len(h.cache[t]) + 1
      /\ \A c \in Blocks \ {f} : G[c] = F[c] /\ (c \in InCache(cache) <=> c \in InCache(h.cache))
      /\ G[f] + One(f \in InCache(cache)) = 1
  BY DEF OneMore
<1>1. /\ h.live \in SUBSET Blocks /\ h.lost \in SUBSET Blocks
      /\ \A u \in Threads : /\ h.number[u] >= Len(h.cache[u]) /\ h.number[u] \in Nat
                            /\ Len(h.cache[u]) \in Nat
  BY HeapOKParts
<1>2. \A c \in Blocks :
        /\ h.block[c].ref_num = F[c] + One(c \in InCache(h.cache)) + One(c \in h.lost)
        /\ c \in h.live <=> h.block[c].ref_num > 0
        /\ c \in h.live => Sound(h.block[c])
        /\ h.block[c] \in BlockType /\ F[c] \in Nat
        /\ One(c \in InCache(h.cache)) \in Nat /\ One(c \in h.lost) \in Nat
        /\ F[c] > 0 \/ c \in InCache(h.cache) \/ c \in h.lost => c \in h.live
  BY HeapOKParts
<1>3. y \in BlockType /\ y.ref_num = 1 /\ y.offset = 0 /\ y.capacity = size /\ Sound(y)
  BY EmptyBlockFits
<1> HIDE DEF y
<1>8. \A u \in Threads : num[u] >= Len(cache[u])
  <2> SUFFICES ASSUME NEW u \in Threads PROVE num[u] >= Len(cache[u])
    OBVIOUS
  <2>1. Len(cache[t]) \in Nat
    BY <1>0 DEF Caches
  <2>2. CASE u = t
    BY <1>0, <1>1, <2>1, <2>2
  <2>3. CASE u # t
    BY <1>0, <1>1, <2>3
  <2> QED
    BY <2>2, <2>3
<1>9. ASSUME NEW c \in Blocks
      PROVE  /\ blk[c].ref_num = G[c] + One(c \in InCache(cache)) + One(c \in h.lost)
             /\ c \in live <=> blk[c].ref_num > 0
             /\ c \in live => Sound(blk[c])
  <2>1. CASE c = f
    BY <1>0, <1>2, <1>3, <2>1 DEF One
  <2>2. CASE c # f
    BY <1>0, <1>2, <2>2 DEF One
  <2> QED
    BY <2>1, <2>2
<1>10. PartsOK(live, blk, cache, num, h.lost, G)
  BY <1>0, <1>1, <1>8, <1>9 DEF PartsOK
<1>11. /\ g.live = live /\ g.block = blk /\ g.cache = cache /\ g.number = num
       /\ g.lost = h.lost /\ HeapOK(g, G)
  BY <1>10, HeapIsOK
<1>12. Keeps(h, g, F)
  <2> SUFFICES ASSUME NEW c \in Blocks, F[c] > 0
               PROVE  /\ SameFront(h.block[c], g.block[c])
                      /\ c \notin InCache(h.cache) =>
                            c \notin InCache(g.cache) /\ g.block[c].offset = h.block[c].offset
    BY DEF Keeps
  <2>1. c # f /\ g.block[c] = h.block[c] /\ SameFront(h.block[c], h.block[c])
    BY <1>0, <1>2, <1>11, SameFrontSame
  <2> QED
    BY <1>0, <1>11, <2>1
<1> QED
  BY <1>0, <1>3, <1>11, <1>12 DEF Added

\* More is written into a block, behind what is in use.
LEMMA BlockFilled ==
  ASSUME NEW h, NEW F \in Loads, HeapOK(h, F), NEW b \in Blocks, NEW y \in BlockType,
         y.ref_num = h.block[b].ref_num, Sound(y), SameFront(h.block[b], y)
  PROVE  LET g == [h EXCEPT !.block[b] = y]
         IN /\ HeapOK(g, F)
            /\ b \in InCache(h.cache) => Keeps(h, g, F)
            /\ g.live = h.live /\ g.cache = h.cache /\ g.lost = h.lost /\ g.number = h.number
            /\ g.block[b] = y /\ \A c \in Blocks \ {b} : g.block[c] = h.block[c]
<1> DEFINE g == [h EXCEPT !.block[b] = y]
           blk == [h.block EXCEPT ![b] = y]
<1>1. /\ h = HeapOf(h.live, h.block, h.cache, h.number, h.lost)
      /\ h.live \in SUBSET Blocks /\ h.block \in [Blocks -> BlockType] /\ h.cache \in Caches
      /\ h.number \in [Threads -> Nat] /\ h.lost \in SUBSET Blocks /\ Apart(h.cache)
      /\ \A u \in Threads : h.number[u] >= Len(h.cache[u])
  BY HeapOKParts
<1>2. \A c \in Blocks :
        /\ h.block[c].ref_num = F[c] + One(c \in InCache(h.cache)) + One(c \in h.lost)
        /\ c \in h.live <=> h.block[c].ref_num > 0
        /\ c \in h.live => Sound(h.block[c])
        /\ h.block[c] \in BlockType
  BY HeapOKParts
<1>3. g = HeapOf(h.live, blk, h.cache, h.number, h.lost)
  <2>1. [HeapOf(h.live, h.block, h.cache, h.number, h.lost) EXCEPT !.block[b] = y]
        = HeapOf(h.live, blk, h.cache, h.number, h.lost)
    BY SMTT(60), PutIs
  <2> QED
    BY <1>1, <2>1, Zenon
<1>4. blk \in [Blocks -> BlockType] /\ blk[b] = y /\ \A c \in Blocks \ {b} : blk[c] = h.block[c]
  BY <1>1
<1> HIDE DEF blk, g
<1>5. \A c \in Blocks :
        /\ blk[c].ref_num = F[c] + One(c \in InCache(h.cache)) + One(c \in h.lost)
        /\ c \in h.live <=> blk[c].ref_num > 0
        /\ c \in h.live => Sound(blk[c])
  BY <1>2, <1>4
<1>6. PartsOK(h.live, blk, h.cache, h.number, h.lost, F)
  BY <1>1, <1>4, <1>5 DEF PartsOK
<1>7. /\ g.live = h.live /\ g.block = blk /\ g.cache = h.cache /\ g.number = h.number
      /\ g.lost = h.lost /\ HeapOK(g, F)
  BY <1>3, <1>6, HeapIsOK
<1>8. ASSUME b \in InCache(h.cache)
      PROVE  Keeps(h, g, F)
  <2> SUFFICES ASSUME NEW c \in Blocks, F[c] > 0
               PROVE  /\ SameFront(h.block[c], g.block[c])
                      /\ c \notin InCache(h.cache) =>
                            c \notin InCache(g.cache) /\ g.block[c].offset = h.block[c].offset
    BY DEF Keeps
  <2>1. SameFront(h.block[c], h.block[c])
    BY <1>2, SameFrontSame
  <2>2. CASE c = b
    BY <1>4, <1>7, <1>8, <2>2
  <2>3. CASE c # b
    BY <1>4, <1>7, <2>1, <2>3
  <2> QED
    BY <2>2, <2>3
<1> QED
  BY <1>4, <1>7, <1>8 DEF g

\* A new block is linked in front of the list.
Within(h, n) == n \in Nat /\ h.live \subseteq 1 .. n
Fits(size) == size \in Nat /\ size % Align = 0
NewHead(h, g, t, f, size) ==
    /\ f \in Blocks /\ f \notin h.live
    /\ g.cache[t] = <<f>> \o h.cache[t] /\ \A u \in Threads \ {t} : g.cache[u] = h.cache[u]
    /\ InCache(g.cache) = InCache(h.cache) \cup {f}
    /\ g.block[f].offset = 0 /\ g.block[f].capacity = size
    /\ \A c \in Blocks \ {f} : g.block[c] = h.block[c]

LEMMA NewLinked ==
  ASSUME NEW h, NEW F \in Loads, HeapOK(h, F), NEW t \in Threads, NEW size, Fits(size),
         NEW n, Within(h, n), n + 1 \in Blocks
  PROVE  /\ HeapOK(LinkNew(h, t, size), F) /\ Keeps(h, LinkNew(h, t, size), F)
         /\ NewHead(h, LinkNew(h, t, size), t, Fresh(h), size)
         /\ Within(LinkNew(h, t, size), n + 1)
<1> DEFINE f == Fresh(h)
           g == LinkNew(h, t, size)
           y == EmptyBlock(1, size)
           blk == [h.block EXCEPT ![f] = y]
           new == [h.cache EXCEPT ![t] = <<f>> \o @]
           num == [h.number EXCEPT ![t] = @ + 1]
           live == h.live \cup {f}
<1>1. h \in Heaps /\ h.cache \in Caches /\ Apart(h.cache)
  BY HeapOKParts DEF HeapOK
<1>2. f \in Blocks /\ f \notin h.live /\ live \subseteq 1 .. n + 1
  BY FreshIsFree DEF Within
<1>3. f \notin InCache(h.cache) /\ F[f] = 0
  BY <1>2, HeapOKParts
<1>4. CreateBlock(h, size) = HeapOf(live, blk, h.cache, h.number, h.lost)
  BY <1>1, CreateIs
<1> HIDE DEF f, y, blk, live
<1>5. [CreateBlock(h, size) EXCEPT !.number[t] = @ + 1] = HeapOf(live, blk, h.cache, num, h.lost)
  <2>1. [HeapOf(live, blk, h.cache, h.number, h.lost) EXCEPT !.number[t] = @ + 1]
        = HeapOf(live, blk, h.cache, num, h.lost)
    BY DEF HeapOf
  <2> QED
    BY <1>4, <2>1, Zenon
<1>6. g = HeapOf(live, blk, new, num, h.lost)
  <2> HIDE DEF num
  <2>1. Link(HeapOf(live, blk, h.cache, num, h.lost), t, f) = HeapOf(live, blk, new, num, h.lost)
    BY LinkIs
  <2> QED
    BY <1>5, <2>1, Zenon DEF LinkNew, f
<1>7. /\ new \in Caches /\ Apart(new) /\ InCache(new) = InCache(h.cache) \cup {f}
      /\ Len(new[t]) = Len(h.cache[t]) + 1
  BY <1>1, <1>2, <1>3, Linked
<1>8. new[t] = <<f>> \o h.cache[t] /\ \A u \in Threads \ {t} : new[u] = h.cache[u]
  BY <1>1 DEF Caches
<1> HIDE DEF new
<1>9. \A c \in Blocks \ {f} : F[c] = F[c] /\ (c \in InCache(new) <=> c \in InCache(h.cache))
  BY <1>7
<1>10. F[f] + One(f \in InCache(new)) = 1
  BY <1>3, <1>7 DEF One
<1>11. Len(new[t]) <= Len(h.cache[t]) + 1
  <2>1. Len(h.cache[t]) \in Nat
    BY <1>1 DEF Caches
  <2> QED
    BY <1>7, <2>1
<1> HIDE DEF g
<1>12. /\ HeapOK(g, F) /\ Keeps(h, g, F)
       /\ g.live = h.live \cup {f} /\ g.cache = new /\ g.lost = h.lost
       /\ g.block[f].offset = 0 /\ g.block[f].capacity = size
       /\ \A c \in Blocks \ {f} : g.block[c] = h.block[c]
  <2>1. blk \in [Blocks -> BlockType] /\ blk[f] = y /\ \A c \in Blocks \ {f} : blk[c] = h.block[c]
    BY <1>1, <1>2, EmptyBlockFits DEF y, blk, Heaps, Fits
  <2>0. size \in Nat /\ size % Align = 0
    BY DEF Fits
  <2>2. num \in [Threads -> Nat] /\ num[t] = h.number[t] + 1
        /\ \A u \in Threads \ {t} : num[u] = h.number[u]
    BY <1>1 DEF Heaps
  <2> HIDE DEF num
  <2>3. OneMore(h, F, f, t, size, live, blk, new, num, F)
    BY <1>7, <1>8, <1>9, <1>10, <1>11, <2>1, <2>2 DEF OneMore, y, live
  <2>4. /\ HeapOK(g, F) /\ Keeps(h, g, F) /\ g.live = live /\ g.cache = new /\ g.lost = h.lost
        /\ g.block[f].offset = 0 /\ g.block[f].capacity = size
        /\ \A c \in Blocks \ {f} : g.block[c] = h.block[c]
    <3> HIDE DEF new
    <3>1. f \in Blocks /\ f \notin h.live
      BY <1>2
    <3>2. Added(h, g, f, size, live, new, num) /\ HeapOK(g, F) /\ Keeps(h, g, F)
      BY <1>6, <2>0, <2>3, <3>1, BlockAdded
    <3> QED
      BY <3>2 DEF Added
  <2> QED
    BY <2>4 DEF live
<1>13. NewHead(h, g, t, f, size)
  BY <1>2, <1>7, <1>8, <1>12 DEF NewHead
<1>14. Within(g, n + 1)
  BY <1>2, <1>12 DEF Within, live
<1> QED
  BY <1>12, <1>13, <1>14 DEF f, g

\* acquire_block, once the head is not full
LEMMA KeepsSame ==
  ASSUME NEW h, NEW F \in Loads, HeapOK(h, F)
  PROVE  Keeps(h, h, F)
BY HeapOKParts, SameFrontSame DEF Keeps

LEMMA AcquireBlockKeeps ==
  ASSUME NEW h, NEW F \in Loads, HeapOK(h, F), NEW t \in Threads,
         NEW n, Within(h, n), n + 1 \in Blocks
  PROVE  LET g == AcquireBlock(h, t)
         IN /\ HeapOK(g, F) /\ Keeps(h, g, F) /\ Within(g, n + 1)
            /\ g.cache[t] # <<>> /\ Head(g.cache[t]) \in InCache(g.cache)
            /\ InCache(h.cache) \subseteq InCache(g.cache)
<1>1. CASE h.cache[t] # <<>>
  <2>1. AcquireBlock(h, t) = h
    BY <1>1 DEF AcquireBlock
  <2>3. h.cache \in Caches /\ Apart(h.cache)
    BY HeapOKParts
  <2>4. Head(h.cache[t]) \in InCache(h.cache)
    BY <1>1, <2>3, UnlinkedHead
  <2>5. Within(h, n + 1)
    BY DEF Within
  <2> QED
    BY <1>1, <2>1, <2>4, <2>5, KeepsSame
<1>2. CASE h.cache[t] = <<>>
  <2> DEFINE f == Fresh(h)
             g == LinkNew(h, t, Cap)
  <2>1. AcquireBlock(h, t) = g
    BY <1>2 DEF AcquireBlock
  <2>2. Fits(Cap)
    BY SizesAssumption DEF Fits
  <2>3. HeapOK(g, F) /\ Keeps(h, g, F) /\ NewHead(h, g, t, f, Cap) /\ Within(g, n + 1)
    BY <2>2, NewLinked
  <2> HIDE DEF g, f
  <2>4. /\ f \in Blocks /\ g.cache[t] = <<f>> \o h.cache[t]
        /\ InCache(g.cache) = InCache(h.cache) \cup {f}
    BY <2>3 DEF NewHead
  <2>6. g.cache[t] # <<>> /\ Head(g.cache[t]) = f
    BY <1>2, <2>4
  <2> QED
    BY <2>1, <2>3, <2>4, <2>6
<1> QED
  BY <1>1, <1>2

\* The first k blocks of a list go out of the cache with their references.
Firsts(h, t, k) == {h.cache[t][i] : i \in 1 .. k}
Taking(h, F, t, k, num, G) ==
    /\ k \in 0 .. Len(h.cache[t])
    /\ num \in [Threads -> Nat] /\ num[t] >= Len(h.cache[t]) - k
    /\ \A u \in Threads \ {t} : num[u] = h.number[u]
    /\ \A c \in Blocks : G[c] = F[c] + One(c \in Firsts(h, t, k))
Without(h, g, t, k, num) ==
    /\ g.live = h.live /\ g.block = h.block /\ g.lost = h.lost /\ g.number = num
    /\ InCache(g.cache) = InCache(h.cache) \ Firsts(h, t, k)
    /\ Len(g.cache[t]) = Len(h.cache[t]) - k
    /\ \A u \in Threads \ {t} : g.cache[u] = h.cache[u]

LEMMA FirstsOut ==
  ASSUME NEW h, NEW F \in Loads, HeapOK(h, F), NEW t \in Threads, NEW k,
         NEW num, NEW G \in Loads, Taking(h, F, t, k, num, G),
         NEW g, g = HeapOf(h.live, h.block, [h.cache EXCEPT ![t] = SubSeq(@, k + 1, Len(@))],
                           num, h.lost)
  PROVE  HeapOK(g, G) /\ Keeps(h, g, F) /\ Without(h, g, t, k, num)
<1> DEFINE new == [h.cache EXCEPT ![t] = SubSeq(@, k + 1, Len(@))]
<1>0. /\ k \in 0 .. Len(h.cache[t])
      /\ num \in [Threads -> Nat] /\ num[t] >= Len(h.cache[t]) - k
      /\ \A u \in Threads \ {t} : num[u] = h.number[u]
      /\ \A c \in Blocks : G[c] = F[c] + One(c \in Firsts(h, t, k))
  BY DEF Taking
<1>1. /\ h.live \in SUBSET Blocks /\ h.block \in [Blocks -> BlockType] /\ h.cache \in Caches
      /\ h.number \in [Threads -> Nat] /\ h.lost \in SUBSET Blocks /\ Apart(h.cache)
      /\ \A u \in Threads : h.number[u] >= Len(h.cache[u])
  BY HeapOKParts
<1>2. \A c \in Blocks :
        /\ h.block[c].ref_num = F[c] + One(c \in InCache(h.cache)) + One(c \in h.lost)
        /\ c \in h.live <=> h.block[c].ref_num > 0
        /\ c \in h.live => Sound(h.block[c])
        /\ h.block[c] \in BlockType /\ F[c] \in Nat
        /\ One(c \in h.lost) \in Nat
  BY HeapOKParts
<1>3. /\ new \in Caches /\ Apart(new)
      /\ InCache(new) = InCache(h.cache) \ Firsts(h, t, k)
      /\ Len(new[t]) = Len(h.cache[t]) - k
  <2>1. h.cache \in Caches /\ Apart(h.cache) /\ k \in 0 .. Len(h.cache[t])
    BY <1>0, <1>1
  <2>2. /\ new \in Caches /\ Apart(new)
        /\ InCache(new) = InCache(h.cache) \ {h.cache[t][i] : i \in 1 .. k}
        /\ Len(new[t]) = Len(h.cache[t]) - k
    BY <2>1, Unlinked
  <2> QED
    BY <2>2, Zenon DEF Firsts
<1>4. \A u \in Threads \ {t} : new[u] = h.cache[u]
  BY <1>1 DEF Caches
<1>5. Firsts(h, t, k) \subseteq InCache(h.cache)
  <2>1. h.cache[t] \in Seq(Blocks)
    BY <1>1 DEF Caches
  <2> QED
    BY <1>0, <2>1 DEF Firsts, InCache, InList
<1> HIDE DEF new
<1>6. ASSUME NEW c \in Blocks
      PROVE  h.block[c].ref_num = G[c] + One(c \in InCache(new)) + One(c \in h.lost)
  BY <1>0, <1>2, <1>3, <1>5 DEF One
<1>7. \A u \in Threads : num[u] >= Len(new[u])
  BY <1>0, <1>1, <1>3, <1>4
<1>8. PartsOK(h.live, h.block, new, num, h.lost, G)
  BY <1>0, <1>1, <1>2, <1>3, <1>6, <1>7 DEF PartsOK
<1>9. /\ g.live = h.live /\ g.block = h.block /\ g.cache = new /\ g.number = num
      /\ g.lost = h.lost /\ HeapOK(g, G)
  <2>1. g = HeapOf(h.live, h.block, new, num, h.lost)
    BY DEF new
  <2> QED
    BY <1>8, <2>1, HeapIsOK
<1>10. Keeps(h, g, F)
  BY <1>2, <1>3, <1>9, SameFrontSame DEF Keeps
<1> QED
  BY <1>3, <1>4, <1>9, <1>10 DEF Without

\* The list is shortened by its head, which the number does not tell.
LEMMA HeadOut ==
  ASSUME NEW h, NEW F \in Loads, HeapOK(h, F), NEW t \in Threads, h.cache[t] # <<>>
  PROVE  LET b == Head(h.cache[t])
             g == [h EXCEPT !.cache[t] = Tail(@)]
         IN /\ b \in Blocks /\ b \in InCache(h.cache)
            /\ HeapOK(g, More(F, b)) /\ Keeps(h, g, F)
            /\ g.live = h.live /\ g.block = h.block /\ g.number = h.number
            /\ InCache(g.cache) = InCache(h.cache) \ {b}
            /\ Len(g.cache[t]) = Len(h.cache[t]) - 1
            /\ \A u \in Threads \ {t} : g.cache[u] = h.cache[u]
<1> DEFINE b == Head(h.cache[t])
           g == [h EXCEPT !.cache[t] = Tail(@)]
           G == More(F, b)
           new == [h.cache EXCEPT ![t] = SubSeq(@, 1 + 1, Len(@))]
<1>1. /\ h.cache \in Caches /\ Apart(h.cache) /\ h.number \in [Threads -> Nat]
      /\ h.number[t] >= Len(h.cache[t]) /\ h.number[t] \in Nat /\ h \in Heaps
  BY HeapOKParts DEF HeapOK
<1>2. h.cache[t] \in Seq(Blocks)
  BY <1>1 DEF Caches
<1>3. /\ Len(h.cache[t]) >= 1 /\ Len(h.cache[t]) \in Nat /\ b = h.cache[t][1] /\ b \in Blocks
      /\ Tail(h.cache[t]) = SubSeq(h.cache[t], 1 + 1, Len(h.cache[t]))
  BY <1>2
<1>4. Firsts(h, t, 1) = {b}
  BY <1>3 DEF Firsts
<1>5. b \in InCache(h.cache)
  BY <1>1, UnlinkedHead
<1>6. g = HeapOf(h.live, h.block, new, h.number, h.lost)
  <2>1. g = HeapOf(h.live, h.block, [h.cache EXCEPT ![t] = Tail(@)], h.number, h.lost)
    <3> HIDE DEF b, G, new
    <3> DEFINE s == Tail(h.cache[t])
    <3>1. g = [h EXCEPT !.cache[t] = s]
      OBVIOUS
    <3>2. [h.cache EXCEPT ![t] = Tail(@)] = [h.cache EXCEPT ![t] = s]
      OBVIOUS
    <3> HIDE DEF s, g
    <3>3. g = HeapOf(h.live, h.block, [h.cache EXCEPT ![t] = s], h.number, h.lost)
      BY <1>1, <3>1 DEF HeapOf, Heaps
    <3> QED
      BY <3>2, <3>3
  <2> QED
    BY <1>3, <2>1
<1> HIDE DEF b
<1>7. G \in Loads /\ \A c \in Blocks : G[c] = F[c] + One(c \in {b})
  BY <1>3 DEF Loads, More, One
<1> HIDE DEF G, g
<1>8. Taking(h, F, t, 1, h.number, G)
  BY <1>1, <1>3, <1>4, <1>7 DEF Taking
<1>9. HeapOK(g, G) /\ Keeps(h, g, F) /\ Without(h, g, t, 1, h.number)
  BY <1>6, <1>7, <1>8, FirstsOut
<1> QED
  BY <1>3, <1>4, <1>5, <1>9 DEF Without, G, g, b

LEMMA LoadsChange ==
  ASSUME NEW F \in Loads, NEW b \in Blocks
  PROVE  /\ More(F, b) \in Loads /\ More(F, b)[b] > 0 /\ Less(More(F, b), b) = F
         /\ \A c \in Blocks : More(F, b)[c] = F[c] + One(c = b)
         /\ F[b] > 0 => /\ Less(F, b) \in Loads
                        /\ \A c \in Blocks : Less(F, b)[c] = F[c] - One(c = b)
<1> DEFINE G == More(F, b)
           H == Less(F, b)
<1>0. F \in [Blocks -> Nat]
  BY DEF Loads
<1>1. G \in [Blocks -> Nat] /\ G[b] = F[b] + 1 /\ \A c \in Blocks \ {b} : G[c] = F[c]
  BY <1>0 DEF More
<1>2. \A c \in Blocks : G[c] = F[c] + One(c = b)
  BY <1>0, <1>1 DEF One
<1>3. Less(G, b) = F
  BY <1>0, <1>1 DEF Less
<1>4. ASSUME F[b] > 0
      PROVE  H \in Loads /\ \A c \in Blocks : H[c] = F[c] - One(c = b)
  <2>1. H \in [Blocks -> Nat] /\ H[b] = F[b] - 1 /\ \A c \in Blocks \ {b} : H[c] = F[c]
    BY <1>0, <1>4 DEF Less
  <2> HIDE DEF H
  <2> QED
    BY <1>0, <2>1 DEF One, Loads
<1>5. G \in Loads /\ G[b] > 0
  BY <1>0, <1>1 DEF Loads
<1> QED
  BY <1>2, <1>3, <1>4, <1>5

IsHeap(h) == h \in Heaps

LEMMA KeepsOn ==
  ASSUME NEW h, IsHeap(h), NEW g, IsHeap(g), NEW k, IsHeap(k), NEW F, Keeps(h, g, F), Keeps(g, k, F)
  PROVE  Keeps(h, k, F)
<1>1. \A c \in Blocks : h.block[c] \in BlockType /\ g.block[c] \in BlockType /\ k.block[c] \in BlockType
  BY DEF IsHeap, Heaps
<1> SUFFICES ASSUME NEW c \in Blocks, F[c] > 0
             PROVE  /\ SameFront(h.block[c], k.block[c])
                    /\ c \notin InCache(h.cache) =>
                          c \notin InCache(k.cache) /\ k.block[c].offset = h.block[c].offset
  BY DEF Keeps
<1>2. /\ SameFront(h.block[c], g.block[c]) /\ SameFront(g.block[c], k.block[c])
      /\ c \notin InCache(h.cache) =>
            c \notin InCache(k.cache) /\ k.block[c].offset = h.block[c].offset
  BY DEF Keeps
<1>3. ASSUME NEW x \in BlockType, NEW y \in BlockType, NEW z \in BlockType,
             SameFront(x, y), SameFront(y, z)
      PROVE  SameFront(x, z)
  <2>1. x.offset \in Nat /\ y.offset \in Nat /\ z.offset \in Nat
    BY DEF BlockType
  <2>2. \A i \in 0 .. x.offset - 1 : i \in 0 .. y.offset - 1
    BY <1>3, <2>1 DEF SameFront
  <2> QED
    BY <1>3, <2>1, <2>2 DEF SameFront
<1> QED
  BY <1>1, <1>2, <1>3

LEMMA OKHeap ==
  ASSUME NEW h, NEW F, HeapOK(h, F)
  PROVE  IsHeap(h)
BY DEF HeapOK, IsHeap

\* The head is unlinked and its reference given back, as ~ThreadLocalBlockCache
\* and pop_front do.
LEMMA DropHeadKeeps ==
  ASSUME NEW h, NEW F \in Loads, HeapOK(h, F), NEW t \in Threads, h.cache[t] # <<>>
  PROVE  LET g == DropHead(h, t)
         IN /\ HeapOK(g, F) /\ Keeps(h, g, F) /\ g.live \subseteq h.live
            /\ g.number[t] >= Len(g.cache[t]) + 1
<1> DEFINE b == Head(h.cache[t])
           k == [h EXCEPT !.cache[t] = Tail(@)]
           g == DecRef(k, t, b)
           G == More(F, b)
<1>1. /\ b \in Blocks /\ HeapOK(k, G) /\ Keeps(h, k, F)
      /\ k.live = h.live /\ k.number = h.number
      /\ Len(k.cache[t]) = Len(h.cache[t]) - 1
  BY HeadOut
<1>2. G \in Loads /\ G[b] > 0 /\ Less(G, b) = F
  BY <1>1, LoadsChange
<1>3. DropHead(h, t) = g
  BY DEF DropHead
<1> HIDE DEF b, k, G
<1>4. /\ HeapOK(g, Less(G, b)) /\ Keeps(k, g, Less(G, b)) /\ SameSlack(k, g) /\ g.live \subseteq k.live
  BY <1>1, <1>2, DecRefKeeps
<1> HIDE DEF g
<1>5. IsHeap(h) /\ IsHeap(k) /\ IsHeap(g)
  BY <1>1, <1>4, OKHeap
<1>6. HeapOK(g, F) /\ Keeps(h, g, F) /\ g.live \subseteq h.live
  BY <1>1, <1>2, <1>4, <1>5, KeepsOn
<1>7. /\ h.number[t] >= Len(h.cache[t]) /\ h.number[t] \in Nat /\ Len(h.cache[t]) \in Nat
  BY HeapOKParts
<1>8. g.number[t] \in Nat /\ Len(g.cache[t]) \in Nat
  BY <1>6, HeapOKParts
<1>9. g.number[t] - Len(g.cache[t]) = h.number[t] - (Len(h.cache[t]) - 1)
  BY <1>1, <1>4 DEF SameSlack
<1>10. g.number[t] >= Len(g.cache[t]) + 1
  <2> DEFINE a == g.number[t]
             p == Len(g.cache[t])
             c == h.number[t]
             d == Len(h.cache[t])
  <2>1. a \in Nat /\ p \in Nat /\ c \in Nat /\ d \in Nat /\ c >= d /\ a - p = c - (d - 1)
    BY <1>7, <1>8, <1>9
  <2> HIDE DEF a, p, c, d
  <2>2. a >= p + 1
    BY <2>1
  <2> QED
    BY <2>2 DEF a, p
<1> QED
  BY <1>3, <1>6, <1>10

\* block_number_ is counted down.
LEMMA NumberDown ==
  ASSUME NEW h, NEW F \in Loads, HeapOK(h, F), NEW t \in Threads,
         h.number[t] >= Len(h.cache[t]) + 1
  PROVE  LET g == [h EXCEPT !.number[t] = @ - 1]
         IN HeapOK(g, F) /\ Keeps(h, g, F) /\ g.live = h.live
<1> DEFINE g == [h EXCEPT !.number[t] = @ - 1]
           num == [h.number EXCEPT ![t] = @ - 1]
<1>1. /\ h = HeapOf(h.live, h.block, h.cache, h.number, h.lost)
      /\ h.live \in SUBSET Blocks /\ h.block \in [Blocks -> BlockType] /\ h.cache \in Caches
      /\ h.number \in [Threads -> Nat] /\ h.lost \in SUBSET Blocks /\ Apart(h.cache)
      /\ \A u \in Threads : /\ h.number[u] >= Len(h.cache[u]) /\ h.number[u] \in Nat
                            /\ Len(h.cache[u]) \in Nat
  BY HeapOKParts
<1>2. \A c \in Blocks :
        /\ h.block[c].ref_num = F[c] + One(c \in InCache(h.cache)) + One(c \in h.lost)
        /\ c \in h.live <=> h.block[c].ref_num > 0
        /\ c \in h.live => Sound(h.block[c])
        /\ h.block[c] \in BlockType
  BY HeapOKParts
<1>3. num \in [Threads -> Nat] /\ \A u \in Threads : num[u] >= Len(h.cache[u])
  BY <1>1
<1>4. g = HeapOf(h.live, h.block, h.cache, num, h.lost)
  <2>1. [HeapOf(h.live, h.block, h.cache, h.number, h.lost) EXCEPT !.number[t] = @ - 1]
        = HeapOf(h.live, h.block, h.cache, num, h.lost)
    BY DEF HeapOf
  <2> QED
    BY <1>1, <2>1, Zenon
<1> HIDE DEF g, num
<1>5. PartsOK(h.live, h.block, h.cache, num, h.lost, F)
  BY <1>1, <1>2, <1>3 DEF PartsOK
<1>6. /\ g.live = h.live /\ g.block = h.block /\ g.cache = h.cache /\ HeapOK(g, F)
  BY <1>4, <1>5, HeapIsOK
<1>7. Keeps(h, g, F)
  BY <1>2, <1>6, SameFrontSame DEF Keeps
<1> QED
  BY <1>6, <1>7 DEF g

LEMMA PopFullHeadKeeps ==
  ASSUME NEW h, NEW F \in Loads, HeapOK(h, F), NEW t \in Threads, h.cache[t] # <<>>
  PROVE  LET g == PopFullHead(h, t)
         IN HeapOK(g, F) /\ Keeps(h, g, F) /\ g.live \subseteq h.live
<1> DEFINE k == DropHead(h, t)
           g == [k EXCEPT !.number[t] = @ - 1]
<1>1. PopFullHead(h, t) = g
  BY DEF PopFullHead, DropHead
<1>2. /\ HeapOK(k, F) /\ Keeps(h, k, F) /\ k.live \subseteq h.live
      /\ k.number[t] >= Len(k.cache[t]) + 1
  BY DropHeadKeeps
<1> HIDE DEF k
<1>3. HeapOK(g, F) /\ Keeps(k, g, F) /\ g.live = k.live
  BY <1>2, NumberDown
<1> HIDE DEF g
<1>4. IsHeap(h) /\ IsHeap(k) /\ IsHeap(g)
  BY <1>2, <1>3, OKHeap
<1>5. Keeps(h, g, F)
  BY <1>2, <1>3, <1>4, KeepsOn
<1> QED
  BY <1>1, <1>2, <1>3, <1>5

\* pop_front: the block is the caller's, in no cache.
Popped(h, g, F, b) ==
    /\ b \in Blocks /\ (b \in InCache(h.cache) \/ b \notin h.live)
    /\ HeapOK(g, More(F, b)) /\ Keeps(h, g, F) /\ b \notin InCache(g.cache)

LEMMA PopFrontKeeps ==
  ASSUME NEW h, NEW F \in Loads, HeapOK(h, F), NEW t \in Threads,
         NEW n, Within(h, n), n + 1 \in Blocks
  PROVE  Popped(h, PopFront(h, t).h, F, PopFront(h, t).block)
<1>1. CASE h.cache[t] # <<>>
  <2> DEFINE b == Head(h.cache[t])
             g == [h EXCEPT !.cache[t] = Tail(@)]
  <2>1. PopFront(h, t).h = g /\ PopFront(h, t).block = b
    BY <1>1 DEF PopFront
  <2>2. /\ b \in Blocks /\ b \in InCache(h.cache)
        /\ HeapOK(g, More(F, b)) /\ Keeps(h, g, F)
        /\ InCache(g.cache) = InCache(h.cache) \ {b}
    BY <1>1, HeadOut
  <2> HIDE DEF b, g
  <2>3. Popped(h, g, F, b)
    BY <2>2 DEF Popped
  <2> QED
    BY <2>1, <2>3
<1>2. CASE h.cache[t] = <<>>
  <2> DEFINE f == Fresh(h)
             g == [CreateBlock(h, Cap) EXCEPT !.number[t] = @ + 1]
             blk == [h.block EXCEPT ![f] = EmptyBlock(1, Cap)]
             num == [h.number EXCEPT ![t] = @ + 1]
             live == h.live \cup {f}
             G == More(F, f)
  <2>1. PopFront(h, t).h = g /\ PopFront(h, t).block = f
    BY <1>2 DEF PopFront
  <2>2. /\ h \in Heaps /\ h.cache \in Caches /\ Apart(h.cache) /\ h.number \in [Threads -> Nat]
        /\ h.block \in [Blocks -> BlockType]
    BY HeapOKParts DEF HeapOK
  <2>3. f \in Blocks /\ f \notin h.live
    BY FreshIsFree DEF Within
  <2>4. f \notin InCache(h.cache) /\ F[f] = 0
    BY <2>3, HeapOKParts
  <2>5. CreateBlock(h, Cap) = HeapOf(live, blk, h.cache, h.number, h.lost)
    BY <2>2, CreateIs
  <2> HIDE DEF f, blk, live
  <2>6. g = HeapOf(live, blk, h.cache, num, h.lost)
    <3>1. [HeapOf(live, blk, h.cache, h.number, h.lost) EXCEPT !.number[t] = @ + 1]
          = HeapOf(live, blk, h.cache, num, h.lost)
      BY DEF HeapOf
    <3> QED
      BY <2>5, <3>1, Zenon
  <2> HIDE DEF g
  <2>7. num \in [Threads -> Nat] /\ num[t] = h.number[t] + 1
        /\ \A u \in Threads \ {t} : num[u] = h.number[u]
    BY <2>2
  <2> HIDE DEF num
  <2>8. Cap \in Nat /\ Cap % Align = 0
    BY SizesAssumption
  <2>9. EmptyBlock(1, Cap) \in BlockType
    BY <2>8, EmptyBlockFits
  <2>10. /\ blk \in [Blocks -> BlockType] /\ blk[f] = EmptyBlock(1, Cap)
         /\ \A c \in Blocks \ {f} : blk[c] = h.block[c]
    BY <2>2, <2>3, <2>9 DEF blk
  <2>11. G \in Loads /\ \A c \in Blocks : G[c] = F[c] + One(c = f)
    BY <2>3, LoadsChange
  <2> HIDE DEF G
  <2>12. /\ \A c \in Blocks \ {f} : G[c] = F[c] /\ (c \in InCache(h.cache) <=> c \in InCache(h.cache))
         /\ G[f] + One(f \in InCache(h.cache)) = 1
    BY <2>3, <2>4, <2>11 DEF One, Loads
  <2>13. Len(h.cache[t]) <= Len(h.cache[t]) + 1
    BY <2>2 DEF Caches
  <2>14. OneMore(h, F, f, t, Cap, live, blk, h.cache, num, G)
    BY <2>2, <2>7, <2>10, <2>12, <2>13 DEF OneMore, live
  <2>15. HeapOK(g, G) /\ Keeps(h, g, F) /\ Added(h, g, f, Cap, live, h.cache, num)
    BY <2>3, <2>6, <2>8, <2>11, <2>14, BlockAdded
  <2>16. Popped(h, g, F, f)
    BY <2>3, <2>4, <2>15 DEF Popped, Added, G
  <2> QED
    BY <2>1, <2>16
<1> QED
  BY <1>1, <1>2

\* acquire_block gives the reference of a full head back.
HeadGone(h, F, t, b, live, blk, num, lost) ==
    /\ live \subseteq h.live /\ lost \in SUBSET Blocks
    /\ blk \in [Blocks -> BlockType] /\ num \in [Threads -> Nat]
    /\ num[t] >= Len(h.cache[t]) - 1 /\ \A u \in Threads \ {t} : num[u] = h.number[u]
    /\ \A c \in Blocks \ {b} :
          /\ blk[c] = h.block[c] /\ (c \in lost <=> c \in h.lost) /\ (c \in live <=> c \in h.live)
    /\ blk[b].ref_num = F[b] + One(b \in lost) /\ (b \in live <=> blk[b].ref_num > 0)
    /\ b \in live => Sound(blk[b])
    /\ F[b] > 0 => SameFront(h.block[b], blk[b])

LEMMA HeadGoes ==
  ASSUME NEW h, NEW F \in Loads, HeapOK(h, F), NEW t \in Threads, h.cache[t] # <<>>,
         NEW live, NEW blk, NEW num, NEW lost,
         HeadGone(h, F, t, Head(h.cache[t]), live, blk, num, lost),
         NEW g, g = HeapOf(live, blk, [h.cache EXCEPT ![t] = Tail(@)], num, lost)
  PROVE  HeapOK(g, F) /\ Keeps(h, g, F) /\ g.live \subseteq h.live
<1> DEFINE b == Head(h.cache[t])
           new == [h.cache EXCEPT ![t] = Tail(@)]
<1>1. /\ h.live \in SUBSET Blocks /\ h.block \in [Blocks -> BlockType] /\ h.cache \in Caches
      /\ h.number \in [Threads -> Nat] /\ h.lost \in SUBSET Blocks /\ Apart(h.cache)
      /\ \A u \in Threads : h.number[u] >= Len(h.cache[u])
  BY HeapOKParts
<1>2. \A c \in Blocks :
        /\ h.block[c].ref_num = F[c] + One(c \in InCache(h.cache)) + One(c \in h.lost)
        /\ c \in h.live <=> h.block[c].ref_num > 0
        /\ c \in h.live => Sound(h.block[c])
        /\ h.block[c] \in BlockType /\ F[c] \in Nat
  BY HeapOKParts
<1>3. /\ new \in Caches /\ Apart(new) /\ b \in InCache(h.cache)
      /\ InCache(new) = InCache(h.cache) \ {b}
      /\ Len(new[t]) = Len(h.cache[t]) - 1
  BY <1>1, UnlinkedHead
<1>4. \A u \in Threads \ {t} : new[u] = h.cache[u]
  BY <1>1 DEF Caches
<1>5. b \in Blocks
  BY <1>3 DEF InCache
<1>6. g = HeapOf(live, blk, new, num, lost)
  OBVIOUS
<1>7. HeadGone(h, F, t, b, live, blk, num, lost)
  OBVIOUS
<1> HIDE DEF new, b
<1>8. /\ live \subseteq h.live /\ lost \in SUBSET Blocks
      /\ blk \in [Blocks -> BlockType] /\ num \in [Threads -> Nat]
      /\ num[t] >= Len(h.cache[t]) - 1 /\ \A u \in Threads \ {t} : num[u] = h.number[u]
  BY <1>7 DEF HeadGone
<1>9. /\ \A c \in Blocks \ {b} :
          /\ blk[c] = h.block[c] /\ (c \in lost <=> c \in h.lost) /\ (c \in live <=> c \in h.live)
      /\ blk[b].ref_num = F[b] + One(b \in lost) /\ (b \in live <=> blk[b].ref_num > 0)
      /\ b \in live => Sound(blk[b])
      /\ F[b] > 0 => SameFront(h.block[b], blk[b])
  BY <1>7 DEF HeadGone
<1>10. ASSUME NEW c \in Blocks
       PROVE  /\ blk[c].ref_num = F[c] + One(c \in InCache(new)) + One(c \in lost)
              /\ c \in live <=> blk[c].ref_num > 0
              /\ c \in live => Sound(blk[c])
  <2>1. CASE c = b
    BY <1>2, <1>3, <1>9, <2>1 DEF One
  <2>2. CASE c # b
    BY <1>2, <1>3, <1>9, <2>2 DEF One
  <2> QED
    BY <2>1, <2>2
<1>11. \A u \in Threads : num[u] >= Len(new[u])
  BY <1>1, <1>3, <1>4, <1>8
<1>12. PartsOK(live, blk, new, num, lost, F)
  BY <1>1, <1>3, <1>8, <1>10, <1>11 DEF PartsOK
<1>13. g.live = live /\ g.block = blk /\ g.cache = new /\ HeapOK(g, F)
  BY <1>6, <1>12, HeapIsOK
<1>14. Keeps(h, g, F)
  <2> SUFFICES ASSUME NEW c \in Blocks, F[c] > 0
               PROVE  /\ SameFront(h.block[c], blk[c])
                      /\ c \notin InCache(h.cache) =>
                            c \notin InCache(new) /\ blk[c].offset = h.block[c].offset
    BY <1>13 DEF Keeps
  <2>1. CASE c = b
    BY <1>3, <1>9, <2>1
  <2>2. CASE c # b
    BY <1>2, <1>3, <1>9, <2>2, SameFrontSame
  <2> QED
    BY <2>1, <2>2
<1> QED
  BY <1>8, <1>13, <1>14

\* What dec_ref does to the block: count it down, link it, or free it.
LEMMA DecRefIs ==
  ASSUME NEW h, h \in Heaps, NEW t \in Threads, NEW b \in Blocks, h.block[b].capacity % Align = 0
  PROVE  /\ h.block[b].ref_num > 1 =>
              DecRef(h, t, b) = HeapOf(h.live,
                  [h.block EXCEPT ![b] = [h.block[b] EXCEPT !.ref_num = @ - 1]],
                  h.cache, h.number, h.lost)
         /\ h.block[b].ref_num <= 1 /\ h.number[t] < Limit =>
              DecRef(h, t, b) = HeapOf(h.live,
                  [h.block EXCEPT ![b] = EmptyBlock(1, h.block[b].capacity)],
                  [h.cache EXCEPT ![t] = <<b>> \o @], [h.number EXCEPT ![t] = @ + 1], h.lost)
         /\ h.block[b].ref_num <= 1 /\ ~ (h.number[t] < Limit) =>
              DecRef(h, t, b) = HeapOf(h.live \ {b}, [h.block EXCEPT ![b] = NoBlock],
                                       h.cache, h.number, h.lost)
<1> DEFINE x == h.block[b]
           g == DecRef(h, t, b)
<1>1. x \in BlockType /\ x.ref_num \in Nat /\ x.capacity \in Nat /\ x.capacity % Align = 0
  BY DEF Heaps, BlockType
<1>2. ASSUME x.ref_num > 1
      PROVE  g = HeapOf(h.live, [h.block EXCEPT ![b] = [x EXCEPT !.ref_num = @ - 1]],
                        h.cache, h.number, h.lost)
  <2> DEFINE y == [x EXCEPT !.ref_num = @ - 1]
  <2>1. g = [h EXCEPT !.block[b] = y]
    BY <1>1, <1>2 DEF DecRef, BlockType
  <2> HIDE DEF y, g
  <2> QED
    BY <2>1 DEF y, Heaps, HeapOf
<1> DEFINE e == EmptyBlock(0, x.capacity)
           k == [h EXCEPT !.block[b] = e]
<1>3. ASSUME x.ref_num <= 1
      PROVE  g = ReleaseBlock(k, t, b)
  BY <1>1, <1>3 DEF DecRef, BlockType
<1>4. k.number = h.number
  BY DEF Heaps
<1>5. ASSUME x.ref_num <= 1, h.number[t] < Limit
      PROVE  g = HeapOf(h.live, [h.block EXCEPT ![b] = EmptyBlock(1, x.capacity)],
                        [h.cache EXCEPT ![t] = <<b>> \o @], [h.number EXCEPT ![t] = @ + 1], h.lost)
  <2> DEFINE y == EmptyBlock(1, x.capacity)
  <2>1. g = IncRef(Link([k EXCEPT !.number[t] = @ + 1], t, b), b)
    BY <1>3, <1>4, <1>5 DEF ReleaseBlock
  <2>2. e.ref_num = 0 /\ e \in BlockType
    BY <1>1, EmptyBlockFits
  <2>3. k = HeapOf(h.live, [h.block EXCEPT ![b] = e], h.cache, h.number, h.lost)
    BY DEF Heaps, HeapOf
  <2>4. y = [e EXCEPT !.ref_num = @ + 1]
    <3> DEFINE m == [i \in 0 .. x.capacity - 1 |-> Blank]
    <3>1. e = [ref_num |-> 0, offset |-> 0, capacity |-> x.capacity, mem |-> m]
          /\ y = [ref_num |-> 1, offset |-> 0, capacity |-> x.capacity, mem |-> m]
      BY DEF EmptyBlock
    <3> HIDE DEF m
    <3> QED
      BY <3>1
  <2> HIDE DEF e, y
  <2>5. [[h.block EXCEPT ![b] = e] EXCEPT ![b].ref_num = @ + 1] = [h.block EXCEPT ![b] = y]
    BY <2>2, <2>4, BlockTwice DEF Heaps
  <2> HIDE DEF k
  <2> DEFINE kb == [h.block EXCEPT ![b] = e]
             kc == [h.cache EXCEPT ![t] = <<b>> \o @]
             kn == [h.number EXCEPT ![t] = @ + 1]
  <2> HIDE DEF kb, g
  <2>6. [k EXCEPT !.number[t] = @ + 1] = HeapOf(h.live, kb, h.cache, kn, h.lost)
    BY <2>3 DEF HeapOf, kb
  <2> HIDE DEF kn
  <2>7. Link([k EXCEPT !.number[t] = @ + 1], t, b) = HeapOf(h.live, kb, kc, kn, h.lost)
    <3>1. Link(HeapOf(h.live, kb, h.cache, kn, h.lost), t, b) = HeapOf(h.live, kb, kc, kn, h.lost)
      BY LinkIs DEF kc
    <3> QED
      BY <2>6, <3>1, Zenon
  <2> HIDE DEF kc
  <2>8. g = HeapOf(h.live, [kb EXCEPT ![b].ref_num = @ + 1], kc, kn, h.lost)
    BY <2>1, <2>7 DEF HeapOf, IncRef
  <2> QED
    BY <2>5, <2>8, Zenon DEF kb, kc, kn, y
<1>6. ASSUME x.ref_num <= 1, ~ (h.number[t] < Limit)
      PROVE  g = HeapOf(h.live \ {b}, [h.block EXCEPT ![b] = NoBlock], h.cache, h.number, h.lost)
  <2>1. g = FreeBlock(k, b)
    BY <1>3, <1>4, <1>6 DEF ReleaseBlock
  <2> HIDE DEF e
  <2> QED
    BY ZenonT(60), <2>1 DEF Heaps, FreeBlock, HeapOf
<1> QED
  BY <1>2, <1>5, <1>6

LEMMA DropFullHeadKeeps ==
  ASSUME NEW h, NEW F \in Loads, HeapOK(h, F), NEW t \in Threads, h.cache[t] # <<>>
  PROVE  LET g == DropFullHead(h, t)
         IN HeapOK(g, F) /\ Keeps(h, g, F) /\ g.live \subseteq h.live
<1> DEFINE b == Head(h.cache[t])
           k == DecRef(h, t, b)
           x == h.block[b]
           new == [h.cache EXCEPT ![t] = Tail(@)]
           g == DropFullHead(h, t)
<1>1. /\ h \in Heaps /\ h.live \in SUBSET Blocks /\ h.block \in [Blocks -> BlockType]
      /\ h.cache \in Caches /\ h.number \in [Threads -> Nat] /\ h.lost \in SUBSET Blocks
      /\ Apart(h.cache) /\ h.number[t] >= Len(h.cache[t]) /\ h.number[t] \in Nat
  BY HeapOKParts DEF HeapOK
<1>2. b \in Blocks /\ b \in InCache(h.cache)
  BY <1>1, UnlinkedHead DEF InCache
<1>3. h.cache[t] \in Seq(Blocks) /\ Len(h.cache[t]) >= 1 /\ Len(h.cache[t]) \in Nat
  BY <1>1 DEF Caches
<1>4. /\ x.ref_num = F[b] + 1 + One(b \in h.lost) /\ b \in h.live /\ Sound(x)
      /\ x \in BlockType /\ x.ref_num \in Nat /\ x.capacity % Align = 0 /\ x.capacity \in Nat
      /\ F[b] \in Nat
  BY <1>2, HeapOKParts DEF One, Sound, BlockType
<1>5. g = [k EXCEPT !.cache[t] = Tail(h.cache[t]), !.number[t] = @ - 1,
                    !.lost = IF k.cache[t] # h.cache[t] THEN @ \cup {b} ELSE @]
  BY DEF DropFullHead
<1> HIDE DEF b, x, g
<1>6. CASE x.ref_num > 1
  <2> DEFINE y == [x EXCEPT !.ref_num = @ - 1]
             blk == [h.block EXCEPT ![b] = y]
             num == [h.number EXCEPT ![t] = @ - 1]
  <2>1. k = HeapOf(h.live, blk, h.cache, h.number, h.lost)
    BY <1>1, <1>2, <1>4, <1>6, DecRefIs DEF x
  <2>2. y \in BlockType /\ y.ref_num = x.ref_num - 1 /\ SameFront(x, y) /\ Sound(y)
    BY <1>4, <1>6 DEF BlockType, SameFront, Sound
  <2> HIDE DEF y
  <2>3. /\ blk \in [Blocks -> BlockType] /\ blk[b] = y /\ \A c \in Blocks \ {b} : blk[c] = h.block[c]
    BY <1>1, <1>2, <2>2
  <2> HIDE DEF blk, k
  <2>4. g = HeapOf(h.live, blk, new, num, h.lost)
    <3>1. k.cache = h.cache
      BY <2>1 DEF HeapOf
    <3> DEFINE s == Tail(h.cache[t])
    <3>2. g = [k EXCEPT !.cache[t] = s, !.number[t] = @ - 1, !.lost = @]
      BY <1>5, <3>1
    <3>3. new = [h.cache EXCEPT ![t] = s]
      OBVIOUS
    <3> HIDE DEF s, new
    <3>4. g = HeapOf(h.live, blk, [h.cache EXCEPT ![t] = s], num, h.lost)
      BY <2>1, <3>2 DEF HeapOf
    <3> QED
      BY <3>3, <3>4
  <2>5. num \in [Threads -> Nat] /\ num[t] = h.number[t] - 1
        /\ \A u \in Threads \ {t} : num[u] = h.number[u]
    BY <1>1, <1>3
  <2> HIDE DEF num
  <2>6. HeadGone(h, F, t, b, h.live, blk, num, h.lost)
    <3>1. y.ref_num = F[b] + One(b \in h.lost) /\ y.ref_num > 0
      BY <1>4, <1>6, <2>2 DEF One
    <3>2. num[t] >= Len(h.cache[t]) - 1
      BY <1>1, <1>3, <2>5
    <3>3. h.block[b] = x
      BY DEF x
    <3> QED
      BY <1>1, <1>4, <2>2, <2>3, <2>5, <3>1, <3>2, <3>3 DEF HeadGone
  <2> QED
    BY <2>4, <2>6, HeadGoes DEF b, g
<1>7. CASE x.ref_num <= 1 /\ h.number[t] < Limit
  <2> DEFINE y == EmptyBlock(1, x.capacity)
             blk == [h.block EXCEPT ![b] = y]
             lnk == [h.cache EXCEPT ![t] = <<b>> \o @]
             up == [h.number EXCEPT ![t] = @ + 1]
             lost == h.lost \cup {b}
  <2>1. k = HeapOf(h.live, blk, lnk, up, h.lost)
    BY <1>1, <1>2, <1>4, <1>7, DecRefIs DEF x
  <2>2. y \in BlockType /\ y.ref_num = 1 /\ Sound(y)
    BY <1>4, EmptyBlockFits
  <2> HIDE DEF y
  <2>3. /\ blk \in [Blocks -> BlockType] /\ blk[b] = y /\ \A c \in Blocks \ {b} : blk[c] = h.block[c]
    BY <1>1, <1>2, <2>2
  <2>a. lnk[t] # h.cache[t] /\ lnk \in [Threads -> Seq(Blocks)]
    <3>1. lnk[t] = <<b>> \o h.cache[t]
      BY <1>1 DEF Caches
    <3>2. Len(<<b>> \o h.cache[t]) = Len(h.cache[t]) + 1
      BY <1>3, <1>2
    <3>3. lnk \in [Threads -> Seq(Blocks)]
      BY <1>1, <1>2 DEF Caches
    <3>4. <<b>> \o h.cache[t] # h.cache[t]
      BY <1>3, <3>2
    <3> QED
      BY <3>1, <3>3, <3>4, Zenon
  <2> HIDE DEF blk, k
  <2>4. g = HeapOf(h.live, blk, new, h.number, lost)
    <3>1. k.cache = lnk
      BY <2>1 DEF HeapOf
    <3> DEFINE s == Tail(h.cache[t])
    <3>2. g = [k EXCEPT !.cache[t] = s, !.number[t] = @ - 1, !.lost = @ \cup {b}]
      BY <1>5, <2>a, <3>1
    <3>3. new = [lnk EXCEPT ![t] = s]
      BY <1>1, <2>a DEF Caches
    <3> HIDE DEF s, new, lnk
    <3>4. g = HeapOf(h.live, blk, [lnk EXCEPT ![t] = s], [up EXCEPT ![t] = @ - 1], lost)
      <4> HIDE DEF up
      <4> QED
        BY <2>1, <3>2 DEF HeapOf
    <3>5. [up EXCEPT ![t] = @ - 1] = h.number
      BY <1>1
    <3> QED
      BY <3>3, <3>4, <3>5
  <2>5. F[b] = 0 /\ b \notin h.lost /\ One(b \in lost) = 1
    BY <1>4, <1>7 DEF One
  <2>6. HeadGone(h, F, t, b, h.live, blk, h.number, lost)
    BY <1>1, <1>2, <1>3, <1>4, <1>7, <2>2, <2>3, <2>5 DEF HeadGone
  <2> QED
    BY <2>4, <2>6, HeadGoes DEF b, g
<1>8. CASE x.ref_num <= 1 /\ ~ (h.number[t] < Limit)
  <2> DEFINE blk == [h.block EXCEPT ![b] = NoBlock]
             num == [h.number EXCEPT ![t] = @ - 1]
             live == h.live \ {b}
  <2>1. k = HeapOf(live, blk, h.cache, h.number, h.lost)
    BY <1>1, <1>2, <1>4, <1>8, DecRefIs DEF x
  <2>2. NoBlock \in BlockType /\ NoBlock.ref_num = 0
    BY DEF NoBlock, EmptyBlock, BlockType, Memory
  <2>3. /\ blk \in [Blocks -> BlockType] /\ blk[b] = NoBlock
        /\ \A c \in Blocks \ {b} : blk[c] = h.block[c]
    BY <1>1, <1>2, <2>2
  <2> HIDE DEF blk, k
  <2>4. g = HeapOf(live, blk, new, num, h.lost)
    <3>1. k.cache = h.cache
      BY <2>1 DEF HeapOf
    <3> DEFINE s == Tail(h.cache[t])
    <3>2. g = [k EXCEPT !.cache[t] = s, !.number[t] = @ - 1, !.lost = @]
      BY <1>5, <3>1
    <3>3. new = [h.cache EXCEPT ![t] = s]
      OBVIOUS
    <3> HIDE DEF s, new, live
    <3>4. g = HeapOf(live, blk, [h.cache EXCEPT ![t] = s], num, h.lost)
      BY <2>1, <3>2 DEF HeapOf
    <3> QED
      BY <3>3, <3>4
  <2>5. num \in [Threads -> Nat] /\ num[t] = h.number[t] - 1
        /\ \A u \in Threads \ {t} : num[u] = h.number[u]
    BY <1>1, <1>3
  <2> HIDE DEF num
  <2>6. F[b] = 0 /\ b \notin h.lost /\ One(b \in h.lost) = 0
    BY <1>4, <1>8 DEF One
  <2>7. HeadGone(h, F, t, b, live, blk, num, h.lost)
    BY <1>1, <1>2, <1>3, <1>4, <2>2, <2>3, <2>5, <2>6 DEF HeadGone
  <2> QED
    BY <2>4, <2>7, HeadGoes DEF b, g
<1> QED
  BY <1>4, <1>6, <1>7, <1>8

\* The loads of the blocks other than b
Aside(F, b) == [F EXCEPT ![b] = 0]

\* push_front: the caller's reference becomes the cache's.
LEMMA PushFrontKeeps ==
  ASSUME NEW h, NEW F \in Loads, HeapOK(h, F), NEW t \in Threads, NEW b \in Blocks, F[b] > 0,
         b \notin InCache(h.cache)
  PROVE  LET g == PushFront(h, t, b)
         IN HeapOK(g, Less(F, b)) /\ Keeps(h, g, Aside(F, b)) /\ g.live \subseteq h.live
<1> DEFINE g == PushFront(h, t, b)
           G == Less(F, b)
<1>1. G \in Loads /\ \A c \in Blocks : G[c] = F[c] - One(c = b)
  BY LoadsChange
<1>2. F \in [Blocks -> Nat]
  BY DEF Loads
<1>3. Aside(F, b) \in Loads /\ Aside(F, b)[b] = 0 /\ \A c \in Blocks \ {b} : Aside(F, b)[c] = F[c]
  BY <1>2 DEF Aside, Loads
<1>4. \A c \in Blocks : Aside(F, b)[c] > 0 => c # b /\ F[c] > 0 /\ G[c] > 0
  BY <1>1, <1>2, <1>3 DEF One
<1>5. CASE Full(h, b)
  <2>1. g = DecRef(h, t, b)
    BY <1>5 DEF PushFront
  <2> HIDE DEF g, G
  <2>2. HeapOK(g, G) /\ Keeps(h, g, G) /\ g.live \subseteq h.live
    BY <2>1, DecRefKeeps DEF G
  <2>3. Keeps(h, g, Aside(F, b))
    BY <1>4, <2>2 DEF Keeps
  <2> QED
    BY <2>2, <2>3 DEF g, G
<1>6. CASE ~ Full(h, b)
  <2> DEFINE lnk == [h.cache EXCEPT ![t] = <<b>> \o @]
             num == [h.number EXCEPT ![t] = @ + 1]
  <2>1. /\ h \in Heaps /\ h.live \in SUBSET Blocks /\ h.block \in [Blocks -> BlockType]
        /\ h.cache \in Caches /\ h.number \in [Threads -> Nat] /\ h.lost \in SUBSET Blocks
        /\ Apart(h.cache)
        /\ \A u \in Threads : /\ h.number[u] >= Len(h.cache[u]) /\ h.number[u] \in Nat
                              /\ Len(h.cache[u]) \in Nat
    BY HeapOKParts DEF HeapOK
  <2>2. \A c \in Blocks :
          /\ h.block[c].ref_num = F[c] + One(c \in InCache(h.cache)) + One(c \in h.lost)
          /\ c \in h.live <=> h.block[c].ref_num > 0
          /\ c \in h.live => Sound(h.block[c])
          /\ h.block[c] \in BlockType /\ F[c] \in Nat
    BY HeapOKParts
  <2>3. g = Link([h EXCEPT !.number[t] = @ + 1], t, b)
    BY <1>6 DEF PushFront
  <2>4. [h EXCEPT !.number[t] = @ + 1] = HeapOf(h.live, h.block, h.cache, num, h.lost)
    <3>1. h \in Heaps
      BY <2>1
    <3> HIDE DEF lnk, g, G
    <3> QED
      BY <3>1 DEF Heaps, HeapOf
  <2> HIDE DEF g
  <2>5. num \in [Threads -> Nat] /\ num[t] = h.number[t] + 1
        /\ \A u \in Threads \ {t} : num[u] = h.number[u]
    BY <2>1
  <2> HIDE DEF num
  <2>6. g = HeapOf(h.live, h.block, lnk, num, h.lost)
    <3>1. Link(HeapOf(h.live, h.block, h.cache, num, h.lost), t, b)
          = HeapOf(h.live, h.block, lnk, num, h.lost)
      BY LinkIs
    <3> QED
      BY <2>3, <2>4, <3>1, Zenon
  <2>7. /\ lnk \in Caches /\ Apart(lnk) /\ InCache(lnk) = InCache(h.cache) \cup {b}
        /\ Len(lnk[t]) = Len(h.cache[t]) + 1
    BY <2>1, Linked
  <2>8. \A u \in Threads \ {t} : lnk[u] = h.cache[u]
    BY <2>1 DEF Caches
  <2> HIDE DEF lnk, G
  <2>9. \A u \in Threads : num[u] >= Len(lnk[u])
    <3> SUFFICES ASSUME NEW u \in Threads PROVE num[u] >= Len(lnk[u])
      OBVIOUS
    <3>1. CASE u = t
      <4>1. num[t] = h.number[t] + 1 /\ Len(lnk[t]) = Len(h.cache[t]) + 1
            /\ h.number[t] \in Nat /\ Len(h.cache[t]) \in Nat /\ h.number[t] >= Len(h.cache[t])
        BY <2>1, <2>5, <2>7
      <4> QED
        BY <3>1, <4>1
    <3>2. CASE u # t
      BY <2>1, <2>5, <2>8, <3>2
    <3> QED
      BY <3>1, <3>2
  <2>10. ASSUME NEW c \in Blocks
         PROVE  h.block[c].ref_num = G[c] + One(c \in InCache(lnk)) + One(c \in h.lost)
    <3>1. CASE c = b
      BY <1>1, <2>2, <2>7, <3>1 DEF One
    <3>2. CASE c # b
      BY <1>1, <2>2, <2>7, <3>2 DEF One
    <3> QED
      BY <3>1, <3>2
  <2>11. PartsOK(h.live, h.block, lnk, num, h.lost, G)
    BY <2>1, <2>2, <2>5, <2>7, <2>9, <2>10 DEF PartsOK
  <2>12. g.live = h.live /\ g.block = h.block /\ g.cache = lnk /\ HeapOK(g, G)
    BY <2>6, <2>11, HeapIsOK
  <2>13. Keeps(h, g, Aside(F, b))
    BY <1>4, <2>2, <2>7, <2>12, SameFrontSame DEF Keeps
  <2> QED
    BY <2>12, <2>13 DEF g, G
<1> QED
  BY <1>5, <1>6

\* Bytes are written behind what is in use of a block.
LEMMA WrittenFits ==
  ASSUME NEW x \in BlockType, Sound(x), NEW ref, ref.offset = x.offset, ref.length \in Nat,
         NEW data, \A i \in 1 .. ref.length : data[i] \in Nat,
         NEW o \in Nat, x.offset + ref.length <= o, o <= x.capacity
  PROVE  LET y == [Written(x, ref, data) EXCEPT !.offset = o]
         IN /\ y \in BlockType /\ y.ref_num = x.ref_num /\ Sound(y) /\ SameFront(x, y)
            /\ y.offset = o /\ y.capacity = x.capacity
<1> DEFINE y == [Written(x, ref, data) EXCEPT !.offset = o]
           m == [i \in DOMAIN x.mem |-> IF i \in ref.offset .. ref.offset + ref.length - 1
                                        THEN data[i - ref.offset + 1] ELSE x.mem[i]]
<1>1. x.offset \in Nat /\ x.capacity \in Nat /\ x.ref_num \in Nat /\ x.mem \in Memory
  BY DEF BlockType
<1>2. DOMAIN x.mem = 0 .. x.capacity - 1 /\ x.offset <= x.capacity /\ x.capacity % Align = 0
  BY DEF Sound
<1>3. \A i \in DOMAIN x.mem : x.mem[i] \in Nat
  BY <1>1 DEF Memory
<1>4. \A i \in DOMAIN x.mem : m[i] \in Nat
  <2> SUFFICES ASSUME NEW i \in DOMAIN x.mem PROVE m[i] \in Nat
    OBVIOUS
  <2>1. CASE i \in ref.offset .. ref.offset + ref.length - 1
    <3>1. i - ref.offset + 1 \in 1 .. ref.length
      BY <1>1, <2>1
    <3> QED
      BY <2>1, <3>1
  <2>2. CASE ~ (i \in ref.offset .. ref.offset + ref.length - 1)
    BY <1>3, <2>2
  <2> QED
    BY <2>1, <2>2
<1>5. m \in [0 .. x.capacity - 1 -> Nat]
  BY <1>2, <1>4
<1>6. m \in Memory /\ DOMAIN m = 0 .. x.capacity - 1
  <2> HIDE DEF m
  <2> QED
    BY <1>1, <1>5 DEF Memory
<1>7. \A i \in 0 .. x.offset - 1 : m[i] = x.mem[i]
  BY <1>1, <1>2
<1>8. Written(x, ref, data) = [x EXCEPT !.mem = m]
  BY DEF Written
<1> HIDE DEF m
<1>9. /\ y \in BlockType /\ y.ref_num = x.ref_num /\ y.offset = o /\ y.capacity = x.capacity
      /\ y.mem = m
  BY <1>1, <1>6, <1>8 DEF BlockType
<1> HIDE DEF y
<1>10. Sound(y)
  BY <1>2, <1>6, <1>9 DEF Sound
<1>11. SameFront(x, y)
  BY <1>1, <1>7, <1>9 DEF SameFront
<1> QED
  BY <1>9, <1>10, <1>11 DEF y

LEMMA RoundUpFits ==
  ASSUME NEW n \in Nat, NEW cap \in Nat, n <= cap, cap % Align = 0
  PROVE  RoundUp(n) \in Nat /\ n <= RoundUp(n) /\ RoundUp(n) <= cap
<1> DEFINE a == Align
           q == (n + a - 1) \div a
           c == cap \div a
<1>1. a \in Nat /\ a > 0
  BY SizesAssumption
<1>2. RoundUp(n) = q * a
  BY DEF RoundUp
<1>3. cap = c * a /\ c \in Nat
  BY <1>1
<1>4. q \in Nat /\ q * a <= n + a - 1 /\ n + a - 1 < q * a + a
  BY <1>1
<1> HIDE DEF a, q, c
<1>5. q * a < (c + 1) * a
  BY <1>1, <1>3, <1>4
<1>6. q <= c
  BY <1>1, <1>3, <1>4, <1>5
<1>7. q * a <= c * a
  BY <1>1, <1>3, <1>4, <1>6
<1> QED
  BY <1>1, <1>2, <1>3, <1>4, <1>7

\* A write into a block, and its new offset
Wrote(h, ref, data, o) == [Write(h, ref, data) EXCEPT !.block[ref.block].offset = o]
Put(h, b, y) == [h EXCEPT !.block[b] = y]
Refilled(x, ref, data, o) == [Written(x, ref, data) EXCEPT !.offset = o]

LEMMA WroteIs ==
  ASSUME NEW h, h \in Heaps, NEW ref, ref.block \in Blocks, NEW data, NEW o
  PROVE  Wrote(h, ref, data, o) = Put(h, ref.block, Refilled(h.block[ref.block], ref, data, o))
<1> DEFINE b == ref.block
           x == Written(h.block[b], ref, data)
           k == [h.block EXCEPT ![b] = x]
           y == [x EXCEPT !.offset = o]
<1>1. Write(h, ref, data) = [h EXCEPT !.block[b] = x]
  BY DEF Write
<1> HIDE DEF x, b
<1>2. b \in Blocks /\ h.block \in [Blocks -> BlockType]
  BY DEF b, Heaps
<1>3. [h EXCEPT !.block[b] = x] = HeapOf(h.live, k, h.cache, h.number, h.lost)
  BY DEF Heaps, HeapOf
<1>4. DOMAIN k = Blocks /\ k[b] = x
  BY <1>2
<1>5. [k EXCEPT ![b].offset = o] = [h.block EXCEPT ![b] = y]
  <2>1. [k EXCEPT ![b].offset = o] = [k EXCEPT ![b] = y]
    BY <1>4
  <2> HIDE DEF y
  <2>2. [k EXCEPT ![b] = y] = [h.block EXCEPT ![b] = y]
    BY <1>2
  <2> QED
    BY <2>1, <2>2
<1> HIDE DEF k
<1>6. [HeapOf(h.live, k, h.cache, h.number, h.lost) EXCEPT !.block[b].offset = o]
      = HeapOf(h.live, [k EXCEPT ![b].offset = o], h.cache, h.number, h.lost)
  BY DEF HeapOf
<1> HIDE DEF y
<1>7. [h EXCEPT !.block[b] = y] = HeapOf(h.live, [h.block EXCEPT ![b] = y], h.cache, h.number, h.lost)
  BY DEF Heaps, HeapOf
<1>8. [Write(h, ref, data) EXCEPT !.block[b].offset = o] = [h EXCEPT !.block[b] = y]
  BY <1>1, <1>3, <1>5, <1>6, <1>7, Zenon
<1> QED
  BY <1>8 DEF b, x, y, Wrote, Put, Refilled

\* The bytes of data go behind what is in use of a block that has room for them.
Takes(h, ref, data, o) ==
    /\ ref.block \in Blocks /\ ref.block \in h.live /\ ref.offset = h.block[ref.block].offset
    /\ ref.length \in Nat /\ \A i \in 1 .. ref.length : data[i] \in Nat
    /\ o \in Nat /\ ref.offset + ref.length <= o /\ o <= h.block[ref.block].capacity

LEMMA WroteKeeps ==
  ASSUME NEW h, NEW F \in Loads, HeapOK(h, F), NEW ref, NEW data, NEW o, Takes(h, ref, data, o)
  PROVE  LET g == Wrote(h, ref, data, o)
         IN /\ HeapOK(g, F) /\ g.live = h.live /\ g.cache = h.cache
            /\ ref.block \in InCache(h.cache) => Keeps(h, g, F)
            /\ Keeps(h, g, Aside(F, ref.block))
<1> DEFINE b == ref.block
           x == h.block[b]
           y == [Written(x, ref, data) EXCEPT !.offset = o]
           g == Wrote(h, ref, data, o)
<1>1. /\ b \in Blocks /\ b \in h.live /\ ref.offset = x.offset /\ ref.length \in Nat
      /\ \A i \in 1 .. ref.length : data[i] \in Nat
      /\ o \in Nat /\ x.offset + ref.length <= o /\ o <= x.capacity
  BY DEF Takes
<1>2. h \in Heaps /\ x \in BlockType /\ Sound(x)
  BY <1>1, HeapOKParts DEF HeapOK
<1>3. y \in BlockType /\ y.ref_num = x.ref_num /\ Sound(y) /\ SameFront(x, y)
  BY <1>1, <1>2, WrittenFits
<1>4. g = [h EXCEPT !.block[b] = y]
  <2>1. h \in Heaps /\ ref.block \in Blocks
    BY <1>1, <1>2
  <2>2. g = Put(h, ref.block, Refilled(h.block[ref.block], ref, data, o))
    BY <2>1, WroteIs
  <2> QED
    BY <2>2, Zenon DEF Put, Refilled
<1> HIDE DEF g, y, b
<1>5. /\ HeapOK(g, F) /\ (b \in InCache(h.cache) => Keeps(h, g, F))
      /\ g.live = h.live /\ g.cache = h.cache
      /\ g.block[b] = y /\ \A c \in Blocks \ {b} : g.block[c] = h.block[c]
  BY <1>1, <1>3, <1>4, BlockFilled
<1>6. Keeps(h, g, Aside(F, b))
  <2>1. \A c \in Blocks : Aside(F, b)[c] > 0 => c # b
    BY <1>1 DEF Aside, Loads
  <2>2. \A c \in Blocks : SameFront(h.block[c], h.block[c])
    BY HeapOKParts, SameFrontSame
  <2> QED
    BY <1>5, <2>1, <2>2 DEF Keeps
<1> QED
  BY <1>5, <1>6 DEF g, b

\* return_block_ref, after the bytes were written
LEMMA ReturnBlockRefKeeps ==
  ASSUME NEW h, NEW F \in Loads, HeapOK(h, F), NEW t \in Threads, NEW ref, NEW data,
         Takes(h, ref, data, ref.offset + ref.length),
         F[ref.block] > 0, ref.block \notin InCache(h.cache)
  PROVE  LET g == ReturnBlockRef(Write(h, ref, data), t, ref)
         IN HeapOK(g, F) /\ Keeps(h, g, Aside(F, ref.block)) /\ g.live \subseteq h.live
<1> DEFINE b == ref.block
           o == ref.offset + ref.length
           k == Wrote(h, ref, data, o)
           l == IncRef(k, b)
           g == PushFront(l, t, b)
           A == Aside(F, b)
<1>1. b \in Blocks /\ b \in h.live /\ ref.offset = h.block[b].offset
  BY DEF Takes
<1>2. h \in Heaps
  BY DEF HeapOK
<1>3. ReturnBlockRef(Write(h, ref, data), t, ref) = g
  <2> DEFINE w == Write(h, ref, data)
  <2>1. w.block[b].offset = ref.offset
    <3> DEFINE x == Written(h.block[b], ref, data)
    <3>1. w = [h EXCEPT !.block[b] = x]
      BY DEF Write
    <3>2. x.offset = h.block[b].offset
      BY <1>1, <1>2 DEF Written, Heaps, BlockType
    <3> HIDE DEF x, w
    <3>3. w.block[b] = x
      BY <1>1, <1>2, <3>1 DEF Heaps
    <3> QED
      BY <1>1, <3>2, <3>3
  <2> HIDE DEF w
  <2>2. [w EXCEPT !.block[b].offset = @ + ref.length] = [w EXCEPT !.block[b].offset = o]
    BY <2>1
  <2> QED
    BY <2>2 DEF ReturnBlockRef, Wrote, w
<1>4. HeapOK(k, F) /\ k.live = h.live /\ k.cache = h.cache /\ Keeps(h, k, A)
  BY WroteKeeps
<1> HIDE DEF k, b
<1>5. HeapOK(l, More(F, b)) /\ Keeps(k, l, F) /\ l.live = k.live /\ l.cache = k.cache
  BY <1>1, <1>4, IncRefKeeps
<1> HIDE DEF l
<1> DEFINE G == More(F, b)
<1>6. G \in Loads /\ G[b] > 0 /\ Less(G, b) = F /\ Aside(G, b) = A
  <2>1. Aside(G, b) = A
    BY <1>1 DEF Aside, More, Loads
  <2> QED
    BY <1>1, <2>1, LoadsChange
<1> HIDE DEF G
<1>7. b \notin InCache(l.cache)
  BY <1>4, <1>5 DEF b
<1>8. HeapOK(g, Less(G, b)) /\ Keeps(l, g, Aside(G, b)) /\ g.live \subseteq l.live
  BY <1>1, <1>5, <1>6, <1>7, PushFrontKeeps DEF G
<1> HIDE DEF g
<1>9. Keeps(k, l, A)
  <2>1. \A c \in Blocks : A[c] > 0 => F[c] > 0
    BY <1>1 DEF Aside, Loads
  <2> QED
    BY <1>5, <2>1 DEF Keeps
<1>10. IsHeap(h) /\ IsHeap(k) /\ IsHeap(l) /\ IsHeap(g)
  BY <1>4, <1>5, <1>8, OKHeap
<1>11. Keeps(h, l, A)
  BY <1>4, <1>9, <1>10, KeepsOn
<1>12. Keeps(h, g, A)
  BY <1>6, <1>8, <1>10, <1>11, KeepsOn
<1> QED
  BY <1>3, <1>4, <1>5, <1>6, <1>8, <1>12 DEF b

\* A ring is laid out in a block.
Ringed(x, o, size) ==
    [x EXCEPT !.offset = o + size,
              !.mem = [i \in DOMAIN @ |-> IF i \in o .. o + size - 1 THEN Ring ELSE @[i]]]

LEMMA RingedFits ==
  ASSUME NEW x \in BlockType, Sound(x), NEW o, o = x.offset, NEW size \in Nat,
         o + size <= x.capacity
  PROVE  LET y == Ringed(x, o, size)
         IN y \in BlockType /\ y.ref_num = x.ref_num /\ Sound(y) /\ SameFront(x, y)
<1> DEFINE m == [i \in DOMAIN x.mem |-> IF i \in o .. o + size - 1 THEN Ring ELSE x.mem[i]]
           y == Ringed(x, o, size)
<1>1. x.offset \in Nat /\ x.capacity \in Nat /\ x.ref_num \in Nat /\ x.mem \in Memory
  BY DEF BlockType
<1>2. DOMAIN x.mem = 0 .. x.capacity - 1 /\ x.offset <= x.capacity /\ x.capacity % Align = 0
  BY DEF Sound
<1>3. \A i \in DOMAIN x.mem : x.mem[i] \in Nat
  BY <1>1 DEF Memory
<1>4. m \in [0 .. x.capacity - 1 -> Nat]
  BY <1>2, <1>3 DEF Ring
<1>5. m \in Memory /\ DOMAIN m = 0 .. x.capacity - 1
  <2> HIDE DEF m
  <2> QED
    BY <1>1, <1>4 DEF Memory
<1>6. \A i \in 0 .. x.offset - 1 : m[i] = x.mem[i]
  BY <1>1, <1>2
<1>7. y = [x EXCEPT !.offset = o + size, !.mem = m]
  BY DEF Ringed, BlockType
<1> HIDE DEF m, y
<1>8. /\ y \in BlockType /\ y.ref_num = x.ref_num /\ y.offset = o + size
      /\ y.capacity = x.capacity /\ y.mem = m
  <2> DEFINE p == o + size
  <2>1. p \in Nat /\ y = [x EXCEPT !.offset = p, !.mem = m]
    BY <1>1, <1>7
  <2> HIDE DEF p
  <2>2. /\ y \in BlockType /\ y.ref_num = x.ref_num /\ y.offset = p
        /\ y.capacity = x.capacity /\ y.mem = m
    BY <1>5, <2>1 DEF BlockType
  <2> QED
    BY <2>2 DEF p
<1>9. Sound(y)
  BY <1>2, <1>5, <1>8 DEF Sound
<1>10. SameFront(x, y)
  BY <1>1, <1>6, <1>8 DEF SameFront
<1> QED
  BY <1>8, <1>9, <1>10 DEF y

RingPut(h, b, o, size) ==
    [h EXCEPT !.block[b].offset = o + size,
              !.block[b].mem = [i \in DOMAIN @ |-> IF i \in o .. o + size - 1 THEN Ring ELSE @[i]]]

LEMMA RingPutIs ==
  ASSUME NEW h, h \in Heaps, NEW b \in Blocks, NEW o, NEW size
  PROVE  RingPut(h, b, o, size) = Put(h, b, Ringed(h.block[b], o, size))
<1> DEFINE x == h.block[b]
           p == o + size
           y == [x EXCEPT !.offset = p]
           m == [i \in DOMAIN x.mem |-> IF i \in o .. o + size - 1 THEN Ring ELSE x.mem[i]]
           k == [h EXCEPT !.block[b].offset = p]
           z == [x EXCEPT !.offset = p, !.mem = m]
<1>1. h.block \in [Blocks -> BlockType] /\ x \in BlockType
  BY DEF Heaps
<1>2. k = Put(h, b, y)
  <2>1. [h EXCEPT !.block[b].offset = p] = [h EXCEPT !.block[b] = [h.block[b] EXCEPT !.offset = p]]
    OBVIOUS
  <2> QED
    BY <2>1 DEF Put
<1>3. y.mem = x.mem /\ DOMAIN y = {"ref_num", "offset", "capacity", "mem"}
  BY <1>1 DEF BlockType
<1> HIDE DEF x, y, p
<1>4. k.block[b] = y /\ k = HeapOf(h.live, [h.block EXCEPT ![b] = y], h.cache, h.number, h.lost)
  <2>1. k = HeapOf(h.live, [h.block EXCEPT ![b] = y], h.cache, h.number, h.lost)
    <3> HIDE DEF k
    <3> QED
      BY <1>2 DEF Put, HeapOf, Heaps
  <2>2. [h.block EXCEPT ![b] = y][b] = y
    BY <1>1
  <2> HIDE DEF k
  <2>3. k.block = [h.block EXCEPT ![b] = y]
    BY <2>1 DEF HeapOf
  <2> QED
    BY <2>1, <2>2, <2>3
<1>5. RingPut(h, b, o, size) = [k EXCEPT !.block[b].mem = m]
  <2>1. k.block[b].mem = x.mem
    BY <1>3, <1>4
  <2>2. RingPut(h, b, o, size)
        = [k EXCEPT !.block[b].mem = [i \in DOMAIN k.block[b].mem |->
                       IF i \in o .. o + size - 1 THEN Ring ELSE k.block[b].mem[i]]]
    BY Zenon DEF RingPut, p
  <2> HIDE DEF k
  <2> QED
    BY <2>1, <2>2
<1> HIDE DEF m, k
<1>6. z = [y EXCEPT !.mem = m] /\ z = Ringed(x, o, size)
  BY <1>1 DEF Ringed, BlockType, y, p, m
<1>7. [k EXCEPT !.block[b].mem = m] = Put(h, b, z)
  <2> DEFINE kb == [h.block EXCEPT ![b] = y]
  <2>0. k = HeapOf(h.live, kb, h.cache, h.number, h.lost)
    BY <1>4
  <2>1. DOMAIN kb = Blocks /\ kb[b] = y
    BY <1>1
  <2>2. [kb EXCEPT ![b].mem = m] = [kb EXCEPT ![b] = z]
    BY <1>6, <2>1
  <2> HIDE DEF z
  <2>3. [kb EXCEPT ![b] = z] = [h.block EXCEPT ![b] = z]
    BY <1>1
  <2> HIDE DEF kb
  <2>4. [HeapOf(h.live, kb, h.cache, h.number, h.lost) EXCEPT !.block[b].mem = m]
        = HeapOf(h.live, [kb EXCEPT ![b].mem = m], h.cache, h.number, h.lost)
    BY DEF HeapOf
  <2>5. [h EXCEPT !.block[b] = z] = HeapOf(h.live, [h.block EXCEPT ![b] = z], h.cache, h.number, h.lost)
    BY DEF Heaps, HeapOf
  <2> QED
    BY <2>0, <2>2, <2>3, <2>4, <2>5, Zenon DEF Put
<1> QED
  BY <1>5, <1>6, <1>7 DEF x

LEMMA RingIn ==
  ASSUME NEW g, NEW F \in Loads, HeapOK(g, F), NEW b \in Blocks, b \in InCache(g.cache),
         NEW o, o = g.block[b].offset, NEW size \in Nat, o + size <= g.block[b].capacity
  PROVE  LET k == RingPut(IncRef(g, b), b, o, size)
         IN HeapOK(k, More(F, b)) /\ Keeps(g, k, F) /\ k.live = g.live /\ k.cache = g.cache
<1> DEFINE l == IncRef(g, b)
           x == l.block[b]
           y == Ringed(x, o, size)
           k == RingPut(l, b, o, size)
<1>1. b \in g.live
  BY HeapOKParts
<1>2. /\ HeapOK(l, More(F, b)) /\ Keeps(g, l, F) /\ l.live = g.live /\ l.cache = g.cache
      /\ x.offset = g.block[b].offset /\ x.capacity = g.block[b].capacity
  BY <1>1, IncRefKeeps
<1> DEFINE G == More(F, b)
<1>3. G \in Loads /\ \A c \in Blocks : G[c] = F[c] + One(c = b)
  BY LoadsChange
<1> HIDE DEF l, G
<1>4. l \in Heaps /\ x \in BlockType /\ Sound(x)
  BY <1>1, <1>2, <1>3, HeapOKParts DEF HeapOK, G
<1>5. k = Put(l, b, y)
  BY <1>4, RingPutIs
<1>6. y \in BlockType /\ y.ref_num = x.ref_num /\ Sound(y) /\ SameFront(x, y)
  BY <1>2, <1>4, RingedFits
<1> HIDE DEF y, k
<1>7. k = [l EXCEPT !.block[b] = y]
  BY <1>5 DEF Put
<1>8. HeapOK(k, G) /\ Keeps(l, k, G) /\ k.live = l.live /\ k.cache = l.cache
  BY <1>2, <1>3, <1>6, <1>7, BlockFilled DEF G
<1>9. Keeps(l, k, F)
  <2>1. \A c \in Blocks : F[c] > 0 => G[c] > 0
    BY <1>3 DEF Loads, One
  <2> QED
    BY <1>8, <2>1 DEF Keeps
<1>10. IsHeap(g) /\ IsHeap(l) /\ IsHeap(k)
  BY <1>2, <1>8, OKHeap
<1>11. Keeps(g, k, F)
  BY <1>2, <1>9, <1>10, KeepsOn
<1> QED
  BY <1>2, <1>8, <1>11 DEF k, l, G

RefType == [block : Blocks \cup {Null}, offset : Int, length : Nat]

\* acquire_block_ref_array: the ring is counted as one more reference of its block.
ArrayGot(h, a, F, n) ==
    /\ a.ref \in RefType /\ a.ref.block \in Blocks
    /\ HeapOK(a.h, More(F, a.ref.block)) /\ Keeps(h, a.h, F) /\ Within(a.h, n)
    /\ InCache(h.cache) \subseteq InCache(a.h.cache)

LEMMA AcquireArrayKeeps ==
  ASSUME NEW h, NEW F \in Loads, HeapOK(h, F), NEW t \in Threads,
         NEW n, Within(h, n), n + 1 \in Blocks, NEW slots \in RingSizes
  PROVE  ArrayGot(h, AcquireBlockRefArray(h, t, slots), F, n + 1)
<1> DEFINE size == ArrayBytes(slots)
           roomy == {i \in DOMAIN h.cache[t] : LeftSpace(h, h.cache[t][i]) >= size}
           found == size < Cap /\ roomy # {}
           new == IF size < Cap THEN Cap ELSE size
           g == IF found THEN h ELSE LinkNew(h, t, new)
           b == IF found THEN h.cache[t][CHOOSE i \in roomy : \A j \in roomy : i <= j] ELSE Fresh(h)
           o == g.block[b].offset
           a == AcquireBlockRefArray(h, t, slots)
           k == RingPut(IncRef(g, b), b, o, size)
<1>1. a.h = k /\ a.ref = [block |-> b, offset |-> o, length |-> size]
  BY DEF AcquireBlockRefArray, RingPut
<1>2. Fits(size) /\ size \in Nat
  BY SizesAssumption, RingAssumption DEF ArrayBytes, Fits
<1>3. Fits(new) /\ new \in Nat /\ size <= new
  BY <1>2, SizesAssumption DEF Fits
<1> HIDE DEF size, new, a, k
<1>4. /\ HeapOK(g, F) /\ Keeps(h, g, F) /\ Within(g, n + 1) /\ b \in Blocks
      /\ b \in InCache(g.cache) /\ InCache(h.cache) \subseteq InCache(g.cache)
      /\ g.block[b].offset + size <= g.block[b].capacity
  <2>1. CASE found
    <3>1. h.cache[t] \in Seq(Blocks)
      BY HeapOKParts DEF Caches
    <3>2. \E i \in roomy : \A j \in roomy : i <= j
      <4>1. roomy \in SUBSET Nat
        BY <3>1
      <4> QED
        BY <2>1, <4>1, LeastOne
    <3>3. PICK i \in roomy : b = h.cache[t][i]
      BY <2>1, <3>2
    <3>4. g = h
      BY <2>1
    <3> HIDE DEF b, g
    <3>5. b \in Blocks /\ b \in InCache(h.cache)
      BY <3>1, <3>3 DEF InCache, InList
    <3>6. h.block[b] \in BlockType
      BY <3>5, HeapOKParts
    <3>7. h.block[b].offset + size <= h.block[b].capacity
      BY <1>2, <3>3, <3>6 DEF LeftSpace, BlockType
    <3>8. Within(h, n + 1)
      BY DEF Within
    <3> QED
      BY <3>4, <3>5, <3>7, <3>8, KeepsSame
  <2>2. CASE ~ found
    <3>1. g = LinkNew(h, t, new) /\ b = Fresh(h)
      BY <2>2
    <3> HIDE DEF b, g, found
    <3>2. HeapOK(g, F) /\ Keeps(h, g, F) /\ NewHead(h, g, t, b, new) /\ Within(g, n + 1)
      BY <1>3, <3>1, NewLinked
    <3> QED
      BY <1>2, <1>3, <3>2 DEF NewHead
  <2> QED
    BY <2>1, <2>2
<1> HIDE DEF b, g
<1>5. HeapOK(k, More(F, b)) /\ Keeps(g, k, F) /\ k.live = g.live /\ k.cache = g.cache
  BY <1>2, <1>4, RingIn DEF k
<1>6. IsHeap(h) /\ IsHeap(g) /\ IsHeap(k)
  BY <1>4, <1>5, OKHeap
<1>7. Keeps(h, k, F)
  BY <1>4, <1>5, <1>6, KeepsOn
<1>8. Within(k, n + 1)
  BY <1>4, <1>5 DEF Within
<1>9. o \in Nat
  BY <1>4, HeapOKParts DEF BlockType
<1>10. a.ref \in RefType /\ a.ref.block = b
  BY <1>1, <1>2, <1>4, <1>9 DEF RefType
<1> QED
  BY <1>1, <1>4, <1>5, <1>7, <1>8, <1>10 DEF ArrayGot, a
-----------------------------------------------------------------------------
(* Sums *)

\* Induction, for a set of numbers
LEMMA SetInduction ==
  ASSUME NEW P \in SUBSET Nat, 0 \in P, \A n \in P : n + 1 \in P
  PROVE  P = Nat
<1> SUFFICES ASSUME Nat \ P # {} PROVE FALSE
  OBVIOUS
<1>1. PICK x \in Nat \ P : \A y \in Nat \ P : x <= y
  <2> DEFINE S == Nat \ P
  <2>1. S \in SUBSET Nat /\ S # {}
    OBVIOUS
  <2> HIDE DEF S
  <2>2. \E x \in S : \A y \in S : x <= y
    BY <2>1, LeastOne
  <2> QED
    BY <2>2 DEF S
<1>2. x # 0 /\ x - 1 \in Nat /\ ~ (x <= x - 1) /\ (x - 1) + 1 = x
  BY <1>1
<1>3. x - 1 \in P
  BY <1>1, <1>2
<1> QED
  BY <1>2, <1>3

\* The partial sums of the first n numbers of w, and the last one of them
AreSums(f, w, n) == f = [i \in 0 .. n |-> IF i = 0 THEN 0 ELSE f[i - 1] + w[i]]

\* The partial sums are numbers, ...
LEMMA SumsAreNumbers ==
  ASSUME NEW w, NEW n \in Nat, \A i \in 1 .. n : w[i] \in Int, NEW f, AreSums(f, w, n)
  PROVE  f \in [0 .. n -> Int] /\ f[0] = 0 /\ \A i \in 1 .. n : f[i] = f[i - 1] + w[i]
<1> DEFINE P == {i \in Nat : i <= n => f[i] \in Int}
<1>1. /\ DOMAIN f = 0 .. n /\ f[0] = 0 /\ \A i \in 1 .. n : f[i] = f[i - 1] + w[i]
      /\ f = [i \in 0 .. n |-> f[i]]
  <2> DEFINE h == [i \in 0 .. n |-> IF i = 0 THEN 0 ELSE f[i - 1] + w[i]]
  <2>1. DOMAIN h = 0 .. n /\ (\A i \in 0 .. n : h[i] = IF i = 0 THEN 0 ELSE f[i - 1] + w[i])
        /\ h = [i \in 0 .. n |-> h[i]]
    OBVIOUS
  <2>2. f = h
    BY Zenon DEF AreSums
  <2> HIDE DEF h
  <2>3. DOMAIN f = 0 .. n /\ (\A i \in 0 .. n : f[i] = IF i = 0 THEN 0 ELSE f[i - 1] + w[i])
        /\ f = [i \in 0 .. n |-> f[i]]
    BY <2>1, <2>2, Zenon
  <2>4. 0 \in 0 .. n /\ \A i \in 1 .. n : i \in 0 .. n /\ i # 0
    OBVIOUS
  <2> QED
    BY <2>3, <2>4, Zenon
<1>2. ASSUME NEW i \in P PROVE i + 1 \in P
  <2>1. CASE i + 1 <= n
    <3>1. i + 1 \in 1 .. n /\ (i + 1) - 1 = i /\ f[i] \in Int
      BY <2>1
    <3>2. f[i + 1] = f[i] + w[i + 1]
      BY <1>1, <3>1
    <3> QED
      BY <3>1, <3>2
  <2> QED
    BY <2>1
<1>3. P = Nat
  <2>1. 0 \in P /\ P \in SUBSET Nat
    BY <1>1
  <2> HIDE DEF P
  <2> QED
    BY <1>2, <2>1, SetInduction
<1>4. \A i \in 0 .. n : f[i] \in Int
  BY <1>3
<1> QED
  BY <1>1, <1>4

\* ... the sums go on with the next number, ...
LEMMA SumsGoOn ==
  ASSUME NEW w, NEW v, NEW n \in Nat, \A i \in 1 .. n : v[i] = w[i],
         \A i \in 1 .. n + 1 : v[i] \in Int, NEW f, AreSums(f, w, n)
  PROVE  AreSums([i \in 0 .. n + 1 |-> IF i = n + 1 THEN f[n] + v[n + 1] ELSE f[i]], v, n + 1)
<1>1. \A i \in 1 .. n : w[i] \in Int
  OBVIOUS
<1>2. f \in [0 .. n -> Int] /\ f[0] = 0 /\ \A i \in 1 .. n : f[i] = f[i - 1] + w[i]
  BY <1>1, SumsAreNumbers
<1> DEFINE g == [i \in 0 .. n + 1 |-> IF i = n + 1 THEN f[n] + v[n + 1] ELSE f[i]]
<1>3. ASSUME NEW i \in 0 .. n + 1
      PROVE  g[i] = IF i = 0 THEN 0 ELSE g[i - 1] + v[i]
  <2>1. CASE i = 0
    BY <1>2, <2>1
  <2>2. CASE i \in 1 .. n
    <3>1. g[i] = f[i] /\ g[i - 1] = f[i - 1]
      BY <2>2
    <3> QED
      BY <1>2, <2>2, <3>1
  <2>3. CASE i = n + 1
    <3>1. g[i] = f[n] + v[n + 1] /\ i - 1 = n /\ g[n] = f[n] /\ i # 0
      BY <2>3
    <3> QED
      BY <2>3, <3>1
  <2> QED
    BY <2>1, <2>2, <2>3
<1> QED
  BY <1>3 DEF AreSums

\* ... so there are such sums, ...
LEMMA SumsExist ==
  ASSUME NEW w, NEW n \in Nat, \A i \in 1 .. n : w[i] \in Int
  PROVE  \E f : AreSums(f, w, n)
<1> DEFINE P == {k \in Nat : k <= n => \E f : AreSums(f, w, k)}
<1>1. 0 \in P
  <2> DEFINE f == [i \in 0 .. 0 |-> 0]
  <2>1. AreSums(f, w, 0)
    BY DEF AreSums
  <2> QED
    BY <2>1
<1>2. ASSUME NEW k \in P PROVE k + 1 \in P
  <2> SUFFICES ASSUME k + 1 <= n PROVE \E g : AreSums(g, w, k + 1)
    OBVIOUS
  <2>1. PICK f : AreSums(f, w, k)
    OBVIOUS
  <2>2. k \in Nat /\ (\A i \in 1 .. k : w[i] = w[i]) /\ \A i \in 1 .. k + 1 : w[i] \in Int
    OBVIOUS
  <2> QED
    BY <2>1, <2>2, SumsGoOn
<1>3. P = Nat
  BY <1>1, <1>2, SetInduction
<1>4. n <= n
  OBVIOUS
<1> QED
  BY <1>3, <1>4

\* ... and only one sum.
LEMMA SumIs ==
  ASSUME NEW w, NEW n \in Nat, \A i \in 1 .. n : w[i] \in Int, NEW g, AreSums(g, w, n)
  PROVE  SumTo(w, n) = g[n] /\ SumTo(w, n) \in Int
<1> DEFINE f == CHOOSE h : AreSums(h, w, n)
           P == {i \in Nat : i <= n => f[i] = g[i]}
<1>1. SumTo(w, n) = f[n]
  BY DEF SumTo, AreSums
<1>2. AreSums(f, w, n)
  BY SumsExist
<1> HIDE DEF f
<1>3. /\ f \in [0 .. n -> Int] /\ f[0] = 0 /\ \A i \in 1 .. n : f[i] = f[i - 1] + w[i]
      /\ g \in [0 .. n -> Int] /\ g[0] = 0 /\ \A i \in 1 .. n : g[i] = g[i - 1] + w[i]
  BY ZenonT(60), <1>2, SumsAreNumbers
<1>4. ASSUME NEW i \in P PROVE i + 1 \in P
  <2>1. CASE i + 1 <= n
    <3>1. i + 1 \in 1 .. n /\ (i + 1) - 1 = i /\ f[i] = g[i]
      BY <2>1
    <3>2. f[i + 1] = f[i] + w[i + 1] /\ g[i + 1] = g[i] + w[i + 1]
      BY <1>3, <3>1
    <3> QED
      BY <3>1, <3>2
  <2> QED
    BY <2>1
<1>5. P = Nat
  BY <1>3, <1>4, SetInduction
<1>6. f[n] = g[n]
  BY <1>5
<1> QED
  BY <1>1, <1>3, <1>6

\* The sum of nothing, and of one number more
LEMMA SumOfNone ==
  ASSUME NEW w
  PROVE  SumTo(w, 0) = 0
<1> DEFINE f == [i \in 0 .. 0 |-> 0]
<1>1. AreSums(f, w, 0) /\ f[0] = 0
  BY DEF AreSums
<1>2. \A i \in 1 .. 0 : w[i] \in Int
  OBVIOUS
<1> HIDE DEF f
<1> QED
  BY <1>1, <1>2, SumIs

LEMMA SumGrows ==
  ASSUME NEW w, NEW v, NEW n \in Nat, \A i \in 1 .. n : v[i] = w[i],
         \A i \in 1 .. n + 1 : v[i] \in Int
  PROVE  SumTo(v, n + 1) = SumTo(w, n) + v[n + 1] /\ SumTo(w, n) \in Int
<1>1. \A i \in 1 .. n : w[i] \in Int
  OBVIOUS
<1>2. PICK f : AreSums(f, w, n)
  BY <1>1, SumsExist
<1> DEFINE g == [i \in 0 .. n + 1 |-> IF i = n + 1 THEN f[n] + v[n + 1] ELSE f[i]]
<1>3. AreSums(g, v, n + 1)
  BY <1>2, SumsGoOn
<1>4. g[n + 1] = f[n] + v[n + 1]
  OBVIOUS
<1> HIDE DEF g
<1>5. SumTo(v, n + 1) = g[n + 1]
  BY <1>3, SumIs
<1>6. SumTo(w, n) = f[n] /\ SumTo(w, n) \in Int
  BY <1>1, <1>2, SumIs
<1> QED
  BY <1>4, <1>5, <1>6
-----------------------------------------------------------------------------
(* read_from_fd *)

LEMMA LinkedLast ==
  ASSUME NEW cache \in Caches, Apart(cache), NEW t \in Threads,
         NEW b \in Blocks, b \notin InCache(cache)
  PROVE  LET new == [cache EXCEPT ![t] = Append(@, b)]
         IN /\ new \in Caches /\ Apart(new) /\ InCache(new) = InCache(cache) \cup {b}
            /\ Len(new[t]) = Len(cache[t]) + 1
<1> DEFINE l == cache[t]
           s == Append(l, b)
<1>1. l \in Seq(Blocks) /\ Len(l) \in Nat
  BY DEF Caches
<1>2. /\ s \in Seq(Blocks) /\ Len(s) = Len(l) + 1 /\ s[Len(l) + 1] = b
      /\ \A i \in 1 .. Len(l) : s[i] = l[i]
  BY <1>1
<1> HIDE DEF s, l
<1>3. DOMAIN s = 1 .. Len(l) + 1 /\ DOMAIN l = 1 .. Len(l)
  BY <1>1, <1>2
<1>4. \A i \in DOMAIN l : l[i] \in Blocks /\ l[i] # b
  BY <1>1 DEF l, InCache, InList
<1>5. \A i, j \in DOMAIN l : l[i] = l[j] => i = j
  BY DEF Apart, l
<1>6. \A i, j \in DOMAIN s : s[i] = s[j] => i = j
  <2> SUFFICES ASSUME NEW i \in DOMAIN s, NEW j \in DOMAIN s, s[i] = s[j] PROVE i = j
    OBVIOUS
  <2>1. \A x \in DOMAIN s : x # Len(l) + 1 => x \in DOMAIN l
    BY <1>1, <1>3
  <2>2. CASE i = Len(l) + 1 \/ j = Len(l) + 1
    BY <1>2, <1>3, <1>4, <2>1, <2>2
  <2>3. CASE i # Len(l) + 1 /\ j # Len(l) + 1
    BY <1>2, <1>3, <1>5, <2>1, <2>3
  <2> QED
    BY <2>2, <2>3
<1>7. \A c \in Blocks : InList(c, s) <=> c = b \/ InList(c, l)
  <2> SUFFICES ASSUME NEW c \in Blocks PROVE InList(c, s) <=> c = b \/ InList(c, l)
    OBVIOUS
  <2>1. \A x \in DOMAIN s : x # Len(l) + 1 => x \in DOMAIN l
    BY <1>1, <1>3
  <2>2. Len(l) + 1 \in DOMAIN s /\ \A x \in DOMAIN l : x \in DOMAIN s
    BY <1>1, <1>3
  <2> QED
    BY <1>2, <1>3, <2>1, <2>2 DEF InList
<1>8. \A c \in Blocks : InList(c, l) => c \in InCache(cache)
  BY DEF InCache, l
<1> DEFINE new == [cache EXCEPT ![t] = s]
<1>9. /\ new \in Caches /\ Apart(new)
      /\ InCache(new) = {c \in Blocks : \/ InList(c, s)
                                        \/ c \in InCache(cache) /\ ~ InList(c, l)}
  <2>1. \A c \in Blocks : InList(c, s) => InList(c, cache[t]) \/ c \notin InCache(cache)
    BY <1>7 DEF l
  <2> QED
    BY <1>2, <1>6, <2>1, ListChanges DEF l
<1>10. InCache(new) = InCache(cache) \cup {b}
  <2>1. InCache(cache) \subseteq Blocks
    BY DEF InCache
  <2> QED
    BY <1>7, <1>8, <1>9, <2>1
<1>11. new[t] = s
  BY DEF Caches
<1> QED
  BY <1>2, <1>9, <1>10, <1>11 DEF s, l

\* The room in the first blocks of a list, block by block
Listed(h, list) ==
    /\ list \in Seq(Blocks)
    /\ \A i \in 1 .. Len(list) :
          /\ h.block[list[i]] \in BlockType
          /\ LeftSpace(h, list[i]) \in Nat

LEMMA RoomIs ==
  ASSUME NEW h, NEW list, Listed(h, list)
  PROVE  /\ Room(h, list, 0) = 0
         /\ \A n \in 0 .. Len(list) - 1 :
               Room(h, list, n + 1) = Room(h, list, n) + LeftSpace(h, list[n + 1])
         /\ \A n \in 0 .. Len(list) : Room(h, list, n) \in Nat
<1> DEFINE w == [i \in DOMAIN list |-> LeftSpace(h, list[i])]
<1>1. list \in Seq(Blocks) /\ DOMAIN list = 1 .. Len(list) /\ Len(list) \in Nat
  BY DEF Listed
<1>2. \A i \in 1 .. Len(list) : w[i] = LeftSpace(h, list[i]) /\ w[i] \in Nat
  BY <1>1 DEF Listed
<1>3. \A n \in Nat : Room(h, list, n) = SumTo(w, n)
  BY DEF Room
<1> HIDE DEF w
<1>4. SumTo(w, 0) = 0
  BY SumOfNone
<1>5. ASSUME NEW n \in 0 .. Len(list) - 1
      PROVE  SumTo(w, n + 1) = SumTo(w, n) + w[n + 1] /\ n + 1 \in 1 .. Len(list) /\ n \in Nat
  <2>1. n \in Nat /\ n + 1 \in 1 .. Len(list) /\ \A i \in 1 .. n + 1 : w[i] \in Int
    BY <1>1, <1>2
  <2>2. \A i \in 1 .. n : w[i] = w[i]
    OBVIOUS
  <2> QED
    BY <2>1, <2>2, SumGrows
<1>6. \A n \in 0 .. Len(list) - 1 :
         Room(h, list, n + 1) = Room(h, list, n) + LeftSpace(h, list[n + 1])
  BY <1>2, <1>3, <1>5
<1> DEFINE P == {n \in Nat : n <= Len(list) => Room(h, list, n) \in Nat}
<1>7. 0 \in P
  BY <1>3, <1>4
<1>8. ASSUME NEW n \in P PROVE n + 1 \in P
  <2>1. CASE n + 1 <= Len(list)
    <3>1. n \in 0 .. Len(list) - 1 /\ Room(h, list, n) \in Nat /\ n + 1 \in 1 .. Len(list)
      BY <1>1, <2>1
    <3>2. LeftSpace(h, list[n + 1]) \in Nat
      BY <1>2, <3>1
    <3> QED
      BY <1>6, <3>1, <3>2
  <2>2. CASE ~ (n + 1 <= Len(list))
    BY <2>2
  <2> QED
    BY <2>1, <2>2
<1>9. P = Nat
  <2>1. P \in SUBSET Nat
    OBVIOUS
  <2> HIDE DEF P
  <2> QED
    BY <1>7, <1>8, <2>1, SetInduction
<1> QED
  BY <1>1, <1>3, <1>4, <1>6, <1>9

LEMMA CacheListed ==
  ASSUME NEW h, NEW F \in Loads, HeapOK(h, F), NEW t \in Threads
  PROVE  /\ Listed(h, h.cache[t])
         /\ \A i, j \in 1 .. Len(h.cache[t]) : h.cache[t][i] = h.cache[t][j] => i = j
         /\ \A i \in 1 .. Len(h.cache[t]) : /\ h.cache[t][i] \in InCache(h.cache)
                                            /\ h.cache[t][i] \in h.live
<1> DEFINE l == h.cache[t]
<1>1. l \in Seq(Blocks) /\ Apart(h.cache)
  BY HeapOKParts DEF Caches
<1>2. ASSUME NEW i \in 1 .. Len(l)
      PROVE  /\ l[i] \in InCache(h.cache) /\ l[i] \in h.live
             /\ h.block[l[i]] \in BlockType /\ LeftSpace(h, l[i]) \in Nat
  <2>1. l[i] \in InCache(h.cache) /\ l[i] \in Blocks
    BY <1>1 DEF InCache, InList
  <2> DEFINE c == l[i]
  <2> HIDE DEF c
  <2>2. c \in Blocks /\ c \in InCache(h.cache)
    BY <2>1 DEF c
  <2>3. c \in h.live /\ Sound(h.block[c]) /\ h.block[c] \in BlockType
    BY <2>2, HeapOKParts
  <2>4. LeftSpace(h, c) \in Nat
    BY <2>3 DEF LeftSpace, Sound, BlockType
  <2> QED
    BY <2>2, <2>3, <2>4 DEF c
<1>3. \A i, j \in 1 .. Len(l) : l[i] = l[j] => i = j
  BY <1>1 DEF Apart
<1> QED
  BY <1>1, <1>2, <1>3 DEF Listed

LinkedAt(h, t, b) == [h EXCEPT !.cache[t] = Append(@, b)]

LEMMA LinkedAtIs ==
  ASSUME NEW live, NEW block, NEW cache, NEW number, NEW lost, NEW t, NEW b
  PROVE  LinkedAt(HeapOf(live, block, cache, number, lost), t, b)
         = HeapOf(live, block, [cache EXCEPT ![t] = Append(@, b)], number, lost)
BY DEF HeapOf, LinkedAt

\* The room in more blocks is not less.
LEMMA RoomGrows ==
  ASSUME NEW h, NEW list, Listed(h, list), NEW m \in 0 .. Len(list)
  PROVE  Room(h, list, m) <= Room(h, list, Len(list))
<1>1. /\ list \in Seq(Blocks) /\ Len(list) \in Nat
      /\ \A i \in 1 .. Len(list) : LeftSpace(h, list[i]) \in Nat
  BY DEF Listed
<1>2. /\ \A n \in 0 .. Len(list) - 1 :
            Room(h, list, n + 1) = Room(h, list, n) + LeftSpace(h, list[n + 1])
      /\ \A n \in 0 .. Len(list) : Room(h, list, n) \in Nat
  BY RoomIs
<1> DEFINE P == {n \in Nat : m + n <= Len(list) => Room(h, list, m) <= Room(h, list, m + n)}
<1>3. m \in Nat /\ m <= Len(list) /\ Room(h, list, m) \in Nat
  BY <1>1, <1>2
<1>4. 0 \in P
  BY <1>3
<1>5. ASSUME NEW n \in P PROVE n + 1 \in P
  <2>1. n \in Nat
    OBVIOUS
  <2>2. ASSUME m + (n + 1) <= Len(list) PROVE Room(h, list, m) <= Room(h, list, m + (n + 1))
    <3>1. m + n <= Len(list) /\ m + n \in 0 .. Len(list) - 1 /\ m + (n + 1) = (m + n) + 1
          /\ m + n \in 0 .. Len(list) /\ (m + n) + 1 \in 1 .. Len(list)
      BY <1>1, <1>3, <2>1, <2>2
    <3>2. Room(h, list, m) <= Room(h, list, m + n)
      BY <3>1
    <3> DEFINE a == Room(h, list, m)
               b == Room(h, list, m + n)
               c == Room(h, list, (m + n) + 1)
               d == LeftSpace(h, list[(m + n) + 1])
    <3>3. c = b + d
      BY <1>2, <3>1
    <3>4. a \in Nat /\ b \in Nat /\ d \in Nat /\ a <= b
      BY <1>1, <1>2, <1>3, <3>1, <3>2
    <3> HIDE DEF a, b, c, d
    <3>5. a <= c
      BY <3>3, <3>4
    <3> QED
      BY <3>1, <3>5 DEF a, c
  <2> QED
    BY <2>1, <2>2
<1>6. P \in SUBSET Nat
  OBVIOUS
<1> HIDE DEF P
<1>7. P = Nat
  BY <1>4, <1>5, <1>6, SetInduction
<1>8. Len(list) - m \in P
  BY <1>1, <1>3, <1>7
<1>9. m + (Len(list) - m) = Len(list)
  BY <1>1, <1>3
<1> QED
  BY <1>1, <1>8, <1>9 DEF P

\* read_from_fd creates a block that it does not find.
LEMMA LinkLastKeeps ==
  ASSUME NEW h, NEW F \in Loads, HeapOK(h, F), NEW t \in Threads,
         NEW n, Within(h, n), n + 1 \in Blocks
  PROVE  LET g == LinkLast(h, t)
         IN HeapOK(g, F) /\ Keeps(h, g, F) /\ Within(g, n + 1)
<1> DEFINE l == h.cache[t]
           g == LinkLast(h, t)
<1>1. l \in Seq(Blocks) /\ Len(l) \in Nat /\ h \in Heaps /\ h.cache \in Caches /\ Apart(h.cache)
      /\ h.number \in [Threads -> Nat] /\ h.block \in [Blocks -> BlockType]
  BY HeapOKParts DEF Caches, HeapOK
<1>2. Cap \in Nat /\ Cap % Align = 0
  BY SizesAssumption
<1> DEFINE f == Fresh(h)
           blk == [h.block EXCEPT ![f] = EmptyBlock(1, Cap)]
           num == [h.number EXCEPT ![t] = @ + 1]
           live == h.live \cup {f}
           new == [h.cache EXCEPT ![t] = Append(@, f)]
<1>3. g = [CreateBlock(h, Cap) EXCEPT !.cache[t] = Append(@, f), !.number[t] = @ + 1]
  BY DEF LinkLast
<1>4. f \in Blocks /\ f \notin h.live /\ live \subseteq 1 .. n + 1 /\ n \in Nat
  BY FreshIsFree DEF Within
<1>5. f \notin InCache(h.cache) /\ F[f] = 0
  BY <1>4, HeapOKParts
<1>6. CreateBlock(h, Cap) = HeapOf(live, blk, h.cache, h.number, h.lost)
  BY <1>1, CreateIs
<1> HIDE DEF f, blk, live
<1>7. g = HeapOf(live, blk, new, num, h.lost)
  <2> HIDE DEF g
  <2>1. LinkedAt(HeapOf(live, blk, h.cache, h.number, h.lost), t, f)
        = HeapOf(live, blk, new, h.number, h.lost)
    BY LinkedAtIs
  <2> HIDE DEF new
  <2>2. [HeapOf(live, blk, new, h.number, h.lost) EXCEPT !.number[t] = @ + 1]
        = HeapOf(live, blk, new, num, h.lost)
    BY DEF HeapOf
  <2>3. g = [[CreateBlock(h, Cap) EXCEPT !.cache[t] = Append(@, f)] EXCEPT !.number[t] = @ + 1]
    BY <1>3, Zenon
  <2> QED
    BY <1>6, <2>1, <2>2, <2>3, Zenon DEF LinkedAt
<1> HIDE DEF g
<1>8. num \in [Threads -> Nat] /\ num[t] = h.number[t] + 1
      /\ \A u \in Threads \ {t} : num[u] = h.number[u]
  BY <1>1
<1> HIDE DEF num
<1>9. EmptyBlock(1, Cap) \in BlockType
  BY <1>2, EmptyBlockFits
<1>10. /\ blk \in [Blocks -> BlockType] /\ blk[f] = EmptyBlock(1, Cap)
       /\ \A c \in Blocks \ {f} : blk[c] = h.block[c]
  BY <1>1, <1>4, <1>9 DEF blk
<1>11. /\ new \in Caches /\ Apart(new) /\ InCache(new) = InCache(h.cache) \cup {f}
       /\ Len(new[t]) = Len(h.cache[t]) + 1
  BY <1>1, <1>4, <1>5, LinkedLast
<1>12. new[t] = Append(l, f) /\ \A u \in Threads \ {t} : new[u] = h.cache[u]
  BY <1>1 DEF Caches
<1> HIDE DEF new
<1>13. /\ \A c \in Blocks \ {f} : F[c] = F[c] /\ (c \in InCache(new) <=> c \in InCache(h.cache))
       /\ F[f] + One(f \in InCache(new)) = 1
  BY <1>4, <1>5, <1>11 DEF One
<1>14. Len(new[t]) <= Len(h.cache[t]) + 1
  BY <1>1, <1>11
<1>15. OneMore(h, F, f, t, Cap, live, blk, new, num, F)
  BY <1>8, <1>10, <1>11, <1>12, <1>13, <1>14 DEF OneMore, live
<1>16. HeapOK(g, F) /\ Keeps(h, g, F) /\ Added(h, g, f, Cap, live, new, num)
  BY <1>2, <1>4, <1>7, <1>15, BlockAdded
<1>17. g.live = live
  BY <1>16 DEF Added
<1>18. Within(g, n + 1)
  BY <1>4, <1>17 DEF Within
<1> QED
  BY <1>16, <1>18 DEF g

\* The bytes that were read fill the blocks of a list one after the other, the
\* last one as far as they go.
ReadsInto(h, list, refs, nr) ==
    /\ refs \in Seq(RefType) /\ Len(refs) \in 1 .. Len(list)
    /\ \A i \in 1 .. Len(refs) :
          /\ refs[i].block = list[i] /\ refs[i].offset = h.block[list[i]].offset
          /\ refs[i].length \in Nat /\ refs[i].length <= LeftSpace(h, list[i])
          /\ Lengths(refs, i - 1) \in Nat /\ Lengths(refs, i - 1) + refs[i].length <= nr
          /\ i < Len(refs) => refs[i].length = LeftSpace(h, list[i])

LEMMA ReadRefsAre ==
  ASSUME NEW h, NEW list, Listed(h, list), NEW nr \in Nat, nr >= 1, Len(list) >= 1,
         Room(h, list, Len(list)) >= nr
  PROVE  ReadsInto(h, list, ReadRefs(h, list, nr), nr)
<1> DEFINE enough == {i \in 1 .. Len(list) : Room(h, list, i) >= nr}
           k == CHOOSE i \in 1 .. Len(list) :
                  Room(h, list, i) >= nr /\ \A j \in 1 .. i - 1 : Room(h, list, j) < nr
           refs == ReadRefs(h, list, nr)
           w == [i \in DOMAIN refs |-> refs[i].length]
<1>1. /\ list \in Seq(Blocks) /\ Len(list) \in Nat
      /\ \A i \in 1 .. Len(list) : /\ LeftSpace(h, list[i]) \in Nat
                                   /\ h.block[list[i]].offset \in Nat /\ list[i] \in Blocks
  BY DEF Listed, BlockType
<1>2. /\ Room(h, list, 0) = 0
      /\ \A n \in 0 .. Len(list) - 1 :
            Room(h, list, n + 1) = Room(h, list, n) + LeftSpace(h, list[n + 1])
      /\ \A n \in 0 .. Len(list) : Room(h, list, n) \in Nat
  BY RoomIs
<1>3. /\ k \in 1 .. Len(list) /\ Room(h, list, k) >= nr
      /\ \A j \in 1 .. k - 1 : Room(h, list, j) < nr
  <2>1. enough \in SUBSET Nat /\ Len(list) \in enough
    BY <1>1
  <2>2. PICK m \in enough : \A y \in enough : m <= y
    BY <2>1, LeastOne
  <2>3. \A j \in 1 .. m - 1 : Room(h, list, j) < nr
    <3> SUFFICES ASSUME NEW j \in 1 .. m - 1 PROVE Room(h, list, j) < nr
      OBVIOUS
    <3>1. j \in 1 .. Len(list) /\ j \in 0 .. Len(list) /\ ~ (m <= j)
      BY <1>1, <2>2
    <3>2. ~ (Room(h, list, j) >= nr)
      BY <2>2, <3>1
    <3> QED
      BY <1>2, <3>1, <3>2
  <2>4. m \in 1 .. Len(list) /\ Room(h, list, m) >= nr
    BY <2>2
  <2> QED
    BY <2>3, <2>4
<1>4. refs = [i \in 1 .. k |->
                [block |-> list[i], offset |-> h.block[list[i]].offset,
                 length |-> IF i < k THEN LeftSpace(h, list[i]) ELSE nr - Room(h, list, k - 1)]]
  BY DEF ReadRefs
<1> HIDE DEF k, enough, refs
<1>5. k \in Nat /\ k >= 1 /\ k <= Len(list) /\ k - 1 \in 0 .. Len(list) - 1
  BY <1>1, <1>3
<1>6. Room(h, list, k - 1) \in Nat /\ Room(h, list, k - 1) < nr
  <2>1. Room(h, list, k - 1) \in Nat
    BY <1>1, <1>2, <1>5
  <2>2. CASE k = 1
    BY <1>2, <2>1, <2>2
  <2>3. CASE k # 1
    <3>1. k - 1 \in 1 .. k - 1
      BY <1>5, <2>3
    <3> QED
      BY <1>3, <2>1, <3>1
  <2> QED
    BY <2>1, <2>2, <2>3
<1>7. Room(h, list, k) = Room(h, list, k - 1) + LeftSpace(h, list[k])
  <2>1. (k - 1) + 1 = k
    BY <1>5
  <2> QED
    BY <1>2, <1>5, <2>1
<1> DEFINE last == nr - Room(h, list, k - 1)
<1>8. last \in Nat /\ last <= LeftSpace(h, list[k])
  BY <1>1, <1>3, <1>5, <1>6, <1>7
<1>9. ASSUME NEW i \in 1 .. k
      PROVE  /\ refs[i].block = list[i] /\ refs[i].offset = h.block[list[i]].offset
             /\ refs[i].length = IF i < k THEN LeftSpace(h, list[i]) ELSE last
             /\ refs[i].length \in Nat /\ refs[i].length <= LeftSpace(h, list[i])
             /\ refs[i] \in RefType /\ i \in 1 .. Len(list)
  <2>1. i \in 1 .. Len(list) /\ (i < k \/ i = k)
    BY <1>1, <1>5
  <2>2. refs[i] = [block |-> list[i], offset |-> h.block[list[i]].offset,
                   length |-> IF i < k THEN LeftSpace(h, list[i]) ELSE last]
    BY <1>4
  <2> HIDE DEF last
  <2>3. (IF i < k THEN LeftSpace(h, list[i]) ELSE last) \in Nat
        /\ (IF i < k THEN LeftSpace(h, list[i]) ELSE last) <= LeftSpace(h, list[i])
    BY <1>1, <1>8, <2>1
  <2> DEFINE len == IF i < k THEN LeftSpace(h, list[i]) ELSE last
  <2> HIDE DEF len
  <2>4. /\ refs[i].block = list[i] /\ refs[i].offset = h.block[list[i]].offset
        /\ refs[i].length = len /\ refs[i] \in RefType
    BY <1>1, <2>1, <2>2, <2>3 DEF RefType, len
  <2> QED
    BY <2>1, <2>3, <2>4 DEF len
<1> HIDE DEF last
<1>10. refs \in Seq(RefType) /\ Len(refs) = k /\ DOMAIN refs = 1 .. k
  <2>1. refs = [i \in 1 .. k |-> refs[i]]
    BY <1>4
  <2>2. refs \in [1 .. k -> RefType]
    BY <1>9, <2>1
  <2> QED
    BY <1>5, <2>2
<1>11. \A i \in 1 .. k : w[i] = refs[i].length /\ w[i] \in Int
  BY <1>9, <1>10
<1>12. \A n \in Nat : Lengths(refs, n) = SumTo(w, n)
  BY DEF Lengths
<1> HIDE DEF w
<1> DEFINE P == {n \in Nat : n <= k - 1 => Lengths(refs, n) = Room(h, list, n)}
<1>13. 0 \in P
  BY <1>2, <1>12, SumOfNone
<1>14. ASSUME NEW n \in P PROVE n + 1 \in P
  <2>1. CASE n + 1 <= k - 1
    <3>1. /\ n \in 0 .. Len(list) - 1 /\ Lengths(refs, n) = Room(h, list, n) /\ n + 1 \in 1 .. k
          /\ n + 1 < k
      BY <1>5, <2>1
    <3>2. /\ \A i \in 1 .. n : w[i] = w[i]
          /\ \A i \in 1 .. n + 1 : w[i] \in Int
      BY <1>5, <1>11, <2>1
    <3>3. SumTo(w, n + 1) = SumTo(w, n) + w[n + 1]
      BY <3>2, SumGrows
    <3>4. w[n + 1] = LeftSpace(h, list[n + 1])
      BY <1>9, <1>11, <3>1
    <3>5. Lengths(refs, n + 1) = Room(h, list, n) + LeftSpace(h, list[n + 1])
      BY <1>12, <3>1, <3>3, <3>4
    <3> QED
      BY <1>2, <3>1, <3>5
  <2>2. CASE ~ (n + 1 <= k - 1)
    BY <2>2
  <2> QED
    BY <2>1, <2>2
<1>15. P = Nat
  <2>1. P \in SUBSET Nat
    OBVIOUS
  <2> HIDE DEF P
  <2> QED
    BY <1>13, <1>14, <2>1, SetInduction
<1>16. ASSUME NEW i \in 1 .. k
       PROVE  Lengths(refs, i - 1) \in Nat /\ Lengths(refs, i - 1) + refs[i].length <= nr
  <2>1. i - 1 \in Nat /\ i - 1 <= k - 1 /\ i - 1 \in 0 .. Len(list) - 1 /\ i - 1 \in 0 .. Len(list)
        /\ (i - 1) + 1 = i
    BY <1>1, <1>5
  <2>2. Lengths(refs, i - 1) = Room(h, list, i - 1) /\ Room(h, list, i - 1) \in Nat
    BY <1>2, <1>15, <2>1
  <2>3. CASE i < k
    <3>1. i \in 1 .. k - 1
      BY <1>5, <2>3
    <3>2. Room(h, list, i) = Room(h, list, i - 1) + LeftSpace(h, list[i]) /\ Room(h, list, i) < nr
      BY <1>2, <1>3, <2>1, <3>1
    <3>3. refs[i].length = LeftSpace(h, list[i]) /\ LeftSpace(h, list[i]) \in Nat
      BY <1>1, <1>9, <2>3
    <3> QED
      BY <2>2, <3>2, <3>3
  <2>4. CASE i = k
    <3>1. refs[i].length = last /\ ~ (k < k)
      BY <1>5, <1>9, <2>4
    <3> QED
      BY <1>6, <2>2, <2>4, <3>1 DEF last
  <2> QED
    BY <1>5, <2>3, <2>4
<1> QED
  BY <1>5, <1>9, <1>10, <1>16 DEF ReadsInto, refs

\* readv: the blocks of the list are filled.
LEMMA FilledFits ==
  ASSUME NEW h, NEW F \in Loads, HeapOK(h, F), NEW t \in Threads, NEW refs, NEW nr \in Nat,
         ReadsInto(h, h.cache[t], refs, nr), NEW data \in Seq(Nat), Len(data) = nr,
         NEW c \in Blocks
  PROVE  LET y == Filled(h, refs, data, c)
             x == h.block[c]
         IN /\ y \in BlockType /\ y.ref_num = x.ref_num /\ SameFront(x, y)
            /\ c \in h.live => Sound(y)
            /\ c \notin InCache(h.cache) => y = x
            /\ \A i \in 1 .. Len(refs) :
                  c = refs[i].block => y.offset = x.offset + refs[i].length /\ y.capacity = x.capacity
<1> DEFINE x == h.block[c]
           l == h.cache[t]
<1>1. /\ refs \in Seq(RefType) /\ Len(refs) \in 1 .. Len(l) /\ DOMAIN refs = 1 .. Len(refs)
      /\ Len(l) \in Nat /\ Len(refs) \in Nat
  BY HeapOKParts DEF ReadsInto
<1>2. /\ Listed(h, l)
      /\ \A i, j \in 1 .. Len(l) : l[i] = l[j] => i = j
      /\ \A i \in 1 .. Len(l) : l[i] \in InCache(h.cache) /\ l[i] \in h.live
  BY CacheListed
<1>3. x \in BlockType /\ SameFront(x, x) /\ (c \in h.live => Sound(x))
  BY HeapOKParts, SameFrontSame
<1>a. \A i \in 1 .. Len(refs) :
          /\ refs[i].block = l[i] /\ refs[i].offset = h.block[l[i]].offset
          /\ refs[i].length \in Nat /\ refs[i].length <= LeftSpace(h, l[i])
          /\ Lengths(refs, i - 1) \in Nat /\ Lengths(refs, i - 1) + refs[i].length <= nr
  BY DEF ReadsInto
<1> HIDE DEF l
<1>4. CASE c \notin {refs[j].block : j \in DOMAIN refs}
  <2>1. Filled(h, refs, data, c) = x
    BY <1>4 DEF Filled
  <2>2. \A i \in 1 .. Len(refs) : c # refs[i].block
    BY <1>1, <1>4
  <2> QED
    BY <1>3, <2>1, <2>2
<1>5. CASE c \in {refs[j].block : j \in DOMAIN refs}
  <2>1. PICK i \in DOMAIN refs : refs[i].block = c
    BY <1>5
  <2>2. \A j \in DOMAIN refs : refs[j].block = c => j = i
    <3> SUFFICES ASSUME NEW j \in DOMAIN refs, refs[j].block = c PROVE j = i
      OBVIOUS
    <3>1. i \in 1 .. Len(l) /\ j \in 1 .. Len(l)
      BY <1>1
    <3>2. l[i] = c /\ l[j] = c
      BY <1>1, <1>a, <2>1
    <3> QED
      BY <1>2, <3>1, <3>2
  <2>3. (CHOOSE j \in DOMAIN refs : refs[j].block = c) = i
    BY <2>1, <2>2
  <2> DEFINE from == Lengths(refs, i - 1)
             n == refs[i].length
             part == SubSeq(data, from + 1, from + n)
             y == [Written(x, refs[i], part) EXCEPT !.offset = x.offset + n]
  <2>4. i \in 1 .. Len(refs) /\ i \in 1 .. Len(l)
    BY <1>1
  <2>5. /\ l[i] = c /\ refs[i].offset = x.offset /\ n \in Nat /\ n <= LeftSpace(h, c)
        /\ from \in Nat /\ from + n <= nr
    BY <1>a, <2>1, <2>4
  <2>6. Filled(h, refs, data, c) = [Written(x, refs[i], part) EXCEPT !.offset = @ + n]
    BY <1>5, <2>3 DEF Filled
  <2> DEFINE r == refs[i]
  <2>7. Written(x, r, part).offset = x.offset
    <3> HIDE DEF part, r, x
    <3> QED
      BY <1>3 DEF Written, BlockType
  <2>8. Filled(h, refs, data, c) = y
    <3> DEFINE v == Written(x, r, part)
    <3>1. Filled(h, refs, data, c) = [v EXCEPT !.offset = @ + n]
      BY <2>6
    <3>2. v.offset = x.offset
      BY <2>7
    <3>3. y = [v EXCEPT !.offset = x.offset + n]
      OBVIOUS
    <3> HIDE DEF v, n, y, x
    <3> QED
      BY <3>1, <3>2, <3>3
  <2>9. \A j \in 1 .. n : part[j] \in Nat
    <3> SUFFICES ASSUME NEW j \in 1 .. n PROVE part[j] \in Nat
      OBVIOUS
    <3> HIDE DEF from, n
    <3>1. part[j] = data[from + 1 + j - 1] /\ from + 1 + j - 1 \in 1 .. Len(data)
      BY <2>5
    <3> DEFINE k == from + 1 + j - 1
    <3> HIDE DEF part, k
    <3>2. k \in 1 .. Len(data) /\ part[j] = data[k]
      BY <3>1 DEF k
    <3> QED
      BY <3>2
  <2> HIDE DEF part, from
  <2>10. x.offset \in Nat /\ x.capacity \in Nat /\ x.offset + n \in Nat
         /\ x.offset + n <= x.capacity
    BY SMTT(60), <1>3, <2>5 DEF LeftSpace, BlockType
  <2>11. c \in h.live /\ c \in InCache(h.cache) /\ Sound(x)
    BY <1>2, <1>3, <2>4, <2>5
  <2>12. /\ y \in BlockType /\ y.ref_num = x.ref_num /\ Sound(y) /\ SameFront(x, y)
         /\ y.offset = x.offset + n /\ y.capacity = x.capacity
    <3> DEFINE o == x.offset + n
    <3>1. o \in Nat /\ x.offset + r.length <= o /\ o <= x.capacity /\ r.offset = x.offset
          /\ r.length \in Nat /\ \A j \in 1 .. r.length : part[j] \in Nat
      BY <2>5, <2>9, <2>10
    <3> HIDE DEF o, r, x
    <3>2. LET z == [Written(x, r, part) EXCEPT !.offset = o]
          IN /\ z \in BlockType /\ z.ref_num = x.ref_num /\ Sound(z) /\ SameFront(x, z)
             /\ z.offset = o /\ z.capacity = x.capacity
      BY <1>3, <2>11, <3>1, WrittenFits
    <3> QED
      BY <3>2 DEF o, r
  <2> HIDE DEF y
  <2>13. \A j \in 1 .. Len(refs) : c = refs[j].block => refs[j].length = n
    BY <1>1, <2>2
  <2> QED
    BY <2>8, <2>11, <2>12, <2>13
<1> QED
  BY <1>4, <1>5

\* Several cached blocks are filled.
LEMMA BlocksFilled ==
  ASSUME NEW h, NEW F \in Loads, HeapOK(h, F), NEW blk \in [Blocks -> BlockType],
         \A c \in Blocks : /\ blk[c].ref_num = h.block[c].ref_num /\ SameFront(h.block[c], blk[c])
                           /\ c \in h.live => Sound(blk[c])
                           /\ c \notin InCache(h.cache) => blk[c] = h.block[c]
  PROVE  LET g == [h EXCEPT !.block = blk]
         IN /\ HeapOK(g, F) /\ Keeps(h, g, F) /\ g.block = blk /\ g.live = h.live
            /\ g.cache = h.cache /\ g.number = h.number /\ g.lost = h.lost
<1> DEFINE g == [h EXCEPT !.block = blk]
<1>1. /\ h \in Heaps /\ h.live \in SUBSET Blocks /\ h.cache \in Caches
      /\ h.number \in [Threads -> Nat] /\ h.lost \in SUBSET Blocks /\ Apart(h.cache)
      /\ \A u \in Threads : h.number[u] >= Len(h.cache[u])
  BY HeapOKParts DEF HeapOK
<1>2. \A c \in Blocks :
        /\ h.block[c].ref_num = F[c] + One(c \in InCache(h.cache)) + One(c \in h.lost)
        /\ c \in h.live <=> h.block[c].ref_num > 0
  BY HeapOKParts
<1>3. g = HeapOf(h.live, blk, h.cache, h.number, h.lost)
  BY <1>1 DEF HeapOf, Heaps
<1> HIDE DEF g
<1>4. PartsOK(h.live, blk, h.cache, h.number, h.lost, F)
  BY <1>1, <1>2 DEF PartsOK
<1>5. /\ g.live = h.live /\ g.block = blk /\ g.cache = h.cache /\ g.number = h.number
      /\ g.lost = h.lost /\ HeapOK(g, F)
  BY <1>3, <1>4, HeapIsOK
<1>6. Keeps(h, g, F)
  BY <1>5 DEF Keeps
<1> QED
  BY <1>5, <1>6 DEF g
Plus(F, S) == [c \in Blocks |-> F[c] + One(c \in S)]

LEMMA PlusIs ==
  ASSUME NEW F \in Loads, NEW S
  PROVE  /\ Plus(F, S) \in Loads /\ \A c \in Blocks : Plus(F, S)[c] = F[c] + One(c \in S)
         /\ \A c \in Blocks : F[c] > 0 => Plus(F, S)[c] > 0
BY DEF Plus, Loads, One

\* The blocks of the references that were read into
ReadBlocks(refs) == {refs[i].block : i \in DOMAIN refs}

LEMMA ReadOutKeeps ==
  ASSUME NEW h, NEW F \in Loads, HeapOK(h, F), NEW t \in Threads, NEW refs, NEW nr \in Nat,
         ReadsInto(h, h.cache[t], refs, nr), NEW data \in Seq(Nat), Len(data) = nr
  PROVE  LET g == ReadOut(h, t, refs, data)
         IN HeapOK(g, Plus(F, ReadBlocks(refs))) /\ Keeps(h, g, F) /\ g.live = h.live
<1> DEFINE l == h.cache[t]
           m == Len(refs)
           last == Last(refs).block
           blk == [b \in Blocks |-> Filled(h, refs, data, b)]
           g == [h EXCEPT !.block = blk]
           k == IF Full(g, last) THEN m ELSE m - 1
           out == [g EXCEPT !.cache[t] = SubSeq(@, k + 1, Len(@)), !.number[t] = @ - k]
           res == ReadOut(h, t, refs, data)
           S == Firsts(g, t, k)
           G == Plus(F, S)
           num == [g.number EXCEPT ![t] = @ - k]
<1>1. res = IF Full(g, last) THEN out ELSE IncRef([out EXCEPT !.block[last].offset = RoundUp(@)], last)
  BY DEF ReadOut
<1>2. /\ refs \in Seq(RefType) /\ m \in 1 .. Len(l) /\ DOMAIN refs = 1 .. m
      /\ Len(l) \in Nat /\ m \in Nat /\ m >= 1
      /\ \A i \in 1 .. m : refs[i].block = l[i]
  BY HeapOKParts DEF ReadsInto
<1>3. last = l[m] /\ last \in Blocks /\ last \in h.live /\ last \in InCache(h.cache)
      /\ m \in 1 .. Len(refs) /\ last = refs[m].block
  <2>1. last = l[m] /\ last = refs[m].block
    BY <1>2 DEF Last
  <2>2. Listed(h, l) /\ l[m] \in InCache(h.cache) /\ l[m] \in h.live
    BY <1>2, CacheListed
  <2> QED
    BY <1>2, <2>1, <2>2 DEF Listed
<1>4. ASSUME NEW c \in Blocks
      PROVE  /\ blk[c] \in BlockType
             /\ blk[c].ref_num = h.block[c].ref_num /\ SameFront(h.block[c], blk[c])
             /\ c \in h.live => Sound(blk[c])
             /\ c \notin InCache(h.cache) => blk[c] = h.block[c]
             /\ \A i \in 1 .. m : c = refs[i].block =>
                   /\ blk[c].offset = h.block[c].offset + refs[i].length
                   /\ blk[c].capacity = h.block[c].capacity
  <2>1. blk[c] = Filled(h, refs, data, c)
    OBVIOUS
  <2> HIDE DEF blk
  <2> QED
    BY <2>1, FilledFits
<1>5. blk \in [Blocks -> BlockType]
  BY <1>4
<1> HIDE DEF blk, res
<1>6. /\ HeapOK(g, F) /\ Keeps(h, g, F) /\ g.block = blk /\ g.live = h.live
      /\ g.cache = h.cache /\ g.number = h.number /\ g.lost = h.lost
  BY <1>4, <1>5, BlocksFilled
<1> HIDE DEF g, last
<1>7. k \in 0 .. Len(l) /\ k \in Nat /\ k <= m
  BY <1>2
<1>8. G \in Loads /\ (\A c \in Blocks : G[c] = F[c] + One(c \in S))
      /\ \A c \in Blocks : F[c] > 0 => G[c] > 0
  BY PlusIs
<1>9. /\ h.number \in [Threads -> Nat] /\ h.number[t] \in Nat /\ h.number[t] >= Len(l)
      /\ h.cache \in Caches /\ Apart(h.cache) /\ g \in Heaps
  BY <1>6, HeapOKParts DEF HeapOK
<1>10. num \in [Threads -> Nat] /\ num[t] = h.number[t] - k
       /\ \A u \in Threads \ {t} : num[u] = g.number[u]
  <2> HIDE DEF k, l
  <2>1. h.number[t] - k \in Nat
    BY <1>2, <1>7, <1>9
  <2> QED
    BY <1>6, <1>9, <2>1
<1> HIDE DEF G, k
<1>11. out = HeapOf(g.live, g.block, [g.cache EXCEPT ![t] = SubSeq(@, k + 1, Len(@))], num, g.lost)
  <2> DEFINE s == SubSeq(g.cache[t], k + 1, Len(g.cache[t]))
  <2>1. out = [[g EXCEPT !.cache[t] = s] EXCEPT !.number[t] = @ - k]
    OBVIOUS
  <2>2. [g.cache EXCEPT ![t] = SubSeq(@, k + 1, Len(@))] = [g.cache EXCEPT ![t] = s]
    OBVIOUS
  <2> HIDE DEF s
  <2>3. [g EXCEPT !.cache[t] = s] = HeapOf(g.live, g.block, [g.cache EXCEPT ![t] = s], g.number, g.lost)
    <3>1. g \in Heaps
      BY <1>9
    <3> DEFINE p == [g EXCEPT !.cache[t] = s]
    <3>2. p = [g EXCEPT !.cache[t] = s]
      OBVIOUS
    <3> HIDE DEF l, m, num, out, p
    <3>3. p = HeapOf(g.live, g.block, [g.cache EXCEPT ![t] = s], g.number, g.lost)
      BY <3>1, <3>2 DEF Heaps, HeapOf
    <3> QED
      BY <3>3 DEF p
  <2> DEFINE kc == [g.cache EXCEPT ![t] = s]
  <2> HIDE DEF kc
  <2>4. [HeapOf(g.live, g.block, kc, g.number, g.lost) EXCEPT !.number[t] = @ - k]
        = HeapOf(g.live, g.block, kc, num, g.lost)
    BY DEF HeapOf
  <2> QED
    BY <2>1, <2>2, <2>3, <2>4, Zenon DEF kc
<1> HIDE DEF num, out, S
<1>12. Taking(g, F, t, k, num, G)
  <2> HIDE DEF l
  <2>1. num[t] >= Len(l) - k
    BY <1>2, <1>7, <1>9, <1>10
  <2>2. Len(g.cache[t]) = Len(l)
    BY <1>6 DEF l
  <2> QED
    BY <1>7, <1>8, <1>10, <2>1, <2>2 DEF Taking, S
<1>13. HeapOK(out, G) /\ Keeps(g, out, F) /\ Without(g, out, t, k, num)
  BY <1>6, <1>8, <1>11, <1>12, FirstsOut
<1>14. /\ out.live = h.live /\ out.block = blk
       /\ InCache(out.cache) = InCache(h.cache) \ S
  BY <1>6, <1>13 DEF Without, S
<1>15. IsHeap(h) /\ IsHeap(g) /\ IsHeap(out)
  BY <1>6, <1>13, OKHeap
<1>16. Keeps(h, out, F)
  BY <1>6, <1>13, <1>15, KeepsOn
<1>17. S = {l[i] : i \in 1 .. k}
  BY <1>6 DEF S, Firsts
<1>18. CASE Full(g, last)
  <2>1. S = ReadBlocks(refs)
    BY <1>2, <1>17, <1>18 DEF ReadBlocks, k
  <2>2. res = out
    BY <1>1, <1>18
  <2> QED
    BY <1>13, <1>14, <1>16, <2>1, <2>2 DEF G, res
<1>19. CASE ~ Full(g, last)
  <2> DEFINE x == blk[last]
             o == RoundUp(x.offset)
             y == [x EXCEPT !.offset = o]
             p == [out EXCEPT !.block[last] = y]
             H == More(G, last)
  <2>1. k = m - 1
    BY <1>19 DEF k
  <2>2. ReadBlocks(refs) = S \cup {last}
    <3>1. \A i \in 1 .. m : i \in 1 .. k \/ i = m
      BY <1>2, <2>1
    <3>2. \A i \in 1 .. k : i \in 1 .. m
      BY <1>2, <2>1
    <3> QED
      BY <1>2, <1>3, <1>17, <3>1, <3>2 DEF ReadBlocks
  <2>3. last \notin S
    <3> SUFFICES ASSUME NEW i \in 1 .. k, l[i] = last PROVE FALSE
      BY <1>17
    <3>1. i \in 1 .. Len(l) /\ m \in 1 .. Len(l) /\ i # m
      <4> HIDE DEF l, m
      <4> QED
        BY <1>2, <2>1
    <3> QED
      BY <1>3, <3>1, CacheListed
  <2>4. x \in BlockType /\ Sound(x)
    BY <1>3, <1>4
  <2>5. o \in Nat /\ x.offset <= o /\ o <= x.capacity
    BY <2>4, RoundUpFits DEF Sound, BlockType
  <2> HIDE DEF x, o
  <2>6. y \in BlockType /\ y.ref_num = x.ref_num /\ Sound(y) /\ SameFront(x, y)
    BY <2>4, <2>5 DEF BlockType, Sound, SameFront
  <2>7. [out EXCEPT !.block[last].offset = RoundUp(@)] = p
    BY <1>14 DEF x, o
  <2> HIDE DEF y, p, H
  <2>8. out.block[last] = x
    BY <1>14 DEF x
  <2>9. /\ HeapOK(p, G) /\ Keeps(out, p, G) /\ p.live = out.live /\ p.cache = out.cache
    <3>1. last \in InCache(out.cache)
      BY <1>3, <1>14, <2>3
    <3>2. y.ref_num = out.block[last].ref_num /\ SameFront(out.block[last], y) /\ Sound(y)
      BY <2>6, <2>8
    <3>3. y \in BlockType /\ last \in Blocks
      BY <1>3, <2>6
    <3> HIDE DEF G, res, k, m, l
    <3>4. HeapOK(out, G) /\ G \in Loads
      BY <1>8, <1>13
    <3>5. p = [out EXCEPT !.block[last] = y]
      BY DEF p
    <3>6. /\ HeapOK(p, G) /\ (last \in InCache(out.cache) => Keeps(out, p, G))
          /\ p.live = out.live /\ p.cache = out.cache
      BY ZenonT(60), <3>2, <3>3, <3>4, <3>5, BlockFilled
    <3> QED
      BY <3>1, <3>6
  <2>10. res = IncRef(p, last)
    BY <1>1, <1>19, <2>7
  <2>11. HeapOK(res, H) /\ Keeps(p, res, G) /\ res.live = p.live
    <3>1. last \in p.live
      BY <1>3, <1>14, <2>9
    <3> QED
      BY <1>3, <1>8, <2>9, <2>10, <3>1, IncRefKeeps DEF H
  <2>12. H = Plus(F, ReadBlocks(refs))
    <3>1. H \in Loads /\ \A c \in Blocks : H[c] = G[c] + One(c = last)
      BY <1>3, <1>8, LoadsChange DEF H
    <3> DEFINE Q == Plus(F, ReadBlocks(refs))
    <3>2. Q \in Loads /\ \A c \in Blocks : Q[c] = F[c] + One(c \in ReadBlocks(refs))
      BY PlusIs
    <3> HIDE DEF Q
    <3>3. \A c \in Blocks : H[c] = Q[c]
      <4> SUFFICES ASSUME NEW c \in Blocks PROVE H[c] = Q[c]
        OBVIOUS
      <4>1. F[c] \in Nat
        BY DEF Loads
      <4>2. H[c] = F[c] + One(c \in S) + One(c = last) /\ Q[c] = F[c] + One(c \in S \cup {last})
        BY <1>8, <2>2, <3>1, <3>2
      <4>3. CASE c = last
        BY <2>3, <4>1, <4>2, <4>3 DEF One
      <4>4. CASE c # last
        BY <4>1, <4>2, <4>4 DEF One
      <4> QED
        BY <4>3, <4>4
    <3> QED
      BY <3>1, <3>2, <3>3 DEF Loads, Q
  <2>13. Keeps(out, p, F) /\ Keeps(p, res, F)
    BY <1>8, <2>9, <2>11 DEF Keeps
  <2>14. IsHeap(p) /\ IsHeap(res)
    BY <2>9, <2>11, OKHeap
  <2>15. Keeps(h, p, F)
    BY <1>15, <1>16, <2>13, <2>14, KeepsOn
  <2>16. Keeps(h, res, F)
    BY <1>15, <2>13, <2>14, <2>15, KeepsOn
  <2> QED
    BY <1>14, <2>9, <2>11, <2>12, <2>16 DEF res
<1> QED
  BY <1>18, <1>19
-----------------------------------------------------------------------------
(* append_ref: the blocks *)

LEMMA SameLoads ==
  ASSUME NEW F \in Loads, NEW G \in Loads, \A c \in Blocks : F[c] = G[c]
  PROVE  F = G
BY DEF Loads

LEMMA PlusOne ==
  ASSUME NEW F \in Loads, NEW b \in Blocks
  PROVE  Plus(F, {b}) = More(F, b) /\ Plus(F, {b})[b] > 0 /\ Less(Plus(F, {b}), b) = F
<1>1. Plus(F, {b}) = More(F, b)
  <2>1. Plus(F, {b}) \in Loads /\ \A c \in Blocks : Plus(F, {b})[c] = F[c] + One(c \in {b})
    BY PlusIs
  <2>2. More(F, b) \in Loads /\ \A c \in Blocks : More(F, b)[c] = F[c] + One(c = b)
    BY LoadsChange
  <2>3. \A c \in Blocks : Plus(F, {b})[c] = More(F, b)[c]
    BY <2>1, <2>2 DEF One
  <2> QED
    BY <2>1, <2>2, <2>3, SameLoads
<1> QED
  BY <1>1, LoadsChange

LEMMA PlusNone ==
  ASSUME NEW F \in Loads
  PROVE  Plus(F, {}) = F
<1>1. Plus(F, {}) \in Loads /\ \A c \in Blocks : Plus(F, {})[c] = F[c] + One(c \in {})
  BY PlusIs
<1>2. \A c \in Blocks : Plus(F, {})[c] = F[c]
  BY <1>1 DEF One, Loads
<1> QED
  BY <1>1, <1>2, SameLoads

LEMMA PlusSwap ==
  ASSUME NEW F \in Loads, NEW S, NEW T
  PROVE  Plus(Plus(F, S), T) = Plus(Plus(F, T), S)
<1> DEFINE G == Plus(F, S)
           H == Plus(F, T)
<1>1. /\ G \in Loads /\ \A c \in Blocks : G[c] = F[c] + One(c \in S)
      /\ H \in Loads /\ \A c \in Blocks : H[c] = F[c] + One(c \in T)
  BY PlusIs
<1> HIDE DEF G, H
<1>2. /\ Plus(G, T) \in Loads /\ \A c \in Blocks : Plus(G, T)[c] = G[c] + One(c \in T)
      /\ Plus(H, S) \in Loads /\ \A c \in Blocks : Plus(H, S)[c] = H[c] + One(c \in S)
  BY <1>1, PlusIs
<1>3. \A c \in Blocks : Plus(G, T)[c] = Plus(H, S)[c]
  BY <1>1, <1>2 DEF One, Loads
<1> QED
  BY <1>2, <1>3, SameLoads DEF G, H

LEMMA KeepsFewer ==
  ASSUME NEW h, NEW g, NEW F, NEW G, Keeps(h, g, G), \A c \in Blocks : F[c] > 0 => G[c] > 0
  PROVE  Keeps(h, g, F)
BY DEF Keeps

\* What append_ref is called with: a reference that comes along or is copied
Coming(ref, moved) == IF moved THEN {ref.block} ELSE {}
RingOf(b) == IF b.array THEN {b.second.block} ELSE {}

\* From h to g: no block is forgotten that K refers to or that is cached.
Goes(h, g, K, n) ==
    Keeps(h, g, K) /\ Within(g, n) /\ InCache(h.cache) \subseteq InCache(g.cache)

LEMMA GoesOn ==
  ASSUME NEW h, IsHeap(h), NEW g, IsHeap(g), NEW k, IsHeap(k), NEW K, NEW m, NEW n,
         Goes(h, g, K, m), Goes(g, k, K, n)
  PROVE  Goes(h, k, K, n)
BY KeepsOn DEF Goes

LEMMA GoesNowhere ==
  ASSUME NEW h, NEW F \in Loads, HeapOK(h, F), NEW K \in Loads,
         NEW n, Within(h, n)
  PROVE  Goes(h, h, K, n)
<1>1. Keeps(h, h, K)
  BY HeapOKParts, SameFrontSame DEF Keeps
<1> QED
  BY <1>1 DEF Goes

LEMMA MergedKeeps ==
  ASSUME NEW h, NEW Q \in Loads, NEW ref, ref.block \in Blocks, NEW moved \in BOOLEAN,
         HeapOK(h, Plus(Q, Coming(ref, moved))), NEW t \in Threads, NEW n, Within(h, n)
  PROVE  HeapOK(Merged(h, t, ref, moved), Q) /\ Goes(h, Merged(h, t, ref, moved), Q, n)
<1> DEFINE b == ref.block
           g == Merged(h, t, ref, moved)
<1>1. CASE moved
  <2> DEFINE P == Plus(Q, {b})
  <2>1. Coming(ref, moved) = {b} /\ g = DecRef(h, t, b)
    BY <1>1 DEF Coming, Merged
  <2>2. P \in Loads /\ P[b] > 0 /\ Less(P, b) = Q
    BY PlusIs, PlusOne
  <2> HIDE DEF P, g
  <2>3. /\ HeapOK(g, Less(P, b)) /\ Keeps(h, g, Less(P, b)) /\ g.live \subseteq h.live
        /\ InCache(h.cache) \subseteq InCache(g.cache)
    BY <2>1, <2>2, DecRefKeeps DEF P
  <2>4. Within(g, n)
    BY <2>3 DEF Within
  <2> QED
    BY <2>2, <2>3, <2>4 DEF Goes, g
<1>2. CASE ~ moved
  <2>1. Coming(ref, moved) = {} /\ g = h
    BY <1>2 DEF Coming, Merged
  <2>2. HeapOK(h, Q)
    BY <2>1, PlusNone
  <2> QED
    BY <2>1, <2>2, GoesNowhere
<1> QED
  BY <1>1, <1>2

LEMMA StoredKeeps ==
  ASSUME NEW h, NEW Q \in Loads, NEW ref, ref.block \in Blocks, NEW moved \in BOOLEAN,
         HeapOK(h, Plus(Q, Coming(ref, moved))), ref.block \in h.live, NEW n, Within(h, n)
  PROVE  /\ HeapOK(Stored(h, ref, moved), Plus(Q, {ref.block}))
         /\ Goes(h, Stored(h, ref, moved), Q, n)
<1> DEFINE b == ref.block
           g == Stored(h, ref, moved)
<1>1. CASE moved
  <2>1. Coming(ref, moved) = {b} /\ g = h
    BY <1>1 DEF Coming, Stored
  <2>2. Plus(Q, {b}) \in Loads
    BY PlusIs
  <2> QED
    BY <2>1, <2>2, GoesNowhere
<1>2. CASE ~ moved
  <2>1. Coming(ref, moved) = {} /\ g = IncRef(h, b)
    BY <1>2 DEF Coming, Stored
  <2>2. HeapOK(h, Q)
    BY <2>1, PlusNone
  <2> HIDE DEF g
  <2>3. HeapOK(g, More(Q, b)) /\ Keeps(h, g, Q) /\ g.live = h.live /\ g.cache = h.cache
    BY <2>1, <2>2, IncRefKeeps
  <2>4. Within(g, n)
    BY <2>3 DEF Within
  <2> QED
    BY <2>3, <2>4, PlusOne DEF Goes, g
<1> QED
  BY <1>1, <1>2

\* The rings of a buffer: the new one is counted, the old one given back.
LEMMA NewRingKeeps ==
  ASSUME NEW h, NEW Q \in Loads, HeapOK(h, Q), NEW t \in Threads,
         NEW n, Within(h, n), n + 1 \in Blocks, NEW slots \in RingSizes
  PROVE  LET a == AcquireBlockRefArray(h, t, slots)
         IN /\ a.ref \in RefType /\ a.ref.block \in Blocks
            /\ HeapOK(a.h, Plus(Q, {a.ref.block})) /\ Goes(h, a.h, Q, n + 1)
<1> DEFINE a == AcquireBlockRefArray(h, t, slots)
<1>1. ArrayGot(h, a, Q, n + 1)
  BY AcquireArrayKeeps
<1> HIDE DEF a
<1>2. /\ a.ref \in RefType /\ a.ref.block \in Blocks
      /\ HeapOK(a.h, More(Q, a.ref.block)) /\ Keeps(h, a.h, Q) /\ Within(a.h, n + 1)
      /\ InCache(h.cache) \subseteq InCache(a.h.cache)
  BY <1>1 DEF ArrayGot
<1>3. More(Q, a.ref.block) = Plus(Q, {a.ref.block})
  BY <1>2, PlusOne
<1> QED
  BY <1>2, <1>3 DEF Goes, a

LEMMA OldRingKeeps ==
  ASSUME NEW h, NEW Q \in Loads, NEW old \in Blocks, HeapOK(h, Plus(Q, {old})), NEW t \in Threads,
         NEW n, Within(h, n), n + 1 \in Blocks, NEW slots \in RingSizes
  PROVE  LET a == AcquireBlockRefArray(h, t, slots)
             g == DecRef(a.h, t, old)
         IN /\ a.ref \in RefType /\ a.ref.block \in Blocks
            /\ HeapOK(g, Plus(Q, {a.ref.block})) /\ Goes(h, g, Q, n + 1)
<1> DEFINE a == AcquireBlockRefArray(h, t, slots)
           g == DecRef(a.h, t, old)
           new == a.ref.block
           P == Plus(Q, {old})
           R == Plus(Q, {new})
<1>1. P \in Loads
  BY PlusIs
<1>2. /\ a.ref \in RefType /\ new \in Blocks
      /\ HeapOK(a.h, Plus(P, {new})) /\ Goes(h, a.h, P, n + 1)
  BY <1>1, NewRingKeeps
<1> HIDE DEF a, P
<1>3. Plus(P, {new}) = Plus(R, {old}) /\ R \in Loads
  BY PlusIs, PlusSwap DEF P
<1>4. Plus(R, {old}) \in Loads /\ Plus(R, {old})[old] > 0 /\ Less(Plus(R, {old}), old) = R
  BY <1>3, PlusIs, PlusOne
<1>5. /\ HeapOK(g, R) /\ Keeps(a.h, g, R) /\ g.live \subseteq a.h.live
      /\ InCache(a.h.cache) \subseteq InCache(g.cache)
  <2> DEFINE V == Plus(R, {old})
             k == a.h
  <2>1. HeapOK(k, V) /\ V \in Loads /\ V[old] > 0 /\ Less(V, old) = R
    BY <1>2, <1>3, <1>4
  <2> HIDE DEF V, k, R
  <2>2. /\ HeapOK(DecRef(k, t, old), Less(V, old)) /\ Keeps(k, DecRef(k, t, old), Less(V, old))
        /\ DecRef(k, t, old).live \subseteq k.live
        /\ InCache(k.cache) \subseteq InCache(DecRef(k, t, old).cache)
    BY <2>1, DecRefKeeps
  <2> QED
    BY <2>1, <2>2 DEF k
<1> HIDE DEF g
<1>6. (\A c \in Blocks : Q[c] > 0 => P[c] > 0) /\ (\A c \in Blocks : Q[c] > 0 => R[c] > 0)
  BY PlusIs DEF P
<1>7. Goes(h, a.h, Q, n + 1)
  BY <1>2, <1>6, KeepsFewer DEF Goes
<1>8. Goes(a.h, g, Q, n + 1)
  <2>1. Within(g, n + 1)
    BY <1>2, <1>5 DEF Goes, Within
  <2> QED
    BY <1>5, <1>6, <2>1, KeepsFewer DEF Goes
<1>9. IsHeap(h) /\ IsHeap(a.h) /\ IsHeap(g)
  BY <1>2, <1>5, OKHeap
<1> QED
  BY <1>2, <1>5, <1>7, <1>8, <1>9, GoesOn DEF a, g
BufferType == [array : BOOLEAN, first : RefType, second : RefType, slots : Seq(RefType),
               begin : Nat, num : Nat, nbytes : Int]

\* The block of the reference is there: it comes with one, others refer to it
\* or it is cached.
Reach(h, K, ref, moved) ==
    ref.block \in Blocks
    /\ ((moved \/ K[ref.block] > 0) \/ ref.block \in InCache(h.cache))

LEMMA ReachIsLive ==
  ASSUME NEW h, NEW K \in Loads, NEW ref, NEW moved \in BOOLEAN, Reach(h, K, ref, moved),
         NEW S, HeapOK(h, Plus(Plus(K, S), Coming(ref, moved)))
  PROVE  ref.block \in h.live
<1> DEFINE b == ref.block
           P == Plus(K, S)
           Q == Plus(P, Coming(ref, moved))
<1>1. P \in Loads /\ b \in Blocks
  BY PlusIs DEF Reach
<1>2. P[b] = K[b] + One(b \in S) /\ K[b] \in Nat
  BY <1>1, PlusIs DEF Loads
<1>3. Q \in Loads /\ Q[b] = P[b] + One(b \in Coming(ref, moved))
  BY <1>1, PlusIs
<1>4. moved => One(b \in Coming(ref, moved)) = 1
  BY DEF One, Coming
<1>5. One(b \in Coming(ref, moved)) \in Nat /\ One(b \in S) \in Nat
  BY DEF One
<1> HIDE DEF P, Q
<1>6. Q[b] > 0 \/ b \in InCache(h.cache)
  BY <1>1, <1>2, <1>3, <1>4, <1>5 DEF Reach
<1> QED
  BY <1>1, <1>3, <1>6, HeapOKParts DEF Q, P

\* What is done to a ring
Extended(b, j, m) == [b EXCEPT !.slots[j].length = @ + m, !.nbytes = @ + m]
Pushed(b, ref) ==
    [b EXCEPT !.slots[Index(b, b.num)] = ref, !.num = @ + 1, !.nbytes = @ + ref.length]
Grown(b, ref) ==
    [b EXCEPT !.slots = @ \o [i \in 1 .. Len(@) |-> Unset], !.second = ref]

SameRing(b, y) ==
    /\ y.array = b.array /\ y.first = b.first /\ y.second = b.second /\ y.begin = b.begin

LEMMA ExtendedIs ==
  ASSUME NEW b \in BufferType, NEW j, NEW m
  PROVE  LET y == Extended(b, j, m)
         IN /\ SameRing(b, y) /\ y.num = b.num /\ y.nbytes = b.nbytes + m
            /\ y.slots = [b.slots EXCEPT ![j].length = @ + m]
  BY DEF Extended, BufferType, SameRing

LEMMA PushedIs ==
  ASSUME NEW b \in BufferType, NEW ref
  PROVE  LET y == Pushed(b, ref)
         IN /\ SameRing(b, y) /\ y.num = b.num + 1 /\ y.nbytes = b.nbytes + ref.length
            /\ y.slots = [b.slots EXCEPT ![Index(b, b.num)] = ref]
<1> DEFINE j == Index(b, b.num)
<1>1. Pushed(b, ref)
      = [b EXCEPT !.slots[j] = ref, !.num = @ + 1, !.nbytes = @ + ref.length]
  BY DEF Pushed
<1> HIDE DEF j
<1> QED
  BY <1>1 DEF BufferType, SameRing, j

LEMMA GrownIs ==
  ASSUME NEW b \in BufferType, NEW ref \in RefType
  PROVE  LET y == Grown(b, ref)
         IN /\ y.array = b.array /\ y.first = b.first /\ y.second = ref /\ y.begin = b.begin
            /\ y.num = b.num /\ y.nbytes = b.nbytes
            /\ y.slots = b.slots \o [i \in 1 .. Len(b.slots) |-> Unset]
            /\ y \in BufferType
<1> DEFINE L == Len(b.slots)
           more == [i \in 1 .. L |-> Unset]
<1>1. Unset \in RefType
  BY DEF Unset, RefType
<1>2. L \in Nat /\ b.slots \in Seq(RefType)
  BY DEF BufferType
<1>3. more \in Seq(RefType)
  BY <1>1, <1>2
<1>4. Grown(b, ref) = [b EXCEPT !.slots = @ \o more, !.second = ref]
  BY DEF Grown
<1>5. b.slots \o more \in Seq(RefType)
  BY <1>2, <1>3
<1> HIDE DEF more
<1>6. Grown(b, ref) \in BufferType
  BY <1>4, <1>5 DEF BufferType
<1>7. /\ Grown(b, ref).array = b.array /\ Grown(b, ref).first = b.first
      /\ Grown(b, ref).second = ref /\ Grown(b, ref).begin = b.begin
      /\ Grown(b, ref).num = b.num /\ Grown(b, ref).nbytes = b.nbytes
      /\ Grown(b, ref).slots = b.slots \o more
  BY <1>4 DEF BufferType
<1> QED
  BY <1>6, <1>7 DEF more

LEMMA GrownPushed ==
  ASSUME NEW b \in BufferType, NEW ring, NEW ref
  PROVE  Len(Pushed(Grown(b, ring), ref).slots) = 2 * Len(b.slots)
<1> DEFINE L == Len(b.slots)
           more == [i \in 1 .. L |-> Unset]
           big == Grown(b, ring)
           j == Index(big, big.num)
           s == big.slots
<1>1. L \in Nat /\ b.slots \in Seq(RefType)
  BY DEF BufferType
<1>2. Unset \in RefType
  BY DEF Unset, RefType
<1>3. s = b.slots \o more /\ DOMAIN big = DOMAIN b
  BY DEF Grown, BufferType
<1>4. s \in Seq(RefType) /\ Len(s) = 2 * L
  BY <1>1, <1>2, <1>3
<1>5. Pushed(big, ref) = [big EXCEPT !.slots[j] = ref, !.num = @ + 1, !.nbytes = @ + ref.length]
  BY DEF Pushed
<1> HIDE DEF j
<1>6. "slots" \in DOMAIN big
  BY <1>3 DEF BufferType
<1> HIDE DEF big
<1>7. Pushed(big, ref).slots = [s EXCEPT ![j] = ref]
  BY <1>5, <1>6
<1> HIDE DEF s
<1> QED
  BY <1>4, <1>7 DEF big

\* A reference is merged with the last one of a ring or goes behind it.
LEMMA ArrayAppendHeap ==
  ASSUME NEW h, NEW K \in Loads, NEW b \in BufferType, b.array, b.second.block \in Blocks, NEW ref, NEW moved \in BOOLEAN,
         Reach(h, K, ref, moved),
         HeapOK(h, Plus(Plus(K, RingOf(b)), Coming(ref, moved))), NEW t \in Threads,
         NEW n, Within(h, n), n + 1 \in Blocks,
         NEW r, r = ArrayAppendRef(h, t, b, ref, moved), RingBounded(r.b)
  PROVE  LET new == IF Merges(RefAt(b, b.num - 1), ref) THEN {} ELSE {ref.block}
         IN /\ HeapOK(r.h, Plus(Plus(K, RingOf(r.b)), new)) /\ Goes(h, r.h, K, n + 1)
            /\ r.b.second \in RefType /\ r.b.second.block \in Blocks
<1> DEFINE old == b.second.block
           C == Coming(ref, moved)
           L == Len(b.slots)
           P == Plus(K, {old})
<1>1. RingOf(b) = {old} /\ ref.block \in Blocks /\ P \in Loads
  BY PlusIs DEF RingOf, Reach
<1>2. CASE Merges(RefAt(b, b.num - 1), ref)
  <2>1. r = [h |-> Merged(h, t, ref, moved), b |-> Extended(b, Index(b, b.num - 1), ref.length)]
    BY <1>2 DEF ArrayAppendRef, Extended
  <2>2. r.h = Merged(h, t, ref, moved) /\ RingOf(r.b) = {old} /\ r.b.second = b.second
    <3> DEFINE j == Index(b, b.num - 1)
               m == ref.length
    <3>1. r.h = Merged(h, t, ref, moved) /\ r.b = Extended(b, j, m)
      BY <2>1
    <3> HIDE DEF j, m
    <3>2. SameRing(b, r.b)
      <4>1. SameRing(b, Extended(b, j, m))
        BY ExtendedIs
      <4> QED BY <3>1, <4>1
    <3> QED BY <3>1, <3>2 DEF RingOf, SameRing
  <2>3. HeapOK(r.h, P) /\ Goes(h, r.h, P, n)
    <3> HIDE DEF P
    <3> QED BY <1>1, <2>2, MergedKeeps DEF P
  <2>4. Goes(h, r.h, K, n + 1)
    <3>1. \A c \in Blocks : K[c] > 0 => P[c] > 0
      BY PlusIs
    <3>2. Within(r.h, n + 1)
      BY <2>3 DEF Goes, Within
    <3> HIDE DEF P
    <3> QED BY <2>3, <3>1, <3>2, KeepsFewer DEF Goes
  <2>5. Plus(P, {}) = P
    BY <1>1, PlusNone
  <2> QED
    BY <1>2, <2>2, <2>3, <2>4, <2>5 DEF BufferType
<1>3. CASE ~ Merges(RefAt(b, b.num - 1), ref) /\ b.num # L
  <2>1. r = [h |-> Stored(h, ref, moved), b |-> Pushed(b, ref)]
    BY <1>3 DEF ArrayAppendRef, Pushed
  <2>2. r.h = Stored(h, ref, moved) /\ RingOf(r.b) = {old} /\ r.b.second = b.second
    <3>1. r.h = Stored(h, ref, moved) /\ r.b = Pushed(b, ref)
      BY <2>1
    <3>2. SameRing(b, r.b)
      BY <3>1, PushedIs
    <3> QED BY <3>1, <3>2 DEF RingOf, SameRing
  <2>3. ref.block \in h.live
    BY <1>1, ReachIsLive
  <2>4. HeapOK(r.h, Plus(P, {ref.block})) /\ Goes(h, r.h, P, n)
    <3> HIDE DEF P
    <3> QED BY <1>1, <2>2, <2>3, StoredKeeps DEF P
  <2>5. Goes(h, r.h, K, n + 1)
    <3>1. \A c \in Blocks : K[c] > 0 => P[c] > 0
      BY PlusIs
    <3>2. Within(r.h, n + 1)
      BY <2>4 DEF Goes, Within
    <3> HIDE DEF P
    <3> QED BY <2>4, <3>1, <3>2, KeepsFewer DEF Goes
  <2> QED
    BY <1>3, <2>2, <2>4, <2>5 DEF BufferType
<1>4. CASE ~ Merges(RefAt(b, b.num - 1), ref) /\ b.num = L
  <2> DEFINE a == AcquireBlockRefArray(h, t, 2 * L)
             g == DecRef(a.h, t, old)
             big == Grown(b, a.ref)
             Q == Plus(K, C)
             ring == a.ref.block
  <2>1. r.h = Stored(g, ref, moved) /\ r.b = Pushed(big, ref)
    BY <1>4 DEF ArrayAppendRef, ArrayResize, Pushed, Grown, BufferType
  <2>2. r.b.array
    BY <2>1 DEF Pushed, Grown, BufferType
  <2>3. Len(r.b.slots) = 2 * L
    BY <2>1, GrownPushed
  <2>5. 2 * L \in RingSizes
    BY <2>2, <2>3 DEF RingBounded
  <2>6. Q \in Loads /\ HeapOK(h, Plus(Q, {old}))
    BY <1>1, PlusIs, PlusSwap
  <2>7. /\ ring \in Blocks /\ HeapOK(g, Plus(Q, {ring})) /\ Goes(h, g, Q, n + 1)
        /\ a.ref \in RefType
    <3>1. LET m == AcquireBlockRefArray(h, t, 2 * L)
              k == DecRef(m.h, t, old)
          IN /\ m.ref \in RefType /\ m.ref.block \in Blocks
             /\ HeapOK(k, Plus(Q, {m.ref.block})) /\ Goes(h, k, Q, n + 1)
      <4> HIDE DEF Q
      <4> QED BY <2>5, <2>6, OldRingKeeps
    <3> QED BY <3>1 DEF a, g
  <2> HIDE DEF a, g
  <2>4. r.b.second = a.ref
    <3>1. big \in BufferType /\ big.second = a.ref
      BY <2>7, GrownIs
    <3> HIDE DEF big
    <3>2. SameRing(big, r.b)
      BY <2>1, <3>1, PushedIs
    <3> QED BY <3>1, <3>2 DEF SameRing
  <2> HIDE DEF big
  <2>8. HeapOK(g, Plus(Plus(K, {ring}), C)) /\ Plus(K, {ring}) \in Loads
    BY <2>7, PlusIs, PlusSwap
  <2>9. Reach(g, K, ref, moved)
    BY <2>7 DEF Reach, Goes
  <2>10. ref.block \in g.live
    BY <2>8, <2>9, ReachIsLive
  <2> DEFINE R == Plus(K, {ring})
  <2>11. HeapOK(r.h, Plus(R, {ref.block})) /\ Goes(g, r.h, R, n + 1)
    <3>1. Within(g, n + 1)
      BY <2>7 DEF Goes
    <3> HIDE DEF R
    <3> QED BY <1>1, <2>1, <2>8, <2>10, <3>1, StoredKeeps DEF R
  <2>12. Goes(h, g, K, n + 1) /\ Goes(g, r.h, K, n + 1)
    <3>1. \A c \in Blocks : K[c] > 0 => R[c] > 0 /\ Q[c] > 0
      BY PlusIs
    <3> HIDE DEF R, Q
    <3> QED BY <2>7, <2>11, <3>1, KeepsFewer DEF Goes
  <2>13. IsHeap(h) /\ IsHeap(g) /\ IsHeap(r.h)
    BY <2>7, <2>11, OKHeap
  <2>14. RingOf(r.b) = {ring}
    BY <2>2, <2>4 DEF RingOf
  <2> QED
    BY <1>4, <2>4, <2>7, <2>11, <2>12, <2>13, <2>14, GoesOn
<1> QED
  BY <1>2, <1>3, <1>4

\* What transfor_to_array makes of a buffer
Transformed(b, ring) ==
    [array |-> TRUE, first |-> NoRef, second |-> ring,
     slots |-> <<b.first, b.second>> \o [i \in 1 .. InitSize - 2 |-> Unset],
     begin |-> 0, num |-> 2, nbytes |-> b.first.length + b.second.length]

LEMMA TransformedIs ==
  ASSUME NEW b \in BufferType, NEW ring \in RefType
  PROVE  LET y == Transformed(b, ring)
         IN /\ y \in BufferType /\ y.array /\ y.second = ring /\ y.begin = 0 /\ y.num = 2
            /\ Len(y.slots) = InitSize /\ InitSize \in Nat /\ InitSize >= 2
            /\ y.slots[1] = b.first /\ y.slots[2] = b.second
            /\ \A i \in 3 .. InitSize : y.slots[i] = Unset
            /\ RefAt(y, 1) = b.second
<1> DEFINE more == [i \in 1 .. InitSize - 2 |-> Unset]
           s == <<b.first, b.second>> \o more
           y == Transformed(b, ring)
<1>1. InitSize \in Nat /\ InitSize >= 2
  BY RingAssumption
<1>2. Unset \in RefType /\ NoRef \in RefType /\ b.first \in RefType /\ b.second \in RefType
  BY DEF Unset, NoRef, RefType, BufferType
<1>3. more \in Seq(RefType) /\ Len(more) = InitSize - 2
  BY <1>1, <1>2
<1>4. /\ s \in Seq(RefType) /\ Len(s) = InitSize /\ s[1] = b.first /\ s[2] = b.second
      /\ \A i \in 3 .. InitSize : s[i] = more[i - 2]
  <2> HIDE DEF more
  <2> QED BY <1>1, <1>2, <1>3
<1>5. \A i \in 3 .. InitSize : s[i] = Unset
  BY <1>1, <1>4
<1> HIDE DEF s
<1>6. y = [array |-> TRUE, first |-> NoRef, second |-> ring, slots |-> s,
           begin |-> 0, num |-> 2, nbytes |-> b.first.length + b.second.length]
  BY DEF Transformed, s
<1>7. b.first.length + b.second.length \in Int
  BY <1>2 DEF RefType
<1>8. y \in BufferType
  BY <1>2, <1>4, <1>6, <1>7 DEF BufferType
<1>9. Index(y, 1) = 2
  BY <1>1, <1>4, <1>6 DEF Index
<1>10. RefAt(y, 1) = b.second
  BY <1>4, <1>6, <1>9 DEF RefAt
<1> QED
  BY <1>1, <1>4, <1>5, <1>6, <1>8, <1>10

\* append_ref keeps a reference in the buffer, or merges it with the last one.
LastRef(b) ==
    IF b.array THEN RefAt(b, b.num - 1) ELSE IF b.second.block = Null THEN b.first ELSE b.second
Stores(b, ref) == (~ b.array /\ b.first.block = Null) \/ ~ Merges(LastRef(b), ref)
Kept(b, ref) == IF Stores(b, ref) THEN {ref.block} ELSE {}

\* The merge and the store of a buffer without a ring
LEMMA MergedHeap ==
  ASSUME NEW h, NEW K \in Loads, NEW ref, NEW moved \in BOOLEAN, Reach(h, K, ref, moved),
         HeapOK(h, Plus(K, Coming(ref, moved))), NEW t \in Threads, NEW n, Within(h, n)
  PROVE  /\ HeapOK(Merged(h, t, ref, moved), Plus(K, {}))
         /\ Goes(h, Merged(h, t, ref, moved), K, n + 2)
<1>1. HeapOK(Merged(h, t, ref, moved), K) /\ Goes(h, Merged(h, t, ref, moved), K, n)
  BY MergedKeeps DEF Reach
<1> QED
  BY <1>1, PlusNone DEF Goes, Within

LEMMA StoredHeap ==
  ASSUME NEW h, NEW K \in Loads, NEW ref, NEW moved \in BOOLEAN, Reach(h, K, ref, moved),
         HeapOK(h, Plus(K, Coming(ref, moved))), NEW t \in Threads, NEW n, Within(h, n)
  PROVE  /\ HeapOK(Stored(h, ref, moved), Plus(K, {ref.block}))
         /\ Goes(h, Stored(h, ref, moved), K, n + 2)
<1>1. ref.block \in h.live
  BY PlusNone, ReachIsLive
<1>2. HeapOK(Stored(h, ref, moved), Plus(K, {ref.block})) /\ Goes(h, Stored(h, ref, moved), K, n)
  BY <1>1, StoredKeeps DEF Reach
<1> QED
  BY <1>2 DEF Goes, Within

\* append_ref: the reference is counted if it is kept, and given back if it was
\* moved in and merged; a ring that was acquired is counted, one that was
\* outgrown is given back.
AppendIs(h, r, K, b, ref, n) ==
    /\ HeapOK(r.h, Plus(Plus(K, RingOf(r.b)), Kept(b, ref))) /\ Goes(h, r.h, K, n)
    /\ r.b.array => r.b.second \in RefType /\ r.b.second.block \in Blocks

LEMMA SimpleAppendHeap ==
  ASSUME NEW h, NEW K \in Loads, NEW b \in BufferType, ~ b.array, NEW ref,
         NEW moved \in BOOLEAN, Reach(h, K, ref, moved),
         HeapOK(h, Plus(Plus(K, RingOf(b)), Coming(ref, moved))), NEW t \in Threads,
         NEW n, Within(h, n), NEW r, ~ r.b.array,
         \/ r.h = Merged(h, t, ref, moved) /\ ~ Stores(b, ref)
         \/ r.h = Stored(h, ref, moved) /\ Stores(b, ref)
  PROVE  AppendIs(h, r, K, b, ref, n + 2)
<1>1. RingOf(b) = {} /\ RingOf(r.b) = {} /\ Plus(K, {}) = K
  BY PlusNone DEF RingOf
<1>2. HeapOK(h, Plus(K, Coming(ref, moved)))
  BY <1>1
<1> QED
  BY <1>1, <1>2, MergedHeap, StoredHeap DEF AppendIs, Kept

LEMMA AppendRefHeap ==
  ASSUME NEW h, NEW K \in Loads, NEW b \in BufferType, b.array => b.second.block \in Blocks,
         ~ b.array /\ b.first.block = Null => b.second.block = Null,
         NEW ref, NEW moved \in BOOLEAN, Reach(h, K, ref, moved),
         HeapOK(h, Plus(Plus(K, RingOf(b)), Coming(ref, moved))), NEW t \in Threads,
         NEW n, Within(h, n), n + 2 \in Blocks,
         NEW r, r = AppendRef(h, t, b, ref, moved), RingBounded(r.b)
  PROVE  AppendIs(h, r, K, b, ref, n + 2)
<1>0. n \in Nat /\ n + 1 \in Blocks /\ n + 1 + 1 = n + 2
  BY SizesAssumption DEF Within, Blocks
<1>1. CASE ~ b.array /\ b.first.block = Null
  <2>1. r.h = Stored(h, ref, moved) /\ ~ r.b.array /\ Stores(b, ref)
    <3>1. r = [h |-> Stored(h, ref, moved), b |-> [b EXCEPT !.first = ref]]
      BY <1>1 DEF AppendRef
    <3> QED BY <1>1, <3>1 DEF BufferType, Stores
  <2> QED
    BY <1>1, <2>1, SimpleAppendHeap
<1>2. CASE /\ ~ b.array /\ b.first.block # Null /\ b.second.block = Null
           /\ Merges(b.first, ref)
  <2>1. r.h = Merged(h, t, ref, moved) /\ ~ r.b.array /\ ~ Stores(b, ref)
    BY <1>2 DEF AppendRef, BufferType, Stores, LastRef
  <2> QED
    BY <1>2, <2>1, SimpleAppendHeap
<1>3. CASE /\ ~ b.array /\ b.first.block # Null /\ b.second.block = Null
           /\ ~ Merges(b.first, ref)
  <2>1. r.h = Stored(h, ref, moved) /\ ~ r.b.array /\ Stores(b, ref)
    BY <1>3 DEF AppendRef, BufferType, Stores, LastRef
  <2> QED
    BY <1>3, <2>1, SimpleAppendHeap
<1>4. CASE /\ ~ b.array /\ b.first.block # Null /\ b.second.block # Null
           /\ Merges(b.second, ref)
  <2>1. r.h = Merged(h, t, ref, moved) /\ ~ r.b.array /\ ~ Stores(b, ref)
    BY <1>4 DEF AppendRef, BufferType, Stores, LastRef
  <2> QED
    BY <1>4, <2>1, SimpleAppendHeap
<1>5. CASE /\ ~ b.array /\ b.first.block # Null /\ b.second.block # Null
           /\ ~ Merges(b.second, ref)
  <2> DEFINE a == AcquireBlockRefArray(h, t, InitSize)
             y == Transformed(b, a.ref)
             C == Coming(ref, moved)
             Q == Plus(K, C)
             ring == a.ref.block
  <2>1. r = ArrayAppendRef(a.h, t, y, ref, moved)
    BY <1>5 DEF AppendRef, TransforToArray, Transformed
  <2>2. Q \in Loads /\ HeapOK(h, Q)
    BY <1>5, PlusIs, PlusNone DEF RingOf
  <2>3. InitSize \in RingSizes
    BY RingAssumption
  <2>4. a.ref \in RefType /\ ring \in Blocks /\ HeapOK(a.h, Plus(Q, {ring})) /\ Goes(h, a.h, Q, n + 1)
    <3> HIDE DEF Q
    <3> QED BY <1>0, <2>2, <2>3, NewRingKeeps
  <2> HIDE DEF a
  <2>5. HeapOK(a.h, Plus(Plus(K, {ring}), C))
    BY <2>4, PlusSwap
  <2>6. y \in BufferType /\ y.array /\ y.second = a.ref /\ y.num = 2 /\ RefAt(y, 1) = b.second
    BY <2>4, TransformedIs
  <2> HIDE DEF y
  <2>7. Goes(h, a.h, K, n + 1)
    <3>1. \A c \in Blocks : K[c] > 0 => Q[c] > 0
      BY PlusIs
    <3> HIDE DEF Q
    <3> QED BY <2>4, <3>1, KeepsFewer DEF Goes
  <2>8. Reach(a.h, K, ref, moved) /\ Within(a.h, n + 1)
    BY <2>7 DEF Reach, Goes
  <2>9. RingOf(y) = {ring}
    BY <2>6 DEF RingOf
  <2>10. RefAt(y, y.num - 1) = b.second
    BY <2>6
  <2>11. /\ HeapOK(r.h, Plus(Plus(K, RingOf(r.b)), {ref.block})) /\ Goes(a.h, r.h, K, n + 1 + 1)
         /\ r.b.second \in RefType /\ r.b.second.block \in Blocks
    <3> DEFINE new == IF Merges(RefAt(y, y.num - 1), ref) THEN {} ELSE {ref.block}
    <3>1. /\ HeapOK(r.h, Plus(Plus(K, RingOf(r.b)), new)) /\ Goes(a.h, r.h, K, n + 1 + 1)
          /\ r.b.second \in RefType /\ r.b.second.block \in Blocks
      BY ZenonT(60), <1>0, <2>1, <2>4, <2>5, <2>6, <2>8, <2>9, ArrayAppendHeap
    <3>2. new = {ref.block}
      BY <1>5, <2>10
    <3> QED BY <3>1, <3>2
  <2>12. Goes(h, r.h, K, n + 2)
    <3>1. IsHeap(h) /\ IsHeap(a.h) /\ IsHeap(r.h)
      BY <2>2, <2>5, <2>11, OKHeap
    <3> QED BY <1>0, <2>7, <2>11, <3>1, GoesOn
  <2>13. Stores(b, ref)
    BY <1>5 DEF Stores, LastRef
  <2> QED
    BY <2>11, <2>12, <2>13 DEF AppendIs, Kept
<1>6. CASE b.array
  <2>1. r = ArrayAppendRef(h, t, b, ref, moved)
    BY <1>6 DEF AppendRef
  <2>2. /\ HeapOK(r.h, Plus(Plus(K, RingOf(r.b)), Kept(b, ref))) /\ Goes(h, r.h, K, n + 1)
        /\ r.b.second \in RefType /\ r.b.second.block \in Blocks
    <3> DEFINE new == IF Merges(RefAt(b, b.num - 1), ref) THEN {} ELSE {ref.block}
    <3>1. /\ HeapOK(r.h, Plus(Plus(K, RingOf(r.b)), new)) /\ Goes(h, r.h, K, n + 1)
          /\ r.b.second \in RefType /\ r.b.second.block \in Blocks
      BY <1>0, <1>6, <2>1, ArrayAppendHeap
    <3>2. new = Kept(b, ref)
      BY <1>6 DEF Kept, Stores, LastRef
    <3> QED BY <3>1, <3>2
  <2>3. Within(r.h, n + 2)
    BY <1>0, <2>2 DEF Goes, Within
  <2> QED
    BY <2>2, <2>3 DEF AppendIs, Goes
<1> QED
  BY <1>1, <1>2, <1>3, <1>4, <1>5, <1>6 DEF BufferType
-----------------------------------------------------------------------------
(* The slots of a ring *)

\* Division with a remainder
LEMMA Remainder ==
  ASSUME NEW a \in Nat, NEW L \in Nat, L > 0
  PROVE  /\ a \div L \in Nat /\ a % L \in Nat /\ a % L < L /\ a = (a \div L) * L + (a % L)
<1> DEFINE q == a \div L
<1>1. q \in Nat /\ q * L <= a /\ a < q * L + L
  OBVIOUS
<1> HIDE DEF q
<1> DEFINE r == a - q * L
<1>2. r \in 0 .. L - 1 /\ a = q * L + r
  BY <1>1
<1> HIDE DEF r
<1>3. (q * L + r) % L = r
  BY <1>1, <1>2
<1>4. a % L = r
  BY <1>2, <1>3
<1>5. a % L \in Nat /\ a % L < L /\ a = q * L + (a % L)
  <2> DEFINE s == a % L
  <2>1. s = r
    BY <1>4
  <2> HIDE DEF s
  <2> QED BY <1>2, <2>1 DEF s
<1> QED
  BY <1>1, <1>5 DEF q

LEMMA RemainderIs ==
  ASSUME NEW a \in Nat, NEW L \in Nat, L > 0, NEW q \in Int, NEW r \in Nat, r < L, a = q * L + r
  PROVE  a % L = r
<1> DEFINE p == a \div L
           s == a % L
<1>1. p \in Nat /\ s \in Nat /\ s < L /\ a = p * L + s
  BY Remainder
<1> HIDE DEF p, s
<1>2. ~ (p <= q - 1)
  <2>1. SUFFICES ASSUME p <= q - 1 PROVE FALSE
    OBVIOUS
  <2>2. p * L <= (q - 1) * L
    BY <1>1, <2>1
  <2>3. (q - 1) * L = q * L - L
    OBVIOUS
  <2> QED
    BY <1>1, <2>2, <2>3
<1>3. ~ (q <= p - 1)
  <2>1. SUFFICES ASSUME q <= p - 1 PROVE FALSE
    OBVIOUS
  <2>2. q * L <= (p - 1) * L
    BY <1>1, <2>1
  <2>3. (p - 1) * L = p * L - L
    BY <1>1
  <2> QED
    BY <1>1, <2>2, <2>3
<1>4. p = q
  BY <1>1, <1>2, <1>3
<1> QED
  BY <1>1, <1>4 DEF s

LEMMA Regrouped ==
  ASSUME NEW p \in Int, NEW d \in Int, NEW L \in Int
  PROVE  p * (d * L) = (p * d) * L /\ p * d \in Int /\ (p - d) * L = p * L - d * L
  OBVIOUS

\* A number below 3L, wrapped at L
Wrapped(v, L) == IF v < L THEN v ELSE IF v < L + L THEN v - L ELSE v - L - L

LEMMA WrappedIs ==
  ASSUME NEW a \in Nat, NEW L \in Nat, L > 0, NEW i \in Nat, i <= L + L
  PROVE  (a + i) % L = Wrapped((a % L) + i, L)
<1> DEFINE q == a \div L
           m == a % L
           v == m + i
<1>1. q \in Nat /\ m \in Nat /\ m < L /\ a = q * L + m
  BY Remainder
<1> HIDE DEF q, m
<1>2. a + i = q * L + v /\ v \in Nat /\ v < L + L + L
  BY <1>1
<1>3. (q + 1) * L = q * L + L /\ (q + 2) * L = q * L + L + L
  BY <1>1
<1> HIDE DEF v
<1>4. CASE v < L
  <2>1. a + i \in Nat /\ q \in Int
    BY <1>1
  <2>2. (a + i) % L = v
    BY <1>2, <1>4, <2>1, RemainderIs
  <2>3. (a % L) + i = v
    BY DEF v, m
  <2> QED
    BY <1>4, <2>2, <2>3 DEF Wrapped
<1>5. CASE ~ (v < L) /\ v < L + L
  <2>1. a + i = (q + 1) * L + (v - L) /\ v - L \in Nat /\ v - L < L
    BY <1>1, <1>2, <1>3, <1>5
  <2>2. (a + i) % L = v - L
    <3> DEFINE r == v - L
               p == q + 1
    <3>1. r \in Nat /\ r < L /\ p \in Int /\ a + i = p * L + r /\ a + i \in Nat
      BY <1>1, <2>1
    <3> HIDE DEF r, p
    <3>2. (a + i) % L = r
      BY <3>1, RemainderIs
    <3> QED BY <3>2 DEF r
  <2> QED
    BY <1>5, <2>2 DEF Wrapped, v, m
<1>6. CASE ~ (v < L) /\ ~ (v < L + L)
  <2>1. a + i = (q + 2) * L + (v - L - L) /\ v - L - L \in Nat /\ v - L - L < L
    BY <1>1, <1>2, <1>3, <1>6
  <2>2. (a + i) % L = v - L - L
    <3> DEFINE r == v - L - L
               p == q + 2
    <3>1. r \in Nat /\ r < L /\ p \in Int /\ a + i = p * L + r /\ a + i \in Nat
      BY <1>1, <2>1
    <3> HIDE DEF r, p
    <3>2. (a + i) % L = r
      BY <3>1, RemainderIs
    <3> QED BY <3>2 DEF r
  <2> QED
    BY <1>6, <2>2 DEF Wrapped, v, m
<1> QED
  BY <1>4, <1>5, <1>6
Ringlike(b) == b \in BufferType /\ Len(b.slots) >= 2

\* Where the slot with a number is, from where the ring begins
LEMMA IndexIs ==
  ASSUME NEW b, Ringlike(b), NEW i \in Int, -1 <= i, i <= Len(b.slots)
  PROVE  LET L == Len(b.slots)
             v == (b.begin % L) + i
         IN /\ b.begin % L \in Nat /\ b.begin % L < L /\ L \in Nat
            /\ Index(b, i) = (IF v < 0 THEN v + L ELSE IF v < L THEN v ELSE v - L) + 1
<1> DEFINE L == Len(b.slots)
           m == b.begin % L
           k == i + L
<1>1. L \in Nat /\ L >= 2 /\ b.begin \in Nat
  BY DEF Ringlike, BufferType
<1>2. m \in Nat /\ m < L
  BY <1>1, Remainder
<1>3. k \in Nat /\ k <= L + L /\ b.begin + i + L = b.begin + k
  BY <1>1
<1>4. (b.begin + k) % L = Wrapped(m + k, L)
  <2> HIDE DEF L, k
  <2> QED BY <1>1, <1>3, WrappedIs
<1>5. Index(b, i) = Wrapped(m + k, L) + 1
  <2>1. Index(b, i) = ((b.begin + i + L) % L) + 1
    BY DEF Index
  <2> QED BY <1>3, <1>4, <2>1
<1> HIDE DEF L, m
<1>6. Wrapped(m + k, L)
      = (IF m + i < 0 THEN m + i + L ELSE IF m + i < L THEN m + i ELSE m + i - L)
  BY <1>1, <1>2 DEF Wrapped
<1> QED
  BY <1>1, <1>2, <1>5, <1>6 DEF L, m

\* The slots 0 to L - 1 are all the slots, each once.
LEMMA IndexInRing ==
  ASSUME NEW b, Ringlike(b), NEW i \in Int, -1 <= i, i <= Len(b.slots)
  PROVE  Index(b, i) \in 1 .. Len(b.slots)
<1> DEFINE L == Len(b.slots)
           m == b.begin % L
<1>1. /\ m \in Nat /\ m < L /\ L \in Nat
      /\ Index(b, i) = (IF m + i < 0 THEN m + i + L
                        ELSE IF m + i < L THEN m + i ELSE m + i - L) + 1
  BY IndexIs
<1>2. i <= L
  OBVIOUS
<1> HIDE DEF m, L
<1>3. Index(b, i) \in 1 .. L
  BY <1>1, <1>2
<1> QED
  BY <1>3 DEF L

LEMMA IndexInjective ==
  ASSUME NEW b, Ringlike(b), NEW i \in Nat, NEW j \in Nat, i < Len(b.slots), j < Len(b.slots),
         Index(b, i) = Index(b, j)
  PROVE  i = j
<1> DEFINE L == Len(b.slots)
           m == b.begin % L
<1>1. /\ m \in Nat /\ m < L /\ L \in Nat
      /\ Index(b, i) = (IF m + i < 0 THEN m + i + L
                        ELSE IF m + i < L THEN m + i ELSE m + i - L) + 1
  BY IndexIs
<1>2. Index(b, j) = (IF m + j < 0 THEN m + j + L
                        ELSE IF m + j < L THEN m + j ELSE m + j - L) + 1
  BY IndexIs
<1>3. i < L /\ j < L /\ Index(b, i) = Index(b, j)
  OBVIOUS
<1> DEFINE x == Index(b, i)
           y == Index(b, j)
<1> HIDE DEF m, L, x, y
<1>4. x = (IF m + i < L THEN m + i ELSE m + i - L) + 1
  <2>1. ~ (m + i < 0)
    BY <1>1
  <2> QED BY <1>1, <2>1 DEF x
<1>5. y = (IF m + j < L THEN m + j ELSE m + j - L) + 1
  <2>1. ~ (m + j < 0)
    BY <1>1
  <2> QED BY <1>2, <2>1 DEF y
<1>6. x = y
  BY <1>3 DEF x, y
<1> QED
  BY <1>1, <1>3, <1>4, <1>5, <1>6

\* The ring begins k slots further on.
LEMMA IndexMoved ==
  ASSUME NEW b, Ringlike(b), NEW c, Ringlike(c), Len(b.slots) \in RingSizes,
         Len(c.slots) = Len(b.slots), NEW k \in Nat, k <= Len(b.slots),
         c.begin = (b.begin + k) % BeginRange,
         NEW i \in Nat, i + k < Len(b.slots)
  PROVE  Index(c, i) = Index(b, i + k)
<1> DEFINE L == Len(b.slots)
           m == b.begin % L
           p == (b.begin + k) \div BeginRange
           d == BeginRange \div L
           q == b.begin \div L
           w == c.begin % L
<1>1. L \in Nat /\ L >= 2 /\ b.begin \in Nat /\ c.begin \in Nat /\ BeginRange \in Nat
      /\ BeginRange > 0 /\ BeginRange % L = 0
  BY RingAssumption DEF Ringlike, BufferType
<1>2. m \in Nat /\ m < L /\ q \in Nat /\ b.begin = q * L + m
  <2> HIDE DEF L
  <2>1. L > 0
    BY <1>1
  <2> QED BY <1>1, <2>1, Remainder
<1>3. d \in Nat /\ BeginRange = d * L
  <2> HIDE DEF L
  <2>1. L > 0
    BY <1>1
  <2>2. d \in Nat /\ BeginRange = d * L + (BeginRange % L)
    BY <1>1, <2>1, Remainder
  <2>3. d * L \in Nat
    BY <1>1, <2>2
  <2> QED BY <1>1, <2>2, <2>3
<1>4. p \in Nat /\ b.begin + k = p * BeginRange + c.begin
  <2>1. b.begin + k \in Nat
    BY <1>1
  <2> QED BY <1>1, <2>1, Remainder
<1> HIDE DEF m, p, d, q
<1>5. c.begin = (q - p * d) * L + (m + k)
  <2> HIDE DEF L
  <2> DEFINE z == p * d
  <2>1. p * (d * L) = z * L /\ z \in Nat
    BY <1>1, <1>3, <1>4, Regrouped
  <2>2. (q - z) * L = q * L - z * L
    BY <1>1, <1>2, <2>1, Regrouped
  <2>3. p * BeginRange = z * L
    BY <1>3, <2>1
  <2> HIDE DEF z
  <2>4. q * L \in Int /\ z * L \in Int
    BY <1>1, <1>2, <2>1
  <2>5. c.begin = (q - z) * L + (m + k)
    <3> DEFINE u == q * L
               v == z * L
               w1 == (q - z) * L
    <3>1. w1 = u - v /\ u \in Int /\ v \in Int
      BY <2>2, <2>4
    <3>2. u + m + k = v + c.begin
      BY <1>2, <1>4, <2>3
    <3> HIDE DEF u, v, w1
    <3>3. c.begin = w1 + (m + k)
      BY <1>1, <1>2, <3>1, <3>2
    <3> QED BY <3>3 DEF w1
  <2> QED BY <2>5 DEF z
<1>6. w = (IF m + k < L THEN m + k ELSE m + k - L)
  <2> DEFINE e == q - p * d
  <2>0. e \in Int
    <3>1. p * d \in Int
      BY <1>3, <1>4
    <3> QED BY <1>2, <3>1
  <2>1. e \in Int /\ (e + 1) * L = e * L + L /\ e * L \in Int
    <3> HIDE DEF e, L
    <3> QED BY <1>1, <2>0
  <2>2. c.begin = e * L + (m + k)
    BY <1>5
  <2> HIDE DEF e, L
  <2>3. CASE m + k < L
    <3> DEFINE r == m + k
    <3>1. r \in Nat /\ r < L /\ c.begin = e * L + r
      BY <1>2, <2>2, <2>3
    <3> HIDE DEF r
    <3>2. c.begin % L = r
      <4>1. L > 0 /\ L \in Nat /\ c.begin \in Nat
        BY <1>1 DEF L
      <4> QED BY <2>1, <3>1, <4>1, RemainderIs
    <3> QED BY <2>3, <3>2 DEF r, L
  <2>4. CASE ~ (m + k < L)
    <3> DEFINE r == m + k - L
               f == e + 1
    <3>0. L \in Nat /\ k <= L /\ L > 0 /\ c.begin \in Nat
      BY <1>1 DEF L
    <3>1. r \in Nat /\ r < L /\ f \in Int
      BY <1>2, <2>1, <2>4, <3>0
    <3>3. c.begin = f * L + r
      <4> DEFINE u == e * L
                 v == f * L
      <4>1. v = u + L /\ u \in Int /\ c.begin = u + (m + k)
        BY <2>1, <2>2
      <4> HIDE DEF u, v
      <4>2. c.begin = v + r
        BY <1>2, <3>0, <4>1
      <4> QED BY <4>2 DEF v
    <3> HIDE DEF r, f
    <3>2. c.begin % L = r
      BY <3>0, <3>1, <3>3, RemainderIs
    <3> QED BY <2>4, <3>2 DEF r, L
  <2> QED BY <2>3, <2>4
<1>7. Index(c, i) = (IF w + i < 0 THEN w + i + L ELSE IF w + i < L THEN w + i ELSE w + i - L) + 1
  <2>1. i \in Int /\ -1 <= i /\ i <= Len(c.slots)
    BY <1>1
  <2> DEFINE M == Len(c.slots)
             u == c.begin % M
  <2>2. Index(c, i) = (IF u + i < 0 THEN u + i + M ELSE IF u + i < M THEN u + i ELSE u + i - M) + 1
    BY SMTT(60), <2>1, IndexIs
  <2>3. M = L
    OBVIOUS
  <2> HIDE DEF M, L
  <2>4. u = w
    BY <2>3
  <2> HIDE DEF u, w
  <2> QED BY <2>2, <2>3, <2>4
<1>8. Index(b, i + k) = (IF m + (i + k) < 0 THEN m + (i + k) + L
                         ELSE IF m + (i + k) < L THEN m + (i + k) ELSE m + (i + k) - L) + 1
  <2> DEFINE j == i + k
  <2>1. j \in Int /\ -1 <= j /\ j <= Len(b.slots)
    BY <1>1
  <2> HIDE DEF j
  <2>2. Index(b, j) = (IF m + j < 0 THEN m + j + L ELSE IF m + j < L THEN m + j ELSE m + j - L) + 1
    BY <2>1, IndexIs DEF m
  <2> QED BY <2>2 DEF j
<1>9. i + k < L
  OBVIOUS
<1> HIDE DEF w, L
<1> QED
  BY <1>1, <1>2, <1>6, <1>7, <1>8, <1>9

\* The slots in use, and a ring in order: they are the ones with a block.
Window(b) == {Index(b, i) : i \in 0 .. b.num - 1}
RingOK(b) ==
    /\ Len(b.slots) \in RingSizes /\ b.num <= Len(b.slots) /\ b.begin < BeginRange
    /\ b.second.block \in Blocks
    /\ \A j \in 1 .. Len(b.slots) : b.slots[j].block # Null <=> j \in Window(b)
BufferOK(b) ==
    /\ b \in BufferType
    /\ b.array => RingOK(b)
    /\ ~ b.array /\ b.first.block = Null => b.second.block = Null

\* The blocks in the slots in use, in order
RingBlocks(b) == [i \in 1 .. b.num |-> b.slots[Index(b, i - 1)].block]

LEMMA RingBlocksAre ==
  ASSUME NEW b \in BufferType, b.array
  PROVE  BlocksOf(Refs(b)) = RingBlocks(b)
<1>1. Refs(b) = [i \in 1 .. b.num |-> RefAt(b, i - 1)]
  BY DEF Refs
<1>2. DOMAIN Refs(b) = 1 .. b.num /\ \A i \in 1 .. b.num : Refs(b)[i] = b.slots[Index(b, i - 1)]
  BY <1>1 DEF RefAt
<1> QED
  BY <1>2 DEF BlocksOf, RingBlocks

LEMMA RingFacts ==
  ASSUME NEW b, BufferOK(b), b.array
  PROVE  /\ Ringlike(b) /\ b \in BufferType /\ Len(b.slots) \in Nat /\ Len(b.slots) >= 2
         /\ b.slots \in Seq(RefType) /\ DOMAIN b.slots = 1 .. Len(b.slots)
         /\ b.num \in Nat /\ b.num <= Len(b.slots)
         /\ \A i \in 0 .. Len(b.slots) : Index(b, i) \in 1 .. Len(b.slots)
         /\ Index(b, -1) \in 1 .. Len(b.slots)
         /\ Index(b, b.num - 1) \in 1 .. Len(b.slots)
         /\ \A i \in 0 .. b.num - 1 : b.slots[Index(b, i)].block \in Blocks
<1>1. /\ b \in BufferType /\ Len(b.slots) \in Nat /\ Len(b.slots) >= 2
      /\ b.slots \in Seq(RefType) /\ DOMAIN b.slots = 1 .. Len(b.slots)
      /\ b.num \in Nat /\ b.num <= Len(b.slots)
  BY RingAssumption DEF BufferOK, RingOK, BufferType
<1>2. Ringlike(b)
  BY <1>1 DEF Ringlike
<1>3. /\ \A i \in 0 .. Len(b.slots) : Index(b, i) \in 1 .. Len(b.slots)
      /\ Index(b, -1) \in 1 .. Len(b.slots)
      /\ Index(b, b.num - 1) \in 1 .. Len(b.slots)
  <2> DEFINE L == Len(b.slots)
  <2>1. \A i \in Int : -1 <= i /\ i <= L => Index(b, i) \in 1 .. L
    BY <1>2, IndexInRing
  <2>2. L \in Nat /\ b.num \in Nat /\ b.num <= L /\ L >= 2
    BY <1>1
  <2> HIDE DEF L
  <2>3. /\ \A i \in 0 .. L : Index(b, i) \in 1 .. L
        /\ Index(b, -1) \in 1 .. L
    BY <2>1, <2>2
  <2>4. b.num - 1 \in Int /\ -1 <= b.num - 1 /\ b.num - 1 <= L
    BY <2>2
  <2>5. Index(b, b.num - 1) \in 1 .. L
    BY <2>1, <2>4
  <2> QED BY <2>3, <2>5 DEF L
<1>4. ASSUME NEW i \in 0 .. b.num - 1
      PROVE  b.slots[Index(b, i)].block \in Blocks
  <2> DEFINE j == Index(b, i)
  <2>1. j \in 1 .. Len(b.slots) /\ j \in Window(b)
    BY <1>1, <1>3 DEF Window
  <2> HIDE DEF j
  <2>2. b.slots[j].block # Null /\ b.slots[j] \in RefType
    BY <1>1, <2>1 DEF BufferOK, RingOK
  <2> QED BY <2>2 DEF RefType, j
<1> QED
  BY <1>1, <1>2, <1>3, <1>4

\* The slots and their blocks of a ring whose place does not change
LEMMA SameIndex ==
  ASSUME NEW b, NEW c, Len(c.slots) = Len(b.slots), c.begin = b.begin
  PROVE  \A i : Index(c, i) = Index(b, i)
  BY DEF Index

\* A reference is merged with the last one.
LEMMA RingExtended ==
  ASSUME NEW b, BufferOK(b), b.array, NEW j \in 1 .. Len(b.slots), NEW m \in Nat
  PROVE  LET c == Extended(b, j, m)
         IN BufferOK(c) /\ c.array /\ BlocksOf(Refs(c)) = BlocksOf(Refs(b))
<1> DEFINE c == Extended(b, j, m)
           L == Len(b.slots)
<1>1. /\ Ringlike(b) /\ b \in BufferType /\ L \in Nat /\ L >= 2 /\ b.slots \in Seq(RefType)
      /\ DOMAIN b.slots = 1 .. L /\ b.num \in Nat /\ b.num <= L
  BY RingFacts
<1>2. /\ SameRing(b, c) /\ c.num = b.num /\ c.nbytes = b.nbytes + m
      /\ c.slots = [b.slots EXCEPT ![j].length = @ + m]
  BY <1>1, ExtendedIs
<1>3. c \in BufferType
  <2>1. b.slots[j] \in RefType
    BY <1>1
  <2>2. [b.slots[j] EXCEPT !.length = @ + m] \in RefType
    BY <2>1 DEF RefType
  <2>3. [b.slots EXCEPT ![j].length = @ + m] \in Seq(RefType)
    BY <1>1, <2>2
  <2>4. b.nbytes + m \in Int
    BY <1>1 DEF BufferType
  <2> QED BY <1>1, <2>3, <2>4 DEF Extended, BufferType
<1> HIDE DEF c
<1>4. /\ c.slots \in Seq(RefType) /\ DOMAIN c.slots = DOMAIN b.slots /\ Len(c.slots) = L
      /\ \A i \in 1 .. L : c.slots[i].block = b.slots[i].block
  <2>1. b.slots[j] \in RefType
    BY <1>1
  <2>2. [b.slots[j] EXCEPT !.length = @ + m].block = b.slots[j].block
    BY <2>1 DEF RefType
  <2> DEFINE x == [b.slots[j] EXCEPT !.length = @ + m]
  <2>3. c.slots = [b.slots EXCEPT ![j] = x]
    BY <1>2
  <2>4. c.slots \in Seq(RefType)
    BY <1>3 DEF BufferType
  <2> HIDE DEF x
  <2>5. /\ DOMAIN c.slots = DOMAIN b.slots
        /\ \A i \in 1 .. L : c.slots[i] = IF i = j THEN x ELSE b.slots[i]
    BY <1>1, <2>3
  <2>6. DOMAIN c.slots = 1 .. Len(c.slots) /\ Len(c.slots) \in Nat
    BY <2>4
  <2>7. Len(c.slots) = L
    BY <1>1, <2>5, <2>6
  <2> QED BY <2>2, <2>4, <2>5, <2>7 DEF x
<1>5. c.array = b.array /\ c.second = b.second /\ c.begin = b.begin /\ c.num = b.num
  BY <1>2 DEF SameRing
<1>6. \A i : Index(c, i) = Index(b, i)
  BY <1>4, <1>5, SameIndex
<1>7. Window(c) = Window(b)
  BY <1>5, <1>6 DEF Window
<1>8. BufferOK(c)
  BY <1>3, <1>4, <1>5, <1>7 DEF BufferOK, RingOK
<1>9. RingBlocks(c) = RingBlocks(b)
  <2>1. \A i \in 1 .. b.num : Index(b, i - 1) \in 1 .. L
    <3>1. \A i \in 0 .. L : Index(b, i) \in 1 .. L
      BY RingFacts
    <3>2. \A i \in 1 .. b.num : i - 1 \in 0 .. L
      BY <1>1
    <3> QED BY <3>1, <3>2
  <2> QED BY <1>4, <1>5, <1>6, <2>1 DEF RingBlocks
<1> QED
  BY <1>1, <1>3, <1>5, <1>8, <1>9, RingBlocksAre DEF c

\* A reference goes behind the last one.
LEMMA RingPushed ==
  ASSUME NEW b, BufferOK(b), b.array, b.num < Len(b.slots), NEW ref \in RefType,
         ref.block \in Blocks
  PROVE  LET c == Pushed(b, ref)
         IN BufferOK(c) /\ c.array /\ BlocksOf(Refs(c)) = Append(BlocksOf(Refs(b)), ref.block)
<1> DEFINE c == Pushed(b, ref)
           L == Len(b.slots)
           j == Index(b, b.num)
<1>1. /\ Ringlike(b) /\ b \in BufferType /\ L \in Nat /\ L >= 2 /\ b.slots \in Seq(RefType)
      /\ DOMAIN b.slots = 1 .. L /\ b.num \in Nat /\ b.num < L
      /\ \A i \in 0 .. L : Index(b, i) \in 1 .. L
  BY RingFacts
<1>2. /\ SameRing(b, c) /\ c.num = b.num + 1 /\ c.nbytes = b.nbytes + ref.length
      /\ c.slots = [b.slots EXCEPT ![j] = ref]
  BY <1>1, PushedIs
<1>3. j \in 1 .. L /\ b.num \in 0 .. L
  BY <1>1
<1>4. [b.slots EXCEPT ![j] = ref] \in Seq(RefType)
  <2> DEFINE s == b.slots
  <2>1. s \in Seq(RefType) /\ j \in 1 .. Len(s) /\ ref \in RefType
    BY <1>1, <1>3
  <2> HIDE DEF j, s
  <2>2. [s EXCEPT ![j] = ref] \in Seq(RefType)
    BY <2>1
  <2> QED BY <2>2 DEF s
<1>5. c \in BufferType
  <2>0. b.nbytes \in Int /\ b.num \in Nat
    BY <1>1 DEF BufferType
  <2>1. b.nbytes + ref.length \in Int /\ b.num + 1 \in Nat
    BY <2>0 DEF RefType
  <2> QED BY <1>1, <1>4, <2>1 DEF Pushed, BufferType
<1> HIDE DEF c, j
<1>6. /\ DOMAIN c.slots = 1 .. L /\ Len(c.slots) = L
      /\ \A i \in 1 .. L : c.slots[i] = IF i = j THEN ref ELSE b.slots[i]
  <2> DEFINE s == b.slots
             u == [s EXCEPT ![j] = ref]
  <2>1. s \in Seq(RefType) /\ Len(s) = L /\ u \in Seq(RefType)
    BY <1>1, <1>4
  <2>2. DOMAIN s = 1 .. L /\ c.slots = u
    BY <1>2, <2>1
  <2> HIDE DEF s, L
  <2>3. DOMAIN u = 1 .. L /\ \A i \in 1 .. L : u[i] = IF i = j THEN ref ELSE s[i]
    BY <2>2
  <2> HIDE DEF u
  <2>4. Len(u) = L
    BY <2>1, <2>3
  <2> QED BY <2>2, <2>3, <2>4 DEF s
<1>7. c.array = b.array /\ c.second = b.second /\ c.begin = b.begin /\ c.num = b.num + 1
  BY <1>2 DEF SameRing
<1>8. \A i : Index(c, i) = Index(b, i)
  BY <1>6, <1>7, SameIndex
<1>9. Window(c) = Window(b) \cup {j}
  <2>1. 0 .. c.num - 1 = (0 .. b.num - 1) \cup {b.num}
    <3> DEFINE n == b.num
    <3>1. n \in Nat /\ c.num = n + 1
      BY <1>1, <1>7
    <3> HIDE DEF n
    <3>2. 0 .. n + 1 - 1 = (0 .. n - 1) \cup {n}
      BY <3>1
    <3> QED BY <3>1, <3>2 DEF n
  <2> QED BY <1>8, <2>1 DEF Window, j
<1>10. ref.block # Null
  BY DEF Blocks, Null
<1>11. c.num <= Len(c.slots)
  BY <1>1, <1>6, <1>7
<1>12. \A i \in 1 .. L : c.slots[i].block # Null <=> i \in Window(c)
  <2> SUFFICES ASSUME NEW i \in 1 .. L
               PROVE  c.slots[i].block # Null <=> i \in Window(c)
    OBVIOUS
  <2>1. b.slots[i].block # Null <=> i \in Window(b)
    BY <1>1 DEF BufferOK, RingOK
  <2> QED BY <1>6, <1>9, <1>10, <2>1
<1>13. BufferOK(c)
  BY <1>5, <1>6, <1>7, <1>11, <1>12 DEF BufferOK, RingOK
<1>14. \A i \in 1 .. b.num : Index(b, i - 1) # j /\ Index(b, i - 1) \in 1 .. L
  <2> SUFFICES ASSUME NEW i \in 1 .. b.num
               PROVE  Index(b, i - 1) # j /\ Index(b, i - 1) \in 1 .. L
    OBVIOUS
  <2> DEFINE k == i - 1
  <2>1. k \in Nat /\ k < L /\ k # b.num /\ k \in 0 .. L
    BY SMTT(60), <1>1
  <2> HIDE DEF k
  <2>2. Index(b, k) # Index(b, b.num)
    BY <1>1, <2>1, IndexInjective
  <2> QED BY <1>1, <2>1, <2>2 DEF k, j
<1>15. RingBlocks(c) = Append(RingBlocks(b), ref.block)
  <2>1. RingBlocks(c) = [i \in 1 .. b.num + 1 |-> c.slots[Index(b, i - 1)].block]
    BY <1>7, <1>8 DEF RingBlocks
  <2>2. c.slots[Index(b, b.num + 1 - 1)].block = ref.block
    <3>1. b.num + 1 - 1 = b.num
      BY <1>1
    <3>2. Index(b, b.num + 1 - 1) = j
      BY <3>1 DEF j
    <3> QED BY <1>3, <1>6, <3>2
  <2>3. \A i \in 1 .. b.num : c.slots[Index(b, i - 1)].block = b.slots[Index(b, i - 1)].block
    BY <1>6, <1>14
  <2> DEFINE s == [i \in 1 .. b.num |-> b.slots[Index(b, i - 1)].block]
  <2>4. Append(s, ref.block) = [i \in 1 .. b.num + 1 |-> IF i = b.num + 1 THEN ref.block ELSE s[i]]
    <3> DEFINE x == ref.block
               n == b.num
    <3>1. Len(s) = n /\ n \in Nat
      BY <1>1
    <3>2. s \in Seq(Blocks) /\ x \in Blocks
      <4>1. \A i \in 1 .. n : b.slots[Index(b, i - 1)].block \in Blocks
        <5>1. \A i \in 0 .. n - 1 : b.slots[Index(b, i)].block \in Blocks
          BY RingFacts
        <5>2. \A i \in 1 .. n : i - 1 \in 0 .. n - 1
          BY <1>1
        <5> QED BY <5>1, <5>2
      <4>2. n \in Nat /\ x \in Blocks
        BY <1>1
      <4> HIDE DEF x
      <4>3. s \in Seq(Blocks)
        BY <4>1, <4>2
      <4> QED BY <4>2, <4>3
    <3> HIDE DEF s, x, n
    <3>3. Append(s, x) = [i \in 1 .. n + 1 |-> IF i = n + 1 THEN x ELSE s[i]]
      <4>1. /\ Append(s, x) \in Seq(Blocks) /\ Len(Append(s, x)) = n + 1
            /\ \A i \in 1 .. n + 1 : Append(s, x)[i] = IF i = n + 1 THEN x ELSE s[i]
        BY <3>1, <3>2
      <4> DEFINE v == Append(s, x)
      <4> HIDE DEF v
      <4>0. v \in Seq(Blocks) /\ Len(v) = n + 1
        BY <4>1 DEF v
      <4>2. DOMAIN v = 1 .. n + 1 /\ v = [i \in DOMAIN v |-> v[i]]
        BY <4>0
      <4>3. v = [i \in 1 .. n + 1 |-> IF i = n + 1 THEN x ELSE s[i]]
        BY <4>1, <4>2 DEF v
      <4> QED BY <4>3 DEF v
    <3> QED BY <3>3 DEF x, n
  <2>5. ASSUME NEW i \in 1 .. b.num + 1
        PROVE  c.slots[Index(b, i - 1)].block = IF i = b.num + 1 THEN ref.block ELSE s[i]
    <3>1. CASE i = b.num + 1
      <4>1. i - 1 = b.num + 1 - 1
        BY <1>1, <3>1
      <4> QED BY <2>2, <3>1, <4>1
    <3>2. CASE i # b.num + 1
      <4>1. i \in 1 .. b.num
        BY SMTT(60), <1>1, <3>2
      <4> QED BY <2>3, <3>2, <4>1
    <3> QED BY <3>1, <3>2
  <2> QED BY <2>1, <2>4, <2>5 DEF RingBlocks
<1> QED
  BY <1>1, <1>5, <1>7, <1>13, <1>15, RingBlocksAre DEF c

\* The ring has twice as many slots; begin is 0 to the larger mask.
LEMMA RingGrown ==
  ASSUME NEW b, BufferOK(b), b.array, b.num = Len(b.slots), NEW ring \in RefType,
         ring.block \in Blocks, 2 * Len(b.slots) \in RingSizes, b.begin % (2 * Len(b.slots)) = 0
  PROVE  LET c == Grown(b, ring)
         IN /\ BufferOK(c) /\ c.array /\ BlocksOf(Refs(c)) = BlocksOf(Refs(b))
            /\ c.num < Len(c.slots)
<1> DEFINE c == Grown(b, ring)
           L == Len(b.slots)
           more == [i \in 1 .. L |-> Unset]
<1>1. /\ Ringlike(b) /\ b \in BufferType /\ L \in Nat /\ L >= 2 /\ b.slots \in Seq(RefType)
      /\ b.num = L
  BY RingFacts
<1>2. /\ c.array /\ c.second = ring /\ c.begin = b.begin /\ c.num = L
      /\ c.slots = b.slots \o more /\ c \in BufferType
  BY <1>1, GrownIs
<1>3. more \in Seq(RefType) /\ Len(more) = L
  BY <1>1 DEF Unset, RefType
<1>4. /\ Len(c.slots) = 2 * L /\ DOMAIN c.slots = 1 .. 2 * L
      /\ \A i \in 1 .. L : c.slots[i] = b.slots[i]
      /\ \A i \in L + 1 .. 2 * L : c.slots[i] = Unset
  BY <1>1, <1>2, <1>3
<1> HIDE DEF c, more
<1>5. Ringlike(c)
  BY <1>1, <1>2, <1>4 DEF Ringlike
<1>6. b.begin % L = 0
  <2> DEFINE M == 2 * L
             q == b.begin \div M
  <2>1. b.begin \in Nat /\ M \in Nat /\ M > 0 /\ b.begin % M = 0
    BY <1>1 DEF BufferType
  <2> HIDE DEF M
  <2>2. q \in Nat /\ b.begin = q * M + (b.begin % M)
    BY <2>1, Remainder
  <2> HIDE DEF q
  <2> DEFINE p == q * 2
  <2>3. q * M = p * L /\ p \in Int
    <3> HIDE DEF L
    <3>1. q * (2 * L) = (q * 2) * L
      BY <1>1, <2>2, Regrouped
    <3> QED BY <2>2, <3>1 DEF M
  <2> HIDE DEF p, L
  <2> DEFINE zero == 0
  <2>4. b.begin = p * L + zero
    <3>1. p * L \in Int
      BY <1>1, <2>3
    <3>2. b.begin = q * M
      <4>1. q * M \in Int
        BY <2>1, <2>2
      <4> QED BY <2>1, <2>2, <4>1
    <3> QED BY <2>3, <3>1, <3>2
  <2>5. L > 0
    BY <1>1
  <2>6. zero \in Nat /\ zero < L
    BY <2>5
  <2> HIDE DEF zero
  <2>7. b.begin % L = zero
    BY <1>1, <2>1, <2>3, <2>4, <2>5, <2>6, RemainderIs
  <2> QED BY <2>7 DEF zero
<1>7. \A i \in 0 .. L - 1 : Index(b, i) = i + 1
  <2> SUFFICES ASSUME NEW i \in 0 .. L - 1 PROVE Index(b, i) = i + 1
    OBVIOUS
  <2>1. i \in Int /\ -1 <= i /\ i <= L /\ i < L /\ i >= 0
    BY <1>1
  <2>2. LET m == b.begin % L
        IN Index(b, i) = (IF m + i < 0 THEN m + i + L ELSE IF m + i < L THEN m + i ELSE m + i - L) + 1
    BY <1>1, <2>1, IndexIs
  <2> QED BY <1>1, <1>6, <2>1, <2>2
<1>8. \A i \in 0 .. L : Index(c, i) = i + 1
  <2> SUFFICES ASSUME NEW i \in 0 .. L PROVE Index(c, i) = i + 1
    OBVIOUS
  <2> DEFINE M == Len(c.slots)
  <2>0. M = 2 * L /\ c.begin % M = 0
    BY <1>2, <1>4
  <2>1. i \in Int /\ -1 <= i /\ i <= M /\ i < M /\ i >= 0 /\ M \in Nat
    BY <1>1, <2>0
  <2>2. LET m == c.begin % M
        IN Index(c, i) = (IF m + i < 0 THEN m + i + M ELSE IF m + i < M THEN m + i ELSE m + i - M) + 1
    BY <1>5, <2>1, IndexIs
  <2> HIDE DEF M
  <2> QED BY <2>0, <2>1, <2>2
<1>9. Window(c) = 1 .. L /\ Window(b) = 1 .. L
  <2>1. Window(b) = {i + 1 : i \in 0 .. L - 1}
    BY <1>1, <1>7 DEF Window
  <2>2. Window(c) = {i + 1 : i \in 0 .. L - 1}
    <3>1. \A i \in 0 .. L - 1 : Index(c, i) = i + 1
      BY <1>1, <1>8
    <3>2. Window(c) = {Index(c, i) : i \in 0 .. L - 1}
      BY <1>2 DEF Window
    <3> QED BY <3>1, <3>2
  <2>3. {i + 1 : i \in 0 .. L - 1} = 1 .. L
    BY <1>1
  <2> QED BY <2>1, <2>2, <2>3
<1>10. \A i \in 1 .. 2 * L : c.slots[i].block # Null <=> i \in Window(c)
  <2> SUFFICES ASSUME NEW i \in 1 .. 2 * L
               PROVE  c.slots[i].block # Null <=> i \in Window(c)
    OBVIOUS
  <2>1. CASE i \in 1 .. L
    <3>1. b.slots[i].block # Null <=> i \in Window(b)
      BY <1>1, <2>1 DEF BufferOK, RingOK
    <3> QED BY <1>4, <1>9, <2>1, <3>1
  <2>2. CASE i \in L + 1 .. 2 * L
    <3>1. c.slots[i].block = Null
      BY <1>4, <2>2 DEF Unset
    <3>2. i \notin 1 .. L
      BY <1>1, <2>2
    <3> QED BY <1>9, <3>1, <3>2
  <2> QED BY <1>1, <2>1, <2>2
<1>11. c.num < Len(c.slots) /\ c.num <= Len(c.slots)
  BY <1>1, <1>2, <1>4
<1>12. c.begin < BeginRange
  BY <1>2 DEF BufferOK, RingOK
<1>13. BufferOK(c)
  BY <1>2, <1>4, <1>10, <1>11, <1>12 DEF BufferOK, RingOK
<1>14. RingBlocks(c) = RingBlocks(b)
  <2>1. \A i \in 1 .. L : c.slots[Index(c, i - 1)].block = b.slots[Index(b, i - 1)].block
    <3> SUFFICES ASSUME NEW i \in 1 .. L
                 PROVE  c.slots[Index(c, i - 1)].block = b.slots[Index(b, i - 1)].block
      OBVIOUS
    <3>1. i - 1 \in 0 .. L - 1 /\ i - 1 \in 0 .. L /\ i - 1 + 1 = i
      BY <1>1
    <3> QED BY <1>4, <1>7, <1>8, <3>1
  <2> QED BY <1>1, <1>2, <2>1 DEF RingBlocks
<1> QED
  BY <1>1, <1>2, <1>11, <1>13, <1>14, RingBlocksAre DEF c

\* A buffer of two references gets a ring for them.
LEMMA RingMade ==
  ASSUME NEW b, BufferOK(b), ~ b.array, b.first.block # Null, b.second.block # Null,
         NEW ring \in RefType, ring.block \in Blocks
  PROVE  LET c == Transformed(b, ring)
         IN /\ BufferOK(c) /\ c.array /\ BlocksOf(Refs(c)) = BlocksOf(Refs(b))
            /\ c.num = 2 /\ c.begin = 0 /\ Len(c.slots) \in Nat /\ Len(c.slots) >= 2
<1> DEFINE c == Transformed(b, ring)
           L == InitSize
<1>1. b \in BufferType /\ b.first \in RefType /\ b.second \in RefType
  BY DEF BufferOK, BufferType
<1>2. /\ c \in BufferType /\ c.array /\ c.second = ring /\ c.begin = 0 /\ c.num = 2
      /\ Len(c.slots) = L /\ L \in Nat /\ L >= 2 /\ c.slots[1] = b.first /\ c.slots[2] = b.second
      /\ \A i \in 3 .. L : c.slots[i] = Unset
  BY SMTT(60), <1>1, TransformedIs
<1> HIDE DEF c
<1>3. Ringlike(c)
  BY <1>2 DEF Ringlike
<1>4. \A i \in {0, 1} : Index(c, i) = i + 1
  <2> SUFFICES ASSUME NEW i \in {0, 1} PROVE Index(c, i) = i + 1
    OBVIOUS
  <2> DEFINE m == c.begin % L
  <2>1. i \in Int /\ -1 <= i /\ i <= L /\ i < L /\ i >= 0
    BY <1>2
  <2>2. Index(c, i) = (IF m + i < 0 THEN m + i + L ELSE IF m + i < L THEN m + i ELSE m + i - L) + 1
    <3> DEFINE M == Len(c.slots)
               w == c.begin % M
    <3>1. M = L
      BY <1>2
    <3>2. -1 <= i /\ i <= Len(c.slots)
      BY <2>1, <3>1
    <3>3. Index(c, i) = (IF w + i < 0 THEN w + i + M ELSE IF w + i < M THEN w + i ELSE w + i - M) + 1
      BY <1>3, <2>1, <3>2, IndexIs
    <3> HIDE DEF M, L
    <3>4. w = m
      BY <3>1
    <3> HIDE DEF w, m
    <3> QED BY <3>1, <3>3, <3>4
  <2>3. m = 0
    BY <1>2
  <2> HIDE DEF m
  <2> QED BY <1>2, <2>1, <2>2, <2>3
<1>5. Window(c) = {1, 2}
  <2>1. 0 .. c.num - 1 = {0, 1}
    BY <1>2
  <2>2. Index(c, 0) = 1 /\ Index(c, 1) = 2
    BY <1>4
  <2> QED BY <2>1, <2>2 DEF Window
<1>6. \A i \in 1 .. L : c.slots[i].block # Null <=> i \in Window(c)
  <2> SUFFICES ASSUME NEW i \in 1 .. L PROVE c.slots[i].block # Null <=> i \in Window(c)
    OBVIOUS
  <2>1. CASE i \in 3 .. L
    <3>1. c.slots[i].block = Null
      BY <1>2, <2>1 DEF Unset
    <3>2. i # 1 /\ i # 2
      BY <2>1
    <3> QED BY <1>5, <3>1, <3>2
  <2>2. CASE i = 1 \/ i = 2
    BY <1>2, <1>5, <2>2
  <2> QED BY <1>2, <2>1, <2>2
<1>7. L \in RingSizes /\ 0 < BeginRange
  BY RingAssumption
<1>8. BufferOK(c)
  BY <1>2, <1>6, <1>7 DEF BufferOK, RingOK
<1>9. BlocksOf(Refs(c)) = <<b.first.block, b.second.block>>
  <2>1. RingBlocks(c) = [i \in 1 .. 2 |-> c.slots[Index(c, i - 1)].block]
    BY <1>2 DEF RingBlocks
  <2>2. Index(c, 1 - 1) = 1 /\ Index(c, 2 - 1) = 2
    BY <1>4
  <2> DEFINE s == [i \in 1 .. 2 |-> c.slots[Index(c, i - 1)].block]
  <2>3. DOMAIN s = 1 .. 2 /\ s[1] = b.first.block /\ s[2] = b.second.block
    BY <1>2, <2>2
  <2> HIDE DEF s
  <2>4. s = <<s[1], s[2]>>
    BY <2>3 DEF s
  <2> QED BY <1>2, <2>1, <2>3, <2>4, RingBlocksAre DEF s
<1>10. BlocksOf(Refs(b)) = <<b.first.block, b.second.block>>
  <2>1. Refs(b) = <<b.first, b.second>>
    BY DEF Refs
  <2> QED BY <2>1 DEF BlocksOf
<1> QED
  BY <1>2, <1>8, <1>9, <1>10 DEF c

\* append_ref: the block of a reference that is kept is behind the others.
Appended(b, c, ref, new) ==
    /\ BufferOK(c)
    /\ BlocksOf(Refs(c)) = IF new THEN Append(BlocksOf(Refs(b)), ref.block) ELSE BlocksOf(Refs(b))

LEMMA PushedSecond ==
  ASSUME NEW b \in BufferType, NEW ring, NEW ref
  PROVE  /\ Pushed(Grown(b, ring), ref).second = ring /\ Pushed(Grown(b, ring), ref).array = b.array
         /\ Pushed(Transformed(b, ring), ref).second = ring
         /\ Len(Pushed(b, ref).slots) = Len(b.slots)
<1>1. "second" \in DOMAIN b /\ "array" \in DOMAIN b
  BY DEF BufferType
<1>2. DOMAIN Grown(b, ring) = DOMAIN b /\ Grown(b, ring).second = ring
      /\ Grown(b, ring).array = b.array
  BY <1>1 DEF Grown, BufferType
<1> DEFINE g == Grown(b, ring)
           c == Transformed(b, ring)
           j == Index(g, g.num)
           k == Index(c, c.num)
<1>3. Pushed(g, ref) = [g EXCEPT !.slots[j] = ref, !.num = @ + 1, !.nbytes = @ + ref.length]
  BY DEF Pushed
<1>4. Pushed(c, ref) = [c EXCEPT !.slots[k] = ref, !.num = @ + 1, !.nbytes = @ + ref.length]
  BY DEF Pushed
<1>5. "second" \in DOMAIN c /\ c.second = ring
  BY DEF Transformed
<1> HIDE DEF g, c, j, k
<1>6. Pushed(g, ref).second = g.second /\ Pushed(g, ref).array = g.array
  BY <1>1, <1>2, <1>3 DEF g
<1>7. Pushed(c, ref).second = c.second
  BY <1>4, <1>5
<1>8. Len(Pushed(b, ref).slots) = Len(b.slots)
  <2>1. Pushed(b, ref).slots = [b.slots EXCEPT ![Index(b, b.num)] = ref] /\ b.slots \in Seq(RefType)
    BY PushedIs DEF BufferType
  <2> DEFINE s == b.slots
             i == Index(b, b.num)
  <2> HIDE DEF s, i
  <2>2. Len([s EXCEPT ![i] = ref]) = Len(s)
    BY <2>1 DEF s
  <2> QED BY <2>1, <2>2 DEF s, i
<1> QED
  BY <1>2, <1>5, <1>6, <1>7, <1>8 DEF g, c

LEMMA ArrayStays ==
  ASSUME NEW b \in BufferType, b.array, NEW ref, NEW h, NEW t, NEW moved,
         NEW r, r = ArrayAppendRef(h, t, b, ref, moved)
  PROVE  r.b.array
<1> DEFINE L == Len(b.slots)
<1>1. CASE Merges(RefAt(b, b.num - 1), ref)
  <2> DEFINE j == Index(b, b.num - 1)
             m == ref.length
  <2>1. r.b = Extended(b, j, m)
    BY <1>1 DEF ArrayAppendRef, Extended
  <2> HIDE DEF j, m
  <2>2. SameRing(b, Extended(b, j, m))
    BY ExtendedIs
  <2> QED BY <2>1, <2>2 DEF SameRing
<1>2. CASE ~ Merges(RefAt(b, b.num - 1), ref) /\ b.num # L
  <2>1. r.b = Pushed(b, ref)
    BY <1>2 DEF ArrayAppendRef, Pushed
  <2>2. SameRing(b, Pushed(b, ref))
    BY PushedIs
  <2> QED BY <2>1, <2>2 DEF SameRing
<1>3. CASE ~ Merges(RefAt(b, b.num - 1), ref) /\ b.num = L
  <2> DEFINE ring == AcquireBlockRefArray(h, t, 2 * L).ref
  <2>1. r.b = Pushed(Grown(b, ring), ref)
    BY <1>3 DEF ArrayAppendRef, ArrayResize, Pushed, Grown, BufferType
  <2> QED BY <2>1, PushedSecond
<1> QED
  BY <1>1, <1>2, <1>3

LEMMA ArrayAppendBuffer ==
  ASSUME NEW b, BufferOK(b), b.array, NEW ref \in RefType, ref.block \in Blocks,
         NEW h, NEW t, NEW moved, NEW r, r = ArrayAppendRef(h, t, b, ref, moved),
         r.b.second \in RefType, r.b.second.block \in Blocks, RingBounded(r.b),
         Len(r.b.slots) > Len(b.slots) => b.begin % Len(r.b.slots) = 0
  PROVE  Appended(b, r.b, ref, ~ Merges(RefAt(b, b.num - 1), ref))
<1> DEFINE L == Len(b.slots)
<1>1. /\ b \in BufferType /\ L \in Nat /\ L >= 2 /\ b.num \in Nat /\ b.num <= L
      /\ Index(b, b.num - 1) \in 1 .. L
  BY RingFacts
<1>2. CASE Merges(RefAt(b, b.num - 1), ref)
  <2> DEFINE j == Index(b, b.num - 1)
             m == ref.length
  <2>1. r = [h |-> Merged(h, t, ref, moved), b |-> Extended(b, j, m)]
    BY <1>2 DEF ArrayAppendRef, Extended
  <2>2. r.b = Extended(b, j, m) /\ j \in 1 .. L /\ m \in Nat
    BY <1>1, <2>1 DEF RefType
  <2> HIDE DEF j, m
  <2> QED
    BY <1>2, <2>2, RingExtended DEF Appended
<1>3. CASE ~ Merges(RefAt(b, b.num - 1), ref) /\ b.num # L
  <2>1. r = [h |-> Stored(h, ref, moved), b |-> Pushed(b, ref)]
    BY <1>3 DEF ArrayAppendRef, Pushed
  <2>2. r.b = Pushed(b, ref) /\ b.num < L
    BY <1>1, <1>3, <2>1
  <2> QED
    BY <1>3, <2>2, RingPushed DEF Appended
<1>4. CASE ~ Merges(RefAt(b, b.num - 1), ref) /\ b.num = L
  <2> DEFINE ring == AcquireBlockRefArray(h, t, 2 * L).ref
             big == Grown(b, ring)
  <2>1. r.b = Pushed(big, ref)
    BY <1>1, <1>4 DEF ArrayAppendRef, ArrayResize, Pushed, Grown, BufferType
  <2>2. r.b.array /\ r.b.second = ring
    BY <1>1, <2>1, PushedSecond
  <2>3. Len(r.b.slots) = 2 * L
    BY <1>1, <2>1, GrownPushed
  <2>4. 2 * L \in RingSizes
    BY <2>2, <2>3 DEF RingBounded
  <2>5. b.begin % (2 * L) = 0
    <3>1. Len(r.b.slots) > L
      BY <1>1, <2>3
    <3> QED BY <2>3, <3>1
  <2>6. ring \in RefType /\ ring.block \in Blocks
    BY <2>2
  <2> HIDE DEF ring
  <2>7. /\ BufferOK(big) /\ big.array /\ BlocksOf(Refs(big)) = BlocksOf(Refs(b))
        /\ big.num < Len(big.slots)
    BY <1>4, <2>4, <2>5, <2>6, RingGrown
  <2> HIDE DEF big
  <2>8. BufferOK(r.b) /\ BlocksOf(Refs(r.b)) = Append(BlocksOf(Refs(big)), ref.block)
    BY <2>1, <2>7, RingPushed
  <2> QED
    BY <1>4, <2>7, <2>8 DEF Appended
<1> QED
  BY <1>2, <1>3, <1>4

LEMMA AppendOne ==
  ASSUME NEW x, NEW y
  PROVE  Append(<<x>>, y) = <<x, y>> /\ Append(<<>>, y) = <<y>>
<1>1. <<x>> \in Seq({x, y}) /\ <<>> \in Seq({x, y}) /\ y \in {x, y}
  OBVIOUS
<1> DEFINE s == Append(<<x>>, y)
           e == Append(<<>>, y)
<1>2. s \in Seq({x, y}) /\ Len(s) = 2 /\ s[1] = x /\ s[2] = y
  BY <1>1
<1>3. e \in Seq({x, y}) /\ Len(e) = 1 /\ e[1] = y
  BY <1>1
<1> HIDE DEF s, e
<1>4. s = [i \in 1 .. 2 |-> s[i]] /\ e = [i \in 1 .. 1 |-> e[i]]
  BY <1>2, <1>3
<1>5. s = <<x, y>>
  BY <1>2, <1>4
<1>6. e = <<y>>
  BY <1>3, <1>4
<1> QED
  BY <1>5, <1>6 DEF s, e

\* The slots do not depend on where the ring is.
BufferOf(array, first, second, slots, begin, num, m) ==
    [array |-> array, first |-> first, second |-> second, slots |-> slots,
     begin |-> begin, num |-> num, nbytes |-> m]

LEMMA BufferOfIs ==
  ASSUME NEW a, NEW f, NEW w, NEW s, NEW p, NEW n, NEW m, NEW v, NEW z
  PROVE  /\ [BufferOf(a, f, w, s, p, n, m) EXCEPT !.slots = v] = BufferOf(a, f, w, v, p, n, m)
         /\ [BufferOf(a, f, w, s, p, n, m) EXCEPT !.second = z] = BufferOf(a, f, z, s, p, n, m)
         /\ BufferOf(a, f, w, s, p, n, m).slots = s
<1>1. [BufferOf(a, f, w, s, p, n, m) EXCEPT !.slots = v] = BufferOf(a, f, w, v, p, n, m)
  BY DEF BufferOf
<1>2. [BufferOf(a, f, w, s, p, n, m) EXCEPT !.second = z] = BufferOf(a, f, z, s, p, n, m)
  BY DEF BufferOf
<1>3. BufferOf(a, f, w, s, p, n, m).slots = s
  BY DEF BufferOf
<1> QED
  BY <1>1, <1>2, <1>3
MadeOf(ring, slots, m) == BufferOf(TRUE, NoRef, ring, slots, 0, 2, m)

LEMMA MadeIs ==
  ASSUME NEW w, NEW s, NEW m, NEW v, NEW z
  PROVE  /\ [MadeOf(w, s, m) EXCEPT !.slots = v] = MadeOf(w, v, m)
         /\ [MadeOf(w, s, m) EXCEPT !.second = z] = MadeOf(z, s, m)
         /\ MadeOf(w, s, m).slots = s
<1> DEFINE a == TRUE
           f == NoRef
           p == 0
           n == 2
<1>1. \A x, y : MadeOf(x, y, m) = BufferOf(a, f, x, y, p, n, m)
  BY DEF MadeOf
<1> HIDE DEF a, f, p, n
<1>2. MadeOf(w, s, m) = BufferOf(a, f, w, s, p, n, m)
      /\ MadeOf(w, v, m) = BufferOf(a, f, w, v, p, n, m)
      /\ MadeOf(z, s, m) = BufferOf(a, f, z, s, p, n, m)
  BY <1>1
<1> DEFINE x == MadeOf(w, s, m)
<1> HIDE DEF x
<1>3. x = BufferOf(a, f, w, s, p, n, m)
  BY <1>2 DEF x
<1>4. [x EXCEPT !.slots = v] = BufferOf(a, f, w, v, p, n, m)
  BY <1>3, BufferOfIs
<1>5. [x EXCEPT !.second = z] = BufferOf(a, f, z, s, p, n, m)
  BY <1>3, BufferOfIs
<1>6. x.slots = s
  BY <1>3, BufferOfIs
<1> QED
  BY <1>2, <1>4, <1>5, <1>6 DEF x

LEMMA TransformedSlots ==
  ASSUME NEW b \in BufferType, NEW x
  PROVE  LET c == Transformed(b, x)
         IN /\ RefAt(c, c.num - 1) = b.second /\ c.num = 2 /\ Len(c.slots) = InitSize
            /\ \A z : Grown(c, z) = Grown(Transformed(b, z), z)
<1>1. NoRef \in RefType
  BY DEF NoRef, RefType
<1> DEFINE c == Transformed(b, x)
           d == Transformed(b, NoRef)
<1>2. d.num = 2 /\ Len(d.slots) = InitSize /\ RefAt(d, 1) = b.second
  BY <1>1, TransformedIs
<1>3. c.num = d.num /\ c.slots = d.slots /\ c.begin = d.begin
  BY DEF Transformed
<1>4. RefAt(c, 1) = RefAt(d, 1)
  BY <1>3 DEF RefAt, Index
<1>5. ASSUME NEW z
      PROVE  Grown(c, z) = Grown(Transformed(b, z), z)
  <2> DEFINE s == <<b.first, b.second>> \o [i \in 1 .. InitSize - 2 |-> Unset]
             m == b.first.length + b.second.length
             v == s \o [i \in 1 .. Len(s) |-> Unset]
  <2>1. ASSUME NEW w
        PROVE  Grown(Transformed(b, w), z) = MadeOf(z, v, m)
    <3> DEFINE k == Transformed(b, w)
               l == [k EXCEPT !.slots = v]
    <3>1. k = MadeOf(w, s, m)
        BY DEF Transformed, MadeOf, BufferOf
    <3>2. k.slots = s
      <4> HIDE DEF s, m, k
      <4> QED BY <3>1, MadeIs
    <3>3. Grown(k, z) = [k EXCEPT !.slots = v, !.second = z]
      <4> HIDE DEF k, s
      <4> QED BY <3>2 DEF Grown
    <3>4. Grown(k, z) = [l EXCEPT !.second = z]
      <4> HIDE DEF k, v
      <4> QED BY <3>3
    <3> HIDE DEF k, s, m, v
    <3>5. l = MadeOf(w, v, m)
      BY <3>1, MadeIs
    <3> HIDE DEF l
    <3>6. [l EXCEPT !.second = z] = MadeOf(z, v, m)
      BY <3>5, MadeIs
    <3> QED BY <3>4, <3>6 DEF k
  <2> QED BY <2>1
<1> QED
  BY <1>2, <1>3, <1>4, <1>5

LEMMA AppendRefBuffer ==
  ASSUME NEW b, BufferOK(b), NEW ref \in RefType, ref.block \in Blocks,
         NEW h, NEW t, NEW moved, NEW r, r = AppendRef(h, t, b, ref, moved),
         r.b.array => r.b.second \in RefType /\ r.b.second.block \in Blocks,
         RingBounded(r.b), ~ Scrambled(b, r.b)
  PROVE  Appended(b, r.b, ref, Stores(b, ref))
<1>1. b \in BufferType /\ b.first \in RefType /\ b.second \in RefType
  BY DEF BufferOK, BufferType
<1>2. ref.block # Null
  BY DEF Blocks, Null
<1>3. CASE ~ b.array /\ b.first.block = Null
  <2>1. b.second.block = Null
    BY <1>3 DEF BufferOK
  <2> DEFINE c == [b EXCEPT !.first = ref]
  <2>2. r = [h |-> Stored(h, ref, moved), b |-> c]
    BY <1>3, <2>1 DEF AppendRef
  <2>3. c \in BufferType /\ ~ c.array /\ c.first = ref /\ c.second = b.second
    BY <1>1, <1>3 DEF BufferType
  <2> HIDE DEF c
  <2>4. Refs(b) = <<>> /\ Refs(c) = <<ref>>
    BY <1>2, <1>3, <2>1, <2>3 DEF Refs
  <2>5. BlocksOf(<<>>) = <<>> /\ BlocksOf(<<ref>>) = <<ref.block>>
    BY DEF BlocksOf
  <2>6. BufferOK(c)
    BY <1>2, <2>3 DEF BufferOK
  <2>7. Stores(b, ref)
    BY <1>3 DEF Stores
  <2>8. Append(<<>>, ref.block) = <<ref.block>>
    OBVIOUS
  <2> QED
    <3>1. r.b = c
      BY <2>2
    <3>2. BlocksOf(Refs(c)) = <<ref.block>>
      BY <2>4, <2>5
    <3>3. BlocksOf(Refs(b)) = <<>>
      BY <2>4, <2>5
    <3>4. BlocksOf(Refs(c)) = Append(BlocksOf(Refs(b)), ref.block)
      BY <2>8, <3>2, <3>3
    <3> QED BY <2>6, <2>7, <3>1, <3>4 DEF Appended
<1>4. CASE ~ b.array /\ b.first.block # Null /\ b.second.block = Null
  <2>1. Refs(b) = <<b.first>> /\ LastRef(b) = b.first
    BY <1>4 DEF Refs, LastRef
  <2>2. CASE Merges(b.first, ref)
    <3> DEFINE x == [b.first EXCEPT !.length = @ + ref.length]
               c == [b EXCEPT !.first = x]
    <3>1. r = [h |-> Merged(h, t, ref, moved), b |-> c]
      BY <1>4, <2>2 DEF AppendRef
    <3>2. x \in RefType /\ x.block = b.first.block
      BY <1>1 DEF RefType
    <3> HIDE DEF x
    <3>3. c \in BufferType /\ ~ c.array /\ c.first = x /\ c.second = b.second
      BY <1>1, <1>4, <3>2 DEF BufferType
    <3> HIDE DEF c
    <3>4. Refs(c) = <<x>> /\ BufferOK(c)
      BY <1>4, <3>2, <3>3 DEF Refs, BufferOK
    <3>5. BlocksOf(<<x>>) = <<x.block>> /\ BlocksOf(<<b.first>>) = <<b.first.block>>
      BY DEF BlocksOf
    <3>6. ~ Stores(b, ref)
      BY <1>4, <2>1, <2>2 DEF Stores
    <3> QED
      BY <2>1, <3>1, <3>2, <3>4, <3>5, <3>6 DEF Appended
  <2>3. CASE ~ Merges(b.first, ref)
    <3> DEFINE c == [b EXCEPT !.second = ref]
    <3>1. r = [h |-> Stored(h, ref, moved), b |-> c]
      BY <1>4, <2>3 DEF AppendRef
    <3>2. c \in BufferType /\ ~ c.array /\ c.first = b.first /\ c.second = ref
      BY <1>1, <1>4 DEF BufferType
    <3> HIDE DEF c
    <3>3. Refs(c) = <<b.first, ref>> /\ BufferOK(c)
      BY <1>2, <1>4, <3>2 DEF Refs, BufferOK
    <3>4. /\ BlocksOf(<<b.first, ref>>) = <<b.first.block, ref.block>>
          /\ BlocksOf(<<b.first>>) = <<b.first.block>>
      BY DEF BlocksOf
    <3>5. Stores(b, ref)
      BY <1>4, <2>1, <2>3 DEF Stores
    <3>6. Append(<<b.first.block>>, ref.block) = <<b.first.block, ref.block>>
      BY AppendOne
    <3> QED
      <4>1. r.b = c
        BY <3>1
      <4>2. BlocksOf(Refs(c)) = Append(BlocksOf(Refs(b)), ref.block)
        BY <2>1, <3>3, <3>4, <3>6
      <4> QED BY <3>3, <3>5, <4>1, <4>2 DEF Appended
  <2> QED
    BY <2>2, <2>3
<1>5. CASE ~ b.array /\ b.first.block # Null /\ b.second.block # Null
  <2>1. Refs(b) = <<b.first, b.second>> /\ LastRef(b) = b.second
    BY <1>5 DEF Refs, LastRef
  <2>2. CASE Merges(b.second, ref)
    <3> DEFINE x == [b.second EXCEPT !.length = @ + ref.length]
               c == [b EXCEPT !.second = x]
    <3>1. r = [h |-> Merged(h, t, ref, moved), b |-> c]
      BY <1>5, <2>2 DEF AppendRef
    <3>2. x \in RefType /\ x.block = b.second.block
      BY <1>1 DEF RefType
    <3> HIDE DEF x
    <3>3. c \in BufferType /\ ~ c.array /\ c.first = b.first /\ c.second = x
      BY <1>1, <1>5, <3>2 DEF BufferType
    <3> HIDE DEF c
    <3>4. Refs(c) = <<b.first, x>> /\ BufferOK(c)
      BY <1>5, <3>2, <3>3 DEF Refs, BufferOK
    <3>5. /\ BlocksOf(<<b.first, x>>) = <<b.first.block, x.block>>
          /\ BlocksOf(<<b.first, b.second>>) = <<b.first.block, b.second.block>>
      BY DEF BlocksOf
    <3>6. ~ Stores(b, ref)
      BY <1>5, <2>1, <2>2 DEF Stores
    <3> QED
      BY <2>1, <3>1, <3>2, <3>4, <3>5, <3>6 DEF Appended
  <2>3. CASE ~ Merges(b.second, ref)
    <3> DEFINE a == AcquireBlockRefArray(h, t, InitSize)
               c == Transformed(b, a.ref)
    <3>1. r = ArrayAppendRef(a.h, t, c, ref, moved)
      BY <1>5, <2>3 DEF AppendRef, TransforToArray, Transformed
    <3>2. /\ ~ Merges(RefAt(c, c.num - 1), ref) /\ c.num = 2 /\ Len(c.slots) = InitSize
          /\ \A z : Grown(c, z) = Grown(Transformed(b, z), z)
      BY <1>1, <2>3, TransformedSlots
    <3>3. c.array
      BY DEF Transformed
    <3>4. Stores(b, ref)
      BY <1>5, <2>1, <2>3 DEF Stores
    <3>5. CASE InitSize # 2
      <4>1. r.b = Pushed(c, ref)
        <5>1. c.num # Len(c.slots)
          BY <3>2, <3>5
        <5>2. r = [h |-> Stored(a.h, ref, moved), b |-> Pushed(c, ref)]
          <6> HIDE DEF c
          <6> QED BY <3>1, <3>2, <5>1 DEF ArrayAppendRef, Pushed
        <5> QED BY <5>2
      <4>2. r.b.second = a.ref
        BY <1>1, <4>1, PushedSecond
      <4>3. r.b.array
        BY <3>3, <4>1 DEF Pushed, Transformed
      <4>4. /\ BufferOK(c) /\ BlocksOf(Refs(c)) = BlocksOf(Refs(b)) /\ c.num = 2
            /\ Len(c.slots) \in Nat /\ Len(c.slots) >= 2
        BY <1>5, <4>2, <4>3, RingMade
      <4>5. c.num < Len(c.slots)
        BY <3>2, <3>5, <4>4
      <4> HIDE DEF c
      <4>6. BufferOK(r.b) /\ BlocksOf(Refs(r.b)) = Append(BlocksOf(Refs(c)), ref.block)
        BY <3>3, <4>1, <4>4, <4>5, RingPushed
      <4> QED
        BY <3>4, <4>4, <4>6 DEF Appended
    <3>6. CASE InitSize = 2
      <4> DEFINE ring == AcquireBlockRefArray(a.h, t, 2 * Len(c.slots)).ref
                 d == Transformed(b, ring)
                 big == Grown(d, ring)
      <4>1. r.b = Pushed(Grown(c, ring), ref)
        <5>1. c.num = Len(c.slots) /\ ~ Merges(RefAt(c, c.num - 1), ref)
          BY <3>2, <3>6
        <5> DEFINE x == ArrayResize(a.h, t, c)
        <5>2. x.b = Grown(c, ring)
          <6> HIDE DEF c
          <6> QED BY DEF Grown, ArrayResize
        <5>3. Grown(c, ring).num = c.num
          <6>1. "num" \in DOMAIN c
            BY DEF Transformed
          <6> HIDE DEF c, ring
          <6> QED BY <6>1 DEF Grown
        <5> HIDE DEF c, ring
        <5>4. r.b = [x.b EXCEPT !.slots[Index(x.b, c.num)] = ref, !.num = @ + 1,
                                !.nbytes = @ + ref.length]
          <6> HIDE DEF x
          <6>1. r = [h |-> Stored(x.h, ref, moved),
                     b |-> [x.b EXCEPT !.slots[Index(x.b, c.num)] = ref, !.num = @ + 1,
                                       !.nbytes = @ + ref.length]]
            BY <3>1, <5>1 DEF ArrayAppendRef, x
          <6> QED BY <6>1
        <5> HIDE DEF x
        <5> DEFINE g == Grown(c, ring)
        <5>5. x.b = g /\ g.num = c.num
          BY <5>2, <5>3
        <5> HIDE DEF g
        <5>6. r.b = Pushed(g, ref)
          BY <5>4, <5>5 DEF Pushed
        <5> QED BY <5>6 DEF g
      <4>2. r.b = Pushed(big, ref)
        BY <3>2, <4>1
      <4> HIDE DEF ring
      <4>3. r.b.array
        <5>1. big.array
          BY DEF Grown, Transformed
        <5>2. "array" \in DOMAIN big
          BY DEF Grown, Transformed
        <5> HIDE DEF big
        <5> QED BY <4>2, <5>1, <5>2 DEF Pushed
      <4>4. r.b.second = ring
        <5>1. "second" \in DOMAIN big /\ big.second = ring
          BY DEF Grown, Transformed
        <5> HIDE DEF big
        <5> QED BY <4>2, <5>1 DEF Pushed
      <4>5. /\ BufferOK(d) /\ d.array /\ BlocksOf(Refs(d)) = BlocksOf(Refs(b))
            /\ d.num = 2 /\ d.begin = 0 /\ Len(d.slots) \in Nat /\ Len(d.slots) >= 2
        BY <1>5, <4>3, <4>4, RingMade
      <4>6. d.num = Len(d.slots)
        <5>1. Len(d.slots) = InitSize
          BY <1>1, TransformedSlots
        <5> QED BY <3>6, <4>5, <5>1
      <4>7. d \in BufferType
        BY <4>5 DEF BufferOK
      <4> HIDE DEF d
      <4>8. Len(r.b.slots) = 2 * Len(d.slots)
        BY <4>2, <4>7, GrownPushed
      <4>9. 2 * Len(d.slots) \in RingSizes
        BY <4>3, <4>8 DEF RingBounded
      <4>10. d.begin % (2 * Len(d.slots)) = 0
        <5> DEFINE M == 2 * Len(d.slots)
        <5>1. M \in Nat /\ M > 0
          BY <4>5
        <5> HIDE DEF M
        <5>2. 0 % M = 0
          BY <5>1
        <5> QED BY <4>5, <5>2 DEF M
      <4>11. /\ BufferOK(big) /\ big.array /\ BlocksOf(Refs(big)) = BlocksOf(Refs(d))
             /\ big.num < Len(big.slots)
        BY <4>3, <4>4, <4>5, <4>6, <4>9, <4>10, RingGrown
      <4> HIDE DEF big
      <4>12. BufferOK(r.b) /\ BlocksOf(Refs(r.b)) = Append(BlocksOf(Refs(big)), ref.block)
        BY <4>2, <4>11, RingPushed
      <4> QED
        BY <3>4, <4>5, <4>11, <4>12 DEF Appended
    <3> QED
      BY <3>5, <3>6
  <2> QED
    BY <2>2, <2>3
<1>6. CASE b.array
  <2>1. r = ArrayAppendRef(h, t, b, ref, moved)
    BY <1>6 DEF AppendRef
  <2>2. Stores(b, ref) <=> ~ Merges(RefAt(b, b.num - 1), ref)
    BY <1>6 DEF Stores, LastRef
  <2>3. r.b.array
    BY <1>1, <1>6, <2>1, ArrayStays
  <2>4. Len(r.b.slots) > Len(b.slots) => b.begin % Len(r.b.slots) = 0
    BY <1>6 DEF Scrambled
  <2>5. Appended(b, r.b, ref, ~ Merges(RefAt(b, b.num - 1), ref))
    BY <1>6, <2>1, <2>3, <2>4, ArrayAppendBuffer
  <2> QED BY <2>2, <2>5 DEF Appended
<1> QED
  BY <1>1, <1>3, <1>4, <1>5, <1>6 DEF BufferType

=============================================================================
