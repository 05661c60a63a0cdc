----------------------------- MODULE BlockCache -----------------------------
(***************************************************************************)
(* The blocks behind ZBuffer and the ThreadLocalBlockCache of every thread *)
(* (src/src/zbuffer.cpp, src/include/p/base/zbuffer.h).  A block is counted*)
(* by its holders: a cache, the references of buffers, and the rings that  *)
(* buffers keep inside blocks.  Only ref_num is shared by threads; a block *)
(* is written to by the thread that caches it, and whoever gives the last  *)
(* reference back puts the block into its own cache.                       *)
(*                                                                         *)
(* The operators take the state of the blocks, a record h, and answer the  *)
(* state after the call; an action that makes several calls nests them.    *)
(***************************************************************************)
EXTENDS Naturals, Sequences, FiniteSets

CONSTANTS
    Threads,
    Cap,        \* kNormalBlockPayloadSize
    Align,      \* 8: append rounds the offset of a block up to it
    RefBytes,   \* sizeof(BlockRef)
    ArrayHead,  \* sizeof(BlockRefArray) + sizeof(BlockRef)
    Limit,      \* kBlockCachedPerThread
    MaxBlocks   \* bound: blocks malloc'ed at the same time

ASSUME SizesAssumption ==
    /\ Cap \in Nat /\ Align \in 1 .. Cap /\ Cap % Align = 0
    /\ RefBytes \in Nat /\ ArrayHead \in Nat /\ Limit \in Nat /\ MaxBlocks \in Nat
ASSUME ThreadsAssumption == IsFiniteSet(Threads)

MinOf(a, b) == IF a < b THEN a ELSE b

Null == 0
\* One step allocates at most three blocks: it is Bounded, or not taken.
Blocks == 1 .. MaxBlocks + 3
Bounded(h) == h.live \subseteq 1 .. MaxBlocks

NoRef == [block |-> Null, offset |-> 0, length |-> 0]
\* What a cell of a block holds: nothing of interest, a ring, or a byte (> 1).
Blank == 0
Ring == 1

EmptyBlock(refs, size) ==
    [ref_num |-> refs, offset |-> 0, capacity |-> size, mem |-> [i \in 0 .. size - 1 |-> Blank]]
NoBlock == EmptyBlock(0, 0)

\* cache is the list that starts at head_, number is block_number_; lost holds
\* the blocks that no cache and no buffer can reach any more.
NoBlocks ==
    [live |-> {}, block |-> [b \in Blocks |-> NoBlock],
     cache |-> [t \in Threads |-> <<>>], number |-> [t \in Threads |-> 0], lost |-> {}]

-----------------------------------------------------------------------------
(* Block *)

Full(h, b) == h.block[b].offset + (Align - 1) >= h.block[b].capacity
LeftSpace(h, b) == h.block[b].capacity - h.block[b].offset
RoundUp(n) == ((n + Align - 1) \div Align) * Align

IncRef(h, b) == [h EXCEPT !.block[b].ref_num = @ + 1]

\* create_block: the block that the next malloc answers, with one reference
Fresh(h) == CHOOSE b \in Blocks \ h.live : \A c \in Blocks \ h.live : b <= c
CreateBlock(h, size) ==
    [h EXCEPT !.live = @ \cup {Fresh(h)}, !.block[Fresh(h)] = EmptyBlock(1, size)]

FreeBlock(h, b) == [h EXCEPT !.live = @ \ {b}, !.block[b] = NoBlock]

Link(h, t, b) == [h EXCEPT !.cache[t] = <<b>> \o @]

LinkNew(h, t, size) == Link([CreateBlock(h, size) EXCEPT !.number[t] = @ + 1], t, Fresh(h))

\* ThreadLocalBlockCache::release_block
ReleaseBlockUncounted(h, t, b) == IncRef(Link(h, t, b), b)
ReleaseBlock(h, t, b) ==
    IF h.number[t] < Limit
    THEN IncRef(Link([h EXCEPT !.number[t] = @ + 1], t, b), b)
    ELSE FreeBlock(h, b)

\* The last reference makes the block empty and the thread's own.
DecRefEarly(h, t, b) ==
    IF h.block[b].ref_num <= 2
    THEN ReleaseBlock([h EXCEPT !.block[b] = EmptyBlock(0, @.capacity)], t, b)
    ELSE [h EXCEPT !.block[b].ref_num = @ - 1]
DecRef(h, t, b) ==
    IF h.block[b].ref_num <= 1
    THEN ReleaseBlock([h EXCEPT !.block[b] = EmptyBlock(0, @.capacity)], t, b)
    ELSE [h EXCEPT !.block[b].ref_num = @ - 1]

Release(h, t, ref) == IF ref.block = Null THEN h ELSE DecRef(h, t, ref.block)

-----------------------------------------------------------------------------
(* ThreadLocalBlockCache *)

HeadFull(h, t) == h.cache[t] # <<>> /\ Full(h, Head(h.cache[t]))

\* One turn of the loop of acquire_block.  The reference is given back while
\* the block is still linked: where that was the last one, release_block links
\* the block a second time, and the assignment to head_ then drops it.
DropFullHead(h, t) ==
    LET b == Head(h.cache[t])
        g == DecRef(h, t, b)
    IN [g EXCEPT !.cache[t] = Tail(h.cache[t]), !.number[t] = @ - 1,
                 !.lost = IF g.cache[t] # h.cache[t] THEN @ \cup {b} ELSE @]

\* One turn of the loop of pop_front, which unlinks the block first
PopFullHead(h, t) ==
    LET b == Head(h.cache[t])
        g == DecRef([h EXCEPT !.cache[t] = Tail(@)], t, b)
    IN [g EXCEPT !.number[t] = @ - 1]

\* After the loop of acquire_block: the head, or a new block
AcquireBlock(h, t) ==
    IF h.cache[t] # <<>> THEN h
    ELSE LinkNew(h, t, Cap)

\* After the loop of pop_front: the head is taken out of the list and still
\* counted, and a new block is counted that was never in the list.
PopFront(h, t) ==
    IF h.cache[t] # <<>>
    THEN [h |-> [h EXCEPT !.cache[t] = Tail(@)], block |-> Head(h.cache[t])]
    ELSE [h |-> [CreateBlock(h, Cap) EXCEPT !.number[t] = @ + 1], block |-> Fresh(h)]

PushFront(h, t, b) ==
    IF Full(h, b) THEN DecRef(h, t, b) ELSE Link([h EXCEPT !.number[t] = @ + 1], t, b)

\* acquire_block_ref: the room of the block is the caller's
AcquireBlockRef(h, t) ==
    LET p == PopFront(h, t)
    IN [h |-> p.h, ref |-> [block |-> p.block, offset |-> p.h.block[p.block].offset,
                            length |-> LeftSpace(p.h, p.block)]]

\* return_block_ref: ref.length bytes of it are used; the cache gets the
\* reference that is counted here, ref keeps the one it came with.
ReturnBlockRef(h, t, ref) ==
    PushFront(IncRef([h EXCEPT !.block[ref.block].offset = @ + ref.length], ref.block),
              t, ref.block)

\* acquire_block_ref_array: room for a ring of n references in the first cached
\* block that has it, however far behind the head, or in a new block
ArrayBytes(n) == n * RefBytes + ArrayHead
AcquireBlockRefArray(h, t, n) ==
    LET bytes == ArrayBytes(n)
        roomy == {i \in DOMAIN h.cache[t] : LeftSpace(h, h.cache[t][i]) >= bytes}
        found == bytes < Cap /\ roomy # {}
        g == IF found THEN h
             ELSE LinkNew(h, t, IF bytes < Cap THEN Cap ELSE bytes)
        b == IF found THEN h.cache[t][CHOOSE i \in roomy : \A j \in roomy : i <= j]
             ELSE Fresh(h)
        o == g.block[b].offset
    IN [h |-> [IncRef(g, b) EXCEPT
                 !.block[b].offset = o + bytes,
                 !.block[b].mem = [i \in DOMAIN @ |->
                                     IF i \in o .. o + bytes - 1 THEN Ring ELSE @[i]]],
        ref |-> [block |-> b, offset |-> o, length |-> bytes]]

\* One turn of ~ThreadLocalBlockCache.  block_number_ is not counted down: a
\* block that comes back is linked again until the number is at the limit.
DropHead(h, t) ==
    DecRef([h EXCEPT !.cache[t] = Tail(@)], t, Head(h.cache[t]))
=============================================================================
