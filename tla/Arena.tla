-------------------------------- MODULE Arena --------------------------------
(***************************************************************************)
(* The bump allocator of src/src/arena.cpp and src/include/p/base/arena.h. *)
(* A place is a block and an offset in it; malloc answers blocks that are  *)
(* aligned.                                                                *)
(***************************************************************************)
EXTENDS Naturals, Sequences, FiniteSets

CONSTANTS
    BlockSize,   \* kBlockSize
    AlignTo,     \* align of AllocateAligned
    PointerLen,  \* sizeof(char*)
    Requests,    \* the sizes that are asked for
    MaxArena     \* bound: number of allocations

\* The asserts on bytes and on align
ASSUME SizesAssumption ==
    /\ BlockSize \in Nat /\ AlignTo \in Nat \ {0} /\ PointerLen \in Nat
    /\ Requests \subseteq Nat \ {0}

VARIABLES
    arena,   \* blocks_ (their sizes), alloc_ptr_ (block and offset),
             \* alloc_bytes_remaining_, memory_usage_
    given    \* history: the memory handed out

arenaVars == <<arena, given>>

\* alloc_ptr_ is NULL, in no block, at first.
NewArena == [blocks |-> <<>>, block |-> 0, offset |-> 0, remaining |-> 0, usage |-> 0]
ArenaInit == arena = NewArena /\ given = {}

AllocateNewBlock(a, bytes) ==
    [a EXCEPT !.blocks = Append(@, bytes), !.usage = @ + bytes + PointerLen]

\* Skip slop bytes of the block and take the next ones.
Bump(a, slop, bytes) ==
    [a EXCEPT !.offset = @ + slop + bytes, !.remaining = @ - (slop + bytes)]

\* A large request has a block of its own and leaves the current one; for
\* another one the rest of the current block is wasted.
FallbackAddsRest(a, bytes) ==
    LET b == AllocateNewBlock(a, BlockSize)
    IN Bump([b EXCEPT !.block = Len(b.blocks), !.offset = 0, !.remaining = @ + BlockSize], 0, bytes)
Fallback(a, bytes) ==
    LET b == AllocateNewBlock(a, BlockSize)
    IN Bump([b EXCEPT !.block = Len(b.blocks), !.offset = 0, !.remaining = BlockSize], 0, bytes)
AllocateFallback(bytes, aligned) ==
    LET own == bytes > BlockSize \div 4
        a == IF own THEN AllocateNewBlock(arena, bytes) ELSE Fallback(arena, bytes)
    IN
    /\ arena' = a
    /\ given' = given \cup {[block |-> Len(a.blocks), offset |-> 0, bytes |-> bytes,
                             aligned |-> aligned]}

TakeHere(slop, bytes, aligned) ==
    /\ arena' = Bump(arena, slop, bytes)
    /\ given' = given \cup {[block |-> arena.block, offset |-> arena.offset + slop,
                             bytes |-> bytes, aligned |-> aligned]}

Allocate(bytes) ==
    /\ Cardinality(given) < MaxArena
    /\ \/ bytes <= arena.remaining /\ TakeHere(0, bytes, FALSE)
       \/ bytes > arena.remaining /\ AllocateFallback(bytes, FALSE)

Slop == (AlignTo - (arena.offset % AlignTo)) % AlignTo
AllocateAligned(bytes) ==
    /\ Cardinality(given) < MaxArena
    /\ \/ bytes + Slop <= arena.remaining /\ TakeHere(Slop, bytes, TRUE)
       \/ bytes + Slop > arena.remaining /\ AllocateFallback(bytes, TRUE)

\* ~Arena gives all blocks back; another arena follows.
Destruction == arena # NewArena /\ arena' = NewArena /\ given' = {}

ArenaNext == Destruction \/ \E bytes \in Requests : Allocate(bytes) \/ AllocateAligned(bytes)

ArenaSpec == ArenaInit /\ [][ArenaNext]_arenaVars

-----------------------------------------------------------------------------
(* Properties *)

\* What the blocks take
BlocksTake(blocks) ==
    LET taken == [i \in DOMAIN blocks |-> blocks[i] + PointerLen]
        sum[i \in 0 .. Len(blocks)] == IF i = 0 THEN 0 ELSE sum[i - 1] + taken[i]
    IN sum[Len(blocks)]

\* What was handed out stays inside its block, in bytes that nobody else got,
\* aligned where that was asked for, and outside of what is still to be handed
\* out; MemoryUsage is what the blocks take.
MemoryApart ==
    LET past(g) == g.offset + g.bytes
        free == [block |-> arena.block, offset |-> arena.offset, bytes |-> arena.remaining,
                 aligned |-> FALSE]
        areas == given \cup (IF arena.remaining > 0 THEN {free} ELSE {})
    IN
    /\ \A g \in areas : g.block \in DOMAIN arena.blocks /\ past(g) <= arena.blocks[g.block]
    /\ \A g, h \in areas : g # h /\ g.block = h.block => past(g) <= h.offset \/ past(h) <= g.offset
    /\ \A g \in given : g.aligned => g.offset % AlignTo = 0
    /\ arena.usage = BlocksTake(arena.blocks)
=============================================================================
