---------------------------- MODULE ObjectArena ----------------------------
(***************************************************************************)
(* ObjectArena<T> (src/include/p/base/object_arena.h): blocks of N objects *)
(* that are never freed, in up to NG groups of N blocks.  Threads add      *)
(* blocks without a lock; only a new group is added under a mutex.         *)
(***************************************************************************)
EXTENDS Naturals, FiniteSets

CONSTANTS
    Threads,
    BASE,      \* bits of an index, 10 in the code
    BITS,      \* bits of an id, 32 in the code; a version may stand above them
    MaxBlocks  \* bound: calls of acquire

ASSUME ArenaAssumption ==
    BASE \in Nat /\ BITS \in Nat /\ BITS > BASE + BASE /\ MaxBlocks \in Nat

N == 2 ^ BASE
NG == 2 ^ (BITS - 1 - BASE - BASE)   \* the most groups
GroupNumbers == 1 .. NG  \* group number g is group_list_[g - 1]
NoBlock == 0

ASSUME ThreadsAssumption == IsFiniteSet(Threads)
\* An id has room for a group number, a block and an item.
ASSUME WidthAssumption ==
    N \in Nat \ {0} /\ NG \in Nat \ {0} /\ 2 ^ BITS = 2 * NG * N * N

VARIABLES
    group_size,  \* group_size_
    block_size,  \* block_size of every group
    block_list,  \* block_list of every group
    blocks,      \* blocks allocated so far: the n-th call fills the n-th
    pc, loc,     \* the threads, and the locals of add_block
    given,       \* the ids and blocks that acquire has answered
    failed       \* assert(0)

vars == <<group_size, block_size, block_list, blocks, pc, loc, given, failed>>

\* The constructor adds the first group.  A block_list is not initialised;
\* NoBlock stands for what is in it.
Init ==
    /\ group_size = 1
    /\ block_size = [g \in GroupNumbers |-> 0]
    /\ block_list = [g \in GroupNumbers |-> [b \in 0 .. N - 1 |-> NoBlock]]
    /\ blocks = 0
    /\ pc = [t \in Threads |-> "idle"]
    /\ loc = [t \in Threads |-> [block |-> NoBlock, group |-> 0, slot |-> 0]]
    /\ given = {}
    /\ failed = FALSE

Goto(t, label) == pc' = [pc EXCEPT ![t] = label]

\* The item that find answers: the id names the group, the block and the item.
Masked(id) == id % 2 ^ BITS
Find(id) ==
    LET obj_id == Masked(id)
        block_id == obj_id \div N
        group_id == block_id \div N - 1
    IN [block |-> block_list[group_id + 1][block_id % N], item |-> obj_id % N]

-----------------------------------------------------------------------------
(* add_block *)

\* new ObjectBlock
NewBlock(t) ==
    /\ pc[t] = "idle" /\ blocks < MaxBlocks
    /\ blocks' = blocks + 1
    /\ loc' = [loc EXCEPT ![t] = [block |-> blocks + 1, group |-> 0, slot |-> 0]]
    /\ Goto(t, "load")
    /\ UNCHANGED <<group_size, block_size, block_list, given, failed>>

\* group_size_.load(), and with it the last group
LoadGroup(t) ==
    /\ pc[t] = "load"
    /\ loc' = [loc EXCEPT ![t].group = group_size]
    /\ Goto(t, "add")
    /\ UNCHANGED <<group_size, block_size, block_list, blocks, given, failed>>

\* block_size.fetch_add(1) finds a slot, or the group full.
InGroupOffByOne(slot) == slot <= N
InGroup(slot) == slot < N
TakeSlot(t) ==
    LET g == loc[t].group IN
    /\ pc[t] = "add"
    /\ loc' = [loc EXCEPT ![t].slot = block_size[g]]
    /\ block_size' = [block_size EXCEPT ![g] = @ + 1]
    /\ Goto(t, IF InGroup(block_size[g]) THEN "store" ELSE "sub")
    /\ UNCHANGED <<group_size, block_list, blocks, given, failed>>

\* The block is stored in its slot and its id answered.
IdOtherPrecedence(group, slot) == group * 2 ^ (BASE + slot) * N
Id(group, slot) == (group * N + slot) * N
StoreBlock(t) ==
    LET g == loc[t].group
        b == loc[t].slot
    IN
    /\ pc[t] = "store"
    /\ block_list' = [block_list EXCEPT ![g][b] = loc[t].block]
    /\ given' = given \cup {<<Id(g, b), loc[t].block>>}
    /\ Goto(t, "idle")
    /\ UNCHANGED <<group_size, block_size, blocks, loc, failed>>

\* block_size.fetch_sub(1)
GiveSlotBack(t) ==
    /\ pc[t] = "sub"
    /\ block_size' = [block_size EXCEPT ![loc[t].group] = @ - 1]
    /\ Goto(t, "group")
    /\ UNCHANGED <<group_size, block_list, blocks, loc, given, failed>>

\* add_group, under group_mutex_: another thread was faster, or there is room
\* for one more group, or the arena is exhausted and assert(0) fails.
StaleNever(t) == FALSE
StaleAlways(t) == TRUE
Stale(t) == group_size # loc[t].group
AddGroup(t) ==
    /\ pc[t] = "group"
    /\ \/ /\ Stale(t)
          /\ Goto(t, "load") /\ UNCHANGED <<group_size, failed>>
       \/ /\ ~Stale(t) /\ group_size < NG
          /\ group_size' = group_size + 1
          /\ Goto(t, "load") /\ failed' = failed
       \/ /\ ~Stale(t) /\ group_size = NG
          /\ failed' = TRUE
          /\ UNCHANGED <<pc, group_size>>
    /\ UNCHANGED <<block_size, block_list, blocks, loc, given>>

-----------------------------------------------------------------------------
Step(t) == LoadGroup(t) \/ TakeSlot(t) \/ StoreBlock(t) \/ GiveSlotBack(t) \/ AddGroup(t)

Next == ~failed /\ \E t \in Threads : NewBlock(t) \/ Step(t)

Spec == Init /\ [][Next]_vars

\* Every thread that is in add_block is scheduled.
FairSpec == Spec /\ \A t \in Threads : WF_vars(~failed /\ Step(t))

-----------------------------------------------------------------------------
(* Properties *)

\* find gives back every item of every block from its id, with or without a
\* version above it, however many blocks and groups were added meanwhile, so no
\* two blocks get the same id; and none gets 0, which LockFreeStack and the
\* pools take for "none".  The last group's ids fit the mask.
FindInverts ==
    \A a \in given :
        /\ a[1] # 0
        /\ \A i \in 0 .. N - 1, version \in {0, 1} :
              Find(version * 2 ^ BITS + a[1] + i) = [block |-> a[2], item |-> i]

\* A slot is given to one thread only, inside the group's array, and the
\* counter that threads push past the end of a full group comes back to the end.
SlotsApart ==
    /\ \A t \in Threads : pc[t] = "store" =>
          /\ loc[t].slot \in 0 .. N - 1
          /\ block_list[loc[t].group][loc[t].slot] = NoBlock
          /\ \A u \in Threads \ {t} : pc[u] = "store" =>
                <<loc[u].group, loc[u].slot>> # <<loc[t].group, loc[t].slot>>
    /\ \A g \in GroupNumbers :
          block_size[g] = Cardinality({b \in 0 .. N - 1 : block_list[g][b] # NoBlock})
              + Cardinality({t \in Threads : pc[t] \in {"store", "sub"} /\ loc[t].group = g})

\* No slot is wasted: a group is added only when those before it are full, and
\* the arena is exhausted only when all are.
NoWaste ==
    \A g \in GroupNumbers : g < group_size \/ failed => block_size[g] >= N

\* Every call returns, or the arena is exhausted.
CallsReturn == \A t \in Threads : pc[t] # "idle" ~> (pc[t] = "idle" \/ failed)
=============================================================================
