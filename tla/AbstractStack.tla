--------------------------- MODULE AbstractStack ---------------------------
(***************************************************************************)
(* What LockFreeStack<T> (src/include/p/base/object_pool.h) promises its   *)
(* callers: each push and each pop takes effect at one instant, on a plain *)
(* stack; pop answers 0 only of a stack that is empty at that instant.     *)
(* Several stacks may share the nodes, as the two of ObjectPool do.        *)
(***************************************************************************)
EXTENDS Naturals, Sequences

CONSTANTS Threads, Ids, NoId, Stacks

VARIABLES
    stack,  \* the ids on every stack, the top one last
    out,    \* the ids that are on no stack
    got     \* what the last pop of every thread answered

absvars == <<stack, out, got>>

AbsInit ==
    /\ stack = [s \in Stacks |-> <<>>]
    /\ out = Ids
    /\ got = [t \in Threads |-> NoId]

AbsPush(s, i) ==
    /\ i \in out
    /\ stack' = [stack EXCEPT ![s] = Append(stack[s], i)]
    /\ out' = out \ {i}
    /\ got' = got

AbsPop(t, s) ==
    /\ stack[s] # <<>>
    /\ LET top == stack[s][Len(stack[s])] IN
       /\ stack' = [stack EXCEPT ![s] = SubSeq(stack[s], 1, Len(stack[s]) - 1)]
       /\ out' = out \cup {top}
       /\ got' = [got EXCEPT ![t] = top]

AbsPopEmpty(t, s) ==
    /\ stack[s] = <<>>
    /\ got' = [got EXCEPT ![t] = NoId]
    /\ UNCHANGED <<stack, out>>

AbsNext ==
    \E s \in Stacks :
        \/ \E i \in Ids : AbsPush(s, i)
        \/ \E t \in Threads : AbsPop(t, s) \/ AbsPopEmpty(t, s)

AbsSpec == AbsInit /\ [][AbsNext]_absvars
=============================================================================
