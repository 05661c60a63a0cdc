------------------------------ MODULE LinkedList ------------------------------
(***************************************************************************)
(* The intrusive circular list of src/include/p/base/linked_list.h: nodes  *)
(* carry the pointers, and a list is a root node that points to itself.    *)
(* RemoveFromList leaves the pointers of the node that it takes out, and   *)
(* there is nothing that tells a list from the middle of another.          *)
(***************************************************************************)
EXTENDS Naturals, Sequences, SequencesExt

CONSTANTS
    Roots,      \* the root_ of every list
    LinkNodes,
    nonode      \* the null pointer

ASSUME NodesAssumption == Roots \cap LinkNodes = {}

VARIABLES
    next_,
    previous_,
    order       \* history: the nodes of every list

listVars == <<next_, previous_, order>>

ListInit ==
    /\ next_ = [n \in Roots \cup LinkNodes |-> IF n \in Roots THEN n ELSE nonode]
    /\ previous_ = next_
    /\ order = [r \in Roots |-> <<>>]

InLists == UNION {ToSet(order[r]) : r \in Roots}

\* The stores of InsertBefore and of InsertAfter, in their order
PutBetween(n, before, after) ==
    /\ next_' = [next_ EXCEPT ![n] = after, ![before] = n]
    /\ previous_' = [previous_ EXCEPT ![n] = before, ![after] = n]

InsertedAt(n, r, i) == order' = [order EXCEPT ![r] = InsertAt(@, i, n)]

InsertBefore(n, e) ==
    /\ n \notin InLists /\ e \in InLists
    /\ PutBetween(n, previous_[e], e)
    /\ \E r \in Roots : \E i \in DOMAIN order[r] : order[r][i] = e /\ InsertedAt(n, r, i)

InsertAfter(n, e) ==
    /\ n \notin InLists /\ e \in InLists
    /\ PutBetween(n, e, next_[e])
    /\ \E r \in Roots : \E i \in DOMAIN order[r] : order[r][i] = e /\ InsertedAt(n, r, i + 1)

\* Append: InsertBefore the root
ListAppend(r, n) ==
    /\ n \notin InLists
    /\ PutBetween(n, previous_[r], r)
    /\ InsertedAt(n, r, Len(order[r]) + 1)

UnlinkForward(n) == previous_
UnlinkBack(n) == [previous_ EXCEPT ![next_[n]] = previous_[n]]
RemoveFromList(n) ==
    /\ n \in InLists
    /\ next_' = [next_ EXCEPT ![previous_[n]] = next_[n]]
    /\ previous_' = UnlinkBack(n)
    /\ \E r \in Roots : \E i \in DOMAIN order[r] :
          order[r][i] = n /\ order' = [order EXCEPT ![r] = RemoveAt(@, i)]

ListNext ==
    \E n \in LinkNodes :
        \/ \E e \in LinkNodes : InsertBefore(n, e) \/ InsertAfter(n, e)
        \/ \E r \in Roots : ListAppend(r, n)
        \/ RemoveFromList(n)

ListSpec == ListInit /\ [][ListNext]_listVars

-----------------------------------------------------------------------------
(* Properties *)

\* From the head to the end, and from the tail backwards, a list has the nodes
\* that were inserted and not removed, in order, also when a node goes from one
\* list to another with the pointers it had there.
BothWays ==
    \A r \in Roots :
        LET ring == <<r>> \o order[r] \o <<r>> IN
        \A i \in 1 .. Len(ring) - 1 : next_[ring[i]] = ring[i + 1] /\ previous_[ring[i + 1]] = ring[i]
=============================================================================
