---------------------------- MODULE LinkedQueue ----------------------------
(***************************************************************************)
(* LinkedQueue<T> (src/include/p/base/queue.h): any number of threads push *)
(* nodes that they own, one consumer pops them.  pop_front answers the     *)
(* node before the one that becomes the head: first the dummy, then every  *)
(* node once its successor is linked.  Every access to head_, tail_ or a   *)
(* node's next is a step of its own.                                       *)
(***************************************************************************)
EXTENDS Naturals, Sequences, FiniteSets

CONSTANTS
    Pushers,
    Nodes,    \* the callers' nodes
    dummy,    \* dummy_
    Null,     \* nullptr
    MaxPush   \* bound: calls of push_back

ASSUME NodesAssumption == dummy \notin Nodes /\ Null \notin Nodes /\ Null # dummy
ASSUME MaxPushAssumption == MaxPush \in Nat

AllNodes == Nodes \cup {dummy}

VARIABLES
    head, tail,   \* head_ and tail_
    next,         \* T::next of every node
    own,          \* the nodes that belong to callers: never pushed, or popped
    pc, loc,      \* the pushers, and the locals of push_back
    cpc, p, nx,   \* the consumer, and the locals of pop_front
    order,        \* history: the nodes in the order of the exchanges of tail_
    popped        \* history: the nodes that pop_front answered

vars == <<head, tail, next, own, pc, loc, cpc, p, nx, order, popped>>
consumer == <<cpc, p, nx>>

Init ==
    /\ head = dummy /\ tail = dummy
    /\ next = [n \in AllNodes |-> Null]
    /\ own = Nodes
    /\ pc = [t \in Pushers |-> "idle"]
    /\ loc = [t \in Pushers |-> [node |-> Null, p |-> Null]]
    /\ cpc = "load" /\ p = Null /\ nx = Null
    /\ order = <<>> /\ popped = <<>>

Goto(t, label) == pc' = [pc EXCEPT ![t] = label]

-----------------------------------------------------------------------------
(* push_back *)

Pushing == {t \in Pushers : pc[t] = "exchange"}

\* node->next = nullptr
NextKept(n) == next
NextCleared(n) == [next EXCEPT ![n] = Null]
PushClear(t, n) ==
    /\ pc[t] = "idle" /\ n \in own /\ Len(order) + Cardinality(Pushing) < MaxPush
    /\ own' = own \ {n}
    /\ next' = NextCleared(n)
    /\ loc' = [loc EXCEPT ![t] = [node |-> n, p |-> Null]]
    /\ Goto(t, "exchange")
    /\ UNCHANGED <<head, tail, consumer, order, popped>>

\* p = tail_.exchange(node)
PushExchange(t) ==
    /\ pc[t] = "exchange"
    /\ tail' = loc[t].node
    /\ loc' = [loc EXCEPT ![t].p = tail]
    /\ order' = Append(order, loc[t].node)
    /\ Goto(t, "link")
    /\ UNCHANGED <<head, next, own, consumer, popped>>

\* p->next = node
LinkLost(t) == next
LinkStored(t) == [next EXCEPT ![loc[t].p] = loc[t].node]
PushLink(t) ==
    /\ pc[t] = "link"
    /\ next' = LinkStored(t)
    /\ loc' = [loc EXCEPT ![t] = [node |-> Null, p |-> Null]]
    /\ Goto(t, "idle")
    /\ UNCHANGED <<head, tail, own, consumer, order, popped>>

-----------------------------------------------------------------------------
(* pop_front *)

\* p = head_.load()
PopLoad ==
    /\ cpc = "load"
    /\ p' = head /\ cpc' = "test"
    /\ UNCHANGED <<head, tail, next, own, pc, loc, nx, order, popped>>

\* p->next == nullptr: nothing to pop, and the consumer may call again.
NotEmpty == TRUE
HasNext == next[p] # Null
PopTest ==
    /\ cpc = "test"
    /\ cpc' = IF HasNext THEN "read" ELSE "load"
    /\ UNCHANGED <<head, tail, next, own, pc, loc, p, nx, order, popped>>

\* p->next is read again, for the compare_exchange.
PopRead ==
    /\ cpc = "read"
    /\ nx' = next[p] /\ cpc' = "cas"
    /\ UNCHANGED <<head, tail, next, own, pc, loc, p, order, popped>>

\* head_.compare_exchange_weak(p, p->next): p is answered and is the
\* caller's from now on, except the dummy ...
AnswerNext == nx
Answer == p
PopCas ==
    /\ cpc = "cas" /\ head = p
    /\ head' = nx
    /\ popped' = Append(popped, Answer)
    /\ own' = own \cup ({Answer} \cap Nodes)
    /\ cpc' = "load" /\ p' = Null /\ nx' = Null
    /\ UNCHANGED <<tail, next, pc, loc, order>>

\* ... or it fails, spuriously, and the loop goes round.
PopFail ==
    /\ cpc = "cas"
    /\ cpc' = "load"
    /\ UNCHANGED <<head, tail, next, own, pc, loc, p, nx, order, popped>>

-----------------------------------------------------------------------------
Push(t) == PushExchange(t) \/ PushLink(t)
Pop == PopLoad \/ PopTest \/ PopRead \/ PopCas \/ PopFail

Next ==
    \/ \E t \in Pushers : (\E n \in own : PushClear(t, n)) \/ Push(t)
    \/ Pop

Spec == Init /\ [][Next]_vars

\* Pushers finish their calls; the consumer calls pop_front for ever (as
\* the test program lq.cpp does), and its compare_exchange_weak does not
\* fail spuriously for ever.
FairSpec ==
    /\ Spec
    /\ \A t \in Pushers : WF_vars(Push(t))
    /\ WF_vars(Pop) /\ SF_vars(PopCas)

-----------------------------------------------------------------------------
(* Properties *)

\* Every variable keeps its type.
TypeOK ==
    /\ head \in AllNodes /\ tail \in AllNodes
    /\ next \in [AllNodes -> AllNodes \cup {Null}]
    /\ own \subseteq Nodes
    /\ pc \in [Pushers -> {"idle", "exchange", "link"}]
    /\ loc \in [Pushers -> [node : AllNodes \cup {Null}, p : AllNodes \cup {Null}]]
    /\ cpc \in {"load", "test", "read", "cas"}
    /\ p \in AllNodes \cup {Null} /\ nx \in AllNodes \cup {Null}
    /\ order \in Seq(Nodes) /\ popped \in Seq(AllNodes)

\* The k-th node of the queue: the dummy, then in the order of the exchanges
At(k) == IF k = 0 THEN dummy ELSE order[k]
First == Len(popped)
Last == Len(order)

\* pop_front answers the nodes in the order in which push_back exchanged
\* tail_, each once, whatever the order in which the pushers link them.
Fifo ==
    /\ First <= Last /\ head = At(First)
    /\ \A k \in 1 .. First : popped[k] = At(k - 1)

\* A node that pop_front has answered may be freed or pushed again at once:
\* no pusher will link to it, and neither head_ nor tail_ nor the consumer
\* refers to it.
Untouched ==
    \A n \in own :
        /\ n # head /\ n # tail
        /\ cpc \in {"test", "read", "cas"} => n # p
        /\ cpc = "cas" => n # nx
        /\ \A t \in Pushers :
              /\ pc[t] = "link" => n # loc[t].p
              /\ pc[t] \in {"exchange", "link"} => n # loc[t].node

\* The nodes in the queue, those about to be exchanged and the callers' own
\* are all different.
Apart ==
    /\ tail = At(Last)
    /\ \A j, k \in First .. Last : At(j) = At(k) => j = k
    /\ \A k \in First .. Last : At(k) \notin own
    /\ \A t \in Pushers : pc[t] = "exchange" =>
          /\ loc[t].node \in Nodes \ own /\ next[loc[t].node] = Null
          /\ \A k \in First .. Last : loc[t].node # At(k)
          /\ \A u \in Pushers : pc[u] = "exchange" /\ loc[u].node = loc[t].node => u = t

LinksAt(t, k) == pc[t] = "link" /\ loc[t].p = At(k) /\ loc[t].node = At(k + 1)

\* Every node in the queue points to the next one, or the pusher of the next
\* one is about to link it.
Linked ==
    /\ next[At(Last)] = Null
    /\ \A k \in First .. Last - 1 :
          \/ next[At(k)] = At(k + 1)
          \/ next[At(k)] = Null /\ \E t \in Pushers : LinksAt(t, k)
    /\ \A t \in Pushers : pc[t] = "link" =>
          \E k \in First .. Last - 1 : LinksAt(t, k) /\ next[At(k)] = Null
    /\ \A t, u \in Pushers :
          pc[t] = "link" /\ pc[u] = "link" /\ loc[t].node = loc[u].node => t = u

\* What the consumer has read is still so.
Current ==
    /\ cpc \in {"test", "read", "cas"} => p = head
    /\ cpc \in {"read", "cas"} => First < Last /\ next[p] = At(First + 1)
    /\ cpc = "cas" => nx = next[p]

\* The inductive invariant of the queue.
QueueInv == TypeOK /\ Fifo /\ Apart /\ Linked /\ Current

\* A node is held back until the next one is pushed, and no longer.
Delivered ==
    \A k \in 1 .. MaxPush : Len(order) > k ~> Len(popped) > k
=============================================================================
