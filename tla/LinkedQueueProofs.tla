------------------------- MODULE LinkedQueueProofs -------------------------
(***************************************************************************)
(* LinkedQueue is a FIFO queue, and a node it has answered is not touched  *)
(* again, for any number of pushers and nodes.                             *)
(***************************************************************************)
EXTENDS LinkedQueue, TLAPS

\* The nodes of the queue are nodes.
LEMMA InQueue ==
  ASSUME QueueInv
  PROVE  /\ First \in Nat /\ Last \in Nat /\ \A k \in First .. Last : At(k) \in AllNodes
         /\ \A k \in First + 1 .. Last : At(k) \in Nodes
BY DEF QueueInv, TypeOK, First, Last, At, AllNodes

\* The successor that the consumer has seen is a node of the queue.
LEMMA NextInQueue ==
  ASSUME QueueInv, cpc \in {"read", "cas"}
  PROVE  next[p] \in Nodes
<1>1. next[p] = At(First + 1) /\ First < Last
  BY DEF QueueInv, Current
<1> QED
  BY <1>1, InQueue

\* A pusher that is about to link links two nodes of the queue.
LEMMA LinkInQueue ==
  ASSUME QueueInv, NEW t \in Pushers, pc[t] = "link"
  PROVE  \E j, k \in First .. Last : loc[t].p = At(j) /\ loc[t].node = At(k)
<1>1. PICK k \in First .. Last - 1 : LinksAt(t, k)
  BY DEF QueueInv, Linked
<1> QED
  BY <1>1, InQueue DEF LinksAt

\* A step keeps the types.
LEMMA TypeStep ==
  ASSUME QueueInv, [Next]_vars
  PROVE  TypeOK'
<1>1. ASSUME NEW t \in Pushers, NEW n \in own, PushClear(t, n) PROVE TypeOK'
  BY <1>1 DEF QueueInv, PushClear, NextCleared, Goto, consumer, TypeOK, AllNodes
<1>2. ASSUME NEW t \in Pushers, PushExchange(t) PROVE TypeOK'
  <2>1. loc[t].node \in Nodes
    BY <1>2 DEF QueueInv, Apart, PushExchange
  <2> QED
    BY <1>2, <2>1 DEF QueueInv, TypeOK, PushExchange, Goto, AllNodes, consumer
<1>3. ASSUME NEW t \in Pushers, PushLink(t) PROVE TypeOK'
  BY <1>3 DEF QueueInv, PushLink, LinkStored, Goto, consumer, TypeOK, AllNodes
<1>4. CASE PopLoad
  BY <1>4 DEF QueueInv, PopLoad, consumer, TypeOK, AllNodes
<1>5. CASE PopTest
  BY <1>5 DEF QueueInv, PopTest, HasNext, consumer, TypeOK, AllNodes
<1>6. CASE PopRead
  BY <1>6 DEF QueueInv, TypeOK, Current, PopRead
<1>7. CASE PopCas
  <2>1. p \in AllNodes /\ nx \in AllNodes
    BY <1>7, NextInQueue DEF QueueInv, TypeOK, Current, PopCas, AllNodes
  <2> QED
    BY <1>7, <2>1 DEF QueueInv, TypeOK, PopCas, Answer
<1>8. CASE PopFail
  BY <1>8 DEF QueueInv, PopFail, consumer, TypeOK, AllNodes
<1>9. CASE UNCHANGED vars
  BY <1>9 DEF QueueInv, vars, consumer, TypeOK, AllNodes
<1> QED
  BY <1>1, <1>2, <1>3, <1>4, <1>5, <1>6, <1>7, <1>8, <1>9 DEF Next, Push, Pop

\* A step keeps the order.
LEMMA FifoStep ==
  ASSUME QueueInv, TypeOK', [Next]_vars
  PROVE  Fifo'
<1>1. ASSUME NEW t \in Pushers, NEW n \in own, PushClear(t, n) PROVE Fifo'
  BY <1>1 DEF QueueInv, PushClear, NextCleared, Goto, consumer, Fifo, At, First, Last, TypeOK, AllNodes, Current
<1>2. ASSUME NEW t \in Pushers, PushExchange(t) PROVE Fifo'
  BY <1>2 DEF QueueInv, PushExchange, Goto, consumer, Fifo, At, First, Last, TypeOK, AllNodes, Current
<1>3. ASSUME NEW t \in Pushers, PushLink(t) PROVE Fifo'
  BY <1>3 DEF QueueInv, PushLink, LinkStored, Goto, consumer, Fifo, At, First, Last, TypeOK, AllNodes, Current
<1>4. CASE PopLoad
  BY <1>4 DEF QueueInv, PopLoad, consumer, Fifo, At, First, Last, TypeOK, AllNodes, Current
<1>5. CASE PopTest
  BY <1>5 DEF QueueInv, PopTest, HasNext, consumer, Fifo, At, First, Last, TypeOK, AllNodes, Current
<1>6. CASE PopRead
  BY <1>6 DEF QueueInv, PopRead, consumer, Fifo, At, First, Last, TypeOK, AllNodes, Current
<1>7. CASE PopCas
  <2>1. /\ First' = First + 1 /\ Last' = Last /\ First < Last /\ First \in Nat /\ Last \in Nat
        /\ order' = order /\ popped' = Append(popped, head) /\ head' = At(First + 1)
    BY <1>7 DEF QueueInv, TypeOK, Current, PopCas, Answer, First, Last
  <2>2. \A k \in 1 .. First : popped'[k] = popped[k]
    BY <2>1 DEF QueueInv, TypeOK, First
  <2>3. popped'[First + 1] = head
    BY <2>1 DEF QueueInv, TypeOK, First
  <2>4. \A k \in Nat : At(k)' = At(k)
    BY <2>1 DEF At
  <2>5. \A k \in 1 .. First' : popped'[k] = At(k - 1)'
    <3>1. SUFFICES ASSUME NEW k \in 1 .. First'
                   PROVE  popped'[k] = At(k - 1)
      <4>1. \A k \in 1 .. First' : k - 1 \in Nat
        BY <2>1
      <4> QED
        BY <2>4, <4>1
    <3>2. CASE k = First + 1
      <4>1. k - 1 = First
        BY <2>1, <3>2
      <4>2. popped'[k] = head /\ head = At(First)
        BY <2>3, <3>2 DEF QueueInv, Fifo
      <4> QED
        BY <4>1, <4>2
    <3>3. CASE k # First + 1
      <4>1. k \in 1 .. First
        BY <2>1, <3>3
      <4> QED
        BY <2>2, <4>1 DEF QueueInv, Fifo
    <3> QED
      BY <3>2, <3>3
  <2> QED
    BY <2>1, <2>5 DEF Fifo, At, First
<1>8. CASE PopFail
  BY <1>8 DEF QueueInv, PopFail, consumer, Fifo, At, First, Last, TypeOK, AllNodes, Current
<1>9. CASE UNCHANGED vars
  BY <1>9 DEF QueueInv, vars, consumer, Fifo, At, First, Last, TypeOK, AllNodes, Current
<1> QED
  BY <1>1, <1>2, <1>3, <1>4, <1>5, <1>6, <1>7, <1>8, <1>9 DEF Next, Push, Pop

\* A step keeps the nodes of the queue, of the pushers and of the callers apart.
LEMMA ApartStep ==
  ASSUME QueueInv, TypeOK', [Next]_vars
  PROVE  Apart'
<1>1. ASSUME NEW t \in Pushers, NEW n \in own, PushClear(t, n) PROVE Apart'
  BY <1>1 DEF QueueInv, PushClear, NextCleared, Goto, consumer, Apart, At, First, Last, TypeOK, AllNodes, Fifo, Current
<1>2. ASSUME NEW t \in Pushers, PushExchange(t) PROVE Apart'
  BY <1>2 DEF QueueInv, PushExchange, Goto, consumer, Apart, At, First, Last, TypeOK, AllNodes, Fifo, Current
<1>3. ASSUME NEW t \in Pushers, PushLink(t) PROVE Apart'
  <2>1. \A u \in Pushers : pc[u] = "exchange" => loc[u].node # loc[t].p
    BY <1>3, LinkInQueue DEF QueueInv, Apart, PushLink
  <2>2. \A u \in Pushers \ {t} : loc'[u] = loc[u] /\ pc'[u] = pc[u]
    BY <1>3 DEF QueueInv, TypeOK, PushLink, Goto
  <2>3. \A u \in Pushers : pc[u] = "exchange" => next'[loc[u].node] = next[loc[u].node]
    BY <1>3, <2>1 DEF QueueInv, TypeOK, Apart, AllNodes, PushLink, LinkStored
  <2>4. pc'[t] = "idle" /\ UNCHANGED <<tail, order, popped, own>>
    BY <1>3 DEF QueueInv, TypeOK, PushLink, Goto
  <2> QED
    BY <2>2, <2>3, <2>4 DEF QueueInv, Apart, At, First, Last
<1>4. CASE PopLoad
  BY <1>4 DEF QueueInv, PopLoad, consumer, Apart, At, First, Last, TypeOK, AllNodes, Fifo, Current
<1>5. CASE PopTest
  BY <1>5 DEF QueueInv, PopTest, HasNext, consumer, Apart, At, First, Last, TypeOK, AllNodes, Fifo, Current
<1>6. CASE PopRead
  BY <1>6 DEF QueueInv, PopRead, consumer, Apart, At, First, Last, TypeOK, AllNodes, Fifo, Current
<1>7. CASE PopCas
  <2>1. /\ First' = First + 1 /\ Last' = Last /\ First < Last /\ First \in Nat /\ Last \in Nat
        /\ own' = own \cup ({At(First)} \cap Nodes)
        /\ UNCHANGED <<tail, order, next, pc, loc>>
    BY <1>7 DEF QueueInv, TypeOK, Fifo, Current, PopCas, Answer, First, Last
  <2>2. \A k \in Nat : At(k)' = At(k)
    BY <2>1 DEF At
  <2>3. tail' = At(Last)'
    BY <2>1 DEF QueueInv, Apart, At, Last
  <2>4. \A k \in First' .. Last' : k \in First .. Last /\ At(k) # At(First) /\ At(k)' = At(k)
    BY <2>1, <2>2 DEF QueueInv, Apart
  <2>5. \A u \in Pushers : pc[u] = "exchange" => loc[u].node # At(First)
    BY <2>1 DEF QueueInv, Apart
  <2> QED
    BY <2>1, <2>3, <2>4, <2>5 DEF QueueInv, Apart
<1>8. CASE PopFail
  BY <1>8 DEF QueueInv, PopFail, consumer, Apart, At, First, Last, TypeOK, AllNodes, Fifo, Current
<1>9. CASE UNCHANGED vars
  BY <1>9 DEF QueueInv, vars, consumer, Apart, At, First, Last, TypeOK, AllNodes, Fifo, Current
<1> QED
  BY <1>1, <1>2, <1>3, <1>4, <1>5, <1>6, <1>7, <1>8, <1>9 DEF Next, Push, Pop

\* A step keeps the queue linked, but for the links about to be stored.
LEMMA LinkedStep ==
  ASSUME QueueInv, TypeOK', [Next]_vars
  PROVE  Linked'
<1>1. ASSUME NEW t \in Pushers, NEW n \in own, PushClear(t, n) PROVE Linked'
  <2>1. /\ \A k \in First .. Last : At(k) \in AllNodes /\ next'[At(k)] = next[At(k)]
        /\ First \in Nat /\ Last \in Nat /\ First <= Last
    BY <1>1, InQueue DEF QueueInv, TypeOK, Apart, Fifo, AllNodes, PushClear, NextCleared
  <2>2. /\ pc[t] = "idle" /\ pc'[t] = "exchange"
        /\ \A u \in Pushers \ {t} : loc'[u] = loc[u] /\ pc'[u] = pc[u]
    BY <1>1 DEF QueueInv, TypeOK, PushClear, Goto
  <2>3. order' = order /\ popped' = popped
    BY <1>1 DEF PushClear
  <2>4. \A k \in Nat : At(k)' = At(k)
    BY <2>3 DEF At
  <2>5. \A u \in Pushers, k \in Nat : LinksAt(u, k)' <=> LinksAt(u, k)
    BY <2>2, <2>4 DEF LinksAt
  <2>6. First' = First /\ Last' = Last /\ At(Last)' = At(Last)
    BY <2>3 DEF First, Last, At
  <2>7. next'[At(Last)'] = Null
    BY <2>1, <2>6 DEF QueueInv, Linked
  <2>8. ASSUME NEW k \in First .. Last - 1
        PROVE  \/ next'[At(k)'] = At(k + 1)'
               \/ next'[At(k)'] = Null /\ \E u \in Pushers : LinksAt(u, k)'
    BY <2>1, <2>4, <2>5 DEF QueueInv, Linked
  <2>9. ASSUME NEW u \in Pushers, pc'[u] = "link"
        PROVE  \E k \in First .. Last - 1 : LinksAt(u, k)' /\ next'[At(k)'] = Null
    BY <2>1, <2>2, <2>4, <2>5, <2>9 DEF QueueInv, Linked
  <2>10. \A u, w \in Pushers : pc'[u] = "link" /\ pc'[w] = "link" /\ loc'[u].node = loc'[w].node => u = w
    BY <2>2 DEF QueueInv, Linked
  <2> QED
    BY <2>6, <2>7, <2>8, <2>9, <2>10 DEF Linked
<1>2. ASSUME NEW t \in Pushers, PushExchange(t) PROVE Linked'
  <2>0. PICK n \in Nodes, m \in Nat : n = loc[t].node /\ m = Last
    <3>1. loc[t].node \in Nodes
      BY <1>2 DEF QueueInv, Apart, PushExchange
    <3>2. Last \in Nat
      BY DEF QueueInv, TypeOK, Last
    <3> QED
      BY <3>1, <3>2
  <2>1. /\ First \in Nat /\ First' = First /\ Last' = m + 1 /\ First <= m
        /\ order' = Append(order, n) /\ next' = next /\ next[n] = Null
    BY <1>2, <2>0 DEF QueueInv, TypeOK, Fifo, Apart, PushExchange, First, Last
  <2>2. \A k \in 0 .. m : At(k)' = At(k)
    BY <2>0, <2>1 DEF QueueInv, TypeOK, At, Last
  <2>3. At(m + 1)' = n
    BY <2>0, <2>1 DEF QueueInv, TypeOK, At, Last
  <2>4. /\ pc'[t] = "link" /\ loc'[t].node = n /\ loc'[t].p = At(m)
        /\ \A u \in Pushers \ {t} : loc'[u] = loc[u] /\ pc'[u] = pc[u]
        /\ pc[t] = "exchange"
    BY <1>2, <2>0 DEF QueueInv, TypeOK, Apart, PushExchange, Goto
  <2>5. LinksAt(t, m)'
    BY <2>1, <2>2, <2>3, <2>4 DEF LinksAt
  <2>6. \A u \in Pushers, k \in First .. m - 1 : LinksAt(u, k) => LinksAt(u, k)'
    BY <2>1, <2>2, <2>4 DEF LinksAt
  <2>7. next'[At(Last)'] = Null
    BY <2>1, <2>3 DEF At, Last
  <2>8. ASSUME NEW k \in First .. m
        PROVE  \/ next'[At(k)'] = At(k + 1)'
               \/ next'[At(k)'] = Null /\ \E u \in Pushers : LinksAt(u, k)'
    <3>1. CASE k = m
      BY <2>0, <2>1, <2>2, <2>5, <3>1 DEF QueueInv, Linked
    <3>2. CASE k # m
      <4>1. k \in First .. m - 1 /\ At(k)' = At(k) /\ At(k + 1)' = At(k + 1)
        BY <2>1, <2>2, <3>2
      <4> QED
        BY <2>0, <2>1, <2>6, <4>1 DEF QueueInv, Linked
    <3> QED
      BY <3>1, <3>2
  <2>9. ASSUME NEW u \in Pushers, pc'[u] = "link"
        PROVE  \E k \in First .. m : LinksAt(u, k)' /\ next'[At(k)'] = Null
    <3>1. CASE u = t
      BY <2>0, <2>1, <2>2, <2>5, <3>1 DEF QueueInv, Linked
    <3>2. CASE u # t
      <4>1. PICK k \in First .. m - 1 : LinksAt(u, k) /\ next[At(k)] = Null
        BY <2>0, <2>4, <2>9, <3>2 DEF QueueInv, Linked
      <4>2. LinksAt(u, k)' /\ next'[At(k)'] = Null
        BY <2>1, <2>2, <2>6, <4>1
      <4> QED
        BY <2>1, <4>2
    <3> QED
      BY <3>1, <3>2
  <2>10. \A u \in Pushers \ {t} : pc[u] = "link" => loc[u].node # n
    BY <1>2, <2>0, <2>4, LinkInQueue DEF QueueInv, Apart
  <2>11. \A u, w \in Pushers : pc'[u] = "link" /\ pc'[w] = "link" /\ loc'[u].node = loc'[w].node => u = w
    BY <2>4, <2>10 DEF QueueInv, Linked
  <2>12. First' = First /\ Last' - 1 = m
    BY <2>1
  <2> QED
    BY <2>7, <2>8, <2>9, <2>11, <2>12 DEF Linked
<1>3. ASSUME NEW t \in Pushers, PushLink(t) PROVE Linked'
  <2>0. PICK j \in First .. Last - 1 : LinksAt(t, j) /\ next[At(j)] = Null
    BY <1>3 DEF QueueInv, Linked, PushLink
  <2>1. /\ First \in Nat /\ Last \in Nat /\ j \in Nat /\ order' = order /\ popped' = popped
        /\ next' = [next EXCEPT ![At(j)] = At(j + 1)]
        /\ pc'[t] = "idle" /\ \A u \in Pushers \ {t} : loc'[u] = loc[u] /\ pc'[u] = pc[u]
    BY <1>3, <2>0 DEF QueueInv, TypeOK, PushLink, LinkStored, LinksAt, Goto, First, Last
  <2>2. \A k \in Nat : At(k)' = At(k)
    BY <2>1 DEF At
  <2>3. First' = First /\ Last' = Last /\ At(Last)' = At(Last)
    BY <2>1 DEF First, Last, At
  <2>4. next'[At(j)] = At(j + 1) /\ \A k \in First .. Last : k # j => next'[At(k)] = next[At(k)]
    BY <2>0, <2>1, InQueue DEF QueueInv, TypeOK, Apart
  <2>5. \A u \in Pushers \ {t}, k \in Nat : LinksAt(u, k)' <=> LinksAt(u, k)
    BY <2>1, <2>2 DEF LinksAt
  <2>6. \A u \in Pushers, k \in First .. Last - 1 : LinksAt(u, k) /\ k = j => u = t
    BY <2>0 DEF QueueInv, Linked, LinksAt
  <2>7. next'[At(Last)'] = Null
    BY <2>1, <2>3, <2>4 DEF QueueInv, Linked
  <2>8. ASSUME NEW k \in First .. Last - 1
        PROVE  \/ next'[At(k)'] = At(k + 1)'
               \/ next'[At(k)'] = Null /\ \E u \in Pushers : LinksAt(u, k)'
    <3>0. k \in Nat /\ At(k)' = At(k) /\ At(k + 1)' = At(k + 1)
      BY <2>1, <2>2
    <3>1. CASE k = j
      BY <2>4, <3>0, <3>1
    <3>2. CASE k # j
      <4>1. next'[At(k)] = next[At(k)]
        BY <2>1, <2>4, <3>2
      <4>2. ~LinksAt(t, k)
        BY <2>0, <2>1, <3>2 DEF QueueInv, Apart, LinksAt
      <4> QED
        BY <2>5, <3>0, <4>1, <4>2 DEF QueueInv, Linked
    <3> QED
      BY <3>1, <3>2
  <2>9. ASSUME NEW u \in Pushers, pc'[u] = "link"
        PROVE  \E k \in First .. Last - 1 : LinksAt(u, k)' /\ next'[At(k)'] = Null
    <3>1. u # t /\ pc[u] = "link"
      BY <2>1, <2>9
    <3>2. PICK k \in First .. Last - 1 : LinksAt(u, k) /\ next[At(k)] = Null
      BY <3>1 DEF QueueInv, Linked
    <3>3. k # j /\ k \in Nat /\ k \in First .. Last
      BY <2>1, <2>6, <3>1, <3>2
    <3> QED
      BY <2>2, <2>4, <2>5, <3>1, <3>2, <3>3
  <2>10. \A u, w \in Pushers : pc'[u] = "link" /\ pc'[w] = "link" /\ loc'[u].node = loc'[w].node => u = w
    BY <2>1 DEF QueueInv, Linked
  <2> QED
    BY <2>3, <2>7, <2>8, <2>9, <2>10 DEF Linked
<1>4. CASE PopLoad
  <2>1. UNCHANGED <<next, order, popped, pc, loc>>
    BY <1>4 DEF PopLoad
  <2> QED
    BY <2>1 DEF QueueInv, Linked, LinksAt, At, First, Last
<1>5. CASE PopTest
  <2>1. UNCHANGED <<next, order, popped, pc, loc>>
    BY <1>5 DEF PopTest
  <2> QED
    BY <2>1 DEF QueueInv, Linked, LinksAt, At, First, Last
<1>6. CASE PopRead
  <2>1. UNCHANGED <<next, order, popped, pc, loc>>
    BY <1>6 DEF PopRead
  <2> QED
    BY <2>1 DEF QueueInv, Linked, LinksAt, At, First, Last
<1>7. CASE PopCas
  <2>1. /\ First' = First + 1 /\ Last' = Last /\ First < Last /\ First \in Nat /\ Last \in Nat
        /\ UNCHANGED <<order, next, pc, loc>>
    BY <1>7 DEF QueueInv, TypeOK, Current, PopCas, First, Last
  <2>2. /\ \A k \in Nat : At(k)' = At(k)
        /\ \A u \in Pushers, k \in Nat : LinksAt(u, k)' <=> LinksAt(u, k)
    BY <2>1 DEF At, LinksAt
  <2>3. next[At(First)] # Null
    BY <1>7, NextInQueue, NodesAssumption DEF QueueInv, Fifo, Current, PopCas
  <2>4. At(Last)' = At(Last)
    BY <2>1 DEF At, Last
  <2>5. \A u \in Pushers : pc[u] = "link" =>
          \E k \in First + 1 .. Last - 1 : LinksAt(u, k) /\ next[At(k)] = Null
    BY <2>1, <2>3 DEF QueueInv, Linked
  <2>6. \A k \in First + 1 .. Last - 1 :
          \/ next[At(k)] = At(k + 1)
          \/ next[At(k)] = Null /\ \E u \in Pushers : LinksAt(u, k)
    BY <2>1 DEF QueueInv, Linked
  <2>7. next'[At(Last)'] = Null
    BY <2>1, <2>4 DEF QueueInv, Linked
  <2>8. \A u, w \in Pushers : pc'[u] = "link" /\ pc'[w] = "link" /\ loc'[u].node = loc'[w].node => u = w
    BY <2>1 DEF QueueInv, Linked
  <2>9. \A k \in First + 1 .. Last - 1 :
          \/ next'[At(k)'] = At(k + 1)'
          \/ next'[At(k)'] = Null /\ \E u \in Pushers : LinksAt(u, k)'
    BY <2>1, <2>2, <2>6
  <2>10. \A u \in Pushers : pc'[u] = "link" =>
          \E k \in First + 1 .. Last - 1 : LinksAt(u, k)' /\ next'[At(k)'] = Null
    BY <2>1, <2>2, <2>5
  <2> QED
    BY <2>1, <2>7, <2>8, <2>9, <2>10 DEF Linked
<1>8. CASE PopFail
  <2>1. UNCHANGED <<next, order, popped, pc, loc>>
    BY <1>8 DEF PopFail
  <2> QED
    BY <2>1 DEF QueueInv, Linked, LinksAt, At, First, Last
<1>9. CASE UNCHANGED vars
  BY <1>9 DEF QueueInv, vars, consumer, Linked, LinksAt, At, First, Last, TypeOK, AllNodes, Apart, Fifo, Current
<1> QED
  BY <1>1, <1>2, <1>3, <1>4, <1>5, <1>6, <1>7, <1>8, <1>9 DEF Next, Push, Pop

\* A step leaves what the consumer has read true.
LEMMA CurrentStep ==
  ASSUME QueueInv, TypeOK', [Next]_vars
  PROVE  Current'
<1>1. ASSUME NEW t \in Pushers, NEW n \in own, PushClear(t, n) PROVE Current'
  BY <1>1 DEF QueueInv, PushClear, NextCleared, Goto, consumer, Current, At, First, Last, TypeOK, AllNodes, Apart, Fifo, Linked, LinksAt
<1>2. ASSUME NEW t \in Pushers, PushExchange(t) PROVE Current'
  BY <1>2 DEF QueueInv, PushExchange, Goto, consumer, Current, At, First, Last, TypeOK, AllNodes, Apart, Fifo, Linked, LinksAt
<1>3. ASSUME NEW t \in Pushers, PushLink(t) PROVE Current'
  BY <1>3 DEF QueueInv, PushLink, LinkStored, Goto, consumer, Current, At, First, Last, TypeOK, AllNodes, Apart, Fifo, Linked, LinksAt
<1>4. CASE PopLoad
  BY <1>4 DEF QueueInv, PopLoad, consumer, Current, At, First, Last, TypeOK, AllNodes, Apart, Fifo, Linked, LinksAt
<1>5. CASE PopTest
  BY <1>5 DEF QueueInv, PopTest, HasNext, consumer, Current, At, First, Last, TypeOK, AllNodes, Apart, Fifo, Linked, LinksAt
<1>6. CASE PopRead
  BY <1>6 DEF QueueInv, PopRead, consumer, Current, At, First, Last, TypeOK, AllNodes, Apart, Fifo, Linked, LinksAt
<1>7. CASE PopCas
  BY <1>7 DEF QueueInv, PopCas, Answer, consumer, Current, At, First, Last, TypeOK, AllNodes, Apart, Fifo, Linked, LinksAt
<1>8. CASE PopFail
  BY <1>8 DEF QueueInv, PopFail, consumer, Current, At, First, Last, TypeOK, AllNodes, Apart, Fifo, Linked, LinksAt
<1>9. CASE UNCHANGED vars
  BY <1>9 DEF QueueInv, vars, consumer, Current, At, First, Last, TypeOK, AllNodes, Apart, Fifo, Linked, LinksAt
<1> QED
  BY <1>1, <1>2, <1>3, <1>4, <1>5, <1>6, <1>7, <1>8, <1>9 DEF Next, Push, Pop

\* For any number of pushers and nodes, the queue is linked as QueueInv says.
THEOREM QueueInvariant == Spec => []QueueInv
<1>1. Init => QueueInv
  BY NodesAssumption
  DEF Init, QueueInv, TypeOK, Fifo, Apart, Linked, Current, At, First, Last, AllNodes
<1>2. QueueInv /\ [Next]_vars => QueueInv'
  BY TypeStep, FifoStep, ApartStep, LinkedStep, CurrentStep DEF QueueInv
<1> QED
  BY <1>1, <1>2, PTL DEF Spec

\* pop_front answers what was pushed, in the order of the exchanges of tail_.
THEOREM QueueIsFifo == Spec => []Fifo
<1>1. QueueInv => Fifo
  BY DEF QueueInv
<1> QED
  BY <1>1, QueueInvariant, PTL

\* A node that pop_front has answered may be freed or pushed again at once.
THEOREM PoppedIsUntouched == Spec => []Untouched
<1>1. QueueInv => Untouched
  <2> SUFFICES ASSUME QueueInv, NEW n \in own PROVE Untouched!(n)
    BY DEF Untouched
  <2>1. \A k \in First .. Last : n # At(k)
    BY DEF QueueInv, Apart
  <2>2. First <= Last /\ head = At(First) /\ tail = At(Last)
    BY DEF QueueInv, Fifo, Apart
  <2>3. n # head /\ n # tail
    BY <2>1, <2>2, InQueue
  <2>4. cpc \in {"test", "read", "cas"} => n # p
    BY <2>3 DEF QueueInv, Current
  <2>5. cpc = "cas" => n # nx
    BY <2>1, InQueue DEF QueueInv, Current
  <2>6. ASSUME NEW t \in Pushers
        PROVE  /\ pc[t] = "link" => n # loc[t].p
               /\ pc[t] \in {"exchange", "link"} => n # loc[t].node
    BY <2>1, LinkInQueue DEF QueueInv, Apart
  <2> QED
    BY <2>3, <2>4, <2>5, <2>6
<1> QED
  BY <1>1, QueueInvariant, PTL
=============================================================================
