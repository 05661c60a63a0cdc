--------------------------- MODULE UtilityProofs ---------------------------
(***************************************************************************)
(* LockFreeStack, for any number of threads, nodes and stacks; and the     *)
(* parts that one thread uses by itself: SocketFd, LogDate, LinkedList,    *)
(* Arena and LogStream, for any number of objects, descriptors, nodes,     *)
(* lists, allocations and statements.                                      *)
(***************************************************************************)
EXTENDS LockFreeStack, LogStream, SocketFd, LogDate, LinkedList, Arena,
        WellFoundedInduction, TLAPS

-----------------------------------------------------------------------------
(* LockFreeStack: the stacks are linked right and their nodes are in one   *)
(* place, and push and pop are atomic.                                     *)

\* The word in head_ is the top of the stack, or 0.
LEMMA Top ==
  ASSUME StackInv, NEW s \in Stacks
  PROVE  /\ head[s] = Null => stk[s] = <<>>
         /\ head[s] # Null => /\ Len(stk[s]) \in Nat \ {0} /\ stk[s][Len(stk[s])] \in Ids
                             /\ head[s] = Val(stk[s][Len(stk[s])])
<1>1. Len(stk[s]) \in Nat /\ head[s] = Link(s, Len(stk[s]))
  BY DEF StackInv, TypeOK, Linked
<1>2. CASE Len(stk[s]) = 0
  BY <1>1, <1>2 DEF Link, StackInv, TypeOK
<1>3. CASE Len(stk[s]) # 0
  <2>1. stk[s][Len(stk[s])] \in Ids /\ head[s] = Val(stk[s][Len(stk[s])])
    BY <1>1, <1>3 DEF Link, StackInv, TypeOK
  <2>2. head[s] # Null
    BY <2>1, IdsAssumption DEF Val, Null
  <2> QED
    BY <1>1, <1>3, <2>1, <2>2
<1> QED
  BY <1>2, <1>3

\* What a successful pop takes is the top of its stack; the rest stays.
LEMMA Popped ==
  ASSUME StackInv, NEW t \in Threads, PopCas(t)
  PROVE  /\ loc[t].s \in Stacks /\ loc[t].p \in Values
         /\ Len(stk[loc[t].s]) \in Nat \ {0} /\ loc[t].p = Val(stk[loc[t].s][Len(stk[loc[t].s])])
         /\ loc[t].p.id = stk[loc[t].s][Len(stk[loc[t].s])] /\ loc[t].p.ver = ver[loc[t].p.id]
         /\ Len(stk'[loc[t].s]) = Len(stk[loc[t].s]) - 1
         /\ \A r \in Stacks \ {loc[t].s} : stk'[r] = stk[r]
         /\ \A r \in Stacks : \A k \in 1 .. Len(stk'[r]) :
               /\ k \in 1 .. Len(stk[r]) /\ stk'[r][k] = stk[r][k]
               /\ r = loc[t].s => k # Len(stk[r])
<1> DEFINE s == loc[t].s
<1>1. s \in Stacks /\ loc[t].p \in Values /\ head[s] = loc[t].p
  BY DEF StackInv, TypeOK, Read, PopCas, HeadIs, Locals
<1>2. head[s] # Null
  BY <1>1, IdsAssumption DEF Values, Null
<1>3. Len(stk[s]) \in Nat \ {0} /\ loc[t].p = Val(stk[s][Len(stk[s])])
  BY <1>1, <1>2, Top
<1>4. loc[t].p.id = stk[s][Len(stk[s])] /\ loc[t].p.ver = ver[loc[t].p.id]
  BY <1>3 DEF Val
<1>5. stk' = [stk EXCEPT ![s] = SubSeq(stk[s], 1, Len(stk[s]) - 1)]
  BY DEF PopCas
<1>6. /\ Len(stk'[s]) = Len(stk[s]) - 1
      /\ \A k \in 1 .. Len(stk[s]) - 1 : stk'[s][k] = stk[s][k]
      /\ \A r \in Stacks \ {s} : stk'[r] = stk[r]
  BY <1>1, <1>3, <1>5 DEF StackInv, TypeOK
<1>7. \A r \in Stacks : Len(stk[r]) \in Nat
  BY DEF StackInv, TypeOK
<1>8. ASSUME NEW r \in Stacks, NEW k \in 1 .. Len(stk'[r])
      PROVE  /\ k \in 1 .. Len(stk[r]) /\ stk'[r][k] = stk[r][k]
             /\ r = s => k # Len(stk[r])
  <2>1. CASE r = s
    BY <1>3, <1>6, <2>1
  <2>2. CASE r # s
    BY <1>6, <2>2
  <2> QED
    BY <2>1, <2>2
<1> HIDE DEF s
<1> QED
  BY <1>1, <1>3, <1>4, <1>6, <1>8 DEF s

\* The steps that only change the locals of one push or pop.
LEMMA Locally ==
  ASSUME StackInv, NEW t \in Threads,
         PushLoad(t) \/ PushRetry(t) \/ PopLoad(t) \/ PopNext(t) \/ PopRetry(t)
  PROVE  /\ UNCHANGED <<head, next, held, stk, ver>>
         /\ loc'[t].value = loc[t].value
         /\ \A u \in Threads : Pushing(u)' <=> Pushing(u)
         /\ \A u \in Threads \ {t} : loc'[u] = loc[u] /\ pc'[u] = pc[u]
<1> USE DEF StackInv, TypeOK, Locals, Goto, Pushing, PushPCs
<1>1. CASE PushLoad(t)
  BY <1>1 DEF PushLoad
<1>2. CASE PushRetry(t)
  BY <1>2 DEF PushRetry, RetryAtLoad
<1>3. CASE PopLoad(t)
  BY <1>3 DEF PopLoad
<1>4. CASE PopNext(t)
  BY <1>4 DEF PopNext
<1>5. CASE PopRetry(t)
  BY <1>5 DEF PopRetry
<1> QED
  BY <1>1, <1>2, <1>3, <1>4, <1>5

\* A step keeps the types.
LEMMA TypeStep ==
  ASSUME StackInv, [StackNext]_stackVars
  PROVE  TypeOK'
<1>1. ASSUME NEW t \in Threads, NEW s \in Stacks, NEW v \in held, PushStart(t, s, v) PROVE TypeOK'
  BY <1>1
  DEF StackInv, PushStart, Goto, NextVersion, TypeOK, PushPCs, PopPCs, Locals, Words, Null,
      Values
<1>2. ASSUME NEW t \in Threads, PushLoad(t) PROVE TypeOK'
  <2>1. head[loc[t].s] \in Words
    BY DEF StackInv, TypeOK, Locals
  <2>2. loc' \in [Threads -> Locals]
    BY <1>2, <2>1 DEF StackInv, TypeOK, PushLoad, Locals
  <2> QED
    BY <1>2, <2>2 DEF StackInv, TypeOK, PushLoad, Goto, PushPCs
<1>3. ASSUME NEW t \in Threads, PushLink(t) PROVE TypeOK'
  BY <1>3 DEF StackInv, PushLink, Goto, TypeOK, PushPCs, PopPCs, Locals, Words, Null, Values
<1>4. ASSUME NEW t \in Threads, PushCas(t) PROVE TypeOK'
  <2>1. loc[t].s \in Stacks /\ loc[t].value \in Values
    BY <1>4 DEF StackInv, TypeOK, Read, Pushing, PushPCs, PushCas, Locals
  <2>2. head' \in [Stacks -> Words] /\ ver' \in [Ids -> Nat]
    BY <1>4, <2>1 DEF StackInv, TypeOK, PushCas, Words, Values
  <2>3. stk' \in [Stacks -> Seq(Ids)]
    BY <1>4, <2>1 DEF StackInv, TypeOK, PushCas, Values
  <2> QED
    BY <1>4, <2>2, <2>3 DEF StackInv, TypeOK, PushCas, Goto
<1>5. ASSUME NEW t \in Threads, PushRetry(t) PROVE TypeOK'
  <2>1. head[loc[t].s] \in Words
    BY DEF StackInv, TypeOK, Locals
  <2>2. loc' \in [Threads -> Locals]
    BY <1>5, <2>1 DEF StackInv, TypeOK, PushRetry, Locals
  <2> QED
    BY <1>5, <2>2 DEF StackInv, TypeOK, PushRetry, Goto, RetryAtLoad, PushPCs
<1>6. ASSUME NEW t \in Threads, NEW s \in Stacks, PopStart(t, s) PROVE TypeOK'
  BY <1>6 DEF StackInv, PopStart, Goto, TypeOK, PushPCs, PopPCs, Locals, Words, Null, Values
<1>7. ASSUME NEW t \in Threads, PopLoad(t) PROVE TypeOK'
  <2>1. head[loc[t].s] \in Words
    BY <1>7 DEF StackInv, TypeOK, Locals
  <2>2. loc' \in [Threads -> Locals]
    BY <1>7, <2>1 DEF StackInv, TypeOK, PopLoad, Locals
  <2>3. pc' \in [Threads -> {"idle"} \cup PushPCs \cup PopPCs] /\ got' \in [Threads -> Ids \cup {NoId}]
    BY <1>7 DEF StackInv, TypeOK, PopLoad, Goto, PopPCs
  <2> QED
    BY <1>7, <2>2, <2>3 DEF StackInv, TypeOK, PopLoad
<1>8. ASSUME NEW t \in Threads, PopNext(t) PROVE TypeOK'
  <2>1. next[loc[t].p.id] \in Words
    BY <1>8 DEF StackInv, TypeOK, Read, PopNext, Values
  <2>2. loc' \in [Threads -> Locals]
    BY <1>8, <2>1 DEF StackInv, TypeOK, PopNext, Locals
  <2> QED
    BY <1>8, <2>2 DEF StackInv, TypeOK, PopNext, Goto, PopPCs
<1>9. ASSUME NEW t \in Threads, PopCas(t) PROVE TypeOK'
  <2>1. loc[t].s \in Stacks /\ loc[t].p \in Values /\ loc[t].nx \in Words
    BY <1>9 DEF StackInv, TypeOK, Read, PopCas, Locals
  <2>2. head' \in [Stacks -> Words] /\ held' \subseteq Values /\ got' \in [Threads -> Ids \cup {NoId}]
    BY <1>9, <2>1 DEF StackInv, TypeOK, PopCas, Values
  <2>3. SubSeq(stk[loc[t].s], 1, Len(stk[loc[t].s]) - 1) \in Seq(Ids)
    BY <2>1 DEF StackInv, TypeOK
  <2>4. stk' \in [Stacks -> Seq(Ids)]
    BY <1>9, <2>1, <2>3 DEF StackInv, TypeOK, PopCas
  <2> QED
    BY <1>9, <2>2, <2>4 DEF StackInv, TypeOK, PopCas, Goto
<1>10. ASSUME NEW t \in Threads, PopRetry(t) PROVE TypeOK'
  <2>1. head[loc[t].s] \in Words
    BY DEF StackInv, TypeOK, Locals
  <2>2. loc' \in [Threads -> Locals]
    BY <1>10, <2>1 DEF StackInv, TypeOK, PopRetry, Locals
  <2> QED
    BY <1>10, <2>2 DEF StackInv, TypeOK, PopRetry, Goto, PopPCs
<1>11. CASE UNCHANGED stackVars
  BY <1>11 DEF StackInv, stackVars, TypeOK, PushPCs, PopPCs, Locals, Words, Null, Values
<1> QED
  BY <1>1, <1>2, <1>3, <1>4, <1>5, <1>6, <1>7, <1>8, <1>9, <1>10, <1>11 DEF StackNext

\* A step keeps the locals of push and pop set, and no older than their nodes.
LEMMA ReadStep ==
  ASSUME StackInv, TypeOK', [StackNext]_stackVars
  PROVE  Read'
<1>1. ASSUME NEW t \in Threads, NEW s \in Stacks, NEW v \in held, PushStart(t, s, v) PROVE Read'
  BY <1>1
  DEF StackInv, PushStart, Goto, NextVersion, Read, Pushing, PushPCs, TypeOK, Locals,
      Words, Null, Values
<1>2. ASSUME NEW t \in Threads, PushLoad(t) PROVE Read'
  <2>1. pc'[t] \notin {"next", "cas"}
    BY <1>2 DEF StackInv, TypeOK, PushLoad, Goto
  <2> QED
    BY <1>2, <2>1, Locally DEF StackInv, Read
<1>3. ASSUME NEW t \in Threads, PushLink(t) PROVE Read'
  BY <1>3 DEF StackInv, PushLink, Goto, Read, Pushing, PushPCs, TypeOK, Locals, Words, Null, Values
<1>4. ASSUME NEW t \in Threads, PushCas(t) PROVE Read'
  <2>1. /\ loc[t].value \in Values /\ loc' = loc
        /\ \A i \in Ids : ver[i] \in Nat /\ ver'[i] \in Nat /\ ver[i] <= ver'[i]
    BY <1>4 DEF StackInv, TypeOK, Read, Versioned, Pushing, PushPCs, PushCas, Values
  <2>2. \A u \in Threads : pc'[u] = pc[u] \/ pc'[u] = "idle"
    BY <1>4 DEF StackInv, TypeOK, PushCas, Goto
  <2> QED
    BY <2>1, <2>2 DEF StackInv, Read, Pushing, PushPCs, Values
<1>5. ASSUME NEW t \in Threads, PushRetry(t) PROVE Read'
  <2>1. pc'[t] \notin {"next", "cas"}
    BY <1>5 DEF StackInv, TypeOK, PushRetry, Goto, RetryAtLoad
  <2> QED
    BY <1>5, <2>1, Locally DEF StackInv, Read
<1>6. ASSUME NEW t \in Threads, NEW s \in Stacks, PopStart(t, s) PROVE Read'
  BY <1>6 DEF StackInv, PopStart, Goto, Read, Pushing, PushPCs, TypeOK, Locals, Words, Null, Values
<1>7. ASSUME NEW t \in Threads, PopLoad(t) PROVE Read'
  <2>1. /\ loc'[t].p = head[loc[t].s] /\ loc'[t].value = loc[t].value
        /\ \A u \in Threads \ {t} : loc'[u] = loc[u] /\ pc'[u] = pc[u]
    BY <1>7 DEF StackInv, TypeOK, PopLoad, Goto, Locals
  <2>2. pc'[t] = "next" => head[loc[t].s] \in Values /\ head[loc[t].s].ver <= ver[head[loc[t].s].id]
    <3>1. SUFFICES ASSUME pc'[t] = "next" PROVE head[loc[t].s] \in Values /\ head[loc[t].s].ver <= ver[head[loc[t].s].id]
      OBVIOUS
    <3>2. loc[t].s \in Stacks /\ head[loc[t].s] # Null
      BY <1>7, <3>1 DEF StackInv, TypeOK, PopLoad, Goto, Locals
    <3>3. PICK i \in Ids : head[loc[t].s] = Val(i)
      BY <3>2, Top
    <3>4. ver[i] \in Nat
      BY DEF StackInv, TypeOK
    <3> QED
      BY <3>3, <3>4 DEF Val, Values
  <2>3. pc'[t] \in {"idle", "next"} /\ ver' = ver
    BY <1>7 DEF StackInv, TypeOK, PopLoad, Goto
  <2> QED
    BY <2>1, <2>2, <2>3 DEF StackInv, Read, Pushing, PushPCs
<1>8. ASSUME NEW t \in Threads, PopNext(t) PROVE Read'
  <2>1. loc'[t].p = loc[t].p /\ pc[t] = "next"
    BY <1>8 DEF StackInv, TypeOK, Locals, PopNext
  <2> QED
    BY <1>8, <2>1, Locally DEF StackInv, Read
<1>9. ASSUME NEW t \in Threads, PopCas(t) PROVE Read'
  BY <1>9
  DEF StackInv, PopCas, Goto, HeadIs, Read, Pushing, PushPCs, TypeOK, Locals, Words, Null,
      Values
<1>10. ASSUME NEW t \in Threads, PopRetry(t) PROVE Read'
  <2>1. pc'[t] \notin {"next", "cas"}
    BY <1>10 DEF StackInv, TypeOK, PopRetry, Goto
  <2> QED
    BY <1>10, <2>1, Locally DEF StackInv, Read
<1>11. CASE UNCHANGED stackVars
  BY <1>11 DEF StackInv, stackVars, Read, Pushing, PushPCs, TypeOK, Locals, Words, Null, Values
<1> QED
  BY <1>1, <1>2, <1>3, <1>4, <1>5, <1>6, <1>7, <1>8, <1>9, <1>10, <1>11 DEF StackNext

\* A step leaves every node in one place.
LEMMA ApartStep ==
  ASSUME StackInv, TypeOK', [StackNext]_stackVars
  PROVE  Apart'
<1>1. ASSUME NEW t \in Threads, NEW s \in Stacks, NEW v \in held, PushStart(t, s, v) PROVE Apart'
  BY <1>1
  DEF StackInv, PushStart, Goto, NextVersion, Apart, Read, Pushing, PushPCs, TypeOK,
      Locals, Words, Null, Values
<1>2. ASSUME NEW t \in Threads, PushLoad(t) PROVE Apart'
  BY <1>2, Locally, SMTT(20) DEF StackInv, Apart
<1>3. ASSUME NEW t \in Threads, PushLink(t) PROVE Apart'
  BY <1>3
  DEF StackInv, PushLink, Goto, Apart, Read, Pushing, PushPCs, TypeOK, Locals, Words, Null,
      Values
<1>4. ASSUME NEW t \in Threads, PushCas(t) PROVE Apart'
  <2>0. PICK s \in Stacks, i \in Ids, n \in Nat : s = loc[t].s /\ i = loc[t].value.id /\ n = Len(stk[s])
    BY <1>4 DEF StackInv, TypeOK, Read, PushCas, Pushing, PushPCs, Locals, Values
  <2>1. /\ Pushing(t) /\ ~Pushing(t)' /\ held' = held /\ loc' = loc
        /\ \A u \in Threads : Pushing(u)' => Pushing(u)
    BY <1>4 DEF StackInv, TypeOK, PushCas, Goto, Pushing, PushPCs
  <2>2. /\ Len(stk'[s]) = n + 1 /\ stk'[s][n + 1] = i
        /\ \A k \in 1 .. n : stk'[s][k] = stk[s][k]
        /\ \A r \in Stacks \ {s} : stk'[r] = stk[r]
    BY <1>4, <2>0 DEF StackInv, TypeOK, PushCas
  <2>3. \A r \in Stacks : \A k \in 1 .. Len(stk'[r]) :
          \/ r = s /\ k = n + 1 /\ stk'[r][k] = i
          \/ k \in 1 .. Len(stk[r]) /\ stk'[r][k] = stk[r][k] /\ stk[r][k] # i
    <3> SUFFICES ASSUME NEW r \in Stacks, NEW k \in 1 .. Len(stk'[r])
                 PROVE  \/ r = s /\ k = n + 1 /\ stk'[r][k] = i
                        \/ k \in 1 .. Len(stk[r]) /\ stk'[r][k] = stk[r][k] /\ stk[r][k] # i
      OBVIOUS
    <3>1. \A j \in 1 .. Len(stk[r]) : stk[r][j] # i
      BY <2>0, <2>1 DEF StackInv, Apart
    <3>2. CASE r = s
      <4>1. CASE k = n + 1
        BY <2>2, <3>2, <4>1
      <4>2. CASE k # n + 1
        BY <2>0, <2>2, <3>1, <3>2, <4>2
      <4> QED
        BY <4>1, <4>2
    <3>3. CASE r # s
      BY <2>2, <3>1, <3>3
    <3> QED
      BY <3>2, <3>3
  <2>4. \A v \in held' : v.id # i
    BY <2>0, <2>1 DEF StackInv, Apart
  <2>5. \A u \in Threads : Pushing(u)' => loc'[u].value.id # i
    BY <2>0, <2>1 DEF StackInv, Apart
  <2>6. ASSUME NEW r \in Stacks, NEW k \in 1 .. Len(stk'[r])
        PROVE  /\ \A v \in held' : v.id # stk'[r][k]
               /\ \A u \in Threads : Pushing(u)' => loc'[u].value.id # stk'[r][k]
               /\ \A q \in Stacks : \A j \in 1 .. Len(stk'[q]) :
                     stk'[q][j] = stk'[r][k] => q = r /\ j = k
    BY <2>1, <2>3, <2>4, <2>5 DEF StackInv, Apart
  <2> QED
    BY <2>1, <2>6 DEF StackInv, Apart
<1>5. ASSUME NEW t \in Threads, PushRetry(t) PROVE Apart'
  BY <1>5, Locally, SMTT(20) DEF StackInv, Apart
<1>6. ASSUME NEW t \in Threads, NEW s \in Stacks, PopStart(t, s) PROVE Apart'
  BY <1>6
  DEF StackInv, PopStart, Goto, Apart, Read, Pushing, PushPCs, TypeOK, Locals, Words, Null,
      Values
<1>7. ASSUME NEW t \in Threads, PopLoad(t) PROVE Apart'
  BY <1>7, Locally, SMTT(20) DEF StackInv, Apart
<1>8. ASSUME NEW t \in Threads, PopNext(t) PROVE Apart'
  BY <1>8, Locally, SMTT(20) DEF StackInv, Apart
<1>9. ASSUME NEW t \in Threads, PopCas(t) PROVE Apart'
  <2>1. /\ loc[t].s \in Stacks /\ loc[t].p \in Values
        /\ loc[t].p.id = stk[loc[t].s][Len(stk[loc[t].s])] /\ Len(stk[loc[t].s]) \in Nat \ {0}
    BY <1>9, Popped
  <2>2. held' = held \cup {loc[t].p} /\ loc' = loc /\ \A u \in Threads : Pushing(u)' => Pushing(u)
    BY <1>9 DEF StackInv, TypeOK, PopCas, Goto, Pushing, PushPCs
  <2>3. \A r \in Stacks : \A k \in 1 .. Len(stk'[r]) :
          /\ k \in 1 .. Len(stk[r]) /\ stk'[r][k] = stk[r][k]
          /\ r = loc[t].s => k # Len(stk[r])
    BY <1>9, Popped
  <2> QED
    BY <2>1, <2>2, <2>3 DEF StackInv, Apart
<1>10. ASSUME NEW t \in Threads, PopRetry(t) PROVE Apart'
  BY <1>10, Locally DEF StackInv, Apart
<1>11. CASE UNCHANGED stackVars
  BY <1>11 DEF StackInv, stackVars, Apart, Read, Pushing, PushPCs, TypeOK, Locals, Words, Null, Values
<1> QED
  BY <1>1, <1>2, <1>3, <1>4, <1>5, <1>6, <1>7, <1>8, <1>9, <1>10, <1>11 DEF StackNext

\* A step keeps the versions of held and pushed values.
LEMMA VersionedStep ==
  ASSUME StackInv, TypeOK', [StackNext]_stackVars
  PROVE  Versioned'
<1>1. ASSUME NEW t \in Threads, NEW s \in Stacks, NEW v \in held, PushStart(t, s, v) PROVE Versioned'
  BY <1>1
  DEF StackInv, PushStart, Goto, NextVersion, Apart, Read, Versioned, Pushing, PushPCs,
      TypeOK, Locals, Words, Null, Values
<1>2. ASSUME NEW t \in Threads, PushLoad(t) PROVE Versioned'
  BY <1>2, Locally DEF StackInv, Versioned
<1>3. ASSUME NEW t \in Threads, PushLink(t) PROVE Versioned'
  BY <1>3
  DEF StackInv, PushLink, Goto, Apart, Read, Versioned, Pushing, PushPCs, TypeOK, Locals,
      Words, Null, Values
<1>4. ASSUME NEW t \in Threads, PushCas(t) PROVE Versioned'
  BY <1>4
  DEF StackInv, PushCas, Goto, Apart, Read, Versioned, Pushing, PushPCs, TypeOK, Locals,
      Words, Null, Values
<1>5. ASSUME NEW t \in Threads, PushRetry(t) PROVE Versioned'
  BY <1>5, Locally DEF StackInv, Versioned
<1>6. ASSUME NEW t \in Threads, NEW s \in Stacks, PopStart(t, s) PROVE Versioned'
  BY <1>6
  DEF StackInv, PopStart, Goto, Apart, Read, Versioned, Pushing, PushPCs, TypeOK, Locals,
      Words, Null, Values
<1>7. ASSUME NEW t \in Threads, PopLoad(t) PROVE Versioned'
  BY <1>7, Locally DEF StackInv, Versioned
<1>8. ASSUME NEW t \in Threads, PopNext(t) PROVE Versioned'
  BY <1>8, Locally DEF StackInv, Versioned
<1>9. ASSUME NEW t \in Threads, PopCas(t) PROVE Versioned'
  <2>1. held' = held \cup {loc[t].p} /\ loc[t].p.ver = ver[loc[t].p.id]
    BY <1>9, Popped DEF PopCas
  <2>2. loc' = loc /\ ver' = ver /\ \A u \in Threads : Pushing(u)' => Pushing(u)
    BY <1>9 DEF StackInv, TypeOK, PopCas, Goto, Pushing, PushPCs
  <2> QED
    BY <2>1, <2>2 DEF StackInv, Versioned
<1>10. ASSUME NEW t \in Threads, PopRetry(t) PROVE Versioned'
  BY <1>10, Locally DEF StackInv, Versioned
<1>11. CASE UNCHANGED stackVars
  BY <1>11
  DEF StackInv, stackVars, Apart, Read, Versioned, Pushing, PushPCs, TypeOK, Locals, Words,
      Null, Values
<1> QED
  BY <1>1, <1>2, <1>3, <1>4, <1>5, <1>6, <1>7, <1>8, <1>9, <1>10, <1>11 DEF StackNext

\* A step keeps the links of the stacks in order.
LEMMA LinkedStep ==
  ASSUME StackInv, TypeOK', [StackNext]_stackVars
  PROVE  Linked'
<1>1. ASSUME NEW t \in Threads, NEW s \in Stacks, NEW v \in held, PushStart(t, s, v) PROVE Linked'
  BY <1>1
  DEF StackInv, PushStart, Goto, NextVersion, Apart, Read, Pushing, PushPCs, TypeOK,
      Linked, Link, Val, Ready, Locals, Words, Null, Values
<1>2. ASSUME NEW t \in Threads, PushLoad(t) PROVE Linked'
  <2>1. UNCHANGED <<head, next, stk, ver>>
    BY <1>2, Locally
  <2> QED
    BY <2>1 DEF StackInv, Linked, Link, Val
<1>3. ASSUME NEW t \in Threads, PushLink(t) PROVE Linked'
  BY <1>3
  DEF StackInv, PushLink, Goto, Apart, Read, Pushing, PushPCs, TypeOK, Linked, Link, Val,
      Ready, Locals, Words, Null, Values
<1>4. ASSUME NEW t \in Threads, PushCas(t) PROVE Linked'
  <2>0. PICK s \in Stacks, v \in Values, n \in Nat : s = loc[t].s /\ v = loc[t].value /\ n = Len(stk[s])
    BY <1>4 DEF StackInv, TypeOK, Read, PushCas, Pushing, PushPCs, Locals
  <2>1. Pushing(t) /\ v.id \in Ids
    BY <1>4 DEF PushCas, Pushing, PushPCs, Values
  <2>2. /\ head'[s] = v /\ Len(stk'[s]) = n + 1 /\ stk'[s][n + 1] = v.id
        /\ \A k \in 1 .. n : stk'[s][k] = stk[s][k]
        /\ \A r \in Stacks \ {s} : stk'[r] = stk[r] /\ head'[r] = head[r]
        /\ ver'[v.id] = v.ver /\ \A i \in Ids \ {v.id} : ver'[i] = ver[i]
        /\ next' = next /\ next[v.id] = head[s]
    BY <1>4, <2>0, <2>1 DEF StackInv, TypeOK, PushCas, Ready
  <2>3. \A r \in Stacks : \A k \in 1 .. Len(stk[r]) :
          stk[r][k] \in Ids /\ stk[r][k] # v.id /\ ver'[stk[r][k]] = ver[stk[r][k]]
    <3> SUFFICES ASSUME NEW r \in Stacks, NEW k \in 1 .. Len(stk[r])
                 PROVE  stk[r][k] \in Ids /\ stk[r][k] # v.id /\ ver'[stk[r][k]] = ver[stk[r][k]]
      OBVIOUS
    <3>1. stk[r][k] \in Ids
      BY DEF StackInv, TypeOK
    <3>2. stk[r][k] # v.id
      BY <2>0, <2>1 DEF StackInv, Apart
    <3> QED
      BY <2>2, <3>1, <3>2
  <2>4. \A r \in Stacks, k \in Nat : k <= Len(stk[r]) => Link(r, k)' = Link(r, k)
    <3> SUFFICES ASSUME NEW r \in Stacks, NEW k \in Nat, k <= Len(stk[r]) PROVE Link(r, k)' = Link(r, k)
      OBVIOUS
    <3>1. CASE k = 0
      BY <3>1 DEF Link, Null
    <3>2. CASE k # 0
      <4>1. k \in 1 .. Len(stk[r]) /\ stk'[r][k] = stk[r][k]
        <5>1. Len(stk[r]) \in Nat
          BY DEF StackInv, TypeOK
        <5> QED
          BY <2>0, <2>2, <3>2, <5>1
      <4> QED
        BY <2>3, <3>2, <4>1 DEF Link, Val
    <3> QED
      BY <3>1, <3>2
  <2>5. Link(s, n + 1)' = v
    BY <2>2 DEF Link, Val, Values
  <2>6. \A r \in Stacks \ {s} : /\ head'[r] = Link(r, Len(stk[r]))'
                              /\ \A k \in 1 .. Len(stk'[r]) : next'[stk'[r][k]] = Link(r, k - 1)'
    <3> SUFFICES ASSUME NEW r \in Stacks \ {s}
                 PROVE  /\ head'[r] = Link(r, Len(stk[r]))'
                        /\ \A k \in 1 .. Len(stk'[r]) : next'[stk'[r][k]] = Link(r, k - 1)'
      OBVIOUS
    <3>1. Len(stk[r]) \in Nat /\ stk'[r] = stk[r] /\ head'[r] = head[r] /\ next' = next
      BY <2>2 DEF StackInv, TypeOK
    <3>2. /\ head[r] = Link(r, Len(stk[r]))
          /\ \A k \in 1 .. Len(stk[r]) : next[stk[r][k]] = Link(r, k - 1)
      BY DEF StackInv, Linked
    <3> QED
      BY <2>4, <3>1, <3>2
  <2>7. head'[s] = Link(s, Len(stk[s]))'
    BY <2>2, <2>5
  <2>8. \A k \in 1 .. Len(stk'[s]) : next'[stk'[s][k]] = Link(s, k - 1)'
    <3>1. /\ head[s] = Link(s, n)
          /\ \A k \in 1 .. n : next[stk[s][k]] = Link(s, k - 1)
      BY <2>0 DEF StackInv, Linked
    <3>2. ASSUME NEW k \in 1 .. n PROVE next'[stk'[s][k]] = Link(s, k - 1)'
      <4>1. k - 1 \in Nat /\ k - 1 <= Len(stk[s])
        BY <2>0
      <4>2. Link(s, k - 1)' = Link(s, k - 1)
        BY <2>4, <4>1
      <4> QED
        BY <2>2, <3>1, <4>2
    <3>3. next'[stk'[s][n + 1]] = Link(s, n)'
      BY <2>0, <2>2, <2>4, <3>1
    <3> QED
      BY <2>2, <3>2, <3>3
  <2> QED
    BY <2>6, <2>7, <2>8 DEF Linked
<1>5. ASSUME NEW t \in Threads, PushRetry(t) PROVE Linked'
  <2>1. UNCHANGED <<head, next, stk, ver>>
    BY <1>5, Locally
  <2> QED
    BY <2>1 DEF StackInv, Linked, Link, Val
<1>6. ASSUME NEW t \in Threads, NEW s \in Stacks, PopStart(t, s) PROVE Linked'
  BY <1>6
  DEF StackInv, PopStart, Goto, Apart, Read, Pushing, PushPCs, TypeOK, Linked, Link, Val,
      Ready, Locals, Words, Null, Values
<1>7. ASSUME NEW t \in Threads, PopLoad(t) PROVE Linked'
  <2>1. UNCHANGED <<head, next, stk, ver>>
    BY <1>7, Locally
  <2> QED
    BY <2>1 DEF StackInv, Linked, Link, Val
<1>8. ASSUME NEW t \in Threads, PopNext(t) PROVE Linked'
  <2>1. UNCHANGED <<head, next, stk, ver>>
    BY <1>8, Locally
  <2> QED
    BY <2>1 DEF StackInv, Linked, Link, Val
<1>9. ASSUME NEW t \in Threads, PopCas(t) PROVE Linked'
  <2>0. PICK s \in Stacks, n \in Nat \ {0} : s = loc[t].s /\ n = Len(stk[s])
    BY <1>9, Popped
  <2>1. /\ loc[t].p = Val(stk[s][n]) /\ Len(stk'[s]) = n - 1
        /\ \A r \in Stacks \ {s} : stk'[r] = stk[r]
        /\ \A r \in Stacks : \A k \in 1 .. Len(stk'[r]) :
              k \in 1 .. Len(stk[r]) /\ stk'[r][k] = stk[r][k]
    BY <1>9, <2>0, Popped
  <2>2. /\ head'[s] = loc[t].nx /\ \A r \in Stacks \ {s} : head'[r] = head[r]
        /\ next' = next /\ ver' = ver
    BY <1>9, <2>0 DEF StackInv, TypeOK, PopCas
  <2>3. loc[t].nx = Link(s, n - 1)
    <3>1. n \in 1 .. Len(stk[s]) /\ pc[t] = "cas"
      BY <1>9, <2>0 DEF PopCas
    <3>2. loc[t].nx = next[stk[s][n]]
      BY <2>1, <3>1 DEF StackInv, Ready
    <3> QED
      BY <3>1, <3>2 DEF StackInv, Linked
  <2>4. \A r \in Stacks, k \in Nat : k <= Len(stk'[r]) => Link(r, k)' = Link(r, k)
    BY <2>1, <2>2 DEF Link, Val
  <2>5. \A r \in Stacks : Len(stk'[r]) \in Nat
    BY DEF TypeOK
  <2> SUFFICES ASSUME NEW r \in Stacks
               PROVE  /\ head'[r] = Link(r, Len(stk[r]))'
                      /\ \A k \in 1 .. Len(stk'[r]) : next'[stk'[r][k]] = Link(r, k - 1)'
    BY DEF Linked
  <2>6. head[r] = Link(r, Len(stk[r])) /\ \A k \in 1 .. Len(stk[r]) : next[stk[r][k]] = Link(r, k - 1)
    BY DEF StackInv, Linked
  <2>7. head'[r] = Link(r, Len(stk[r]))'
    <3>1. PICK m \in Nat : m = Len(stk'[r])
      BY <2>5
    <3>2. head'[r] = Link(r, m)
      BY <2>0, <2>1, <2>2, <2>3, <2>6, <3>1
    <3>3. Link(r, m)' = Link(r, m)
      BY <2>4, <3>1
    <3> QED
      BY <3>1, <3>2, <3>3 DEF Link
  <2>8. ASSUME NEW k \in 1 .. Len(stk'[r]) PROVE next'[stk'[r][k]] = Link(r, k - 1)'
    <3>1. k - 1 \in Nat /\ k - 1 <= Len(stk'[r])
      BY <2>5
    <3>2. Link(r, k - 1)' = Link(r, k - 1)
      BY <2>4, <3>1
    <3> QED
      BY <2>1, <2>2, <2>6, <3>2
  <2> QED
    BY <2>7, <2>8
<1>10. ASSUME NEW t \in Threads, PopRetry(t) PROVE Linked'
  <2>1. UNCHANGED <<head, next, stk, ver>>
    BY <1>10, Locally
  <2> QED
    BY <2>1 DEF StackInv, Linked, Link, Val
<1>11. CASE UNCHANGED stackVars
  BY <1>11
  DEF StackInv, stackVars, Apart, Read, Pushing, PushPCs, TypeOK, Linked, Link, Val, Ready,
      Locals, Words, Null, Values
<1> QED
  BY <1>1, <1>2, <1>3, <1>4, <1>5, <1>6, <1>7, <1>8, <1>9, <1>10, <1>11 DEF StackNext

\* A step keeps what a push and a pop are about to compare and store right.
LEMMA ReadyStep ==
  ASSUME StackInv, TypeOK', [StackNext]_stackVars
  PROVE  Ready'
<1>1. ASSUME NEW t \in Threads, NEW s \in Stacks, NEW v \in held, PushStart(t, s, v) PROVE Ready'
  BY <1>1
  DEF StackInv, PushStart, Goto, NextVersion, Apart, Read, Versioned, Pushing, PushPCs,
      TypeOK, Linked, Link, Val, Ready, Locals, Words, Null, Values
<1>2. ASSUME NEW t \in Threads, PushLoad(t) PROVE Ready'
  <2>1. pc'[t] \notin {"cas", "pcas"}
    BY <1>2 DEF StackInv, TypeOK, PushLoad, Goto
  <2> QED
    BY <1>2, <2>1, Locally DEF StackInv, Ready, Val
<1>3. ASSUME NEW t \in Threads, PushLink(t) PROVE Ready'
  BY <1>3
  DEF StackInv, PushLink, Goto, Apart, Read, Versioned, Pushing, PushPCs, TypeOK, Linked,
      Link, Val, Ready, Locals, Words, Null, Values
<1>4. ASSUME NEW t \in Threads, PushCas(t) PROVE Ready'
  <2>0. PICK s \in Stacks, v \in Values, n \in Nat : s = loc[t].s /\ v = loc[t].value /\ n = Len(stk[s])
    BY <1>4 DEF StackInv, TypeOK, Read, PushCas, Pushing, PushPCs, Locals
  <2>1. /\ v.id \in Ids /\ v.ver \in Nat /\ v.ver = ver[v.id] + 1 /\ ver[v.id] \in Nat
        /\ ver'[v.id] = v.ver /\ \A i \in Ids \ {v.id} : ver'[i] = ver[i]
    BY <1>4, <2>0 DEF StackInv, TypeOK, Versioned, PushCas, Pushing, PushPCs, Values
  <2>2. /\ next' = next /\ loc' = loc
        /\ \A u \in Threads : pc'[u] = pc[u] \/ pc'[u] = "idle"
    BY <1>4 DEF StackInv, TypeOK, PushCas, Goto
  <2>3. \A r \in Stacks : \A k \in 1 .. Len(stk'[r]) :
          stk'[r][k] = v.id \/ (k \in 1 .. Len(stk[r]) /\ stk'[r][k] = stk[r][k] /\ stk[r][k] \in Ids)
    BY <1>4, <2>0 DEF StackInv, TypeOK, PushCas
  <2>4. ASSUME NEW u \in Threads, pc'[u] = "cas", NEW r \in Stacks, NEW k \in 1 .. Len(stk'[r]),
               loc'[u].p = Val(stk[r][k])'
        PROVE  loc'[u].nx = next'[stk'[r][k]]
    <3>1. pc[u] = "cas" /\ loc[u].p \in Values /\ loc[u].p.ver <= ver[loc[u].p.id]
      BY <2>2, <2>4 DEF StackInv, Read
    <3>2. loc[u].p.id = stk'[r][k] /\ loc[u].p.ver = ver'[stk'[r][k]]
      BY <2>2, <2>4 DEF Val
    <3>3. stk'[r][k] # v.id
      BY <2>1, <3>1, <3>2
    <3>4. k \in 1 .. Len(stk[r]) /\ stk'[r][k] = stk[r][k] /\ ver'[stk[r][k]] = ver[stk[r][k]]
      BY <2>1, <2>3, <3>3
    <3>5. loc[u].p = Val(stk[r][k])
      BY <3>1, <3>2, <3>4 DEF Val, Values
    <3> QED
      BY <2>2, <3>1, <3>4, <3>5 DEF StackInv, Ready
  <2> QED
    BY <2>2, <2>4 DEF StackInv, Ready
<1>5. ASSUME NEW t \in Threads, PushRetry(t) PROVE Ready'
  <2>1. pc'[t] \notin {"cas", "pcas"}
    BY <1>5 DEF StackInv, TypeOK, PushRetry, Goto, RetryAtLoad
  <2> QED
    BY <1>5, <2>1, Locally DEF StackInv, Ready, Val
<1>6. ASSUME NEW t \in Threads, NEW s \in Stacks, PopStart(t, s) PROVE Ready'
  BY <1>6
  DEF StackInv, PopStart, Goto, Apart, Read, Versioned, Pushing, PushPCs, TypeOK, Linked,
      Link, Val, Ready, Locals, Words, Null, Values
<1>7. ASSUME NEW t \in Threads, PopLoad(t) PROVE Ready'
  <2>1. pc'[t] \notin {"cas", "pcas"}
    BY <1>7 DEF StackInv, TypeOK, PopLoad, Goto
  <2> QED
    BY <1>7, <2>1, Locally DEF StackInv, Ready, Val
<1>8. ASSUME NEW t \in Threads, PopNext(t) PROVE Ready'
  <2>1. loc'[t].p = loc[t].p /\ loc'[t].nx = next[loc[t].p.id] /\ pc'[t] = "cas"
    BY <1>8 DEF StackInv, TypeOK, Locals, PopNext, Goto
  <2>2. ASSUME NEW s \in Stacks, NEW k \in 1 .. Len(stk[s]), loc'[t].p = Val(stk[s][k])
        PROVE  loc'[t].nx = next[stk[s][k]]
    BY <2>1, <2>2 DEF Val
  <2>3. /\ UNCHANGED <<next, stk, ver>>
        /\ loc'[t].value = loc[t].value
        /\ \A u \in Threads \ {t} : loc'[u] = loc[u] /\ pc'[u] = pc[u]
    BY <1>8, Locally
  <2> QED
    BY <2>1, <2>2, <2>3 DEF StackInv, Ready, Val
<1>9. ASSUME NEW t \in Threads, PopCas(t) PROVE Ready'
  <2>1. /\ next' = next /\ loc' = loc /\ ver' = ver
        /\ \A u \in Threads : pc'[u] = pc[u] \/ pc'[u] = "idle"
    BY <1>9 DEF StackInv, TypeOK, PopCas, Goto
  <2>2. \A r \in Stacks : \A k \in 1 .. Len(stk'[r]) :
          k \in 1 .. Len(stk[r]) /\ stk'[r][k] = stk[r][k]
    BY <1>9, Popped
  <2> QED
    BY <2>1, <2>2 DEF StackInv, Ready, Val
<1>10. ASSUME NEW t \in Threads, PopRetry(t) PROVE Ready'
  <2>1. pc'[t] \notin {"cas", "pcas"}
    BY <1>10 DEF StackInv, TypeOK, PopRetry, Goto
  <2> QED
    BY <1>10, <2>1, Locally DEF StackInv, Ready, Val
<1>11. CASE UNCHANGED stackVars
  BY <1>11
  DEF StackInv, stackVars, Apart, Read, Versioned, Pushing, PushPCs, TypeOK, Linked, Link, Val,
      Ready, Locals, Words, Null, Values
<1> QED
  BY <1>1, <1>2, <1>3, <1>4, <1>5, <1>6, <1>7, <1>8, <1>9, <1>10, <1>11 DEF StackNext

\* For any number of threads, nodes and stacks, the links, the versions and
\* what push and pop have read fit together as StackInv says.
THEOREM StackInvariant == StackSpec => []StackInv
<1>1. StackInit => StackInv
  BY IdsAssumption
  DEF StackInit, StackInv, TypeOK, Read, Apart, Versioned, Linked, Ready, Link, Pushing, PushPCs, PopPCs,
      Locals, Words, Values, Null
<1>2. StackInv /\ [StackNext]_stackVars => StackInv'
  BY TypeStep, ReadStep, ApartStep, VersionedStep, LinkedStep, ReadyStep DEF StackInv
<1> QED
  BY <1>1, <1>2, PTL DEF StackSpec

\* A node is never handed out twice, nor while it is on a stack.
THEOREM NodeInOnePlace == StackSpec => []Apart
<1>1. StackInv => Apart
  BY DEF StackInv
<1> QED
  BY <1>1, StackInvariant, PTL

\* The nodes that are on no stack, as AbstractStack sees them
Out == {v.id : v \in held} \cup {loc[t].value.id : t \in {u \in Threads : Pushing(u)}}

\* A step that moves no node between a stack and its callers, and answers no
\* pop, is a stuttering step of AbstractStack.
LEMMA Stutters ==
  ASSUME UNCHANGED <<stk, got>>, Out' = Out
  PROVE  UNCHANGED Abs!absvars
BY DEF Abs!absvars, Out

\* Every step is a step of AbstractStack, or changes nothing it sees.
LEMMA AbstractStep ==
  ASSUME StackInv, StackInv', [StackNext]_stackVars
  PROVE  [Abs!AbsNext]_(Abs!absvars)
<1>1. ASSUME NEW t \in Threads, NEW s \in Stacks, NEW v \in held, PushStart(t, s, v) PROVE Out' = Out
  <2>1. /\ held' = held \ {v} /\ Pushing(t)' /\ loc'[t].value.id = v.id /\ ~Pushing(t)
        /\ \A u \in Threads \ {t} : loc'[u] = loc[u] /\ Pushing(u)' = Pushing(u)
    BY <1>1 DEF StackInv, TypeOK, PushStart, NextVersion, Goto, Pushing, PushPCs
  <2> QED
    BY <2>1 DEF Out
<1>2. ASSUME NEW t \in Threads, PushLoad(t) \/ PushLink(t) \/ PushRetry(t) PROVE Out' = Out
  <2>1. /\ held' = held /\ Pushing(t)' /\ Pushing(t) /\ loc'[t].value = loc[t].value
        /\ \A u \in Threads \ {t} : loc'[u] = loc[u] /\ Pushing(u)' = Pushing(u)
    BY <1>2
    DEF StackInv, TypeOK, Locals, PushLoad, PushLink, PushRetry, RetryAtLoad, Goto,
        Pushing, PushPCs
  <2> QED
    BY <2>1 DEF Out
<1>3. ASSUME NEW t \in Threads, PopLoad(t) \/ PopNext(t) \/ PopRetry(t) \/ \E s \in Stacks : PopStart(t, s)
      PROVE  Out' = Out
  <2>1. /\ held' = held /\ ~Pushing(t)' /\ ~Pushing(t)
        /\ \A u \in Threads \ {t} : loc'[u] = loc[u] /\ Pushing(u)' = Pushing(u)
    BY <1>3 DEF StackInv, TypeOK, PopLoad, PopNext, PopRetry, PopStart, Goto, Pushing, PushPCs
  <2> QED
    BY <2>1 DEF Out
<1>4. ASSUME NEW t \in Threads, PushCas(t) PROVE \E s \in Stacks, i \in Ids : Abs!AbsPush(s, i)
  <2>0. PICK s \in Stacks, i \in Ids : s = loc[t].s /\ i = loc[t].value.id
    BY <1>4 DEF StackInv, TypeOK, Read, PushCas, Pushing, PushPCs, Locals, Values
  <2>1. /\ Pushing(t) /\ ~Pushing(t)' /\ held' = held /\ loc' = loc
        /\ \A u \in Threads \ {t} : Pushing(u)' = Pushing(u)
    BY <1>4 DEF StackInv, TypeOK, PushCas, Goto, Pushing, PushPCs
  <2>2. i \in Out /\ Out' = Out \ {i}
    BY <2>0, <2>1 DEF StackInv, Apart, Out
  <2>3. stk' = [stk EXCEPT ![s] = Append(stk[s], i)] /\ got' = got
    BY <1>4, <2>0 DEF PushCas
  <2> QED
    BY <2>2, <2>3 DEF Abs!AbsPush, Out
<1>5. ASSUME NEW t \in Threads, PopCas(t) PROVE \E s \in Stacks : Abs!AbsPop(t, s)
  <2>0. PICK s \in Stacks, i \in Ids : s = loc[t].s /\ i = loc[t].p.id
    BY <1>5, Popped DEF Values
  <2>1. stk[s] # <<>> /\ i = stk[s][Len(stk[s])]
    BY <1>5, <2>0, Popped DEF StackInv, TypeOK
  <2>2. /\ ~Pushing(t) /\ ~Pushing(t)' /\ held' = held \cup {loc[t].p} /\ loc' = loc
        /\ \A u \in Threads \ {t} : Pushing(u)' = Pushing(u)
    BY <1>5 DEF StackInv, TypeOK, PopCas, Goto, Pushing, PushPCs
  <2>3. Out' = Out \cup {i}
    BY <2>0, <2>2 DEF Out
  <2>4. stk' = [stk EXCEPT ![s] = SubSeq(stk[s], 1, Len(stk[s]) - 1)] /\ got' = [got EXCEPT ![t] = i]
    BY <1>5, <2>0 DEF PopCas
  <2> QED
    BY <2>1, <2>3, <2>4 DEF Abs!AbsPop, Out
<1>6. ASSUME NEW t \in Threads, PopLoad(t) PROVE UNCHANGED <<stk, got>> \/ \E s \in Stacks : Abs!AbsPopEmpty(t, s)
  <2>0. PICK s \in Stacks : s = loc[t].s
    BY DEF StackInv, TypeOK, Locals
  <2>1. CASE head[s] # Null
    BY <1>6, <2>0, <2>1 DEF PopLoad
  <2>2. CASE head[s] = Null
    <3>1. stk[s] = <<>> /\ got' = [got EXCEPT ![t] = NoId] /\ stk' = stk
      BY <1>6, <2>0, <2>2, Top DEF PopLoad
    <3> QED
      BY <1>3, <1>6, <3>1 DEF Abs!AbsPopEmpty, Out
  <2> QED
    BY <2>1, <2>2
<1>7. CASE UNCHANGED stackVars
  BY <1>7, Stutters DEF stackVars, Out, Pushing
<1> QED
  <2>1. ASSUME NEW t \in Threads, NEW s \in Stacks, NEW v \in held, PushStart(t, s, v)
        PROVE  UNCHANGED Abs!absvars
    BY <1>1, <2>1, Stutters DEF PushStart
  <2>2. ASSUME NEW t \in Threads, PushLoad(t) \/ PushLink(t) \/ PushRetry(t) PROVE UNCHANGED Abs!absvars
    BY <1>2, <2>2, Stutters DEF PushLoad, PushLink, PushRetry
  <2>3. ASSUME NEW t \in Threads, PopNext(t) \/ PopRetry(t) \/ \E s \in Stacks : PopStart(t, s)
        PROVE  UNCHANGED Abs!absvars
    BY <1>3, <2>3, Stutters DEF PopNext, PopRetry, PopStart
  <2>4. ASSUME NEW t \in Threads, PopLoad(t) PROVE [Abs!AbsNext]_(Abs!absvars)
    BY <1>3, <1>6, <2>4, Stutters DEF Abs!AbsNext
  <2>5. ASSUME NEW t \in Threads, PushCas(t) PROVE Abs!AbsNext
    BY <1>4, <2>5 DEF Abs!AbsNext
  <2>6. ASSUME NEW t \in Threads, PopCas(t) PROVE Abs!AbsNext
    BY <1>5, <2>6 DEF Abs!AbsNext
  <2> QED
    BY <1>7, <2>1, <2>2, <2>3, <2>4, <2>5, <2>6 DEF StackNext

\* push and pop, with their stale reads and retries, implement the atomic
\* operations of AbstractStack.
THEOREM StackIsAtomic == StackSpec => Atomic
<1>1. StackInit => Abs!AbsInit
  <2> SUFFICES ASSUME StackInit PROVE Abs!AbsInit
    OBVIOUS
  <2>1. {u \in Threads : Pushing(u)} = {}
    BY DEF StackInit, Pushing, PushPCs
  <2>2. {v.id : v \in held} = Ids
    <3>1. \A i \in Ids : [id |-> i, ver |-> 0] \in held /\ [id |-> i, ver |-> 0].id = i
      BY DEF StackInit
    <3>2. \A v \in held : v.id \in Ids
      BY DEF StackInit
    <3> QED
      BY <3>1, <3>2
  <2> QED
    BY <2>1, <2>2 DEF StackInit, Abs!AbsInit
<1>2. StackInv /\ StackInv' /\ [StackNext]_stackVars => [Abs!AbsNext]_(Abs!absvars)
  BY AbstractStep
<1> QED
  BY <1>1, <1>2, StackInvariant, PTL DEF StackSpec, Atomic, Abs!AbsSpec

-----------------------------------------------------------------------------
(* SocketFd *)

FdType ==
    /\ fd_ \in [Objects -> Fds \cup {None}]
    /\ Opened \subseteq Fds /\ raw \subseteq Fds /\ leaked \subseteq Fds

\* The descriptors that objects have
Owned == {f \in Fds : \E o \in Objects : fd_[o] = f}

\* OneOwner, number by number
EachOwned ==
    /\ \A o, p \in Objects : o # p /\ fd_[o] # None => fd_[o] # fd_[p]
    /\ \A f \in Fds : f \in Opened <=> (f \in Owned \/ f \in raw \/ f \in leaked)
    /\ \A f \in Fds : /\ ~ (f \in Owned /\ f \in raw) /\ ~ (f \in Owned /\ f \in leaked)
                      /\ ~ (f \in raw /\ f \in leaked)

\* The inductive invariant of the descriptors.
FdInv == FdType /\ EachOwned

LEMMA NoneIsNoFd == None \notin Fds
BY FdsAssumption DEF Fds, None

\* A set of numbers has a least one.
LEMMA LeastOne ==
  ASSUME NEW S \in SUBSET Nat, S # {}
  PROVE  \E x \in S : \A y \in S : x <= y
<1> DEFINE R == OpToRel(<, Nat)
<1>1. IsWellFoundedOn(R, Nat)
  BY NatLessThanWellFounded, Zenon
<1> HIDE DEF R
<1>2. PICK x \in S : \A y \in S : ~ (<<y, x>> \in R)
  BY <1>1, WFMin
<1>3. \A y \in S : ~ (y < x)
  BY <1>2 DEF R, OpToRel
<1> QED
  BY <1>3

\* The kernel answers a number that is not open.
LEMMA LowestIsFree ==
  ASSUME NEW k, DOMAIN k \subseteq Fds, DOMAIN k # Fds
  PROVE  Lowest(k) \in Fds /\ Lowest(k) \notin DOMAIN k
<1> DEFINE S == Fds \ DOMAIN k
<1>1. S \in SUBSET Nat /\ S # {}
  <2>1. Fds \in SUBSET Nat
    BY FdsAssumption DEF Fds
  <2>2. S # {}
    BY Zenon
  <2> QED
    BY <2>1, <2>2, Zenon
<1> HIDE DEF S
<1>2. \E x \in S : \A y \in S : x <= y
  BY <1>1, LeastOne
<1>3. (CHOOSE f \in S : \A g \in S : f <= g) \in S
  BY <1>2, Zenon
<1> QED
  BY <1>3, Zenon DEF Lowest, S

\* What close and a new socket do to the set of open numbers
LEMMA KernelSets ==
  ASSUME NEW k, NEW f, NEW state
  PROVE  DOMAIN Close(k, f) = DOMAIN k \ {f} /\ DOMAIN Install(k, f, state) = DOMAIN k \cup {f}
BY DEF Close, Install, Restrict

\* Object o gets the number n, or none, and loses the one it had: it is closed,
\* given away or forgotten.
OwnerMoves(o, n) ==
    /\ n \in Fds \cup {None} /\ fd_' = [fd_ EXCEPT ![o] = n]
    /\ raw' \subseteq Fds /\ leaked' \subseteq Fds /\ DOMAIN kernel' \subseteq Fds
    /\ n # None => (n \notin Owned \/ n = fd_[o]) /\ n \notin raw' /\ n \notin leaked'
    /\ \A f \in Fds :
          /\ ~ (f \in raw' /\ f \in leaked')
          /\ f \in raw' \/ f \in leaked' => f = fd_[o] \/ f \in raw \/ f \in leaked
          /\ f \in raw \/ f \in leaked => f \in raw' \/ f \in leaked' \/ f = n
          /\ f \in DOMAIN kernel' <=>
                f = n \/ (f \in DOMAIN kernel /\ (f = fd_[o] => f \in raw' \/ f \in leaked'))

LEMMA OwnerChanges ==
  ASSUME FdInv, NEW o \in Objects, NEW n, OwnerMoves(o, n)
  PROVE  FdInv'
<1> USE DEF FdInv, OwnerMoves
<1>1. FdType'
  BY DEF FdType, Opened
<1>2. fd_'[o] = n /\ \A p \in Objects \ {o} : fd_'[p] = fd_[p]
  BY DEF FdType
<1>3. \A f \in Fds : f \in Owned' <=> f = n \/ (f \in Owned /\ f # fd_[o])
  <2> SUFFICES ASSUME NEW f \in Fds
               PROVE  (\E p \in Objects : fd_'[p] = f) <=> f = n \/ ((\E p \in Objects : fd_[p] = f) /\ f # fd_[o])
    BY DEF Owned
  <2>1. ASSUME NEW p \in Objects, fd_'[p] = f
        PROVE  f = n \/ ((\E q \in Objects : fd_[q] = f) /\ f # fd_[o])
    BY <1>2, <2>1, NoneIsNoFd DEF EachOwned
  <2>2. ASSUME NEW p \in Objects, fd_[p] = f, f # fd_[o]
        PROVE  fd_'[p] = f
    BY <1>2, <2>2
  <2> QED
    BY <1>2, <2>1, <2>2
<1>4. \A p, q \in Objects : p # q /\ fd_'[p] # None => fd_'[p] # fd_'[q]
  <2>1. \A p \in Objects \ {o} : n # None => fd_[p] # n
    BY DEF EachOwned, Owned, FdType
  <2> QED
    BY <1>2, <2>1 DEF EachOwned
<1>5. fd_[o] # None => fd_[o] \in Owned /\ fd_[o] \in Opened
  BY DEF FdType, EachOwned, Owned
<1>6. \A f \in Fds : f \in Opened' <=> (f \in Owned' \/ f \in raw' \/ f \in leaked')
  <2> SUFFICES ASSUME NEW f \in Fds
               PROVE  f \in Opened' <=> (f \in Owned' \/ f \in raw' \/ f \in leaked')
    OBVIOUS
  <2>1. f # None
    BY NoneIsNoFd
  <2>2. f \in Opened' <=> (f = n \/ (f \in Opened /\ (f = fd_[o] => f \in raw' \/ f \in leaked')))
    BY DEF Opened
  <2>3. f \in Owned' <=> f = n \/ (f \in Owned /\ f # fd_[o])
    BY <1>3
  <2>4. f \in Opened <=> (f \in Owned \/ f \in raw \/ f \in leaked)
    BY DEF EachOwned
  <2>5. (f \in raw' \/ f \in leaked') => (f = fd_[o] \/ f \in raw \/ f \in leaked)
    OBVIOUS
  <2>6. (f \in raw \/ f \in leaked) => (f \in raw' \/ f \in leaked' \/ f = n)
    OBVIOUS
  <2> HIDE DEF Opened, Owned
  <2> QED
    BY <1>5, <2>1, <2>2, <2>3, <2>4, <2>5, <2>6
<1>7. \A f \in Fds : /\ ~ (f \in Owned' /\ f \in raw') /\ ~ (f \in Owned' /\ f \in leaked')
                     /\ ~ (f \in raw' /\ f \in leaked')
  BY <1>3, NoneIsNoFd DEF EachOwned
<1> QED
  BY <1>1, <1>4, <1>6, <1>7 DEF EachOwned

\* The numbers that are in use are open.
LEMMA InUseIsOpen ==
  ASSUME FdInv, NEW o \in Objects
  PROVE  /\ fd_[o] \in Fds \cup {None} /\ raw \subseteq Fds /\ leaked \subseteq Fds /\ DOMAIN kernel \subseteq Fds
         /\ fd_[o] # None => fd_[o] \in Owned /\ fd_[o] \in DOMAIN kernel /\ fd_[o] \notin raw /\ fd_[o] \notin leaked
         /\ \A f \in Fds : f \in Owned \/ f \in raw \/ f \in leaked => f \in DOMAIN kernel
         /\ \A f \in raw : f \notin Owned /\ f \notin leaked
         /\ fd_[o] = None => fd_[o] \notin Fds
BY NoneIsNoFd DEF FdInv, FdType, EachOwned, Owned, Opened

\* reset and the destructors
LEMMA StepReset ==
  ASSUME FdInv, NEW o \in Objects, NEW f \in raw \cup {None}, Reset(o, f)
  PROVE  FdInv'
<1>1. /\ kernel' = Close(kernel, fd_[o]) /\ fd_' = [fd_ EXCEPT ![o] = f]
      /\ raw' = raw \ {f} /\ leaked' = leaked
  BY DEF Reset
<1>2. DOMAIN kernel' = DOMAIN kernel \ {fd_[o]}
  BY <1>1, KernelSets
<1>3. OwnerMoves(o, f)
  BY <1>1, <1>2, InUseIsOpen, NoneIsNoFd DEF OwnerMoves
<1> QED
  BY <1>3, OwnerChanges

LEMMA StepRelease ==
  ASSUME FdInv, NEW o \in Objects, Release(o)
  PROVE  FdInv'
<1>1. fd_[o] # None /\ raw' = raw \cup {fd_[o]} /\ fd_' = [fd_ EXCEPT ![o] = None] /\ kernel' = kernel /\ leaked' = leaked
  BY DEF Release
<1>2. OwnerMoves(o, None)
  BY <1>1, InUseIsOpen, NoneIsNoFd DEF OwnerMoves
<1> QED
  BY <1>2, OwnerChanges

LEMMA StepConnect ==
  ASSUME FdInv, NEW s \in Sockets, Connect(s)
  PROVE  FdInv'
<1> DEFINE k == Close(kernel, fd_[s])
<1>1. s \in Objects
  BY DEF Objects
<1>2. DOMAIN k = DOMAIN kernel \ {fd_[s]}
  BY KernelSets
<1>3. raw' = raw /\ leaked' = leaked
  BY DEF Connect
<1>4. CASE DOMAIN k # Fds /\ fd_' = [fd_ EXCEPT ![s] = Lowest(k)]
           /\ kernel' = Install(k, Lowest(k), SetCloseOnExec(SetNonBlock(NewSocket)))
  <2>1. DOMAIN kernel' = DOMAIN k \cup {Lowest(k)}
    BY <1>4, KernelSets
  <2> HIDE DEF k
  <2>2. Lowest(k) \in Fds /\ Lowest(k) \notin DOMAIN k
    BY <1>1, <1>2, <1>4, LowestIsFree, InUseIsOpen
  <2>3. OwnerMoves(s, Lowest(k))
    BY <1>1, <1>2, <1>3, <1>4, <2>1, <2>2, InUseIsOpen DEF OwnerMoves
  <2> QED
    BY <1>1, <2>3, OwnerChanges
<1>5. CASE kernel' = k /\ fd_' = [fd_ EXCEPT ![s] = None]
  <2> HIDE DEF k
  <2>1. OwnerMoves(s, None)
    BY <1>1, <1>2, <1>3, <1>5, InUseIsOpen, NoneIsNoFd DEF OwnerMoves
  <2> QED
    BY <1>1, <2>1, OwnerChanges
<1> QED
  BY <1>4, <1>5 DEF Connect

LEMMA StepListen ==
  ASSUME FdInv, NEW s \in Sockets, Listen(s)
  PROVE  FdInv'
<1>1. s \in Objects
  BY DEF Objects
<1>2. raw' = raw /\ leaked' = leaked \cup ({fd_[s]} \ {None})
  BY DEF Listen
<1>3. leaked' \subseteq Fds /\ \A f \in Fds : f \in leaked' <=> f \in leaked \/ f = fd_[s]
  BY <1>1, <1>2, InUseIsOpen, NoneIsNoFd
<1>4. CASE /\ Opened # Fds /\ fd_' = [fd_ EXCEPT ![s] = Lowest(kernel)]
           /\ \E state : kernel' = Install(kernel, Lowest(kernel), state)
  <2>1. DOMAIN kernel' = DOMAIN kernel \cup {Lowest(kernel)}
    <3>1. PICK state : kernel' = Install(kernel, Lowest(kernel), state)
      BY <1>4
    <3> QED
      BY <3>1, KernelSets, Zenon
  <2>2. Lowest(kernel) \in Fds /\ Lowest(kernel) \notin DOMAIN kernel
    BY <1>1, <1>4, LowestIsFree, InUseIsOpen DEF Opened
  <2>3. OwnerMoves(s, Lowest(kernel))
    BY <1>1, <1>2, <1>3, <1>4, <2>1, <2>2, InUseIsOpen DEF OwnerMoves
  <2> QED
    BY <1>1, <2>3, OwnerChanges
<1>5. CASE kernel' = kernel /\ fd_' = [fd_ EXCEPT ![s] = None]
  <2>1. OwnerMoves(s, None)
    BY <1>1, <1>2, <1>3, <1>5, InUseIsOpen, NoneIsNoFd DEF OwnerMoves
  <2> QED
    BY <1>1, <2>1, OwnerChanges
<1> QED
  BY <1>4, <1>5 DEF Listen

LEMMA StepAccept ==
  ASSUME FdInv, NEW s \in Sockets, NEW new_s \in Sockets, Accept(s, new_s)
  PROVE  FdInv'
<1>1. new_s \in Objects
  BY DEF Objects
<1>2. /\ raw' = raw /\ leaked' = leaked /\ Opened # Fds /\ fd_' = [fd_ EXCEPT ![new_s] = Lowest(kernel)]
      /\ \E state : kernel' = Install(Close(kernel, fd_[new_s]), Lowest(kernel), state)
  BY DEF Accept, AcceptClosed
<1>3. DOMAIN kernel' = (DOMAIN kernel \ {fd_[new_s]}) \cup {Lowest(kernel)}
  <2>1. PICK state : kernel' = Install(Close(kernel, fd_[new_s]), Lowest(kernel), state)
    BY <1>2
  <2>2. DOMAIN kernel' = DOMAIN Close(kernel, fd_[new_s]) \cup {Lowest(kernel)}
    BY <2>1, KernelSets, Zenon
  <2>3. DOMAIN Close(kernel, fd_[new_s]) = DOMAIN kernel \ {fd_[new_s]}
    BY KernelSets, Zenon
  <2> QED
    BY <2>2, <2>3, Zenon
<1>4. Lowest(kernel) \in Fds /\ Lowest(kernel) \notin DOMAIN kernel
  BY <1>1, <1>2, LowestIsFree, InUseIsOpen DEF Opened
<1>5. OwnerMoves(new_s, Lowest(kernel))
  BY <1>1, <1>2, <1>3, <1>4, InUseIsOpen DEF OwnerMoves
<1> QED
  BY <1>1, <1>5, OwnerChanges

LEMMA StepShutdown ==
  ASSUME FdInv, NEW s \in Sockets, Shutdown(s)
  PROVE  FdInv'
<1>1. s \in Objects
  BY DEF Objects
<1>2. fd_[s] # None /\ raw' = raw /\ leaked' = leaked \cup {fd_[s]} /\ kernel' = kernel /\ fd_' = [fd_ EXCEPT ![s] = None]
  BY DEF Shutdown
<1>3. OwnerMoves(s, None)
  BY <1>1, <1>2, InUseIsOpen, NoneIsNoFd DEF OwnerMoves
<1> QED
  BY <1>1, <1>3, OwnerChanges

\* The inductive invariant: every open number is an object's, the caller's or
\* forgotten, and one of these only, through every call and every failure of a
\* system call in it.
THEOREM FdInvariant == FdSpec => []FdInv
<1>1. FdInit => FdInv
  BY NoneIsNoFd DEF FdInit, FdInv, FdType, EachOwned, Owned, Opened
<1>2. FdInv /\ [FdNext]_fdVars => FdInv'
  <2> SUFFICES ASSUME FdInv, [FdNext]_fdVars PROVE FdInv'
    OBVIOUS
  <2>1. CASE UNCHANGED fdVars
    BY <2>1 DEF fdVars, FdInv, FdType, EachOwned, Owned, Opened
  <2>2. CASE FdNext
    BY <2>2, StepReset, StepRelease, StepConnect, StepListen, StepAccept, StepShutdown, Zenon DEF FdNext, Destruct
  <2> QED
    BY <2>1, <2>2
<1> QED
  BY <1>1, <1>2, PTL DEF FdSpec

\* No object closes, accepts on or hands out a number that has become another
\* object's: OneOwner, for any number of SocketFd and fd_guard objects.
THEOREM DescriptorHasOneOwner == FdSpec => []OneOwner
<1>1. FdInv => OneOwner
  <2> SUFFICES ASSUME FdInv PROVE OneOwner
    OBVIOUS
  <2>1. {fd_[o] : o \in Objects} \ {None} = Owned
    BY NoneIsNoFd DEF FdInv, FdType, Owned
  <2>2. Owned \subseteq Fds
    BY DEF Owned
  <2> HIDE DEF Owned
  <2> QED
    BY <2>1, <2>2 DEF FdInv, FdType, EachOwned, OneOwner
<1> QED
  BY <1>1, FdInvariant, PTL

-----------------------------------------------------------------------------
(* LogDate *)

Digits == [day : Nat, hour : Nat, min : Nat, us : Nat]

DateType == date \in [text : Digits, min : Nat, day : Nat] /\ zone \in Nat /\ now \in Times

\* Where the local time is UTC, the text has the day and the minute that time_day_
\* and time_min_ say, be they right or not, and they are right on the day of now.
DateAgrees ==
    /\ date.text.day = date.day
    /\ date.text.hour = date.min \div MinOneHour /\ date.text.min = date.min % MinOneHour
    /\ date.day = Text(now).day =>
          date.text.us = now % UsOneMin /\ date.min = (now \div UsOneMin) % MinOneDay

\* The inductive invariant of the date.
DateInv == DateType /\ (zone = 0 => DateAgrees)

LEMMA DivModType ==
  ASSUME NEW a \in Nat, NEW b \in Nat \ {0}
  PROVE  a \div b \in Nat /\ a % b \in Nat /\ a = b * (a \div b) + (a % b) /\ a % b < b
<1>1. a % b \in 0 .. b - 1
  OBVIOUS
<1>2. a \div b \in Nat
  OBVIOUS
<1>3. a = b * (a \div b) + (a % b)
  OBVIOUS
<1> QED
  BY <1>1, <1>2, <1>3

\* A number of minutes, taken for microseconds, is a time of an earlier day.
LEMMA MinutesAreEarlier ==
  ASSUME NEW us \in Times
  PROVE  ((us \div UsOneMin) \div UsOneMin) \div MinOneDay # (us \div UsOneMin) \div MinOneDay
<1> DEFINE m == us \div UsOneMin
           q == m \div UsOneMin
<1>1. us \in Nat /\ UsOneMin \in Nat \ {0} /\ UsOneMin > 1 /\ MinOneDay \in Nat \ {0}
  BY UnitsAssumption, TimesAssumption
<1>2. m \in Nat /\ m >= MinOneDay
  BY <1>1, DivModType, TimesAssumption
<1> HIDE DEF m
<1>3. q \in Nat /\ m = UsOneMin * q + (m % UsOneMin) /\ m % UsOneMin \in Nat
  BY <1>1, <1>2, DivModType
<1> HIDE DEF q
<1>4. 2 * q <= m
  BY <1>1, <1>2, <1>3
<1> SUFFICES ASSUME q \div MinOneDay = m \div MinOneDay PROVE FALSE
  BY DEF m, q
<1> DEFINE d == m \div MinOneDay
<1>5. d \in Nat /\ m = MinOneDay * d + (m % MinOneDay) /\ m % MinOneDay \in Nat /\ m % MinOneDay < MinOneDay
  BY <1>1, <1>2, DivModType
<1>6. q = MinOneDay * d + (q % MinOneDay) /\ q % MinOneDay \in Nat
  BY <1>1, <1>3, DivModType
<1> HIDE DEF d
<1>7. d # 0
  BY <1>1, <1>2, <1>5
<1>8. MinOneDay * d \in Nat /\ MinOneDay * d >= MinOneDay
  BY <1>1, <1>5, <1>7
<1> QED
  BY <1>1, <1>2, <1>3, <1>4, <1>5, <1>6, <1>8

\* The fields of what format_to_string writes
LEMMA Formatted ==
  ASSUME NEW t \in Nat, zone \in Nat
  PROVE  /\ FormatToString(t) \in [text : Digits, min : Nat, day : Nat]
         /\ FormatToString(t).text = Text(t + zone)
         /\ FormatToString(t).min = (t \div UsOneMin) % MinOneDay
         /\ FormatToString(t).day = (t \div UsOneMin) \div MinOneDay
<1>1. \A x \in Nat : Text(x) \in Digits
  <2> SUFFICES ASSUME NEW x \in Nat PROVE Text(x) \in Digits
    OBVIOUS
  <2>1. x \div UsOneMin \in Nat /\ x % UsOneMin \in Nat
    BY UnitsAssumption, DivModType
  <2> DEFINE m == x \div UsOneMin
  <2> HIDE DEF m
  <2>2. m \div MinOneDay \in Nat /\ m % MinOneDay \in Nat
    BY <2>1, UnitsAssumption, DivModType DEF m
  <2>3. (m % MinOneDay) \div MinOneHour \in Nat /\ (m % MinOneDay) % MinOneHour \in Nat
    BY <2>2, UnitsAssumption, DivModType
  <2> QED
    BY <2>1, <2>2, <2>3 DEF Text, Digits, m
<1>2. t + zone \in Nat /\ Text(t + zone) \in Digits
  BY <1>1
<1>3. (t \div UsOneMin) % MinOneDay \in Nat /\ (t \div UsOneMin) \div MinOneDay \in Nat
  BY UnitsAssumption, DivModType
<1> HIDE DEF Text
<1> QED
  BY <1>2, <1>3 DEF FormatToString

\* The text of a time, field by field
LEMMA TextFields ==
  ASSUME NEW t
  PROVE  /\ Text(t).day = (t \div UsOneMin) \div MinOneDay
         /\ Text(t).hour = ((t \div UsOneMin) % MinOneDay) \div MinOneHour
         /\ Text(t).min = ((t \div UsOneMin) % MinOneDay) % MinOneHour
         /\ Text(t).us = t % UsOneMin
BY DEF Text

\* update_date
LEMMA StepUpdateDate ==
  ASSUME DateInv, NEW us \in Times, UpdateDate(us)
  PROVE  DateInv'
<1> DEFINE m == us \div UsOneMin
           seconds == [date.text EXCEPT !.us = us % UsOneMin]
<1>1. us \in Nat /\ now' = us /\ zone' = zone /\ zone \in Nat
  BY TimesAssumption DEF UpdateDate, DateInv, DateType
<1>2. m \in Nat /\ m % MinOneDay \in Nat /\ us % UsOneMin \in Nat
  BY <1>1, UnitsAssumption, DivModType
<1>3. CASE m \div MinOneDay # date.day
  <2>1. date' = FormatToString(m)
    BY <1>3 DEF UpdateDate
  <2> HIDE DEF m
  <2>2. DateType'
    BY <1>1, <1>2, <2>1, Formatted DEF DateType
  <2>3. zone = 0 => date'.text = Text(m)
    BY <1>2, <2>1, Formatted
  <2>4. date'.min = (m \div UsOneMin) % MinOneDay /\ date'.day = (m \div UsOneMin) \div MinOneDay
    BY <1>1, <1>2, <2>1, Formatted
  <2>5. date'.day # m \div MinOneDay
    BY <2>4, MinutesAreEarlier DEF m
  <2>6. Text(now').day = m \div MinOneDay
    BY <1>1, TextFields DEF m
  <2> QED
    BY <1>1, <2>2, <2>3, <2>4, <2>5, <2>6, TextFields DEF DateInv, DateAgrees
<1>4. CASE m \div MinOneDay = date.day
  <2>1. date' = [date EXCEPT !.text = IF m % MinOneDay # date.min THEN RewriteMin(seconds, m % MinOneDay) ELSE seconds,
                             !.min = m % MinOneDay]
    BY <1>4 DEF UpdateDate
  <2>2. date \in [text : Digits, min : Nat, day : Nat] /\ date.text \in Digits
    BY DEF DateInv, DateType
  <2>3. /\ seconds \in Digits /\ seconds.day = date.text.day /\ seconds.us = us % UsOneMin
        /\ seconds.hour = date.text.hour /\ seconds.min = date.text.min
    BY <1>2, <2>2 DEF Digits
  <2> HIDE DEF seconds, m
  <2> DEFINE n == m % MinOneDay
             text == IF n # date.min THEN RewriteMin(seconds, n) ELSE seconds
  <2>4. n \div MinOneHour \in Nat /\ n % MinOneHour \in Nat
    BY <1>2, UnitsAssumption, DivModType
  <2> HIDE DEF n
  <2>5. /\ text \in Digits /\ text.day = date.text.day /\ text.us = us % UsOneMin
        /\ zone = 0 => text.hour = n \div MinOneHour /\ text.min = n % MinOneHour
    <3>1. CASE n # date.min
      BY <2>3, <2>4, <3>1 DEF RewriteMin, Digits
    <3>2. CASE n = date.min
      BY <2>3, <3>2 DEF DateInv, DateAgrees
    <3> QED
      BY <3>1, <3>2
  <2>6. date' = [date EXCEPT !.text = text, !.min = n]
    BY <2>1 DEF n
  <2> HIDE DEF text
  <2>7. /\ date' \in [text : Digits, min : Nat, day : Nat]
        /\ date'.text = text /\ date'.min = n /\ date'.day = date.day
    BY <1>2, <2>2, <2>5, <2>6 DEF n
  <2>8. DateType'
    BY <1>1, <2>7 DEF DateType
  <2>9. zone = 0 => date.text.day = date.day
    BY DEF DateInv, DateAgrees
  <2> QED
    BY <1>1, <2>5, <2>7, <2>8, <2>9 DEF DateInv, DateAgrees, m, n
<1> QED
  BY <1>3, <1>4

\* The inductive invariant of the date, for any clock that is past the first day
\* of 1970.
THEOREM DateInvariant == DateSpec => []DateInv
<1>1. DateInit => DateInv
  <2> SUFFICES ASSUME DateInit PROVE DateInv
    OBVIOUS
  <2>1. now \in Times /\ now \in Nat /\ zone \in Nat /\ date = FormatToString(now)
    BY TimesAssumption DEF DateInit
  <2>2. /\ date \in [text : Digits, min : Nat, day : Nat] /\ (zone = 0 => date.text = Text(now))
        /\ date.min = (now \div UsOneMin) % MinOneDay /\ date.day = (now \div UsOneMin) \div MinOneDay
    BY <2>1, Formatted
  <2> QED
    BY <2>1, <2>2, TextFields DEF DateInv, DateType, DateAgrees
<1>2. DateInv /\ [DateNext]_dateVars => DateInv'
  <2> SUFFICES ASSUME DateInv, [DateNext]_dateVars PROVE DateInv'
    OBVIOUS
  <2>1. CASE UNCHANGED dateVars
    BY <2>1 DEF dateVars, DateInv, DateType, DateAgrees, Text
  <2>2. CASE DateNext
    BY <2>2, StepUpdateDate DEF DateNext
  <2> QED
    BY <2>1, <2>2
<1> QED
  BY <1>1, <1>2, PTL DEF DateSpec

\* DateTold: as long as time_day_ is the day of the call, the text that
\* update_date has patched digit by digit is the time of the call.
THEOREM DateIsTold == DateSpec => []DateTold
<1>1. DateInv => DateTold
  <2> SUFFICES ASSUME DateInv, zone = 0, date.day = Text(now).day PROVE date.text = Text(now)
    BY DEF DateTold
  <2>1. date.text \in Digits
    BY DEF DateInv, DateType
  <2>2. /\ date.text.day = Text(now).day /\ date.text.hour = Text(now).hour
        /\ date.text.min = Text(now).min /\ date.text.us = Text(now).us
    BY TextFields DEF DateInv, DateAgrees
  <2>3. Text(now) = [day |-> Text(now).day, hour |-> Text(now).hour, min |-> Text(now).min, us |-> Text(now).us]
    BY DEF Text
  <2>4. date.text = [day |-> date.text.day, hour |-> date.text.hour, min |-> date.text.min, us |-> date.text.us]
    BY <2>1 DEF Digits
  <2> QED
    BY <2>2, <2>3, <2>4
<1> QED
  BY <1>1, DateInvariant, PTL

-----------------------------------------------------------------------------
(* LinkedList *)

Links == Roots \cup LinkNodes

ListType ==
    /\ next_ \in [Links -> Links \cup {nonode}] /\ previous_ \in [Links -> Links \cup {nonode}]
    /\ order \in [Roots -> Seq(LinkNodes)]

\* The root is in front of the first node and behind the last one.
At(r, s, i) == IF i \in DOMAIN s THEN s[i] ELSE r

\* No node is on two lists or twice on one.
LinkedOnce ==
    \A r, q \in Roots : \A i \in DOMAIN order[r], j \in DOMAIN order[q] :
        order[r][i] = order[q][j] => r = q /\ i = j

Ring ==
    \A r \in Roots : \A i \in 0 .. Len(order[r]) :
        /\ next_[At(r, order[r], i)] = At(r, order[r], i + 1)
        /\ previous_[At(r, order[r], i + 1)] = At(r, order[r], i)

\* The inductive invariant of the lists.
ListInv == ListType /\ LinkedOnce /\ Ring

\* What InsertAt and RemoveAt do to the places of the nodes
LEMMA PlacesInserted ==
  ASSUME NEW r \in Roots, NEW s \in Seq(LinkNodes), NEW i \in 1 .. Len(s) + 1, NEW n \in LinkNodes
  PROVE  LET t == InsertAt(s, i, n) IN
         /\ t \in Seq(LinkNodes) /\ Len(t) = Len(s) + 1
         /\ \A j \in 0 .. Len(s) + 2 :
               At(r, t, j) = IF j < i THEN At(r, s, j) ELSE IF j = i THEN n ELSE At(r, s, j - 1)
         /\ \A j \in DOMAIN t : t[j] = IF j < i THEN s[j] ELSE IF j = i THEN n ELSE s[j - 1]
<1> DEFINE t == InsertAt(s, i, n)
           a == SubSeq(s, 1, i - 1)
           b == SubSeq(s, i, Len(s))
<1>1. Len(s) \in Nat /\ i \in Nat /\ i >= 1 /\ i <= Len(s) + 1
  OBVIOUS
<1>2. a \in Seq(LinkNodes) /\ Len(a) = i - 1 /\ \A j \in 1 .. i - 1 : a[j] = s[j]
  BY <1>1
<1>3. b \in Seq(LinkNodes) /\ Len(b) = Len(s) - i + 1 /\ \A j \in 1 .. Len(s) - i + 1 : b[j] = s[i + j - 1]
  BY <1>1
<1> HIDE DEF a, b
<1>4. t = a \o <<n>> \o b
  BY DEF InsertAt, a, b
<1>5. t \in Seq(LinkNodes) /\ Len(t) = Len(s) + 1
  <2> DEFINE c == a \o <<n>>
  <2>1. c \in Seq(LinkNodes) /\ Len(c) = i
    BY <1>1, <1>2
  <2>2. t = c \o b
    BY <1>4
  <2> HIDE DEF c, t
  <2>3. t \in Seq(LinkNodes) /\ Len(t) = Len(c) + Len(b)
    BY <1>3, <2>1, <2>2
  <2> QED
    BY <1>1, <1>3, <2>1, <2>3
<1>6. \A j \in 1 .. Len(s) + 1 : t[j] = IF j < i THEN s[j] ELSE IF j = i THEN n ELSE s[j - 1]
  <2> SUFFICES ASSUME NEW j \in 1 .. Len(s) + 1
               PROVE  t[j] = IF j < i THEN s[j] ELSE IF j = i THEN n ELSE s[j - 1]
    OBVIOUS
  <2> DEFINE c == a \o <<n>>
  <2>1. c \in Seq(LinkNodes) /\ Len(c) = i /\ c[i] = n /\ \A k \in 1 .. i - 1 : c[k] = a[k]
    BY <1>1, <1>2
  <2>2. t = c \o b
    BY <1>4
  <2> HIDE DEF c, t
  <2>3. CASE j <= i
    <3>1. t[j] = c[j]
      BY <1>1, <1>3, <2>1, <2>2, <2>3
    <3> QED
      BY <1>1, <1>2, <2>1, <2>3, <3>1
  <2>4. CASE j > i
    <3>1. t[j] = b[j - i]
      <4>1. j \in 1 .. Len(c) + Len(b) /\ ~ (j <= Len(c))
        BY <1>1, <1>3, <2>1, <2>4
      <4>2. b \in Seq(LinkNodes)
        BY <1>3
      <4> QED
        BY <2>1, <2>2, <4>1, <4>2
    <3>2. j - i \in 1 .. Len(s) - i + 1 /\ i + (j - i) - 1 = j - 1
      BY <1>1, <2>4
    <3> QED
      BY <1>1, <1>3, <2>4, <3>1, <3>2
  <2> QED
    BY <1>1, <2>3, <2>4
<1> HIDE DEF t
<1>7. \A j \in 0 .. Len(s) + 2 :
        At(r, t, j) = IF j < i THEN At(r, s, j) ELSE IF j = i THEN n ELSE At(r, s, j - 1)
  <2>1. DOMAIN t = 1 .. Len(s) + 1 /\ DOMAIN s = 1 .. Len(s)
    BY <1>5
  <2> QED
    BY <1>1, <1>6, <2>1 DEF At
<1>8. DOMAIN t = 1 .. Len(s) + 1
  BY <1>5
<1> QED
  BY <1>5, <1>6, <1>7, <1>8 DEF t

LEMMA PlacesRemoved ==
  ASSUME NEW r \in Roots, NEW s \in Seq(LinkNodes), NEW i \in DOMAIN s
  PROVE  LET t == RemoveAt(s, i) IN
         /\ t \in Seq(LinkNodes) /\ Len(t) = Len(s) - 1
         /\ \A j \in 0 .. Len(s) : At(r, t, j) = IF j < i THEN At(r, s, j) ELSE At(r, s, j + 1)
         /\ \A j \in DOMAIN t : t[j] = IF j < i THEN s[j] ELSE s[j + 1]
<1> DEFINE t == RemoveAt(s, i)
           a == SubSeq(s, 1, i - 1)
           b == SubSeq(s, i + 1, Len(s))
<1>1. Len(s) \in Nat /\ i \in Nat /\ i >= 1 /\ i <= Len(s)
  OBVIOUS
<1>2. a \in Seq(LinkNodes) /\ Len(a) = i - 1 /\ \A j \in 1 .. i - 1 : a[j] = s[j]
  BY <1>1
<1>3. b \in Seq(LinkNodes) /\ Len(b) = Len(s) - i /\ \A j \in 1 .. Len(s) - i : b[j] = s[i + j]
  BY <1>1
<1> HIDE DEF a, b
<1>4. t = a \o b
  BY DEF RemoveAt, a, b
<1>5. t \in Seq(LinkNodes) /\ Len(t) = Len(s) - 1
  BY <1>1, <1>2, <1>3, <1>4
<1>6. \A j \in 1 .. Len(s) - 1 : t[j] = IF j < i THEN s[j] ELSE s[j + 1]
  <2> SUFFICES ASSUME NEW j \in 1 .. Len(s) - 1
               PROVE  t[j] = IF j < i THEN s[j] ELSE s[j + 1]
    OBVIOUS
  <2> HIDE DEF t
  <2>1. CASE j < i
    BY <1>1, <1>2, <1>3, <1>4, <2>1
  <2>2. CASE j >= i
    <3>1. j \in Len(a) + 1 .. Len(a) + Len(b)
      BY <1>1, <1>2, <1>3, <2>2
    <3>2. t[j] = b[j - Len(a)]
      <4>1. a \in Seq(LinkNodes) /\ b \in Seq(LinkNodes)
        BY <1>2, <1>3
      <4>2. j \in Nat /\ j > Len(a) /\ j <= Len(a) + Len(b)
        BY <1>1, <1>2, <1>3, <3>1
      <4> QED
        BY <1>4, <4>1, <4>2
    <3>3. j - Len(a) \in 1 .. Len(s) - i /\ i + (j - Len(a)) = j + 1
      BY <1>1, <1>2, <2>2
    <3>4. b[j - Len(a)] = s[i + (j - Len(a))]
      BY <1>3, <3>3, Zenon
    <3>5. t[j] = s[j + 1]
      BY <3>2, <3>3, <3>4
    <3> QED
      BY <1>1, <2>2, <3>5
  <2> QED
    BY <1>1, <2>1, <2>2
<1> HIDE DEF t
<1>7. DOMAIN t = 1 .. Len(s) - 1 /\ DOMAIN s = 1 .. Len(s)
  BY <1>5
<1>8. \A j \in 0 .. Len(s) : At(r, t, j) = IF j < i THEN At(r, s, j) ELSE At(r, s, j + 1)
  BY <1>1, <1>6, <1>7 DEF At
<1> QED
  BY <1>5, <1>6, <1>7, <1>8 DEF t

\* Every node, and the root before the first or behind the last one, has one place.
LEMMA PlacesApart ==
  ASSUME ListInv, NEW r \in Roots, NEW q \in Roots
  PROVE  /\ \A j \in 0 .. Len(order[r]), k \in 0 .. Len(order[q]) :
               At(r, order[r], j) = At(q, order[q], k) => r = q /\ j = k
         /\ \A j \in 1 .. Len(order[r]) + 1, k \in 1 .. Len(order[q]) + 1 :
               At(r, order[r], j) = At(q, order[q], k) => r = q /\ j = k
<1>1. order[r] \in Seq(LinkNodes) /\ order[q] \in Seq(LinkNodes)
  BY DEF ListInv, ListType
<1>2. /\ Len(order[r]) \in Nat /\ DOMAIN order[r] = 1 .. Len(order[r])
      /\ Len(order[q]) \in Nat /\ DOMAIN order[q] = 1 .. Len(order[q])
      /\ \A j \in DOMAIN order[r] : order[r][j] \in LinkNodes
      /\ \A j \in DOMAIN order[q] : order[q][j] \in LinkNodes
  BY <1>1
<1>3. ASSUME NEW j \in Nat, NEW k \in Nat, At(r, order[r], j) = At(q, order[q], k)
      PROVE  \/ j \in DOMAIN order[r] /\ k \in DOMAIN order[q] /\ r = q /\ j = k
             \/ j \notin DOMAIN order[r] /\ k \notin DOMAIN order[q] /\ r = q
  BY <1>2, <1>3, NodesAssumption DEF At, ListInv, LinkedOnce
<1>4. ASSUME NEW j \in 0 .. Len(order[r]), NEW k \in 0 .. Len(order[q]), At(r, order[r], j) = At(q, order[q], k)
      PROVE  r = q /\ j = k
  BY <1>2, <1>3, <1>4
<1>5. ASSUME NEW j \in 1 .. Len(order[r]) + 1, NEW k \in 1 .. Len(order[q]) + 1,
             At(r, order[r], j) = At(q, order[q], k)
      PROVE  r = q /\ j = k
  BY <1>2, <1>3, <1>5
<1> QED
  BY <1>4, <1>5

LEMMA PlacesKnown ==
  ASSUME ListInv, NEW r \in Roots
  PROVE  /\ order[r] \in Seq(LinkNodes) /\ Len(order[r]) \in Nat /\ DOMAIN order[r] = 1 .. Len(order[r])
         /\ \A j : At(r, order[r], j) \in Links
         /\ \A n : n \in LinkNodes /\ n \notin InLists => \A j : At(r, order[r], j) # n
         /\ \A j \in DOMAIN order[r] : order[r][j] = At(r, order[r], j) /\ order[r][j] \in InLists
<1>1. order[r] \in Seq(LinkNodes)
  BY DEF ListInv, ListType
<1>2. /\ Len(order[r]) \in Nat /\ DOMAIN order[r] = 1 .. Len(order[r])
      /\ \A j \in DOMAIN order[r] : order[r][j] \in LinkNodes
  BY <1>1
<1>3. \A j \in DOMAIN order[r] : order[r][j] \in InLists
  BY DEF InLists, ToSet
<1> QED
  BY <1>1, <1>2, <1>3, NodesAssumption DEF At, Links

\* A node that is on no list is put between two neighbours.
LEMMA NodeInserted ==
  ASSUME ListInv, NEW n \in LinkNodes, n \notin InLists, NEW r \in Roots, NEW i \in 1 .. Len(order[r]) + 1,
         PutBetween(n, At(r, order[r], i - 1), At(r, order[r], i)), InsertedAt(n, r, i)
  PROVE  ListInv'
<1> DEFINE s == order[r]
           t == InsertAt(s, i, n)
           before == At(r, s, i - 1)
           after == At(r, s, i)
<1>1. /\ s \in Seq(LinkNodes) /\ Len(s) \in Nat /\ DOMAIN s = 1 .. Len(s)
      /\ i \in Nat /\ 1 <= i /\ i <= Len(s) + 1
  BY PlacesKnown
<1>2. order \in [Roots -> Seq(LinkNodes)] /\ order' = [order EXCEPT ![r] = t]
  BY DEF InsertedAt, ListInv, ListType
<1>3. order'[r] = t /\ \A q \in Roots \ {r} : order'[q] = order[q]
  BY <1>2
<1>4. /\ t \in Seq(LinkNodes) /\ Len(t) = Len(s) + 1
      /\ \A j \in 0 .. Len(s) + 2 :
            At(r, t, j) = IF j < i THEN At(r, s, j) ELSE IF j = i THEN n ELSE At(r, s, j - 1)
      /\ \A j \in DOMAIN t : t[j] = IF j < i THEN s[j] ELSE IF j = i THEN n ELSE s[j - 1]
  <2>1. i \in 1 .. Len(s) + 1
    OBVIOUS
  <2> HIDE DEF s
  <2> QED
    BY <1>1, <2>1, PlacesInserted
<1>5. before \in Links /\ after \in Links /\ n \in Links /\ n # before /\ n # after
  BY PlacesKnown DEF Links
<1>6. /\ next_' = [next_ EXCEPT ![n] = after, ![before] = n]
      /\ previous_' = [previous_ EXCEPT ![n] = before, ![after] = n]
  BY DEF PutBetween
<1> HIDE DEF t, before, after
<1>7. /\ next_'[n] = after /\ next_'[before] = n /\ previous_'[n] = before /\ previous_'[after] = n
      /\ \A x \in Links : x # n /\ x # before => next_'[x] = next_[x]
      /\ \A x \in Links : x # n /\ x # after => previous_'[x] = previous_[x]
      /\ next_' \in [Links -> Links \cup {nonode}] /\ previous_' \in [Links -> Links \cup {nonode}]
  BY <1>5, <1>6 DEF ListInv, ListType
<1>8. ListType'
  BY <1>2, <1>4, <1>7 DEF ListType
<1>9. LinkedOnce'
  <2>1. \A q \in Roots : \A k \in DOMAIN order[q] : order[q][k] # n
    BY PlacesKnown
  <2>2. \A j, k \in DOMAIN s : s[j] = s[k] => j = k
    BY DEF ListInv, LinkedOnce
  <2>3. DOMAIN t = 1 .. Len(s) + 1
    BY <1>4
  <2>4. ASSUME NEW j \in DOMAIN t, NEW k \in DOMAIN t, t[j] = t[k]
        PROVE  j = k
    <3> HIDE DEF s
    <3>1. /\ j \in Nat /\ k \in Nat
          /\ \A m \in {j, k} : m < i => m \in DOMAIN s
          /\ \A m \in {j, k} : m > i => m - 1 \in DOMAIN s
      BY <1>1, <2>3
    <3>2. \A m \in DOMAIN s : s[m] # n
      BY <2>1 DEF s
    <3> QED
      BY <1>1, <1>4, <2>2, <2>4, <3>1, <3>2
  <2>5. ASSUME NEW q \in Roots \ {r}, NEW j \in DOMAIN t, NEW k \in DOMAIN order[q]
        PROVE  t[j] # order[q][k]
    <3>1. \A m \in DOMAIN s : s[m] # order[q][k]
      BY DEF ListInv, LinkedOnce
    <3> HIDE DEF s
    <3>2. /\ j < i => j \in DOMAIN s
          /\ j > i => j - 1 \in DOMAIN s
          /\ j \in Nat
      BY <1>1, <2>3
    <3> QED
      BY <1>1, <1>4, <2>1, <3>1, <3>2
  <2> QED
    BY <1>3, <2>4, <2>5 DEF ListInv, LinkedOnce
<1>10. ASSUME NEW j \in 0 .. Len(s) + 1
       PROVE  next_'[At(r, t, j)] = At(r, t, j + 1) /\ previous_'[At(r, t, j + 1)] = At(r, t, j)
  <2>1. \A k \in 0 .. Len(s) : next_[At(r, s, k)] = At(r, s, k + 1) /\ previous_[At(r, s, k + 1)] = At(r, s, k)
    BY DEF ListInv, Ring
  <2>2. /\ \A k, l \in 0 .. Len(s) : At(r, s, k) = At(r, s, l) => k = l
        /\ \A k, l \in 1 .. Len(s) + 1 : At(r, s, k) = At(r, s, l) => k = l
    BY PlacesApart
  <2>3. \A k : At(r, s, k) \in Links /\ At(r, s, k) # n
    BY PlacesKnown
  <2> HIDE DEF s
  <2>4. CASE j + 1 < i
    <3>1. j \in 0 .. Len(s) /\ i - 1 \in 0 .. Len(s) /\ j # i - 1 /\ j + 1 \in 1 .. Len(s) + 1 /\ i # j + 1 /\ j < i
          /\ j \in 0 .. Len(s) + 2 /\ j + 1 \in 0 .. Len(s) + 2 /\ i \in 1 .. Len(s) + 1
      BY <1>1, <2>4
    <3>2. At(r, t, j) = At(r, s, j) /\ At(r, t, j + 1) = At(r, s, j + 1)
      BY <1>4, <2>4, <3>1
    <3>3. At(r, s, j) # before /\ At(r, s, j + 1) # after
      BY <2>2, <3>1 DEF before, after
    <3> QED
      BY <1>7, <2>1, <2>3, <3>1, <3>2, <3>3
  <2>5. CASE j + 1 = i
    <3>1. j < i /\ j = i - 1 /\ j \in 0 .. Len(s) + 2 /\ j + 1 \in 0 .. Len(s) + 2 /\ ~ (j + 1 < i)
      BY <1>1, <2>5
    <3>2. At(r, t, j) = before /\ At(r, t, j + 1) = n
      BY <1>4, <2>5, <3>1 DEF before
    <3> QED
      BY <1>7, <3>2
  <2>6. CASE j = i
    <3>1. ~ (j < i) /\ ~ (j + 1 < i) /\ j + 1 # i /\ (j + 1) - 1 = i /\ j \in 0 .. Len(s) + 2 /\ j + 1 \in 0 .. Len(s) + 2
      BY <1>1, <2>6
    <3>2. At(r, t, j) = n /\ At(r, t, j + 1) = after
      BY <1>4, <2>6, <3>1 DEF after
    <3> QED
      BY <1>7, <3>2
  <2>7. CASE j > i
    <3>1. ~ (j < i) /\ j # i /\ ~ (j + 1 < i) /\ j + 1 # i /\ (j + 1) - 1 = j /\ (j - 1) + 1 = j
          /\ j \in 0 .. Len(s) + 2 /\ j + 1 \in 0 .. Len(s) + 2
          /\ j - 1 \in 0 .. Len(s) /\ i - 1 \in 0 .. Len(s) /\ j - 1 # i - 1
          /\ j \in 1 .. Len(s) + 1 /\ i \in 1 .. Len(s) + 1
      BY <1>1, <2>7
    <3>2. At(r, t, j) = At(r, s, j - 1) /\ At(r, t, j + 1) = At(r, s, j)
      BY <1>4, <3>1
    <3>3. At(r, s, j - 1) # before /\ At(r, s, j) # after
      BY <2>2, <3>1 DEF before, after
    <3>4. next_[At(r, s, j - 1)] = At(r, s, j) /\ previous_[At(r, s, j)] = At(r, s, j - 1)
      BY <2>1, <3>1
    <3>5. next_'[At(r, s, j - 1)] = At(r, s, j) /\ previous_'[At(r, s, j)] = At(r, s, j - 1)
      BY <1>7, <2>3, <3>3, <3>4
    <3> QED
      BY <3>2, <3>5
  <2> QED
    BY <1>1, <2>4, <2>5, <2>6, <2>7
<1>11. ASSUME NEW q \in Roots \ {r}, NEW j \in 0 .. Len(order[q])
       PROVE  /\ next_'[At(q, order[q], j)] = At(q, order[q], j + 1)
              /\ previous_'[At(q, order[q], j + 1)] = At(q, order[q], j)
  <2>1. At(q, order[q], j) # before /\ At(q, order[q], j + 1) # after
    <3>1. Len(order[q]) \in Nat /\ j + 1 \in 1 .. Len(order[q]) + 1 /\ i - 1 \in 0 .. Len(s) /\ i \in 1 .. Len(s) + 1
      BY <1>1, PlacesKnown
    <3> QED
      BY <3>1, PlacesApart DEF before, after
  <2>2. \A k : At(q, order[q], k) \in Links /\ At(q, order[q], k) # n
    BY PlacesKnown
  <2> QED
    BY <1>7, <2>1, <2>2 DEF ListInv, Ring
<1>12. Ring'
  <2> SUFFICES ASSUME NEW q \in Roots, NEW j \in 0 .. Len(order'[q])
               PROVE  /\ next_'[At(q, order'[q], j)] = At(q, order'[q], j + 1)
                      /\ previous_'[At(q, order'[q], j + 1)] = At(q, order'[q], j)
    BY DEF Ring, At
  <2>1. CASE q = r
    BY <1>3, <1>4, <1>10, <2>1
  <2>2. CASE q # r
    BY <1>3, <1>11, <2>2
  <2> QED
    BY <2>1, <2>2
<1> QED
  BY <1>8, <1>9, <1>12 DEF ListInv

\* The neighbours of a node are linked to each other.
LEMMA NodeRemoved ==
  ASSUME ListInv, NEW r \in Roots, NEW i \in DOMAIN order[r],
         next_' = [next_ EXCEPT ![At(r, order[r], i - 1)] = At(r, order[r], i + 1)],
         previous_' = [previous_ EXCEPT ![At(r, order[r], i + 1)] = At(r, order[r], i - 1)],
         order' = [order EXCEPT ![r] = RemoveAt(order[r], i)]
  PROVE  ListInv'
<1> DEFINE s == order[r]
           t == RemoveAt(s, i)
           before == At(r, s, i - 1)
           after == At(r, s, i + 1)
<1>1. /\ s \in Seq(LinkNodes) /\ Len(s) \in Nat /\ DOMAIN s = 1 .. Len(s)
      /\ i \in Nat /\ 1 <= i /\ i <= Len(s)
  BY PlacesKnown
<1>2. order \in [Roots -> Seq(LinkNodes)] /\ order' = [order EXCEPT ![r] = t]
  BY DEF ListInv, ListType
<1>3. order'[r] = t /\ \A q \in Roots \ {r} : order'[q] = order[q]
  BY <1>2
<1>4. /\ t \in Seq(LinkNodes) /\ Len(t) = Len(s) - 1
      /\ \A j \in 0 .. Len(s) : At(r, t, j) = IF j < i THEN At(r, s, j) ELSE At(r, s, j + 1)
      /\ \A j \in DOMAIN t : t[j] = IF j < i THEN s[j] ELSE s[j + 1]
  <2>1. i \in DOMAIN s
    OBVIOUS
  <2> HIDE DEF s
  <2> QED
    BY <1>1, <2>1, PlacesRemoved, Zenon
<1>5. before \in Links /\ after \in Links
  BY PlacesKnown
<1>6. next_' = [next_ EXCEPT ![before] = after] /\ previous_' = [previous_ EXCEPT ![after] = before]
  OBVIOUS
<1> HIDE DEF t, before, after
<1>7. /\ next_'[before] = after /\ previous_'[after] = before
      /\ \A x \in Links : x # before => next_'[x] = next_[x]
      /\ \A x \in Links : x # after => previous_'[x] = previous_[x]
      /\ next_' \in [Links -> Links \cup {nonode}] /\ previous_' \in [Links -> Links \cup {nonode}]
  <2>1. next_ \in [Links -> Links \cup {nonode}] /\ previous_ \in [Links -> Links \cup {nonode}]
    BY DEF ListInv, ListType
  <2>2. /\ next_'[before] = after /\ next_' \in [Links -> Links \cup {nonode}]
        /\ \A x \in Links : x # before => next_'[x] = next_[x]
    BY <1>5, <1>6, <2>1
  <2>3. /\ previous_'[after] = before /\ previous_' \in [Links -> Links \cup {nonode}]
        /\ \A x \in Links : x # after => previous_'[x] = previous_[x]
    BY <1>5, <1>6, <2>1
  <2> QED
    BY <2>2, <2>3
<1>8. ListType'
  BY <1>2, <1>4, <1>7 DEF ListType
<1>9. LinkedOnce'
  <2>1. \A j, k \in DOMAIN s : s[j] = s[k] => j = k
    BY DEF ListInv, LinkedOnce
  <2>2. DOMAIN t = 1 .. Len(s) - 1
    BY <1>1, <1>4
  <2>3. ASSUME NEW j \in DOMAIN t, NEW k \in DOMAIN t, t[j] = t[k]
        PROVE  j = k
    <3> HIDE DEF s
    <3> DEFINE old(m) == IF m < i THEN m ELSE m + 1
    <3>1. j \in Nat /\ k \in Nat /\ old(j) \in DOMAIN s /\ old(k) \in DOMAIN s
      BY <1>1, <2>2
    <3>2. t[j] = s[old(j)] /\ t[k] = s[old(k)]
      BY <1>4
    <3>3. old(j) = old(k) => j = k
      BY <1>1, <3>1
    <3> HIDE DEF old
    <3> QED
      BY <2>1, <2>3, <3>1, <3>2, <3>3
  <2>4. ASSUME NEW q \in Roots \ {r}, NEW j \in DOMAIN t, NEW k \in DOMAIN order[q]
        PROVE  t[j] # order[q][k]
    <3>1. \A m \in DOMAIN s : s[m] # order[q][k]
      BY DEF ListInv, LinkedOnce
    <3> HIDE DEF s
    <3>2. j \in DOMAIN s /\ j + 1 \in DOMAIN s
      BY <1>1, <2>2
    <3> QED
      BY <1>1, <1>4, <3>1, <3>2
  <2> QED
    BY <1>3, <2>3, <2>4 DEF ListInv, LinkedOnce
<1>10. ASSUME NEW j \in 0 .. Len(s) - 1
       PROVE  next_'[At(r, t, j)] = At(r, t, j + 1) /\ previous_'[At(r, t, j + 1)] = At(r, t, j)
  <2>1. \A k \in 0 .. Len(s) : next_[At(r, s, k)] = At(r, s, k + 1) /\ previous_[At(r, s, k + 1)] = At(r, s, k)
    BY DEF ListInv, Ring
  <2>2. /\ \A k, l \in 0 .. Len(s) : At(r, s, k) = At(r, s, l) => k = l
        /\ \A k, l \in 1 .. Len(s) + 1 : At(r, s, k) = At(r, s, l) => k = l
    BY PlacesApart
  <2>3. \A k : At(r, s, k) \in Links
    BY PlacesKnown
  <2> HIDE DEF s
  <2>4. i - 1 \in 0 .. Len(s) /\ i + 1 \in 1 .. Len(s) + 1 /\ j \in 0 .. Len(s) /\ j + 1 \in 0 .. Len(s)
    BY <1>1
  <2>5. CASE j + 1 < i
    <3>1. j < i /\ j # i - 1 /\ j + 1 # i + 1 /\ j + 1 \in 1 .. Len(s) + 1
      BY <1>1, <2>5
    <3>2. At(r, t, j) = At(r, s, j) /\ At(r, t, j + 1) = At(r, s, j + 1)
      BY <1>4, <2>4, <2>5, <3>1
    <3>3. At(r, s, j) # before /\ At(r, s, j + 1) # after
      BY <2>2, <2>4, <3>1 DEF before, after
    <3> QED
      BY <1>7, <2>1, <2>3, <2>4, <3>2, <3>3
  <2>6. CASE j + 1 = i
    <3>1. j < i /\ j = i - 1 /\ ~ (j + 1 < i) /\ (j + 1) + 1 = i + 1
      BY <1>1, <2>6
    <3>2. At(r, t, j) = before /\ At(r, t, j + 1) = after
      BY <1>4, <2>4, <3>1 DEF before, after
    <3> QED
      BY <1>7, <3>2
  <2>7. CASE j + 1 > i
    <3>1. /\ ~ (j < i) /\ ~ (j + 1 < i) /\ j + 1 # i - 1 /\ (j + 1) + 1 # i + 1
          /\ (j + 1) + 1 \in 1 .. Len(s) + 1
      BY <1>1, <2>7
    <3>2. At(r, t, j) = At(r, s, j + 1) /\ At(r, t, j + 1) = At(r, s, (j + 1) + 1)
      BY <1>4, <2>4, <3>1
    <3>3. At(r, s, j + 1) # before /\ At(r, s, (j + 1) + 1) # after
      BY <2>2, <2>4, <3>1 DEF before, after
    <3> QED
      BY <1>7, <2>1, <2>3, <2>4, <3>2, <3>3
  <2> QED
    BY <1>1, <2>5, <2>6, <2>7
<1>11. ASSUME NEW q \in Roots \ {r}, NEW j \in 0 .. Len(order[q])
       PROVE  /\ next_'[At(q, order[q], j)] = At(q, order[q], j + 1)
              /\ previous_'[At(q, order[q], j + 1)] = At(q, order[q], j)
  <2>1. At(q, order[q], j) # before /\ At(q, order[q], j + 1) # after
    <3>1. Len(order[q]) \in Nat /\ j + 1 \in 1 .. Len(order[q]) + 1 /\ i - 1 \in 0 .. Len(s) /\ i + 1 \in 1 .. Len(s) + 1
      BY <1>1, PlacesKnown
    <3> QED
      BY <3>1, PlacesApart DEF before, after
  <2>2. \A k : At(q, order[q], k) \in Links
    BY PlacesKnown
  <2> QED
    BY <1>7, <2>1, <2>2 DEF ListInv, Ring
<1>12. Ring'
  <2> SUFFICES ASSUME NEW q \in Roots, NEW j \in 0 .. Len(order'[q])
               PROVE  /\ next_'[At(q, order'[q], j)] = At(q, order'[q], j + 1)
                      /\ previous_'[At(q, order'[q], j + 1)] = At(q, order'[q], j)
    BY DEF Ring, At
  <2>1. CASE q = r
    BY <1>3, <1>4, <1>10, <2>1
  <2>2. CASE q # r
    BY <1>3, <1>11, <2>2
  <2> QED
    BY <2>1, <2>2
<1> QED
  BY <1>8, <1>9, <1>12 DEF ListInv

\* The neighbours of a node are those of its place.
LEMMA Neighbours ==
  ASSUME ListInv, NEW r \in Roots, NEW i \in DOMAIN order[r]
  PROVE  /\ previous_[order[r][i]] = At(r, order[r], i - 1) /\ next_[order[r][i]] = At(r, order[r], i + 1)
         /\ order[r][i] = At(r, order[r], i)
<1>1. Len(order[r]) \in Nat /\ i \in 1 .. Len(order[r]) /\ order[r][i] = At(r, order[r], i)
  BY PlacesKnown
<1>2. i \in 0 .. Len(order[r]) /\ i - 1 \in 0 .. Len(order[r]) /\ (i - 1) + 1 = i
  BY <1>1
<1>3. next_[At(r, order[r], i)] = At(r, order[r], i + 1)
  BY <1>2 DEF ListInv, Ring
<1>4. previous_[At(r, order[r], (i - 1) + 1)] = At(r, order[r], i - 1)
  BY <1>2 DEF ListInv, Ring
<1> QED
  BY <1>1, <1>2, <1>3, <1>4

\* The inductive invariant of the lists: no node has two places, and every link
\* is that of a neighbour.
THEOREM ListInvariant == ListSpec => []ListInv
<1>1. ListInit => ListInv
  <2> SUFFICES ASSUME ListInit PROVE ListInv
    OBVIOUS
  <2>1. order = [r \in Roots |-> <<>>] /\ \A r \in Roots : order[r] = <<>>
    BY DEF ListInit
  <2>2. ListType
    BY <2>1 DEF ListInit, ListType, Links
  <2>3. LinkedOnce
    BY <2>1 DEF LinkedOnce
  <2>4. Ring
    BY <2>1 DEF ListInit, Ring, At
  <2> QED
    BY <2>2, <2>3, <2>4 DEF ListInv
<1>2. ListInv /\ [ListNext]_listVars => ListInv'
  <2> SUFFICES ASSUME ListInv, [ListNext]_listVars PROVE ListInv'
    OBVIOUS
  <2>1. CASE UNCHANGED listVars
    BY <2>1 DEF listVars, ListInv, ListType, LinkedOnce, Ring, At
  <2>2. ASSUME NEW n \in LinkNodes, NEW e \in LinkNodes, InsertBefore(n, e)
        PROVE  ListInv'
    <3>1. PICK r \in Roots : \E i \in DOMAIN order[r] : order[r][i] = e /\ InsertedAt(n, r, i)
      BY <2>2 DEF InsertBefore
    <3>2. PICK i \in DOMAIN order[r] : order[r][i] = e /\ InsertedAt(n, r, i)
      BY <3>1
    <3>3. i \in 1 .. Len(order[r]) + 1
      BY PlacesKnown
    <3>4. PutBetween(n, At(r, order[r], i - 1), At(r, order[r], i))
      BY <2>2, <3>2, Neighbours DEF InsertBefore
    <3> QED
      BY <2>2, <3>2, <3>3, <3>4, NodeInserted DEF InsertBefore
  <2>3. ASSUME NEW n \in LinkNodes, NEW e \in LinkNodes, InsertAfter(n, e)
        PROVE  ListInv'
    <3>1. PICK r \in Roots : \E i \in DOMAIN order[r] : order[r][i] = e /\ InsertedAt(n, r, i + 1)
      BY <2>3 DEF InsertAfter
    <3>2. PICK i \in DOMAIN order[r] : order[r][i] = e /\ InsertedAt(n, r, i + 1)
      BY <3>1
    <3>3. i + 1 \in 1 .. Len(order[r]) + 1 /\ (i + 1) - 1 = i
      BY PlacesKnown
    <3>4. PutBetween(n, At(r, order[r], (i + 1) - 1), At(r, order[r], i + 1))
      BY <2>3, <3>2, <3>3, Neighbours DEF InsertAfter
    <3> QED
      BY <2>3, <3>2, <3>3, <3>4, NodeInserted DEF InsertAfter
  <2>4. ASSUME NEW n \in LinkNodes, NEW r \in Roots, ListAppend(r, n)
        PROVE  ListInv'
    <3> DEFINE l == Len(order[r])
    <3>1. l \in Nat /\ l + 1 \in 1 .. l + 1 /\ (l + 1) - 1 = l /\ l \in 0 .. l
          /\ DOMAIN order[r] = 1 .. l
      BY PlacesKnown
    <3>2. At(r, order[r], l + 1) = r
      BY <3>1 DEF At
    <3>3. previous_[At(r, order[r], l + 1)] = At(r, order[r], l)
      BY <3>1 DEF ListInv, Ring
    <3>4. PutBetween(n, At(r, order[r], (l + 1) - 1), At(r, order[r], l + 1))
      BY <2>4, <3>1, <3>2, <3>3 DEF ListAppend
    <3>5. InsertedAt(n, r, l + 1) /\ n \notin InLists
      BY <2>4 DEF ListAppend
    <3> QED
      BY <3>1, <3>4, <3>5, NodeInserted
  <2>5. ASSUME NEW n \in LinkNodes, RemoveFromList(n)
        PROVE  ListInv'
    <3>1. PICK r \in Roots : \E i \in DOMAIN order[r] :
                order[r][i] = n /\ order' = [order EXCEPT ![r] = RemoveAt(@, i)]
      BY <2>5 DEF RemoveFromList
    <3>2. PICK i \in DOMAIN order[r] : order[r][i] = n /\ order' = [order EXCEPT ![r] = RemoveAt(order[r], i)]
      BY <3>1
    <3>3. previous_[n] = At(r, order[r], i - 1) /\ next_[n] = At(r, order[r], i + 1)
      BY <3>2, Neighbours
    <3>4. /\ next_' = [next_ EXCEPT ![At(r, order[r], i - 1)] = At(r, order[r], i + 1)]
          /\ previous_' = [previous_ EXCEPT ![At(r, order[r], i + 1)] = At(r, order[r], i - 1)]
      BY <2>5, <3>3 DEF RemoveFromList, UnlinkBack
    <3> QED
      BY <3>2, <3>4, NodeRemoved
  <2> QED
    BY <2>1, <2>2, <2>3, <2>4, <2>5, Zenon DEF ListNext
<1> QED
  BY <1>1, <1>2, PTL DEF ListSpec

\* BothWays, for any number of lists and nodes: forwards and backwards, a list
\* has the nodes that were inserted and not removed, in order.
THEOREM ListsGoBothWays == ListSpec => []BothWays
<1>1. ListInv => BothWays
  <2> SUFFICES ASSUME ListInv, NEW r \in Roots
               PROVE  LET ring == <<r>> \o order[r] \o <<r>> IN
                      \A i \in 1 .. Len(ring) - 1 : next_[ring[i]] = ring[i + 1] /\ previous_[ring[i + 1]] = ring[i]
    BY DEF BothWays
  <2> DEFINE s == order[r]
             ring == <<r>> \o s \o <<r>>
  <2>1. s \in Seq(LinkNodes) /\ Len(s) \in Nat /\ DOMAIN s = 1 .. Len(s)
    BY PlacesKnown
  <2>2. \A i \in 0 .. Len(s) : next_[At(r, s, i)] = At(r, s, i + 1) /\ previous_[At(r, s, i + 1)] = At(r, s, i)
    BY DEF ListInv, Ring
  <2> HIDE DEF s
  <2>3. Len(ring) = Len(s) + 2 /\ \A i \in 1 .. Len(s) + 2 : ring[i] = At(r, s, i - 1)
    <3>1. s \in Seq(Links) /\ <<r>> \in Seq(Links)
      BY <2>1 DEF Links
    <3> DEFINE c == <<r>> \o s
    <3>2. c \in Seq(Links) /\ Len(c) = Len(s) + 1 /\ \A i \in 1 .. Len(s) + 1 : c[i] = IF i = 1 THEN r ELSE s[i - 1]
      BY <2>1, <3>1
    <3>3. ring = c \o <<r>>
      OBVIOUS
    <3> HIDE DEF c, ring
    <3>4. Len(ring) = Len(s) + 2 /\ \A i \in 1 .. Len(s) + 2 : ring[i] = IF i = Len(s) + 2 THEN r ELSE c[i]
      BY <2>1, <3>1, <3>2, <3>3
    <3> QED
      BY <2>1, <3>2, <3>4 DEF At
  <2> HIDE DEF ring
  <2>4. ASSUME NEW i \in 1 .. Len(ring) - 1
        PROVE  next_[ring[i]] = ring[i + 1] /\ previous_[ring[i + 1]] = ring[i]
    <3>1. /\ i \in 1 .. Len(s) + 2 /\ i + 1 \in 1 .. Len(s) + 2 /\ i - 1 \in 0 .. Len(s)
          /\ (i + 1) - 1 = i /\ (i - 1) + 1 = i
      BY <2>1, <2>3
    <3>2. ring[i] = At(r, s, i - 1) /\ ring[i + 1] = At(r, s, i)
      BY <2>3, <3>1
    <3> QED
      BY <2>2, <3>1, <3>2
  <2> QED
    BY <2>4 DEF ring, s
<1> QED
  BY <1>1, ListInvariant, PTL

-----------------------------------------------------------------------------
(* Sums *)

\* Induction, for a set of numbers
LEMMA SetInduction ==
  ASSUME NEW P \in SUBSET Nat, 0 \in P, \A n \in P : n + 1 \in P
  PROVE  P = Nat
<1> SUFFICES ASSUME Nat \ P # {} PROVE FALSE
  OBVIOUS
<1>1. PICK x \in Nat \ P : \A y \in Nat \ P : x <= y
  <2> DEFINE S == Nat \ P
  <2>1. S \in SUBSET Nat /\ S # {}
    OBVIOUS
  <2> HIDE DEF S
  <2>2. \E x \in S : \A y \in S : x <= y
    BY <2>1, LeastOne
  <2> QED
    BY <2>2 DEF S
<1>2. x # 0 /\ x - 1 \in Nat /\ ~ (x <= x - 1) /\ (x - 1) + 1 = x
  BY <1>1
<1>3. x - 1 \in P
  BY <1>1, <1>2
<1> QED
  BY <1>2, <1>3

\* The partial sums of the first n numbers of w, and the last one of them
AreSums(f, w, n) == f = [i \in 0 .. n |-> IF i = 0 THEN 0 ELSE f[i - 1] + w[i]]
SumTo(w, n) == (CHOOSE f : AreSums(f, w, n))[n]

\* The partial sums are numbers, ...
LEMMA SumsAreNumbers ==
  ASSUME NEW w, NEW n \in Nat, \A i \in 1 .. n : w[i] \in Nat, NEW f, AreSums(f, w, n)
  PROVE  f \in [0 .. n -> Nat] /\ f[0] = 0 /\ \A i \in 1 .. n : f[i] = f[i - 1] + w[i]
<1> DEFINE P == {i \in Nat : i <= n => f[i] \in Nat}
<1>1. /\ DOMAIN f = 0 .. n /\ f[0] = 0 /\ \A i \in 1 .. n : f[i] = f[i - 1] + w[i]
      /\ f = [i \in 0 .. n |-> f[i]]
  <2> DEFINE h == [i \in 0 .. n |-> IF i = 0 THEN 0 ELSE f[i - 1] + w[i]]
  <2>1. DOMAIN h = 0 .. n /\ (\A i \in 0 .. n : h[i] = IF i = 0 THEN 0 ELSE f[i - 1] + w[i])
        /\ h = [i \in 0 .. n |-> h[i]]
    OBVIOUS
  <2>2. f = h
    BY Zenon DEF AreSums
  <2> HIDE DEF h
  <2>3. DOMAIN f = 0 .. n /\ (\A i \in 0 .. n : f[i] = IF i = 0 THEN 0 ELSE f[i - 1] + w[i])
        /\ f = [i \in 0 .. n |-> f[i]]
    BY <2>1, <2>2, Zenon
  <2>4. 0 \in 0 .. n /\ \A i \in 1 .. n : i \in 0 .. n /\ i # 0
    OBVIOUS
  <2> QED
    BY <2>3, <2>4, Zenon
<1>2. ASSUME NEW i \in P PROVE i + 1 \in P
  <2>1. CASE i + 1 <= n
    <3>1. i + 1 \in 1 .. n /\ (i + 1) - 1 = i /\ f[i] \in Nat
      BY <2>1
    <3>2. f[i + 1] = f[i] + w[i + 1]
      BY <1>1, <3>1
    <3> QED
      BY <3>1, <3>2
  <2> QED
    BY <2>1
<1>3. P = Nat
  <2>1. 0 \in P /\ P \in SUBSET Nat
    BY <1>1
  <2> HIDE DEF P
  <2> QED
    BY <1>2, <2>1, SetInduction
<1>4. \A i \in 0 .. n : f[i] \in Nat
  BY <1>3
<1> QED
  BY <1>1, <1>4

\* ... the sums go on with the next number, ...
LEMMA SumsGoOn ==
  ASSUME NEW w, NEW v, NEW n \in Nat, \A i \in 1 .. n : v[i] = w[i],
         \A i \in 1 .. n + 1 : v[i] \in Nat, NEW f, AreSums(f, w, n)
  PROVE  AreSums([i \in 0 .. n + 1 |-> IF i = n + 1 THEN f[n] + v[n + 1] ELSE f[i]], v, n + 1)
<1>1. \A i \in 1 .. n : w[i] \in Nat
  OBVIOUS
<1>2. f \in [0 .. n -> Nat] /\ f[0] = 0 /\ \A i \in 1 .. n : f[i] = f[i - 1] + w[i]
  BY <1>1, SumsAreNumbers
<1> DEFINE g == [i \in 0 .. n + 1 |-> IF i = n + 1 THEN f[n] + v[n + 1] ELSE f[i]]
<1>3. ASSUME NEW i \in 0 .. n + 1
      PROVE  g[i] = IF i = 0 THEN 0 ELSE g[i - 1] + v[i]
  <2>1. CASE i = 0
    BY <1>2, <2>1
  <2>2. CASE i \in 1 .. n
    <3>1. g[i] = f[i] /\ g[i - 1] = f[i - 1]
      BY <2>2
    <3> QED
      BY <1>2, <2>2, <3>1
  <2>3. CASE i = n + 1
    <3>1. g[i] = f[n] + v[n + 1] /\ i - 1 = n /\ g[n] = f[n] /\ i # 0
      BY <2>3
    <3> QED
      BY <2>3, <3>1
  <2> QED
    BY <2>1, <2>2, <2>3
<1> QED
  BY <1>3 DEF AreSums

\* ... so there are such sums, ...
LEMMA SumsExist ==
  ASSUME NEW w, NEW n \in Nat, \A i \in 1 .. n : w[i] \in Nat
  PROVE  \E f : AreSums(f, w, n)
<1> DEFINE P == {k \in Nat : k <= n => \E f : AreSums(f, w, k)}
<1>1. 0 \in P
  <2> DEFINE f == [i \in 0 .. 0 |-> 0]
  <2>1. AreSums(f, w, 0)
    BY DEF AreSums
  <2> QED
    BY <2>1
<1>2. ASSUME NEW k \in P PROVE k + 1 \in P
  <2> SUFFICES ASSUME k + 1 <= n PROVE \E g : AreSums(g, w, k + 1)
    OBVIOUS
  <2>1. PICK f : AreSums(f, w, k)
    OBVIOUS
  <2>2. k \in Nat /\ (\A i \in 1 .. k : w[i] = w[i]) /\ \A i \in 1 .. k + 1 : w[i] \in Nat
    OBVIOUS
  <2> QED
    BY <2>1, <2>2, SumsGoOn
<1>3. P = Nat
  BY <1>1, <1>2, SetInduction
<1>4. n <= n
  OBVIOUS
<1> QED
  BY <1>3, <1>4

\* ... and only one sum.
LEMMA SumIs ==
  ASSUME NEW w, NEW n \in Nat, \A i \in 1 .. n : w[i] \in Nat, NEW g, AreSums(g, w, n)
  PROVE  SumTo(w, n) = g[n] /\ SumTo(w, n) \in Nat
<1> DEFINE f == CHOOSE h : AreSums(h, w, n)
           P == {i \in Nat : i <= n => f[i] = g[i]}
<1>1. SumTo(w, n) = f[n]
  BY DEF SumTo
<1>2. AreSums(f, w, n)
  BY SumsExist
<1> HIDE DEF f
<1>3. /\ f \in [0 .. n -> Nat] /\ f[0] = 0 /\ \A i \in 1 .. n : f[i] = f[i - 1] + w[i]
      /\ g \in [0 .. n -> Nat] /\ g[0] = 0 /\ \A i \in 1 .. n : g[i] = g[i - 1] + w[i]
  BY <1>2, SumsAreNumbers
<1>4. ASSUME NEW i \in P PROVE i + 1 \in P
  <2>1. CASE i + 1 <= n
    <3>1. i + 1 \in 1 .. n /\ (i + 1) - 1 = i /\ f[i] = g[i]
      BY <2>1
    <3>2. f[i + 1] = f[i] + w[i + 1] /\ g[i + 1] = g[i] + w[i + 1]
      BY <1>3, <3>1
    <3> QED
      BY <3>1, <3>2
  <2> QED
    BY <2>1
<1>5. P = Nat
  BY <1>3, <1>4, SetInduction
<1>6. f[n] = g[n]
  BY <1>5
<1> QED
  BY <1>1, <1>3, <1>6

\* The sum of nothing, and of one number more
LEMMA SumOfNone ==
  ASSUME NEW w
  PROVE  SumTo(w, 0) = 0
<1> DEFINE f == [i \in 0 .. 0 |-> 0]
<1>1. AreSums(f, w, 0) /\ f[0] = 0
  BY DEF AreSums
<1>2. \A i \in 1 .. 0 : w[i] \in Nat
  OBVIOUS
<1> HIDE DEF f
<1> QED
  BY <1>1, <1>2, SumIs

LEMMA SumGrows ==
  ASSUME NEW w, NEW v, NEW n \in Nat, \A i \in 1 .. n : v[i] = w[i],
         \A i \in 1 .. n + 1 : v[i] \in Nat
  PROVE  SumTo(v, n + 1) = SumTo(w, n) + v[n + 1] /\ SumTo(w, n) \in Nat
<1>1. \A i \in 1 .. n : w[i] \in Nat
  OBVIOUS
<1>2. PICK f : AreSums(f, w, n)
  BY <1>1, SumsExist
<1> DEFINE g == [i \in 0 .. n + 1 |-> IF i = n + 1 THEN f[n] + v[n + 1] ELSE f[i]]
<1>3. AreSums(g, v, n + 1)
  BY <1>2, SumsGoOn
<1>4. g[n + 1] = f[n] + v[n + 1]
  OBVIOUS
<1> HIDE DEF g
<1>5. SumTo(v, n + 1) = g[n + 1]
  BY <1>3, SumIs
<1>6. SumTo(w, n) = f[n] /\ SumTo(w, n) \in Nat
  BY <1>1, <1>2, SumIs
<1> QED
  BY <1>4, <1>5, <1>6

-----------------------------------------------------------------------------
(* Arena: what the blocks take *)

\* AllocateNewBlock adds to it what it adds to memory_usage_.
LEMMA BlockTakesMore ==
  ASSUME NEW s \in Seq(Nat), NEW r \in Nat
  PROVE  BlocksTake(Append(s, r)) = BlocksTake(s) + (r + PointerLen) /\ BlocksTake(s) \in Nat
<1> DEFINE n == Len(s)
           a == Append(s, r)
           w == [i \in DOMAIN s |-> s[i] + PointerLen]
           v == [i \in DOMAIN a |-> a[i] + PointerLen]
<1>1. BlocksTake(s) = SumTo(w, Len(s)) /\ BlocksTake(a) = SumTo(v, Len(a))
  BY DEF BlocksTake, SumTo, AreSums
<1>2. /\ n \in Nat /\ DOMAIN s = 1 .. n /\ s \in Seq(Nat)
      /\ DOMAIN a = 1 .. n + 1 /\ Len(a) = n + 1 /\ a[n + 1] = r /\ \A i \in 1 .. n : a[i] = s[i]
  OBVIOUS
<1>3. (\A i \in 1 .. n : v[i] = w[i]) /\ v[n + 1] = r + PointerLen
  BY <1>2
<1>4. \A i \in 1 .. n : w[i] \in Nat
  BY <1>2, SizesAssumption
<1>5. \A i \in 1 .. n + 1 : v[i] \in Nat
  BY <1>2, <1>3, <1>4, SizesAssumption
<1> HIDE DEF w, v, a, n
<1>6. SumTo(v, n + 1) = SumTo(w, n) + v[n + 1] /\ SumTo(w, n) \in Nat
  BY <1>2, <1>3, <1>5, SumGrows
<1> QED
  BY <1>1, <1>2, <1>3, <1>6 DEF a, n

LEMMA NoBlocksTake == BlocksTake(<<>>) = 0
<1> DEFINE w == [i \in DOMAIN <<>> |-> <<>>[i] + PointerLen]
<1>1. BlocksTake(<<>>) = SumTo(w, Len(<<>>))
  BY DEF BlocksTake, SumTo, AreSums
<1>2. Len(<<>>) = 0
  OBVIOUS
<1> QED
  BY <1>1, <1>2, SumOfNone

-----------------------------------------------------------------------------
(* Arena: the memory handed out *)

Arenas == [blocks : Seq(Nat), block : Nat, offset : Nat, remaining : Nat, usage : Nat]
Areas == [block : Nat, offset : Nat, bytes : Nat, aligned : BOOLEAN]

\* Everything in the current block that was handed out is below alloc_ptr_.
ArenaInv ==
    /\ arena \in Arenas /\ given \subseteq Areas
    /\ \A g \in given : g.block \in DOMAIN arena.blocks /\ g.offset + g.bytes <= arena.blocks[g.block]
    /\ arena.remaining > 0 =>
          arena.block \in DOMAIN arena.blocks /\ arena.offset + arena.remaining <= arena.blocks[arena.block]
    /\ \A g \in given : arena.remaining > 0 /\ g.block = arena.block => g.offset + g.bytes <= arena.offset
    /\ \A g, h \in given : g # h /\ g.block = h.block => g.offset + g.bytes <= h.offset \/ h.offset + h.bytes <= g.offset
    /\ \A g \in given : g.aligned => g.offset % AlignTo = 0
    /\ arena.usage = BlocksTake(arena.blocks)

\* Another block
LEMMA BlockAdded ==
  ASSUME NEW a \in Arenas, NEW bytes \in Nat
  PROVE  /\ AllocateNewBlock(a, bytes) \in Arenas
         /\ AllocateNewBlock(a, bytes).blocks = Append(a.blocks, bytes)
         /\ AllocateNewBlock(a, bytes).usage = a.usage + bytes + PointerLen
         /\ AllocateNewBlock(a, bytes).block = a.block /\ AllocateNewBlock(a, bytes).offset = a.offset
         /\ AllocateNewBlock(a, bytes).remaining = a.remaining
<1>1. Append(a.blocks, bytes) \in Seq(Nat) /\ a.usage + bytes + PointerLen \in Nat
  BY SizesAssumption DEF Arenas
<1> QED
  BY <1>1 DEF AllocateNewBlock, Arenas

\* Bytes of the current block
LEMMA Bumped ==
  ASSUME NEW a \in Arenas, NEW slop \in Nat, NEW bytes \in Nat, slop + bytes <= a.remaining
  PROVE  /\ Bump(a, slop, bytes) \in Arenas
         /\ Bump(a, slop, bytes).blocks = a.blocks /\ Bump(a, slop, bytes).block = a.block
         /\ Bump(a, slop, bytes).offset = a.offset + slop + bytes
         /\ Bump(a, slop, bytes).remaining = a.remaining - (slop + bytes)
         /\ Bump(a, slop, bytes).usage = a.usage
<1>1. a.offset + slop + bytes \in Nat /\ a.remaining - (slop + bytes) \in Nat
  BY DEF Arenas
<1> QED
  BY <1>1 DEF Bump, Arenas

\* The rest of the current block is left for a new one.
LEMMA FellBack ==
  ASSUME NEW a \in Arenas, NEW bytes \in Nat, bytes <= BlockSize
  PROVE  /\ Fallback(a, bytes) \in Arenas
         /\ Fallback(a, bytes).blocks = Append(a.blocks, BlockSize)
         /\ Fallback(a, bytes).block = Len(a.blocks) + 1 /\ Fallback(a, bytes).offset = bytes
         /\ Fallback(a, bytes).remaining = BlockSize - bytes
         /\ Fallback(a, bytes).usage = a.usage + BlockSize + PointerLen
<1> DEFINE b == AllocateNewBlock(a, BlockSize)
           c == [b EXCEPT !.block = Len(b.blocks), !.offset = 0, !.remaining = BlockSize]
<1>1. /\ b \in Arenas /\ b.blocks = Append(a.blocks, BlockSize) /\ b.usage = a.usage + BlockSize + PointerLen
  BY SizesAssumption, BlockAdded
<1>2. Len(b.blocks) = Len(a.blocks) + 1 /\ Len(b.blocks) \in Nat
  BY <1>1, SizesAssumption DEF Arenas
<1>3. Fallback(a, bytes) = Bump(c, 0, bytes)
  BY DEF Fallback
<1> HIDE DEF b
<1>4. /\ c \in Arenas /\ c.blocks = b.blocks /\ c.block = Len(b.blocks) /\ c.offset = 0
      /\ c.remaining = BlockSize /\ c.usage = b.usage
  BY <1>1, <1>2, SizesAssumption DEF Arenas
<1> HIDE DEF c
<1>5. 0 + bytes <= c.remaining /\ 0 + bytes = bytes /\ 0 + 0 + bytes = bytes
  BY <1>4, SizesAssumption
<1>6. /\ Bump(c, 0, bytes) \in Arenas /\ Bump(c, 0, bytes).blocks = c.blocks /\ Bump(c, 0, bytes).block = c.block
      /\ Bump(c, 0, bytes).offset = c.offset + 0 + bytes
      /\ Bump(c, 0, bytes).remaining = c.remaining - (0 + bytes) /\ Bump(c, 0, bytes).usage = c.usage
  BY <1>4, <1>5, Bumped
<1> QED
  BY <1>1, <1>2, <1>3, <1>4, <1>5, <1>6

\* The next aligned offset
LEMMA SlopAligns ==
  ASSUME NEW o \in Nat, NEW n \in Nat \ {0}
  PROVE  LET slop == (n - (o % n)) % n IN slop \in Nat /\ (o + slop) % n = 0
<1> DEFINE m == o % n
           q == o \div n
           slop == (n - m) % n
<1>1. m \in Nat /\ m < n /\ q \in Nat /\ o = n * q + m
  BY DivModType
<1> HIDE DEF m, q
<1>2. CASE m = 0
  <2>1. slop = 0
    BY <1>2
  <2>2. o % n = 0
    BY <1>2 DEF m
  <2>3. o + 0 = o
    OBVIOUS
  <2> QED
    BY <2>1, <2>2, <2>3 DEF m
<1>3. CASE m # 0
  <2>1. n - m \in Nat /\ n - m < n
    BY <1>1, <1>3
  <2>2. slop = n - m
    BY <2>1
  <2>3. o + (n - m) = n * (q + 1) /\ q + 1 \in Nat
    BY <1>1
  <2>4. \A k \in Nat : (n * k) % n = 0
    OBVIOUS
  <2>5. (o + slop) % n = 0
    BY <2>2, <2>3, <2>4
  <2> QED
    BY <2>1, <2>2, <2>5 DEF m
<1> QED
  BY <1>2, <1>3

\* Allocate and AllocateAligned, where the current block has room
LEMMA StepTakeHere ==
  ASSUME ArenaInv, NEW slop \in Nat, NEW bytes \in Nat \ {0}, NEW aligned \in BOOLEAN,
         slop + bytes <= arena.remaining, aligned => (arena.offset + slop) % AlignTo = 0,
         TakeHere(slop, bytes, aligned)
  PROVE  ArenaInv'
<1> DEFINE a == [block |-> arena.block, offset |-> arena.offset + slop, bytes |-> bytes, aligned |-> aligned]
<1>1. arena \in Arenas /\ arena.offset \in Nat /\ arena.remaining \in Nat /\ arena.block \in Nat /\ arena.blocks \in Seq(Nat)
  BY DEF ArenaInv, Arenas
<1>2. /\ arena' \in Arenas /\ arena'.blocks = arena.blocks /\ arena'.block = arena.block
      /\ arena'.offset = arena.offset + slop + bytes /\ arena'.remaining = arena.remaining - (slop + bytes)
      /\ arena'.usage = arena.usage
  BY <1>1, Bumped DEF TakeHere
<1>3. given' = given \cup {a}
  BY DEF TakeHere
<1>4. /\ a \in Areas /\ a.block = arena.block /\ a.offset = arena.offset + slop /\ a.bytes = bytes /\ a.aligned = aligned
  BY <1>1 DEF Areas
<1> HIDE DEF a
<1>5. /\ arena.remaining > 0 /\ arena.block \in DOMAIN arena.blocks
      /\ arena.offset + arena.remaining <= arena.blocks[arena.block] /\ arena.blocks[arena.block] \in Nat
      /\ a.offset + a.bytes = arena'.offset /\ arena.offset <= a.offset
      /\ arena'.offset + arena'.remaining = arena.offset + arena.remaining /\ arena'.remaining \in Nat
  <2>1. arena.remaining > 0
    BY <1>1
  <2>2. /\ arena.block \in DOMAIN arena.blocks /\ arena.offset + arena.remaining <= arena.blocks[arena.block]
    BY <2>1 DEF ArenaInv
  <2>3. arena.blocks[arena.block] \in Nat
    BY <1>1, <2>2
  <2>4. ASSUME NEW o \in Nat, NEW m \in Nat, slop + bytes <= m
        PROVE  /\ (o + slop) + bytes = o + slop + bytes /\ o <= o + slop
               /\ (o + slop + bytes) + (m - (slop + bytes)) = o + m /\ m - (slop + bytes) \in Nat
    BY <2>4
  <2>5. a.offset + a.bytes = arena'.offset /\ arena.offset <= a.offset
    BY <1>1, <1>2, <1>4, <2>4
  <2>6. arena'.offset + arena'.remaining = arena.offset + arena.remaining /\ arena'.remaining \in Nat
    <3>1. arena'.remaining = arena.remaining - (slop + bytes) /\ arena'.offset = arena.offset + slop + bytes
      BY <1>2
    <3> QED
      BY <1>1, <2>4, <3>1
  <2> QED
    BY <2>1, <2>2, <2>3, <2>5, <2>6
<1>6. \A g \in given : g.offset \in Nat /\ g.bytes \in Nat /\ (g.block = arena.block => g.offset + g.bytes <= arena.offset)
  BY <1>5 DEF ArenaInv, Areas
<1>7. a.offset + a.bytes <= arena'.blocks[a.block] /\ a.block \in DOMAIN arena'.blocks
  <2>1. arena'.blocks[a.block] = arena.blocks[arena.block] /\ a.block \in DOMAIN arena'.blocks
    BY <1>2, <1>4, <1>5
  <2>2. arena'.offset \in Nat
    BY <1>2 DEF Arenas
  <2>3. ASSUME NEW o \in Nat, NEW left \in Nat, NEW top, NEW end \in Nat, o + left = top, top <= end
        PROVE  o <= end
    BY <2>3
  <2>4. arena'.offset <= arena.blocks[arena.block]
    BY <1>5, <2>2, <2>3
  <2>5. a.offset + a.bytes <= arena.blocks[arena.block]
    BY <1>5, <2>4
  <2> QED
    BY <2>1, <2>5
<1>8. \A g \in given' : g.block \in DOMAIN arena'.blocks /\ g.offset + g.bytes <= arena'.blocks[g.block]
  BY <1>2, <1>3, <1>7 DEF ArenaInv
<1>9. arena'.block \in DOMAIN arena'.blocks /\ arena'.offset + arena'.remaining <= arena'.blocks[arena'.block]
  BY <1>2, <1>5
<1>10. \A g \in given' : g.block = arena'.block => g.offset + g.bytes <= arena'.offset
  <2>1. ASSUME NEW g \in given, g.block = arena.block PROVE g.offset + g.bytes <= arena'.offset
    <3>1. g.offset + g.bytes <= arena.offset /\ g.offset \in Nat /\ g.bytes \in Nat
      BY <1>6, <2>1
    <3>2. arena.offset <= arena'.offset /\ arena'.offset \in Nat
      BY <1>1, <1>2
    <3> QED
      BY <1>1, <3>1, <3>2
  <2>2. a.offset + a.bytes <= arena'.offset
    BY <1>1, <1>2, <1>5
  <2> QED
    BY <1>2, <1>3, <2>1, <2>2
<1>11. ASSUME NEW g \in given, g.block = a.block PROVE g.offset + g.bytes <= a.offset
  <2>1. g.offset + g.bytes <= arena.offset /\ g.offset \in Nat /\ g.bytes \in Nat
    BY <1>4, <1>6, <1>11
  <2> QED
    BY <1>1, <1>4, <2>1
<1>12. \A g, h \in given' : g # h /\ g.block = h.block => g.offset + g.bytes <= h.offset \/ h.offset + h.bytes <= g.offset
  BY <1>3, <1>11 DEF ArenaInv
<1>13. \A g \in given' : g.aligned => g.offset % AlignTo = 0
  BY <1>3, <1>4 DEF ArenaInv
<1>14. arena'.usage = BlocksTake(arena'.blocks)
  BY <1>2 DEF ArenaInv
<1>15. given' \subseteq Areas
  BY <1>3, <1>4 DEF ArenaInv
<1> QED
  BY <1>2, <1>8, <1>9, <1>10, <1>12, <1>13, <1>14, <1>15 DEF ArenaInv

\* AllocateFallback: the memory is at the start of a block that nobody has.
LEMMA StepFallback ==
  ASSUME ArenaInv, NEW bytes \in Nat \ {0}, NEW aligned \in BOOLEAN, AllocateFallback(bytes, aligned)
  PROVE  ArenaInv'
<1> DEFINE own == bytes > BlockSize \div 4
           B == IF own THEN bytes ELSE BlockSize
           n == Len(arena.blocks) + 1
           a == [block |-> n, offset |-> 0, bytes |-> bytes, aligned |-> aligned]
<1>1. /\ arena \in Arenas /\ arena.offset \in Nat /\ arena.remaining \in Nat /\ arena.blocks \in Seq(Nat)
      /\ arena.usage \in Nat /\ n \in Nat /\ Len(arena.blocks) \in Nat /\ DOMAIN arena.blocks = 1 .. Len(arena.blocks)
  BY DEF ArenaInv, Arenas
<1>2. B \in Nat /\ bytes <= B /\ (~own => bytes <= BlockSize)
  <2>1. BlockSize \in Nat /\ BlockSize \div 4 <= BlockSize /\ BlockSize \div 4 \in Nat
    BY SizesAssumption
  <2> QED
    BY <2>1
<1>3. /\ arena' \in Arenas /\ arena'.blocks = Append(arena.blocks, B) /\ arena'.usage = arena.usage + B + PointerLen
      /\ \/ arena'.remaining = arena.remaining /\ arena'.block = arena.block /\ arena'.offset = arena.offset
         \/ arena'.remaining = B - bytes /\ arena'.block = n /\ arena'.offset = bytes
  <2>1. CASE own
    <3>1. arena' = AllocateNewBlock(arena, bytes)
      BY <2>1 DEF AllocateFallback
    <3> QED
      BY <1>1, <2>1, <3>1, BlockAdded
  <2>2. CASE ~own
    <3>1. arena' = Fallback(arena, bytes)
      BY <2>2 DEF AllocateFallback
    <3> QED
      BY <1>1, <1>2, <2>2, <3>1, FellBack
  <2> QED
    BY <2>1, <2>2
<1> HIDE DEF B, own
<1>4. /\ arena'.blocks \in Seq(Nat) /\ Len(arena'.blocks) = n /\ arena'.blocks[n] = B
      /\ DOMAIN arena'.blocks = 1 .. n
      /\ \A i \in DOMAIN arena.blocks : i \in DOMAIN arena'.blocks /\ i # n /\ arena'.blocks[i] = arena.blocks[i]
  <2> DEFINE b == arena.blocks
             c == Append(b, B)
  <2>1. b \in Seq(Nat) /\ DOMAIN b = 1 .. Len(b) /\ Len(b) \in Nat /\ n = Len(b) + 1 /\ B \in Nat
    BY <1>1, <1>2
  <2>2. arena'.blocks = c
    BY <1>3
  <2> HIDE DEF b, n
  <2>3. /\ c \in Seq(Nat) /\ Len(c) = n /\ c[n] = B /\ DOMAIN c = 1 .. n
        /\ \A i \in 1 .. Len(b) : c[i] = b[i]
    BY <2>1
  <2> HIDE DEF c
  <2>4. \A i \in DOMAIN b : i \in DOMAIN c /\ i # n /\ c[i] = b[i]
    BY <2>1, <2>3
  <2> QED
    BY <2>2, <2>3, <2>4 DEF b
<1>5. given' = given \cup {a}
  <2>1. given' = given \cup {[block |-> Len(arena'.blocks), offset |-> 0, bytes |-> bytes, aligned |-> aligned]}
    BY DEF AllocateFallback
  <2> QED
    BY <1>4, <2>1
<1>6. a \in Areas /\ a.block = n /\ a.offset = 0 /\ a.bytes = bytes /\ a.aligned = aligned
  BY <1>1 DEF Areas
<1> HIDE DEF a, n
<1>7. \A g \in given : g.block \in DOMAIN arena.blocks /\ g.block # n /\ g.offset + g.bytes <= arena.blocks[g.block]
  BY <1>4 DEF ArenaInv
<1>8. a.block \in DOMAIN arena'.blocks /\ a.offset + a.bytes <= arena'.blocks[a.block]
  BY <1>1, <1>2, <1>4, <1>6, SizesAssumption DEF n
<1>9. \A g \in given' : g.block \in DOMAIN arena'.blocks /\ g.offset + g.bytes <= arena'.blocks[g.block]
  BY <1>4, <1>5, <1>7, <1>8
<1>10. arena'.remaining > 0 =>
         arena'.block \in DOMAIN arena'.blocks /\ arena'.offset + arena'.remaining <= arena'.blocks[arena'.block]
  <2>1. CASE arena'.remaining = arena.remaining /\ arena'.block = arena.block /\ arena'.offset = arena.offset
    BY <1>4, <2>1 DEF ArenaInv
  <2>2. CASE arena'.remaining = B - bytes /\ arena'.block = n /\ arena'.offset = bytes
    <3>1. n \in DOMAIN arena'.blocks
      BY <1>1, <1>4 DEF n
    <3>2. bytes + (B - bytes) <= B
      BY <1>2
    <3> QED
      BY <1>4, <2>2, <3>1, <3>2
  <2> QED
    BY <1>3, <2>1, <2>2
<1>11. \A g \in given' : arena'.remaining > 0 /\ g.block = arena'.block => g.offset + g.bytes <= arena'.offset
  <2>1. CASE arena'.remaining = arena.remaining /\ arena'.block = arena.block /\ arena'.offset = arena.offset
    <3>1. arena'.remaining > 0 => a.block # arena'.block
      BY <1>4, <1>6, <2>1 DEF ArenaInv
    <3> QED
      BY <1>5, <2>1, <3>1 DEF ArenaInv
  <2>2. CASE arena'.remaining = B - bytes /\ arena'.block = n /\ arena'.offset = bytes
    <3>1. a.offset + a.bytes <= arena'.offset
      BY <1>6, <2>2
    <3> QED
      BY <1>5, <1>7, <2>2, <3>1
  <2> QED
    BY <1>3, <2>1, <2>2
<1>12. \A g, h \in given' : g # h /\ g.block = h.block => g.offset + g.bytes <= h.offset \/ h.offset + h.bytes <= g.offset
  BY <1>5, <1>6, <1>7 DEF ArenaInv
<1>13. \A g \in given' : g.aligned => g.offset % AlignTo = 0
  <2>1. a.offset % AlignTo = 0
    BY <1>6, SizesAssumption
  <2> QED
    BY <1>5, <2>1 DEF ArenaInv
<1>14. arena'.usage = BlocksTake(arena'.blocks)
  <2>1. BlocksTake(Append(arena.blocks, B)) = BlocksTake(arena.blocks) + (B + PointerLen)
    BY <1>1, <1>2, BlockTakesMore
  <2>2. arena.usage + B + PointerLen = arena.usage + (B + PointerLen)
    BY <1>1, <1>2, SizesAssumption
  <2> QED
    BY <1>3, <2>1, <2>2 DEF ArenaInv
<1>15. given' \subseteq Areas
  BY <1>5, <1>6 DEF ArenaInv
<1> QED
  BY <1>3, <1>9, <1>10, <1>11, <1>12, <1>13, <1>14, <1>15 DEF ArenaInv

\* The inductive invariant of the arena, for any block size, alignment and sizes
\* of the requests.
THEOREM ArenaInvariant == ArenaSpec => []ArenaInv
<1>1. arena = NewArena /\ given = {} => ArenaInv
  <2> SUFFICES ASSUME arena = NewArena, given = {} PROVE ArenaInv
    OBVIOUS
  <2>1. /\ arena \in Arenas /\ arena.remaining = 0 /\ arena.usage = 0 /\ arena.blocks = <<>>
    BY DEF NewArena, Arenas
  <2> QED
    BY <2>1, NoBlocksTake DEF ArenaInv
<1>2. ArenaInv /\ [ArenaNext]_arenaVars => ArenaInv'
  <2> SUFFICES ASSUME ArenaInv, [ArenaNext]_arenaVars PROVE ArenaInv'
    OBVIOUS
  <2>1. CASE UNCHANGED arenaVars
    BY <2>1 DEF arenaVars, ArenaInv
  <2>2. ASSUME Destruction PROVE ArenaInv'
    <3>1. arena' = NewArena /\ given' = {}
      BY <2>2 DEF Destruction
    <3>2. (arena = NewArena /\ given = {} => ArenaInv)'
      BY <1>1, PTL
    <3>3. NewArena' = NewArena
      BY DEF NewArena
    <3> QED
      BY <3>1, <3>2, <3>3
  <2>3. ASSUME NEW bytes \in Requests, Allocate(bytes) PROVE ArenaInv'
    <3>1. bytes \in Nat \ {0} /\ 0 + bytes = bytes
      BY SizesAssumption
    <3>2. CASE bytes <= arena.remaining /\ TakeHere(0, bytes, FALSE)
      BY <3>1, <3>2, StepTakeHere
    <3>3. CASE AllocateFallback(bytes, FALSE)
      BY <3>1, <3>3, StepFallback
    <3> QED
      BY <2>3, <3>2, <3>3 DEF Allocate
  <2>4. ASSUME NEW bytes \in Requests, AllocateAligned(bytes) PROVE ArenaInv'
    <3>1. bytes \in Nat \ {0}
      BY SizesAssumption
    <3>2. Slop \in Nat /\ (arena.offset + Slop) % AlignTo = 0
      <4>1. arena.offset \in Nat
        BY DEF ArenaInv, Arenas
      <4> QED
        BY <4>1, SlopAligns, SizesAssumption DEF Slop
    <3>3. CASE bytes + Slop <= arena.remaining /\ TakeHere(Slop, bytes, TRUE)
      <4>1. Slop + bytes <= arena.remaining
        BY <3>1, <3>2, <3>3
      <4> QED
        BY <3>1, <3>2, <3>3, <4>1, StepTakeHere
    <3>4. CASE AllocateFallback(bytes, TRUE)
      BY <3>1, <3>4, StepFallback
    <3> QED
      BY <2>4, <3>3, <3>4 DEF AllocateAligned
  <2> QED
    BY <2>1, <2>2, <2>3, <2>4 DEF ArenaNext
<1> QED
  BY <1>1, <1>2, PTL DEF ArenaSpec, ArenaInit

\* MemoryApart: what Allocate and AllocateAligned answer is inside a block,
\* nobody else's and aligned, and memory_usage_ is what the blocks take.
THEOREM AllocationsApart == ArenaSpec => []MemoryApart
<1>1. ArenaInv => MemoryApart
  <2> SUFFICES ASSUME ArenaInv PROVE MemoryApart
    OBVIOUS
  <2> DEFINE free == [block |-> arena.block, offset |-> arena.offset, bytes |-> arena.remaining, aligned |-> FALSE]
             areas == given \cup (IF arena.remaining > 0 THEN {free} ELSE {})
  <2>1. free.block = arena.block /\ free.offset = arena.offset /\ free.bytes = arena.remaining
    OBVIOUS
  <2> HIDE DEF free
  <2>2. \A g \in areas : g \in given \/ (g = free /\ arena.remaining > 0)
    OBVIOUS
  <2>3. \A g \in areas : g.block \in DOMAIN arena.blocks /\ g.offset + g.bytes <= arena.blocks[g.block]
    BY <2>1, <2>2 DEF ArenaInv
  <2>4. \A g, h \in areas : g # h /\ g.block = h.block => g.offset + g.bytes <= h.offset \/ h.offset + h.bytes <= g.offset
    BY <2>1, <2>2 DEF ArenaInv
  <2>5. (\A g \in given : g.aligned => g.offset % AlignTo = 0) /\ arena.usage = BlocksTake(arena.blocks)
    BY DEF ArenaInv
  <2> QED
    BY <2>3, <2>4, <2>5 DEF MemoryApart, free
<1> QED
  BY <1>1, ArenaInvariant, PTL

-----------------------------------------------------------------------------
(* LogStream: the text and its items *)

Parts == [kind : {"head", "item", "tail", "newline"}, from : Nat, len : Nat, cut : BOOLEAN]
Texts == Seq(Parts)

\* A set of sequences in which they can be joined
Joinable(T) == <<>> \in T /\ \A a, b \in T : a \o b \in T

\* The first n sequences of w joined, step by step, and the last of these steps
AreJoins(f, w, n) == f = [i \in 0 .. n |-> IF i = 0 THEN <<>> ELSE f[i - 1] \o w[i]]
JoinTo(w, n) == (CHOOSE f : AreJoins(f, w, n))[n]

StepByStep(f, w, n, T) ==
    f \in [0 .. n -> T] /\ f[0] = <<>> /\ \A i \in 1 .. n : f[i] = f[i - 1] \o w[i]
Longer(f, n, x) == [i \in 0 .. n + 1 |-> IF i = n + 1 THEN x ELSE f[i]]

\* The steps are sequences, ...
LEMMA JoinsAreSequences ==
  ASSUME NEW T, Joinable(T), NEW w, NEW n \in Nat, \A i \in 1 .. n : w[i] \in T, NEW f, AreJoins(f, w, n)
  PROVE  StepByStep(f, w, n, T)
<1> DEFINE P == {i \in Nat : i <= n => f[i] \in T}
<1>1. /\ DOMAIN f = 0 .. n /\ f[0] = <<>> /\ \A i \in 1 .. n : f[i] = f[i - 1] \o w[i]
      /\ f = [i \in 0 .. n |-> f[i]]
  <2> DEFINE h == [i \in 0 .. n |-> IF i = 0 THEN <<>> ELSE f[i - 1] \o w[i]]
  <2>1. DOMAIN h = 0 .. n /\ (\A i \in 0 .. n : h[i] = IF i = 0 THEN <<>> ELSE f[i - 1] \o w[i])
        /\ h = [i \in 0 .. n |-> h[i]]
    OBVIOUS
  <2>2. f = h
    BY Zenon DEF AreJoins
  <2> HIDE DEF h
  <2>3. DOMAIN f = 0 .. n /\ (\A i \in 0 .. n : f[i] = IF i = 0 THEN <<>> ELSE f[i - 1] \o w[i])
        /\ f = [i \in 0 .. n |-> f[i]]
    BY <2>1, <2>2, Zenon
  <2>4. 0 \in 0 .. n /\ \A i \in 1 .. n : i \in 0 .. n /\ i # 0
    OBVIOUS
  <2> QED
    BY <2>3, <2>4, Zenon
<1>2. ASSUME NEW i \in P PROVE i + 1 \in P
  <2>1. CASE i + 1 <= n
    <3>1. i + 1 \in 1 .. n /\ (i + 1) - 1 = i /\ f[i] \in T
      BY <2>1
    <3>2. f[i + 1] = f[i] \o w[i + 1]
      BY <1>1, <3>1
    <3>3. w[i + 1] \in T
      BY <3>1
    <3>4. f[i] \o w[i + 1] \in T
      BY <3>1, <3>3, Zenon DEF Joinable
    <3>5. f[i + 1] \in T
      BY <3>2, <3>4, Zenon
    <3> QED
      BY <3>1, <3>5
  <2> QED
    BY <2>1
<1>3. P = Nat
  <2>1. f[0] \in T
    BY <1>1, Zenon DEF Joinable
  <2>2. 0 \in P /\ P \in SUBSET Nat
    BY <2>1
  <2> HIDE DEF P
  <2> QED
    BY <1>2, <2>2, SetInduction
<1>4. \A i \in 0 .. n : f[i] \in T
  BY <1>3
<1> QED
  BY <1>1, <1>4 DEF StepByStep

\* ... they go on with the next sequence, ...
LEMMA JoinsGoOn ==
  ASSUME NEW T, Joinable(T), NEW w, NEW v, NEW n \in Nat, \A i \in 1 .. n : v[i] = w[i],
         \A i \in 1 .. n + 1 : v[i] \in T, NEW f, AreJoins(f, w, n)
  PROVE  AreJoins(Longer(f, n, f[n] \o v[n + 1]), v, n + 1)
<1>1. \A i \in 1 .. n : w[i] \in T
  OBVIOUS
<1>2. StepByStep(f, w, n, T)
  BY <1>1, JoinsAreSequences
<1> DEFINE x == f[n] \o v[n + 1]
           g == Longer(f, n, x)
<1> USE DEF Longer
<1>3. ASSUME NEW i \in 0 .. n + 1
      PROVE  g[i] = IF i = 0 THEN <<>> ELSE g[i - 1] \o v[i]
  <2>1. CASE i = 0
    BY <1>2, <2>1 DEF StepByStep
  <2>2. CASE i \in 1 .. n
    <3>1. g[i] = f[i] /\ g[i - 1] = f[i - 1]
      BY <2>2
    <3> QED
      BY <1>2, <2>2, <3>1 DEF StepByStep
  <2>3. CASE i = n + 1
    <3> HIDE DEF x
    <3>1. g[i] = x /\ i - 1 = n /\ g[i - 1] = f[n] /\ i # 0
      BY <2>3
    <3> HIDE DEF g
    <3>2. x = g[i - 1] \o v[i]
      BY <2>3, <3>1, Zenon DEF x
    <3> QED
      BY <3>1, <3>2, Zenon
  <2> QED
    BY <2>1, <2>2, <2>3
<1> QED
  BY <1>3 DEF AreJoins

\* ... so there are such steps, ...
LEMMA JoinsExist ==
  ASSUME NEW T, Joinable(T), NEW w, NEW n \in Nat, \A i \in 1 .. n : w[i] \in T
  PROVE  \E f : AreJoins(f, w, n)
<1> DEFINE P == {k \in Nat : k <= n => \E f : AreJoins(f, w, k)}
<1>1. 0 \in P
  <2> DEFINE f == [i \in 0 .. 0 |-> <<>>]
  <2>1. AreJoins(f, w, 0)
    BY DEF AreJoins
  <2> QED
    BY <2>1
<1>2. ASSUME NEW k \in P PROVE k + 1 \in P
  <2> SUFFICES ASSUME k + 1 <= n PROVE \E g : AreJoins(g, w, k + 1)
    OBVIOUS
  <2>1. PICK f : AreJoins(f, w, k)
    OBVIOUS
  <2>2. k \in Nat /\ (\A i \in 1 .. k : w[i] = w[i]) /\ \A i \in 1 .. k + 1 : w[i] \in T
    OBVIOUS
  <2> QED
    BY <2>1, <2>2, JoinsGoOn
<1>3. P = Nat
  BY <1>1, <1>2, SetInduction
<1>4. n <= n
  OBVIOUS
<1> QED
  BY <1>3, <1>4

\* ... with only one result.
LEMMA JoinIs ==
  ASSUME NEW T, Joinable(T), NEW w, NEW n \in Nat, \A i \in 1 .. n : w[i] \in T, NEW g, AreJoins(g, w, n)
  PROVE  JoinTo(w, n) = g[n] /\ JoinTo(w, n) \in T
<1> DEFINE f == CHOOSE h : AreJoins(h, w, n)
           P == {i \in Nat : i <= n => f[i] = g[i]}
<1>1. JoinTo(w, n) = f[n]
  BY DEF JoinTo
<1>2. AreJoins(f, w, n)
  BY JoinsExist
<1> HIDE DEF f
<1>3. StepByStep(f, w, n, T) /\ StepByStep(g, w, n, T)
  BY <1>2, JoinsAreSequences
<1>4. ASSUME NEW i \in P PROVE i + 1 \in P
  <2>1. CASE i + 1 <= n
    <3>1. i + 1 \in 1 .. n /\ (i + 1) - 1 = i /\ f[i] = g[i]
      BY <2>1
    <3>2. f[i + 1] = f[i] \o w[i + 1] /\ g[i + 1] = g[i] \o w[i + 1]
      BY <1>3, <3>1, Zenon DEF StepByStep
    <3>3. f[i + 1] = g[i + 1]
      BY <3>1, <3>2, Zenon
    <3> QED
      BY <3>1, <3>3
  <2> QED
    BY <2>1
<1>5. P = Nat
  <2>1. 0 \in P
    BY <1>3 DEF StepByStep
  <2> QED
    BY <1>4, <2>1, SetInduction
<1>6. f[n] = g[n]
  BY <1>5
<1> QED
  BY <1>1, <1>3, <1>6 DEF StepByStep

\* Nothing joined, and one sequence more
LEMMA JoinOfNone ==
  ASSUME NEW w
  PROVE  JoinTo(w, 0) = <<>>
<1> DEFINE f == [i \in 0 .. 0 |-> <<>>]
<1>1. AreJoins(f, w, 0) /\ f[0] = <<>>
  BY DEF AreJoins
<1>2. Joinable(Seq({})) /\ \A i \in 1 .. 0 : w[i] \in Seq({})
  BY DEF Joinable
<1> HIDE DEF f
<1> QED
  BY <1>1, <1>2, JoinIs

LEMMA JoinGrows ==
  ASSUME NEW T, Joinable(T), NEW w, NEW v, NEW n \in Nat, \A i \in 1 .. n : v[i] = w[i],
         \A i \in 1 .. n + 1 : v[i] \in T
  PROVE  JoinTo(v, n + 1) = JoinTo(w, n) \o v[n + 1] /\ JoinTo(w, n) \in T
<1>1. \A i \in 1 .. n : w[i] \in T
  OBVIOUS
<1>2. PICK f : AreJoins(f, w, n)
  BY <1>1, JoinsExist
<1> DEFINE x == f[n] \o v[n + 1]
           g == Longer(f, n, x)
<1>3. AreJoins(g, v, n + 1)
  BY <1>2, JoinsGoOn, Zenon
<1> HIDE DEF x
<1>4. g[n + 1] = x
  BY DEF Longer
<1> HIDE DEF g
<1>5. JoinTo(v, n + 1) = g[n + 1]
  BY <1>3, JoinIs
<1>6. JoinTo(w, n) = f[n] /\ JoinTo(w, n) \in T
  BY <1>1, <1>2, JoinIs
<1> QED
  BY <1>4, <1>5, <1>6, Zenon DEF x

\* TextLen is a sum, Items and the items of all lines are joins.
LEMMA TextGrows ==
  ASSUME NEW s \in Texts, NEW p \in Parts
  PROVE  TextLen(Append(s, p)) = TextLen(s) + p.len /\ TextLen(s) \in Nat
<1> DEFINE n == Len(s)
           a == Append(s, p)
           w == [i \in DOMAIN s |-> s[i].len]
           v == [i \in DOMAIN a |-> a[i].len]
<1>1. TextLen(s) = SumTo(w, Len(s)) /\ TextLen(a) = SumTo(v, Len(a))
  BY DEF TextLen, SumTo, AreSums
<1>2. /\ n \in Nat /\ DOMAIN s = 1 .. n /\ \A i \in 1 .. n : s[i] \in Parts
      /\ DOMAIN a = 1 .. n + 1 /\ Len(a) = n + 1 /\ a[n + 1] = p /\ \A i \in 1 .. n : a[i] = s[i]
  BY DEF Texts
<1>3. (\A i \in 1 .. n : v[i] = w[i]) /\ v[n + 1] = p.len
  BY <1>2
<1>4. (\A i \in 1 .. n : w[i] \in Nat) /\ p.len \in Nat
  BY <1>2 DEF Parts
<1>5. \A i \in 1 .. n + 1 : v[i] \in Nat
  BY <1>2, <1>3, <1>4
<1> HIDE DEF w, v, a, n
<1>6. SumTo(v, n + 1) = SumTo(w, n) + v[n + 1] /\ SumTo(w, n) \in Nat
  BY <1>2, <1>3, <1>5, SumGrows
<1> QED
  BY <1>1, <1>2, <1>3, <1>6 DEF a, n

LEMMA NoText == TextLen(<<>>) = 0
<1> DEFINE w == [i \in DOMAIN <<>> |-> <<>>[i].len]
<1>1. TextLen(<<>>) = SumTo(w, Len(<<>>))
  BY DEF TextLen, SumTo, AreSums
<1>2. Len(<<>>) = 0
  OBVIOUS
<1> QED
  BY <1>1, <1>2, SumOfNone

LEMMA PartsJoin == Joinable(Texts)
BY DEF Joinable, Texts

LEMMA JoinedMore ==
  ASSUME NEW w, NEW v, NEW n \in Nat, Len(w) = n, Len(v) = n + 1,
         \A i \in 1 .. n : v[i] = w[i], \A i \in 1 .. n + 1 : v[i] \in Texts
  PROVE  Joined(v) = Joined(w) \o v[n + 1] /\ Joined(w) \in Texts
<1>1. Joined(v) = JoinTo(v, Len(v)) /\ Joined(w) = JoinTo(w, Len(w))
  BY DEF Joined, JoinTo, AreJoins
<1>2. JoinTo(v, n + 1) = JoinTo(w, n) \o v[n + 1] /\ JoinTo(w, n) \in Texts
  BY JoinGrows, PartsJoin
<1> QED
  BY <1>1, <1>2

LEMMA NoneJoined ==
  ASSUME NEW w, Len(w) = 0
  PROVE  Joined(w) = <<>>
<1>1. Joined(w) = JoinTo(w, Len(w))
  BY DEF Joined, JoinTo, AreJoins
<1> QED
  BY <1>1, JoinOfNone

LEMMA ItemsGrow ==
  ASSUME NEW s \in Texts, NEW p \in Parts
  PROVE  /\ Items(Append(s, p)) = IF p.kind = "item" THEN Append(Items(s), p) ELSE Items(s)
         /\ Items(s) \in Texts
<1> DEFINE n == Len(s)
           a == Append(s, p)
           w == [i \in DOMAIN s |-> IF s[i].kind = "item" THEN <<s[i]>> ELSE <<>>]
           v == [i \in DOMAIN a |-> IF a[i].kind = "item" THEN <<a[i]>> ELSE <<>>]
<1>1. Items(s) = Joined(w) /\ Items(a) = Joined(v)
  BY DEF Items
<1>2. /\ n \in Nat /\ DOMAIN s = 1 .. n /\ \A i \in 1 .. n : s[i] \in Parts
      /\ DOMAIN a = 1 .. n + 1 /\ Len(a) = n + 1 /\ a[n + 1] = p /\ \A i \in 1 .. n : a[i] = s[i]
  BY DEF Texts
<1>3. (\A i \in 1 .. n : v[i] = w[i]) /\ v[n + 1] = IF p.kind = "item" THEN <<p>> ELSE <<>>
  BY <1>2
<1>4. \A i \in 1 .. n + 1 : v[i] \in Texts
  <2> SUFFICES ASSUME NEW i \in 1 .. n + 1 PROVE v[i] \in Texts
    OBVIOUS
  <2>1. a[i] \in Parts /\ v[i] = IF a[i].kind = "item" THEN <<a[i]>> ELSE <<>>
    BY <1>2
  <2> HIDE DEF v, a
  <2> QED
    BY <2>1 DEF Texts
<1>5. Len(w) = n /\ Len(v) = n + 1
  BY <1>2
<1> HIDE DEF w, v, a, n
<1>6. Joined(v) = Joined(w) \o v[n + 1] /\ Joined(w) \in Texts
  <2>1. n \in Nat /\ \A i \in 1 .. n : v[i] = w[i]
    BY <1>2, <1>3
  <2> QED
    BY <2>1, <1>4, <1>5, JoinedMore
<1> QED
  BY <1>1, <1>3, <1>6 DEF a, Texts

LEMMA NoItems == Items(<<>>) = <<>>
<1> DEFINE w == [i \in DOMAIN <<>> |-> IF <<>>[i].kind = "item" THEN <<<<>>[i]>> ELSE <<>>]
<1>1. Items(<<>>) = Joined(w)
  BY DEF Items
<1>2. Len(w) = 0
  OBVIOUS
<1> QED
  BY <1>1, <1>2, NoneJoined

\* The items of lines, one line behind the other
AllItems(ls) == Joined([k \in DOMAIN ls |-> Items(ls[k])])

LEMMA LinesGrow ==
  ASSUME NEW ls \in Seq(Texts), NEW line \in Texts
  PROVE  AllItems(Append(ls, line)) = AllItems(ls) \o Items(line) /\ AllItems(ls) \in Texts
<1> DEFINE n == Len(ls)
           a == Append(ls, line)
           w == [k \in DOMAIN ls |-> Items(ls[k])]
           v == [k \in DOMAIN a |-> Items(a[k])]
<1>1. AllItems(ls) = Joined(w) /\ AllItems(a) = Joined(v)
  BY DEF AllItems
<1>2. /\ n \in Nat /\ DOMAIN ls = 1 .. n /\ \A i \in 1 .. n : ls[i] \in Texts
      /\ DOMAIN a = 1 .. n + 1 /\ Len(a) = n + 1 /\ a[n + 1] = line /\ \A i \in 1 .. n : a[i] = ls[i]
  OBVIOUS
<1>3. (\A i \in 1 .. n : v[i] = w[i]) /\ v[n + 1] = Items(line)
  BY <1>2
<1>4. \A i \in 1 .. n + 1 : v[i] \in Texts
  <2> SUFFICES ASSUME NEW i \in 1 .. n + 1 PROVE v[i] \in Texts
    OBVIOUS
  <2>1. a[i] \in Texts /\ v[i] = Items(a[i])
    BY <1>2
  <2>2. Part("tail", 0, 0, FALSE) \in Parts
    BY DEF Part, Parts
  <2> QED
    BY <2>1, <2>2, ItemsGrow
<1>5. Len(w) = n /\ Len(v) = n + 1
  BY <1>2
<1> HIDE DEF w, v, a, n
<1>6. Joined(v) = Joined(w) \o v[n + 1] /\ Joined(w) \in Texts
  <2>1. n \in Nat /\ \A i \in 1 .. n : v[i] = w[i]
    BY <1>2, <1>3
  <2> QED
    BY <2>1, <1>4, <1>5, JoinedMore
<1> QED
  BY <1>1, <1>3, <1>6 DEF a

-----------------------------------------------------------------------------
(* LogStream: the line *)

Streams == [size : Nat, text : Texts, auto_flush : BOOLEAN, level : LogLevels \cup {0}, source : Nat]

StreamType ==
    /\ setting \in [level : LogLevels \cup {KInfo}, ef : LogLevels \cup {4}, max : MaxLengths]
    /\ stream \in Streams /\ open \in Seq(Nat) /\ lines \in Seq(Texts)
    /\ said \in Texts /\ begun \in Nat /\ high \in Nat

\* There is a buffer once there was a statement, and the text fits into it.
Sized ==
    /\ \/ stream.size \in MaxLengths
       \/ stream.size = 0 /\ stream.text = <<>> /\ open = <<>> /\ lines = <<>> /\ high = 0
    /\ TextLen(stream.text) <= stream.size

\* The text that is not a line yet: a head only in front, with the source that
\* the tail will name; without a head, what a torn statement says; a text that was
\* cut has filled the buffer.  With no text, the statements under way are torn.
TextWhole ==
    /\ \A i \in DOMAIN stream.text :
          LET p == stream.text[i] IN
          /\ p.kind \in {"head", "item"}
          /\ p.kind = "head" => i = 1 /\ p.from = stream.source
          /\ p.kind = "item" /\ i = 1 => p.from \in torn
          /\ p.cut => i = Len(stream.text) /\ TextLen(stream.text) = stream.size
    /\ stream.text = <<>> => \A i \in DOMAIN open : open[i] \in torn

\* The inductive invariant of the line.
StreamInv == StreamType /\ Sized /\ TextWhole /\ OperandsKept /\ LinesWhole /\ OneByteOver

\* A step after which the buffer, the lines and the statements are as before
LEMMA StreamKept ==
  ASSUME StreamInv, UNCHANGED <<open, lines, said, begun, torn, high>>,
         setting' \in [level : LogLevels \cup {KInfo}, ef : LogLevels \cup {4}, max : MaxLengths],
         stream' \in Streams, stream'.text = stream.text, stream'.size = stream.size,
         stream'.source = stream.source
  PROVE  StreamInv'
<1>1. StreamType'
  BY DEF StreamInv, StreamType
<1>2. Sized' /\ TextWhole'
  BY DEF StreamInv, Sized, TextWhole
<1>3. OperandsKept' /\ LinesWhole' /\ OneByteOver'
  BY DEF StreamInv, OperandsKept, LinesWhole, OneByteOver
<1> QED
  BY <1>1, <1>2, <1>3 DEF StreamInv

\* LogMessage::log_stream
LEMMA StreamBegins ==
  ASSUME StreamInv, NEW l \in LogLevels, BeginStatement(l)
  PROVE  StreamInv'
<1> DEFINE s == [stream EXCEPT !.level = l, !.size = IF @ = 0 THEN setting.max ELSE @]
           id == begun + 1
           p == Part("head", id, HeadLen, FALSE)
<1>1. StreamType /\ Sized /\ TextWhole /\ OperandsKept /\ LinesWhole /\ OneByteOver
  BY DEF StreamInv
<1>2. /\ s \in Streams /\ s.text = stream.text /\ s.source = stream.source
      /\ s.size = IF stream.size = 0 THEN setting.max ELSE stream.size
      /\ s.size \in MaxLengths /\ s.size \in Nat /\ HeadLen <= s.size
      /\ id \in Nat /\ p \in Parts /\ p.len = HeadLen /\ p.kind = "head" /\ p.from = id /\ p.cut = FALSE
  <2>1. stream \in Streams /\ l \in LogLevels \cup {0} /\ setting.max \in MaxLengths /\ begun \in Nat
    BY <1>1 DEF StreamType
  <2>2. stream.size \in Nat /\ (stream.size # 0 => stream.size \in MaxLengths)
    BY <1>1, <2>1 DEF Sized, Streams
  <2>3. setting.max \in Nat /\ HeadLen \in Nat /\ \A m \in MaxLengths : HeadLen <= m
    BY <2>1, LineAssumption
  <2>4. /\ s \in Streams /\ s.text = stream.text /\ s.source = stream.source
        /\ s.size = IF stream.size = 0 THEN setting.max ELSE stream.size
    BY <2>1, <2>2, <2>3 DEF Streams
  <2>5. /\ id \in Nat /\ p \in Parts /\ p.len = HeadLen /\ p.kind = "head" /\ p.from = id /\ p.cut = FALSE
    BY <2>1, <2>3 DEF Part, Parts
  <2> HIDE DEF s
  <2>6. s.size \in MaxLengths /\ s.size \in Nat
    BY <2>1, <2>2, <2>3, <2>4
  <2> QED
    BY <2>3, <2>4, <2>5, <2>6
<1>3. /\ stream' = IF s.text = <<>>
                   THEN [s EXCEPT !.text = Append(@, Part("head", id, HeadLen, FALSE)), !.source = id]
                   ELSE s
      /\ high' = Larger(high, TextLen(stream'.text))
      /\ open' = Append(open, id) /\ begun' = id
      /\ UNCHANGED <<setting, lines, errors, said, torn>>
  BY DEF BeginStatement, CheckBuffer
<1> HIDE DEF s, id, p
<1>4. /\ stream' \in Streams /\ stream'.size = s.size
      /\ \/ stream.text = <<>> /\ stream'.text = Append(<<>>, p) /\ stream'.source = id
         \/ stream.text # <<>> /\ stream'.text = stream.text /\ stream'.source = stream.source
  <2>1. CASE s.text = <<>>
    <3>1. stream' = [s EXCEPT !.text = Append(<<>>, p), !.source = id]
      BY <1>3, <2>1 DEF p
    <3>2. Append(<<>>, p) \in Texts
      BY <1>2 DEF Texts
    <3> QED
      BY <1>2, <2>1, <3>1, <3>2 DEF Streams
  <2>2. CASE s.text # <<>>
    BY <1>2, <1>3, <2>2
  <2> QED
    BY <2>1, <2>2
<1>5. /\ stream.size # 0 => s.size = stream.size
      /\ stream.size = 0 => lines = <<>> /\ high = 0 /\ stream.text = <<>>
  BY <1>1, <1>2, LineAssumption DEF Sized
<1>6. /\ TextLen(stream.text) \in Nat /\ stream'.text \in Texts
      /\ stream.text = <<>> => TextLen(stream'.text) = HeadLen
  <2>1. <<>> \in Texts /\ stream.text \in Texts /\ stream'.text \in Texts
    BY <1>1, <1>4 DEF Texts, StreamType, Streams
  <2>2. TextLen(Append(<<>>, p)) = TextLen(<<>>) + p.len /\ TextLen(stream.text) \in Nat
    BY <1>2, <2>1, TextGrows
  <2> QED
    BY <1>2, <1>4, <2>1, <2>2, NoText, LineAssumption
<1>7. TextLen(stream'.text) \in Nat /\ TextLen(stream'.text) <= s.size
  BY <1>1, <1>2, <1>4, <1>5, <1>6, LineAssumption DEF Sized
<1>8. high' \in Nat /\ high' <= stream'.size + 1
  <2>1. high \in Nat /\ high <= s.size + 1
    <3>1. high \in Nat /\ high <= stream.size + 1
      BY <1>1 DEF OneByteOver, StreamType
    <3> QED
      BY <1>2, <1>5, <3>1
  <2>2. high' = high \/ high' = TextLen(stream'.text)
    BY <1>3 DEF Larger
  <2> QED
    BY <1>2, <1>4, <1>7, <2>1, <2>2
<1>9. StreamType'
  <2>1. open' \in Seq(Nat)
    BY <1>1, <1>2, <1>3 DEF StreamType
  <2> QED
    BY <1>1, <1>2, <1>3, <1>4, <1>8, <2>1 DEF StreamType
<1>10. Sized'
  BY <1>2, <1>4, <1>7 DEF Sized
<1>11. TextWhole'
  <2>1. CASE stream.text = <<>>
    <3>1. /\ DOMAIN stream'.text = {1} /\ Len(stream'.text) = 1 /\ stream'.text[1] = p
          /\ stream'.text # <<>> /\ stream'.source = id
      <4>1. stream'.text = <<p>> /\ stream'.source = id
        BY <1>2, <1>4, <2>1
      <4> QED
        BY <4>1
    <3> QED
      BY <1>2, <3>1 DEF TextWhole
  <2>2. CASE stream.text # <<>>
    <3>1. /\ stream'.text = stream.text /\ stream'.source = stream.source
          /\ stream'.size = stream.size /\ torn' = torn
      BY <1>3, <1>4, <1>5, <2>2
    <3> QED
      BY <1>1, <2>2, <3>1 DEF TextWhole
  <2> QED
    BY <2>1, <2>2
<1>12. OperandsKept'
  <2>1. Items(stream'.text) = Items(stream.text)
    <3>1. CASE stream.text = <<>>
      <4>1. <<>> \in Texts
        BY DEF Texts
      <4>2. Items(Append(<<>>, p)) = Items(<<>>)
        BY <1>2, <4>1, ItemsGrow
      <4> QED
        BY <1>4, <3>1, <4>2
    <3> QED
      BY <1>4, <3>1
  <2> QED
    BY <1>1, <1>3, <2>1 DEF OperandsKept
<1>13. LinesWhole'
  BY <1>1, <1>3 DEF LinesWhole
<1>14. OneByteOver'
  <2>1. \A k \in 1 .. Len(lines') : TextLen(lines'[k]) <= stream'.size + 1
    <3>1. CASE stream.size = 0
      <4>1. Len(lines') = 0
        BY <1>3, <1>5, <3>1
      <4> QED
        BY <4>1
    <3>2. CASE stream.size # 0
      BY <1>1, <1>3, <1>4, <1>5, <3>2 DEF OneByteOver
    <3> QED
      BY <3>1, <3>2
  <2> QED
    BY <1>8, <2>1 DEF OneByteOver
<1> QED
  BY <1>9, <1>10, <1>11, <1>12, <1>13, <1>14 DEF StreamInv

\* The appends, within what the capacity tests allow
LEMMA StreamPuts ==
  ASSUME StreamInv, NEW len \in Nat, NEW reach \in Nat, NEW cut \in BOOLEAN, Put(len, reach, cut),
         len <= Avail, reach <= Avail + 1, cut => len = Avail
  PROVE  StreamInv'
<1> DEFINE p == Part("item", Last(open), len, cut)
           text == stream.text
           n == Len(stream.text)
<1>1. StreamType /\ Sized /\ TextWhole /\ OperandsKept /\ LinesWhole /\ OneByteOver
  BY DEF StreamInv
<1>2. /\ open # <<>> /\ len > 0
      /\ stream' = [stream EXCEPT !.text = Append(@, p)]
      /\ said' = Append(said, p)
      /\ high' = Larger(high, TextLen(text) + reach)
      /\ UNCHANGED <<setting, open, lines, errors, begun, torn>>
  BY DEF Put
<1>3. /\ open \in Seq(Nat) /\ Len(open) \in DOMAIN open /\ Last(open) = open[Len(open)] /\ Last(open) \in Nat
  BY <1>1, <1>2 DEF StreamType, Last
<1>4. p \in Parts /\ p.len = len /\ p.kind = "item" /\ p.from = Last(open) /\ p.cut = cut
  BY <1>3 DEF Part, Parts
<1>5. text \in Texts /\ n \in Nat /\ DOMAIN text = 1 .. n
  BY <1>1 DEF StreamType, Streams, Texts
<1> HIDE DEF p
<1>6. /\ Append(text, p) \in Texts /\ Len(Append(text, p)) = n + 1 /\ DOMAIN Append(text, p) = 1 .. n + 1
      /\ Append(text, p)[n + 1] = p /\ \A i \in 1 .. n : Append(text, p)[i] = text[i]
  BY <1>4, <1>5 DEF Texts
<1>7. /\ stream' \in Streams /\ stream'.text = Append(text, p)
      /\ stream'.size = stream.size /\ stream'.source = stream.source
  BY <1>1, <1>2, <1>6 DEF StreamType, Streams
<1>8. TextLen(stream'.text) = TextLen(text) + len /\ TextLen(text) \in Nat
  BY <1>4, <1>5, <1>7, TextGrows
<1>9. stream.size \in MaxLengths /\ stream.size \in Nat /\ Avail = stream.size - TextLen(text)
  BY <1>1, <1>2 DEF Sized, StreamType, Streams, Avail
<1>10. TextLen(text) < stream.size
  BY <1>2, <1>8, <1>9
<1>11. high' \in Nat /\ high' <= stream'.size + 1
  <2>1. high \in Nat /\ high <= stream.size + 1
    BY <1>1 DEF OneByteOver, StreamType
  <2>2. high' = high \/ high' = TextLen(text) + reach
    BY <1>2 DEF Larger
  <2>3. TextLen(text) + reach \in Nat /\ TextLen(text) + reach <= stream.size + 1
    BY <1>8, <1>9
  <2>4. high' \in Nat /\ high' <= stream.size + 1
    BY <2>1, <2>2, <2>3
  <2> QED
    BY <1>7, <2>4
<1>12. StreamType'
  <2>1. said' \in Texts
    BY <1>1, <1>2, <1>4 DEF StreamType, Texts
  <2> QED
    BY <1>1, <1>2, <1>7, <1>11, <2>1 DEF StreamType
<1>13. Sized'
  BY <1>7, <1>8, <1>9 DEF Sized
<1>14. TextWhole'
  <2>1. stream'.text # <<>> /\ DOMAIN stream'.text = 1 .. n + 1 /\ Len(stream'.text) = n + 1
    <3>1. Append(text, p) # <<>>
      BY <1>5, <1>6
    <3> QED
      BY <1>6, <1>7, <3>1, Zenon
  <2>2. ASSUME NEW i \in 1 .. n
        PROVE  LET q == stream'.text[i] IN
               /\ q.kind \in {"head", "item"}
               /\ q.kind = "head" => i = 1 /\ q.from = stream'.source
               /\ q.kind = "item" /\ i = 1 => q.from \in torn'
               /\ ~q.cut
    <3>1. stream'.text[i] = text[i]
      BY <1>6, <1>7
    <3>2. ~text[i].cut
      <4>1. text[i].cut => TextLen(text) = stream.size
        BY <1>1, <1>5 DEF TextWhole
      <4> QED
        BY <1>8, <1>9, <1>10, <4>1
    <3> QED
      BY <1>1, <1>2, <1>5, <1>7, <3>1, <3>2 DEF TextWhole
  <2>3. n + 1 = 1 => p.from \in torn'
    <3>1. n = 0 => text = <<>>
      BY <1>5 DEF Texts
    <3> QED
      BY <1>1, <1>2, <1>3, <1>4, <1>5, <3>1 DEF TextWhole
  <2>4. cut => TextLen(stream'.text) = stream'.size
    BY <1>7, <1>8, <1>9
  <2>5. stream'.text[n + 1] = p
    BY <1>6, <1>7
  <2>6. \A i \in 1 .. n + 1 : i \in 1 .. n \/ i = n + 1
    BY <1>5
  <2> QED
    BY <1>4, <2>1, <2>2, <2>3, <2>4, <2>5, <2>6 DEF TextWhole
<1>15. OperandsKept'
  <2>1. Items(stream'.text) = Append(Items(text), p) /\ Items(text) \in Texts
    BY <1>4, <1>5, <1>7, ItemsGrow
  <2>2. AllItems(lines) \in Texts
    BY <1>1, <1>5, LinesGrow DEF StreamType
  <2>3. AllItems(lines) \o Items(text) = said /\ AllItems(lines') = AllItems(lines)
    BY <1>1, <1>2 DEF OperandsKept, AllItems
  <2>4. AllItems(lines) \o Append(Items(text), p) = Append(AllItems(lines) \o Items(text), p)
    BY <1>4, <2>1, <2>2 DEF Texts
  <2>5. AllItems(lines') \o Items(stream'.text) = said'
    BY <1>2, <2>1, <2>3, <2>4
  <2> QED
    BY <1>1, <1>2, <2>5 DEF OperandsKept, AllItems
<1>16. LinesWhole'
  BY <1>1, <1>2 DEF LinesWhole
<1>17. OneByteOver'
  BY <1>1, <1>2, <1>7, <1>11 DEF OneByteOver
<1> QED
  BY <1>12, <1>13, <1>14, <1>15, <1>16, <1>17 DEF StreamInv

LEMMA TwoAppended ==
  ASSUME NEW S, NEW s \in Seq(S), NEW a \in S, NEW b \in S
  PROVE  s \o (<<a>> \o <<b>>) = Append(Append(s, a), b)
<1>1. s \o (<<a>> \o <<b>>) = (s \o <<a>>) \o <<b>>
  OBVIOUS
<1>2. s \o <<a>> = Append(s, a)
  OBVIOUS
<1>3. Append(s, a) \o <<b>> = Append(Append(s, a), b)
  OBVIOUS
<1> QED
  BY <1>1, <1>2, <1>3, Zenon

\* The line that Sink hands over
LEMMA LineClosed ==
  ASSUME StreamInv, open # <<>>
  PROVE  LET line == stream.text \o Closing(stream)
             n == Len(stream.text)
         IN /\ line \in Texts /\ Len(line) \in {n + 1, n + 2} /\ n \in Nat
            /\ \A i \in 1 .. n : line[i] = stream.text[i]
            /\ \A i \in n + 1 .. Len(line) :
                  line[i].kind \in {"tail", "newline"} /\ line[i].from = stream.source /\ ~line[i].cut
            /\ TextLen(line) <= stream.size + 1 /\ Items(line) = Items(stream.text)
            /\ Len(line) = n + 2 => TextLen(stream.text) < stream.size
<1> DEFINE text == stream.text
           line == text \o Closing(stream)
           n == Len(text)
           tail == Part("tail", stream.source, TailLen, FALSE)
           last == Part("newline", stream.source, 1, FALSE)
<1>1. text \in Texts /\ stream.size \in Nat /\ stream.source \in Nat
  BY DEF StreamInv, StreamType, Streams
<1>2. TextLen(text) <= stream.size
  BY DEF StreamInv, Sized
<1>3. TailLen \in Nat /\ TailRoom \in Nat /\ TailRoom > 0 /\ TailLen <= TailRoom
  BY LineAssumption
<1>4. /\ tail \in Parts /\ tail.kind = "tail" /\ tail.from = stream.source /\ tail.len = TailLen /\ tail.cut = FALSE
      /\ last \in Parts /\ last.kind = "newline" /\ last.from = stream.source /\ last.len = 1 /\ last.cut = FALSE
  BY <1>1, <1>3 DEF Part, Parts
<1>5. n \in Nat /\ text \in Seq(Parts)
  BY <1>1 DEF Texts
<1>6. CASE stream.size - TextLen(text) >= TailRoom
  <2>1. Closing(stream) = <<tail>> \o <<last>>
    BY <1>6 DEF Closing
  <2> HIDE DEF tail, last
  <2> DEFINE a == Append(text, tail)
             b == Append(a, last)
  <2>2. line = b
    <3>1. tail \in Parts /\ last \in Parts
      BY <1>4
    <3>2. text \o (<<tail>> \o <<last>>) = b
      BY <1>5, <3>1, TwoAppended
    <3>3. line = text \o (<<tail>> \o <<last>>)
      BY <2>1, Zenon
    <3> QED
      BY <3>2, <3>3, Zenon
  <2>3. a \in Seq(Parts) /\ Len(a) = n + 1 /\ a[n + 1] = tail /\ \A i \in 1 .. n : a[i] = text[i]
    BY <1>4, <1>5
  <2> HIDE DEF a, line, n
  <2>4. b \in Seq(Parts) /\ Len(b) = n + 2 /\ b[n + 2] = last /\ \A i \in 1 .. n + 1 : b[i] = a[i]
    BY <1>4, <1>5, <2>3
  <2>5. TextLen(a) = TextLen(text) + TailLen /\ TextLen(text) \in Nat
    BY <1>1, <1>4, TextGrows DEF a
  <2>6. TextLen(b) = TextLen(a) + 1
    BY <1>4, <2>3, TextGrows DEF Texts
  <2>7. Items(b) = Items(a) /\ Items(a) = Items(text)
    <3>1. Items(a) = Items(text)
      BY <1>1, <1>4, ItemsGrow DEF a
    <3>2. Items(b) = Items(a)
      BY <1>4, <2>3, ItemsGrow DEF Texts
    <3> QED
      BY <3>1, <3>2
  <2> HIDE DEF b
  <2>8. ASSUME NEW i \in n + 1 .. Len(line)
        PROVE  line[i].kind \in {"tail", "newline"} /\ line[i].from = stream.source /\ ~line[i].cut
    <3>1. line[i] = tail \/ line[i] = last
      BY <1>5, <2>2, <2>3, <2>4
    <3> QED
      BY <1>4, <3>1
  <2>9. \A i \in 1 .. n : line[i] = text[i]
    BY <1>5, <2>2, <2>3, <2>4
  <2>10. line \in Texts /\ Len(line) = n + 2
    BY <2>2, <2>4 DEF Texts
  <2>11. TextLen(line) <= stream.size + 1 /\ TextLen(text) < stream.size
    BY <1>1, <1>3, <1>6, <2>2, <2>5, <2>6
  <2> QED
    BY <1>5, <2>2, <2>7, <2>8, <2>9, <2>10, <2>11 DEF line, n
<1>7. CASE ~(stream.size - TextLen(text) >= TailRoom)
  <2>1. Closing(stream) = <<>> \o <<last>>
    BY <1>7 DEF Closing
  <2> HIDE DEF last
  <2> DEFINE b == Append(text, last)
  <2>2. line = b
    <3>1. <<>> \o <<last>> = <<last>>
      OBVIOUS
    <3>2. text \o <<last>> = b
      BY <1>4, <1>5
    <3>3. line = text \o Closing(stream)
      OBVIOUS
    <3> HIDE DEF line, b
    <3> QED
      BY <2>1, <3>1, <3>2, <3>3, Zenon
  <2>3. b \in Seq(Parts) /\ Len(b) = n + 1 /\ b[n + 1] = last /\ \A i \in 1 .. n : b[i] = text[i]
    BY <1>4, <1>5
  <2>4. TextLen(b) = TextLen(text) + 1 /\ TextLen(text) \in Nat
    BY <1>1, <1>4, TextGrows
  <2>5. Items(b) = Items(text)
    BY <1>1, <1>4, ItemsGrow
  <2> HIDE DEF line, n, b
  <2>6. ASSUME NEW i \in n + 1 .. Len(line)
        PROVE  line[i].kind \in {"tail", "newline"} /\ line[i].from = stream.source /\ ~line[i].cut
    <3>1. line[i] = last
      BY <1>5, <2>2, <2>3
    <3> QED
      BY <1>4, <3>1
  <2>7. line \in Texts /\ Len(line) = n + 1 /\ \A i \in 1 .. n : line[i] = text[i]
    BY <2>2, <2>3 DEF Texts
  <2>8. TextLen(line) <= stream.size + 1
    BY <1>1, <1>2, <2>2, <2>4
  <2> QED
    BY <1>5, <2>2, <2>5, <2>6, <2>7, <2>8 DEF line, n
<1> QED
  BY <1>6, <1>7

\* Sink
LEMMA StreamEnds ==
  ASSUME StreamInv, EndStatement
  PROVE  StreamInv'
<1> DEFINE text == stream.text
           line == text \o Closing(stream)
           n == Len(text)
<1>1. StreamType /\ Sized /\ TextWhole /\ OperandsKept /\ LinesWhole /\ OneByteOver
  BY DEF StreamInv
<1>2. /\ open # <<>> /\ open' = Front(open) /\ stream' = Sunk(stream)
      /\ UNCHANGED <<setting, said, begun>>
      /\ \/ /\ stream.auto_flush /\ lines' = Append(lines, line)
            /\ high' = Larger(high, TextLen(line)) /\ torn' = torn \cup ToSet(Front(open))
         \/ ~stream.auto_flush /\ UNCHANGED <<lines, errors, high, torn>>
  BY DEF EndStatement
<1>3. /\ open \in Seq(Nat) /\ open' \in Seq(Nat) /\ DOMAIN open' \subseteq DOMAIN open
      /\ \A i \in DOMAIN open' : open'[i] = open[i]
  <2>1. open \in Seq(Nat) /\ open # <<>> /\ open' = SubSeq(open, 1, Len(open) - 1)
    BY <1>1, <1>2 DEF StreamType, Front
  <2>2. Len(open) \in Nat \ {0} /\ DOMAIN open = 1 .. Len(open)
    BY <2>1
  <2>3. open' \in Seq(Nat) /\ Len(open') = Len(open) - 1 /\ \A i \in 1 .. Len(open) - 1 : open'[i] = open[i]
    BY <2>1, <2>2
  <2>4. DOMAIN open' = 1 .. Len(open) - 1
    BY <2>3
  <2> QED
    BY <2>1, <2>2, <2>3, <2>4
<1>4. /\ stream' \in Streams /\ stream'.size = stream.size /\ stream'.source = stream.source
      /\ stream'.text = IF stream.auto_flush THEN <<>> ELSE text
  <2>1. <<>> \in Texts /\ stream \in Streams
    BY <1>1 DEF Texts, StreamType
  <2> QED
    BY <1>2, <2>1 DEF Sunk, Streams
<1>5. stream.size \in MaxLengths /\ stream.size \in Nat
  BY <1>1, <1>2 DEF Sized, StreamType, Streams
<1>6. CASE ~stream.auto_flush
  <2>1. UNCHANGED <<lines, said, setting, begun, high, torn>> /\ stream'.text = text
    BY <1>2, <1>4, <1>6
  <2>2. StreamType' /\ Sized'
    BY <1>1, <1>3, <1>4, <1>5, <2>1 DEF StreamType, Sized
  <2>3. TextWhole'
    BY <1>1, <1>3, <1>4, <2>1 DEF TextWhole
  <2>4. OperandsKept' /\ LinesWhole' /\ OneByteOver'
    BY <1>1, <1>4, <2>1 DEF OperandsKept, LinesWhole, OneByteOver
  <2> QED
    BY <2>2, <2>3, <2>4 DEF StreamInv
<1>7. CASE stream.auto_flush
  <2>1. /\ lines' = Append(lines, line) /\ high' = Larger(high, TextLen(line))
        /\ torn' = torn \cup ToSet(Front(open)) /\ stream'.text = <<>>
        /\ UNCHANGED <<setting, said, begun>>
    BY <1>2, <1>4, <1>7
  <2>2. /\ line \in Texts /\ Len(line) \in {n + 1, n + 2} /\ n \in Nat
        /\ \A i \in 1 .. n : line[i] = text[i]
        /\ \A i \in n + 1 .. Len(line) :
              line[i].kind \in {"tail", "newline"} /\ line[i].from = stream.source /\ ~line[i].cut
        /\ TextLen(line) <= stream.size + 1 /\ Items(line) = Items(text)
        /\ Len(line) = n + 2 => TextLen(text) < stream.size
    BY <1>2, LineClosed
  <2>3. DOMAIN text = 1 .. n /\ text \in Texts /\ TextLen(text) \in Nat
    <3>1. text \in Texts /\ Part("tail", 0, 0, FALSE) \in Parts
      BY <1>1 DEF StreamType, Streams, Part, Parts
    <3>2. TextLen(text) \in Nat
      BY <3>1, TextGrows
    <3> QED
      BY <3>1, <3>2 DEF Texts
  <2> HIDE DEF line, n
  <2>4. /\ lines \in Seq(Texts) /\ lines' \in Seq(Texts) /\ Len(lines') = Len(lines) + 1 /\ Len(lines) \in Nat
        /\ lines'[Len(lines) + 1] = line /\ \A k \in 1 .. Len(lines) : lines'[k] = lines[k]
    BY <1>1, <2>1, <2>2 DEF StreamType
  <2>5. \A k \in 1 .. Len(lines') : k \in 1 .. Len(lines) \/ k = Len(lines) + 1
    BY <2>4
  <2>6. TextLen(line) \in Nat
    <3>1. Part("tail", 0, 0, FALSE) \in Parts
      BY DEF Part, Parts
    <3> QED
      BY <2>2, <3>1, TextGrows
  <2>7. high' \in Nat /\ high' <= stream'.size + 1
    <3>1. high \in Nat /\ high <= stream.size + 1
      BY <1>1 DEF OneByteOver, StreamType
    <3>2. high' = high \/ high' = TextLen(line)
      BY <2>1 DEF Larger
    <3> QED
      BY <1>4, <1>5, <2>2, <2>6, <3>1, <3>2
  <2>8. StreamType'
    BY <1>1, <1>3, <1>4, <2>1, <2>4, <2>7 DEF StreamType
  <2>9. Sized'
    BY <1>4, <1>5, <2>1, NoText DEF Sized
  <2>10. TextWhole'
    <3>1. \A i \in DOMAIN open' : open'[i] \in torn'
      BY <1>2, <2>1 DEF ToSet
    <3>2. DOMAIN stream'.text = {}
      BY <2>1
    <3> QED
      BY <3>1, <3>2 DEF TextWhole
  <2>11. OperandsKept'
    <3>1. AllItems(lines') = AllItems(lines) \o Items(line) /\ AllItems(lines) \in Texts
      BY <2>1, <2>2, <2>4, LinesGrow
    <3>2. AllItems(lines') = said
      BY <1>1, <2>2, <3>1 DEF OperandsKept, AllItems
    <3>3. said \o <<>> = said
      BY <1>1 DEF StreamType, Texts
    <3>4. AllItems(lines') \o Items(stream'.text) = said'
      BY <2>1, <3>2, <3>3, NoItems
    <3>5. ASSUME NEW i \in 1 .. Len(line) - 2 PROVE ~line[i].cut
      <4>1. i \in 1 .. n /\ line[i] = text[i] /\ (i = n => Len(line) = n + 2)
        BY <2>2
      <4>2. text[i].cut => i = n /\ TextLen(text) = stream.size
        BY <1>1, <2>3, <4>1 DEF TextWhole, n
      <4> QED
        BY <1>5, <2>2, <2>3, <4>1, <4>2
    <3>6. \A k \in 1 .. Len(lines) : \A i \in 1 .. Len(lines[k]) - 2 : ~lines[k][i].cut
      BY <1>1 DEF OperandsKept
    <3>7. \A k \in 1 .. Len(lines') : \A i \in 1 .. Len(lines'[k]) - 2 : ~lines'[k][i].cut
      BY <2>4, <2>5, <3>5, <3>6
    <3> QED
      BY <3>4, <3>7 DEF OperandsKept, AllItems
  <2>12. LinesWhole'
    <3>1. \A i \in 2 .. Len(line) : line[i].kind # "head"
      <4> SUFFICES ASSUME NEW i \in 2 .. Len(line) PROVE line[i].kind # "head"
        OBVIOUS
      <4>1. CASE i \in 1 .. n
        <5>1. text[i].kind = "head" => i = 1
          BY <1>1, <2>3, <4>1 DEF TextWhole
        <5>2. line[i] = text[i] /\ i # 1
          BY <2>2, <4>1
        <5> QED
          BY <5>1, <5>2
      <4>2. CASE i \in n + 1 .. Len(line)
        BY <2>2, <4>2
      <4> QED
        BY <2>2, <4>1, <4>2
    <3>2. line[1].kind = "head" => \A i \in 2 .. Len(line) : line[i].kind = "tail" => line[i].from = line[1].from
      <4> SUFFICES ASSUME line[1].kind = "head", NEW i \in 2 .. Len(line), line[i].kind = "tail"
                   PROVE  line[i].from = line[1].from
        OBVIOUS
      <4>1. 1 \in 1 .. n
        BY <2>2
      <4>2. line[1].from = stream.source
        <5>1. text[1].kind = "head" => text[1].from = stream.source
          BY <1>1, <2>3, <4>1 DEF TextWhole
        <5>2. line[1] = text[1]
          BY <2>2, <4>1
        <5> QED
          BY <5>1, <5>2
      <4>3. i \notin 1 .. n
        <5> SUFFICES ASSUME i \in 1 .. n PROVE FALSE
          OBVIOUS
        <5>1. text[i].kind \in {"head", "item"}
          BY <1>1, <2>3 DEF TextWhole
        <5>2. line[i] = text[i]
          BY <2>2
        <5> QED
          BY <5>1, <5>2
      <4> QED
        BY <2>2, <4>2, <4>3
    <3>3. line[1].kind = "item" => line[1].from \in torn'
      <4> SUFFICES ASSUME line[1].kind = "item" PROVE line[1].from \in torn
        BY <2>1
      <4>1. 1 \in 1 .. n
        BY <2>2
      <4>2. text[1].kind = "item" => text[1].from \in torn
        BY <1>1, <2>3, <4>1 DEF TextWhole
      <4>3. line[1] = text[1]
        BY <2>2, <4>1
      <4> QED
        BY <4>2, <4>3
    <3>4. torn \subseteq torn'
      BY <2>1
    <3> DEFINE Whole(x, over) ==
            /\ \A i \in 2 .. Len(x) : x[i].kind # "head"
            /\ x[1].kind = "head" => \A i \in 2 .. Len(x) : x[i].kind = "tail" => x[i].from = x[1].from
            /\ x[1].kind = "item" => x[1].from \in over
    <3>5. Whole(line, torn')
      BY <3>1, <3>2, <3>3
    <3>6. \A k \in 1 .. Len(lines) : Whole(lines[k], torn')
      BY <1>1, <3>4 DEF LinesWhole
    <3>7. \A k \in 1 .. Len(lines') : Whole(lines'[k], torn')
      <4> HIDE DEF Whole
      <4> QED
        BY <2>4, <2>5, <3>5, <3>6
    <3> QED
      BY <3>7 DEF LinesWhole
  <2>13. OneByteOver'
    BY <1>1, <1>4, <2>2, <2>4, <2>5, <2>7 DEF OneByteOver
  <2> QED
    BY <2>8, <2>9, <2>10, <2>11, <2>12, <2>13 DEF StreamInv
<1> QED
  BY <1>6, <1>7

\* The inductive invariant of the line of LogStream, for any lengths of buffer,
\* head, tail and operands, however the statements nest and join.
THEOREM StreamInvariant == StreamSpec => []StreamInv
<1>1. StreamInit => StreamInv
  <2> SUFFICES ASSUME StreamInit PROVE StreamInv
    OBVIOUS
  <2> USE DEF StreamInit
  <2>1. <<>> \in Texts /\ Len(<<>>) = 0 /\ DOMAIN <<>> = {}
    BY DEF Texts
  <2>2. StreamType
    <3>1. (CHOOSE n \in MaxLengths : TRUE) \in MaxLengths
      BY LineAssumption
    <3>2. stream \in Streams
      BY <2>1 DEF Streams
    <3> HIDE DEF StreamInit
    <3>3. setting \in [level : LogLevels \cup {KInfo}, ef : LogLevels \cup {4}, max : MaxLengths]
      BY <3>1 DEF StreamInit
    <3> QED
      BY <2>1, <3>2, <3>3 DEF StreamType, StreamInit
  <2>3. Sized /\ TextWhole
    BY <2>1, NoText DEF Sized, TextWhole
  <2>4. OperandsKept
    <3>1. AllItems(<<>>) = <<>>
      <4> DEFINE w == [k \in DOMAIN <<>> |-> Items(<<>>[k])]
      <4>1. AllItems(<<>>) = Joined(w) /\ Len(w) = 0
        BY DEF AllItems
      <4> QED
        BY <4>1, NoneJoined
    <3>2. <<>> \o <<>> = <<>>
      OBVIOUS
    <3>3. AllItems(lines) \o Items(stream.text) = said
      BY <3>1, <3>2, NoItems
    <3> QED
      BY <2>1, <3>3 DEF OperandsKept, AllItems
  <2>5. LinesWhole /\ OneByteOver
    BY <2>1 DEF LinesWhole, OneByteOver
  <2> QED
    BY <2>2, <2>3, <2>4, <2>5 DEF StreamInv
<1>2. StreamInv /\ [StreamNext]_streamVars => StreamInv'
  <2> SUFFICES ASSUME StreamInv, [StreamNext]_streamVars PROVE StreamInv'
    OBVIOUS
  <2>1. /\ setting \in [level : LogLevels \cup {KInfo}, ef : LogLevels \cup {4}, max : MaxLengths]
        /\ stream \in Streams
    BY DEF StreamInv, StreamType
  <2>2. CASE UNCHANGED streamVars
    BY <2>1, <2>2, StreamKept DEF streamVars
  <2>3. ASSUME NEW l \in LogLevels, SetLogLevel(l) \/ SetEfLogLevel(l) PROVE StreamInv'
    <3>1. /\ setting' \in [level : LogLevels \cup {KInfo}, ef : LogLevels \cup {4}, max : MaxLengths]
          /\ UNCHANGED <<stream, open, lines, said, begun, torn, high>>
      BY <2>1, <2>3 DEF SetLogLevel, SetEfLogLevel
    <3> QED
      BY <2>1, <3>1, StreamKept
  <2>4. ASSUME NEW m \in MaxLengths, SetMaxLength(m) PROVE StreamInv'
    <3>1. /\ setting' \in [level : LogLevels \cup {KInfo}, ef : LogLevels \cup {4}, max : MaxLengths]
          /\ UNCHANGED <<stream, open, lines, said, begun, torn, high>>
      BY <2>1, <2>4 DEF SetMaxLength
    <3> QED
      BY <2>1, <3>1, StreamKept
  <2>5. CASE DoNoflush
    <3>1. /\ stream' \in Streams /\ stream'.text = stream.text /\ stream'.size = stream.size
          /\ stream'.source = stream.source
          /\ UNCHANGED <<setting, open, lines, said, begun, torn, high>>
      BY <2>1, <2>5 DEF DoNoflush, Streams
    <3> QED
      BY <2>1, <3>1, StreamKept
  <2>6. ASSUME NEW l \in LogLevels, BeginStatement(l) PROVE StreamInv'
    BY <2>6, StreamBegins
  <2>7. ASSUME NEW m \in PartLengths,
               AppendText(m) \/ Appendf(m) \/ AppendInteger(m) \/ AppendPointer(m)
        PROVE  StreamInv'
    <3>1. /\ m \in Nat /\ NumericSize \in Nat /\ PointerSize \in Nat
          /\ stream.size \in Nat /\ stream.text \in Texts
      BY <2>1, LineAssumption DEF Streams
    <3>2. Avail \in Nat
      <4>1. Part("tail", 0, 0, FALSE) \in Parts
        BY DEF Part, Parts
      <4>2. TextLen(stream.text) \in Nat
        BY <3>1, <4>1, TextGrows
      <4> QED
        BY <3>1, <4>2 DEF Avail, StreamInv, Sized
    <3>3. CASE AppendText(m)
      <4>1. Smaller(m, Avail) \in Nat /\ Smaller(m, Avail) <= Avail /\ (m > Avail => Smaller(m, Avail) = Avail)
        BY <3>1, <3>2 DEF Smaller
      <4>2. (m > Avail) \in BOOLEAN /\ Smaller(m, Avail) <= Avail + 1
        BY <3>1, <3>2, <4>1
      <4> QED
        BY <3>3, <4>1, <4>2, StreamPuts DEF AppendText
    <3>4. CASE Appendf(m)
      <4>1. Smaller(m, Avail) \in Nat /\ Smaller(m, Avail) <= Avail /\ (m > Avail => Smaller(m, Avail) = Avail)
        BY <3>1, <3>2 DEF Smaller
      <4>2. (m > Avail) \in BOOLEAN /\ Smaller(m, Avail) + 1 \in Nat /\ Smaller(m, Avail) + 1 <= Avail + 1
        BY <3>1, <3>2, <4>1
      <4> QED
        BY <3>4, <4>1, <4>2, StreamPuts DEF Appendf
    <3>5. CASE AppendInteger(m)
      <4>1. m < NumericSize /\ Avail >= NumericSize /\ Put(m, m + 1, FALSE)
        BY <3>5 DEF AppendInteger, NumberFits
      <4>2. m <= Avail /\ m + 1 \in Nat /\ m + 1 <= Avail + 1 /\ FALSE \in BOOLEAN
        BY <3>1, <3>2, <4>1
      <4> QED
        BY <3>1, <4>1, <4>2, StreamPuts
    <3>6. CASE AppendPointer(m)
      <4>1. m <= PointerSize /\ Avail >= PointerSize /\ Put(m, m + 1, FALSE)
        BY <3>6 DEF AppendPointer
      <4>2. m <= Avail /\ m + 1 \in Nat /\ m + 1 <= Avail + 1 /\ FALSE \in BOOLEAN
        BY <3>1, <3>2, <4>1
      <4> QED
        BY <3>1, <4>1, <4>2, StreamPuts
    <3> QED
      BY <2>7, <3>3, <3>4, <3>5, <3>6
  <2>8. CASE EndStatement
    BY <2>8, StreamEnds
  <2> QED
    BY <2>2, <2>3, <2>4, <2>5, <2>6, <2>7, <2>8 DEF StreamNext
<1> QED
  BY <1>1, <1>2, PTL DEF StreamSpec

\* No operand is lost, doubled or out of order, however statements nest and join
\* on the thread's buffer, and nothing follows a text that was cut.
THEOREM OperandsAreKept == StreamSpec => []OperandsKept
<1>1. StreamInv => OperandsKept
  BY DEF StreamInv
<1> QED
  BY <1>1, StreamInvariant, PTL

\* A line has one head, in front, and the source of the statement whose head it is;
\* only what a torn statement still says comes without one.
THEOREM LinesAreWhole == StreamSpec => []LinesWhole
<1>1. StreamInv => LinesWhole
  BY DEF StreamInv
<1> QED
  BY <1>1, StreamInvariant, PTL

\* log_stream, the appends and Sink never write more than one byte behind the
\* buffer, whatever set_max_length_per_log says meanwhile.
THEOREM NeverTwoBytesOver == StreamSpec => []OneByteOver
<1>1. StreamInv => OneByteOver
  BY DEF StreamInv
<1> QED
  BY <1>1, StreamInvariant, PTL

=============================================================================
