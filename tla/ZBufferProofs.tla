--------------------------- MODULE ZBufferProofs ---------------------------
(***************************************************************************)
(* The references of ZBuffer are counted and the caches are apart, for any *)
(* number of threads, buffers, blocks and references.                      *)
(*                                                                         *)
(* First how many places a block is held in, and what a step changes of    *)
(* that; then one lemma for every action, and the theorems.  A list of     *)
(* references matters only through the number of times that a block is in  *)
(* it (Times), so a call that moves references is a balance of numbers.    *)
(***************************************************************************)
EXTENDS ZBufferLemmas

-----------------------------------------------------------------------------
(* Counting the places where a block is held *)

Times(c, s) == Cardinality(Spots(c, s))

\* The places in a list are as many as a number tells.
LEMMA TimesIs ==
  ASSUME NEW s, NEW S, s \in Seq(S), NEW c
  PROVE  IsFiniteSet(Spots(c, s)) /\ Times(c, s) \in Nat /\ Spots(c, s) \subseteq 1 .. Len(s)
<1>1. Len(s) \in Nat /\ DOMAIN s = 1 .. Len(s)
  OBVIOUS
<1>2. Spots(c, s) \in SUBSET (1 .. Len(s))
  BY <1>1 DEF Spots
<1>3. IsFiniteSet(1 .. Len(s))
  BY <1>1, FS_Interval
<1>4. IsFiniteSet(Spots(c, s))
  BY <1>2, <1>3, FS_Subset
<1> QED
  BY <1>2, <1>4, FS_CardinalityType DEF Times

\* As many numbers further on
LEMMA Shifted ==
  ASSUME NEW T \in SUBSET Nat, IsFiniteSet(T), NEW k \in Nat
  PROVE  LET U == {i + k : i \in T}
         IN IsFiniteSet(U) /\ Cardinality(U) = Cardinality(T)
<1> DEFINE U == {i + k : i \in T}
           f == [i \in T |-> i + k]
<1>1. f \in Surjection(T, U)
  BY DEF Surjection
<1>2. f \in Injection(T, U)
  <2>1. \A i, j \in T : i + k = j + k => i = j
    OBVIOUS
  <2> QED
    BY <2>1 DEF Injection, IsInjective
<1> HIDE DEF f, U
<1> QED
  BY <1>1, <1>2, FS_Surjection DEF U

\* One list behind the other
Joined(s, u, w) ==
    /\ Len(w) = Len(s) + Len(u)
    /\ \A i \in 1 .. Len(s) : w[i] = s[i]
    /\ \A i \in 1 .. Len(u) : w[Len(s) + i] = u[i]

LEMMA TimesJoined ==
  ASSUME NEW S, NEW s \in Seq(S), NEW u \in Seq(S), NEW w \in Seq(S), Joined(s, u, w)
  PROVE  \A c : Times(c, w) = Times(c, s) + Times(c, u)
<1> TAKE c
<1> DEFINE k == Len(s)
           A == Spots(c, s)
           B == Spots(c, u)
           D == {i + k : i \in B}
<1>1. /\ k \in Nat /\ Len(u) \in Nat /\ DOMAIN s = 1 .. k /\ DOMAIN u = 1 .. Len(u)
      /\ DOMAIN w = 1 .. k + Len(u)
  BY DEF Joined
<1>2. IsFiniteSet(A) /\ IsFiniteSet(B) /\ A \subseteq 1 .. k /\ B \subseteq 1 .. Len(u)
  BY TimesIs
<1>3. IsFiniteSet(D) /\ Cardinality(D) = Cardinality(B)
  <2>1. B \in SUBSET Nat
    BY <1>2
  <2> HIDE DEF B
  <2> QED
    BY <1>1, <1>2, <2>1, Shifted
<1>4. Spots(c, w) = A \cup D
  <2>1. ASSUME NEW i \in Spots(c, w) PROVE i \in A \cup D
    <3>1. CASE i <= k
      BY <1>1, <3>1 DEF Spots, Joined
    <3>2. CASE i > k
      <4>1. i - k \in 1 .. Len(u) /\ (i - k) + k = i /\ k + (i - k) = i
        BY <1>1, <3>2 DEF Spots
      <4>2. u[i - k] = w[i]
        BY <4>1 DEF Joined
      <4>3. i - k \in B
        BY <1>1, <4>1, <4>2 DEF Spots
      <4> QED
        BY <4>1, <4>3
    <3> QED
      BY <1>1, <3>1, <3>2 DEF Spots
  <2>2. ASSUME NEW i \in A PROVE i \in Spots(c, w)
    BY <1>1 DEF Spots, Joined
  <2>3. ASSUME NEW j \in D PROVE j \in Spots(c, w)
    <3> PICK i \in B : j = i + k
      OBVIOUS
    <3>1. i \in 1 .. Len(u) /\ u[i] = c
      BY <1>1 DEF Spots
    <3>2. i + k = k + i /\ i + k \in 1 .. k + Len(u)
      BY <1>1, <3>1
    <3>3. w[k + i] = c
      BY <3>1 DEF Joined
    <3> QED
      BY <1>1, <3>2, <3>3 DEF Spots
  <2> HIDE DEF A, D
  <2> QED
    BY <2>1, <2>2, <2>3
<1>5. A \cap D = {}
  <2> SUFFICES ASSUME NEW i \in A, i \in D PROVE FALSE
    OBVIOUS
  <2> PICK j \in B : i = j + k
    OBVIOUS
  <2> HIDE DEF A, B
  <2> QED
    BY <1>1, <1>2
<1> HIDE DEF A, B, D
<1>6. Cardinality(A \cup D) = Cardinality(A) + Cardinality(D) - Cardinality(A \cap D)
  BY <1>2, <1>3, FS_Union
<1>7. Cardinality(A \cap D) = 0
  BY <1>5, FS_EmptySet
<1>8. Cardinality(A) \in Nat /\ Cardinality(D) \in Nat
  BY <1>2, <1>3, FS_CardinalityType
<1> QED
  BY <1>3, <1>4, <1>6, <1>7, <1>8 DEF Times, A, B

LEMMA TimesOfNone ==
  ASSUME NEW c
  PROVE  Times(c, <<>>) = 0
<1>1. Spots(c, <<>>) = {}
  BY DEF Spots
<1> QED
  BY <1>1, FS_EmptySet DEF Times

LEMMA TimesOfOne ==
  ASSUME NEW c, NEW x
  PROVE  Times(c, <<x>>) = One(x = c)
<1>1. Spots(c, <<x>>) = IF x = c THEN {1} ELSE {}
  BY DEF Spots
<1> QED
  BY <1>1, FS_EmptySet, FS_Singleton DEF Times, One

LEMMA TimesConcat ==
  ASSUME NEW S, NEW s \in Seq(S), NEW u \in Seq(S)
  PROVE  \A c : Times(c, s \o u) = Times(c, s) + Times(c, u)
<1>1. s \o u \in Seq(S) /\ Joined(s, u, s \o u)
  BY DEF Joined
<1> QED
  BY <1>1, TimesJoined, Zenon

LEMMA TimesAppend ==
  ASSUME NEW S, NEW s \in Seq(S), NEW x \in S
  PROVE  \A c : Times(c, Append(s, x)) = Times(c, s) + One(x = c)
<1>1. Append(s, x) \in Seq(S) /\ Joined(s, <<x>>, Append(s, x)) /\ <<x>> \in Seq(S)
  BY DEF Joined
<1>2. \A c : Times(c, Append(s, x)) = Times(c, s) + Times(c, <<x>>)
  BY <1>1, TimesJoined, Zenon
<1> QED
  BY <1>2, TimesOfOne

LEMMA TimesTail ==
  ASSUME NEW S, NEW s \in Seq(S), s # <<>>
  PROVE  \A c : Times(c, s) = One(Head(s) = c) + Times(c, Tail(s))
<1>1. <<Head(s)>> \in Seq(S) /\ Tail(s) \in Seq(S) /\ Joined(<<Head(s)>>, Tail(s), s)
  BY DEF Joined
<1>2. \A c : Times(c, s) = Times(c, <<Head(s)>>) + Times(c, Tail(s))
  BY <1>1, TimesJoined, Zenon
<1> QED
  BY <1>2, TimesOfOne

LEMMA TimesCut ==
  ASSUME NEW S, NEW s \in Seq(S), NEW k \in 0 .. Len(s)
  PROVE  \A c : Times(c, s) = Times(c, SubSeq(s, 1, k)) + Times(c, SubSeq(s, k + 1, Len(s)))
<1> DEFINE n == Len(s)
           p == SubSeq(s, 1, k)
           q == SubSeq(s, k + 1, n)
<1>1. n \in Nat /\ k \in 0 .. n /\ p \in Seq(S) /\ q \in Seq(S)
  OBVIOUS
<1>2. /\ Len(p) = k /\ Len(q) = n - k
      /\ \A i \in 1 .. k : p[i] = s[i]
      /\ \A i \in 1 .. n - k : q[i] = s[k + i]
  OBVIOUS
<1> HIDE DEF p, q
<1>3. Joined(p, q, s)
  BY <1>1, <1>2 DEF Joined
<1>4. \A c : Times(c, s) = Times(c, p) + Times(c, q)
  BY <1>1, <1>3, TimesJoined, Zenon
<1> QED
  BY <1>4 DEF p, q

\* The places in the lists of threads or of buffers
Names == Blocks \cup {Null}
Lists(X) == [X -> Seq(Names)]
Cells(b, lists) == UNION {{x} \X Spots(b, lists[x]) : x \in DOMAIN lists}

LEMMA CellsAre ==
  ASSUME NEW X, IsFiniteSet(X), NEW lists \in Lists(X), NEW b
  PROVE  /\ IsFiniteSet(Cells(b, lists)) /\ Places(b, lists) = Cardinality(Cells(b, lists))
         /\ Places(b, lists) \in Nat
         /\ Cells(b, lists) = {p \in X \X Nat : p[2] \in Spots(b, lists[p[1]])}
<1> DEFINE At(x) == {x} \X Spots(b, lists[x])
           T == {At(x) : x \in X}
           f == [x \in X |-> At(x)]
<1>1. DOMAIN lists = X /\ \A x \in X : lists[x] \in Seq(Names)
  BY DEF Lists
<1>2. \A x \in X : IsFiniteSet(Spots(b, lists[x])) /\ Spots(b, lists[x]) \subseteq Nat
  BY <1>1, TimesIs
<1>3. f \in Surjection(X, T)
  BY DEF Surjection
<1>4. IsFiniteSet(T)
  <2> HIDE DEF f, T
  <2> QED
    BY <1>3, FS_Surjection
<1>5. ASSUME NEW x \in X PROVE IsFiniteSet(At(x))
  <2>1. IsFiniteSet({x})
    BY FS_Singleton
  <2> QED
    BY <1>2, <2>1, FS_Product
<1>6. \A t \in T : IsFiniteSet(t)
  BY <1>5
<1>7. IsFiniteSet(UNION T)
  <2> HIDE DEF T
  <2> QED
    BY <1>4, <1>6, FS_UNION
<1>8. Cells(b, lists) = UNION T
  BY <1>1 DEF Cells
<1>9. Places(b, lists) = Cardinality(Cells(b, lists))
  BY DEF Places, Cells
<1>10. UNION T = {p \in X \X Nat : p[2] \in Spots(b, lists[p[1]])}
  BY <1>2
<1> HIDE DEF T
<1> QED
  BY <1>7, <1>8, <1>9, <1>10, FS_CardinalityType

\* The places in one list and those in the others
LEMMA PlacesOut ==
  ASSUME NEW X, IsFiniteSet(X), NEW lists \in Lists(X), NEW x \in X, NEW b
  PROVE  Places(b, lists) = Places(b, [lists EXCEPT ![x] = <<>>]) + Times(b, lists[x])
<1> DEFINE rest == [lists EXCEPT ![x] = <<>>]
           A == Cells(b, rest)
           N == Spots(b, lists[x])
           B == {x} \X N
<1>1. rest \in Lists(X) /\ rest[x] = <<>> /\ \A y \in X \ {x} : rest[y] = lists[y]
  BY DEF Lists
<1>2. /\ IsFiniteSet(A) /\ Places(b, rest) = Cardinality(A)
      /\ A = {p \in X \X Nat : p[2] \in Spots(b, rest[p[1]])}
      /\ Places(b, lists) = Cardinality(Cells(b, lists))
      /\ Cells(b, lists) = {p \in X \X Nat : p[2] \in Spots(b, lists[p[1]])}
  <2> HIDE DEF rest
  <2> QED
    BY <1>1, CellsAre
<1>3. lists[x] \in Seq(Names)
  BY DEF Lists
<1>4. IsFiniteSet(N) /\ N \subseteq Nat /\ Cardinality(N) \in Nat
  BY <1>3, TimesIs DEF Times
<1>5. IsFiniteSet(B) /\ Cardinality(B) = Cardinality(N)
  <2>1. IsFiniteSet({x}) /\ Cardinality({x}) = 1
    BY FS_Singleton
  <2>2. IsFiniteSet(B) /\ Cardinality(B) = Cardinality({x}) * Cardinality(N)
    <3> HIDE DEF N
    <3> QED
      BY <1>4, <2>1, FS_Product
  <2> HIDE DEF B, N
  <2> QED
    BY <1>4, <2>1, <2>2
<1>6. Spots(b, rest[x]) = {}
  BY <1>1 DEF Spots
<1> HIDE DEF rest, A, N
<1>7. Cells(b, lists) = A \cup B
  <2>1. ASSUME NEW p \in Cells(b, lists) PROVE p \in A \cup B
    <3>1. CASE p[1] = x
      BY <1>2, <3>1 DEF N
    <3>2. CASE p[1] # x
      BY <1>1, <1>2, <3>2
    <3> QED
      BY <3>1, <3>2
  <2>2. ASSUME NEW p \in A PROVE p \in Cells(b, lists)
    <3>1. p[1] # x
      BY <1>2, <1>6
    <3> QED
      BY <1>1, <1>2, <3>1
  <2>3. ASSUME NEW p \in B PROVE p \in Cells(b, lists)
    BY <1>2, <1>4 DEF N
  <2> HIDE DEF B
  <2> QED
    BY <2>1, <2>2, <2>3
<1>8. A \cap B = {}
  BY <1>2, <1>6
<1> HIDE DEF B
<1>9. Cardinality(A \cup B) = Cardinality(A) + Cardinality(B) - Cardinality(A \cap B)
  BY <1>2, <1>5, FS_Union
<1>10. Cardinality(A \cap B) = 0
  BY <1>8, FS_EmptySet
<1>11. Cardinality(A) \in Nat /\ Cardinality(B) \in Nat
  BY <1>2, <1>5, FS_CardinalityType
<1>12. Places(b, lists) = Places(b, rest) + Times(b, lists[x])
  <2>1. Times(b, lists[x]) = Cardinality(N)
    BY DEF Times, N
  <2>2. Places(b, lists) = Cardinality(A \cup B)
    BY <1>2, <1>7, Zenon
  <2>3. Places(b, rest) = Cardinality(A)
    BY <1>2
  <2> QED
    BY <1>5, <1>9, <1>10, <1>11, <2>1, <2>2, <2>3
<1> QED
  BY <1>12 DEF rest

\* One list changes.
LEMMA PlacesChange ==
  ASSUME NEW X, IsFiniteSet(X), NEW lists \in Lists(X), NEW new \in Lists(X), NEW x \in X,
         \A y \in X \ {x} : new[y] = lists[y]
  PROVE  \A b : /\ Places(b, new) = Places(b, lists) - Times(b, lists[x]) + Times(b, new[x])
                /\ Places(b, lists) >= Times(b, lists[x])
                /\ Places(b, lists) \in Nat /\ Places(b, new) \in Nat
                /\ Times(b, lists[x]) \in Nat /\ Times(b, new[x]) \in Nat
<1> TAKE b
<1> DEFINE rest == [lists EXCEPT ![x] = <<>>]
<1>1. rest \in Lists(X) /\ lists[x] \in Seq(Names) /\ new[x] \in Seq(Names)
  BY DEF Lists
<1>2. rest = [new EXCEPT ![x] = <<>>]
  BY DEF Lists
<1>3. Places(b, lists) = Places(b, rest) + Times(b, lists[x])
  BY PlacesOut
<1>4. Places(b, new) = Places(b, rest) + Times(b, new[x])
  BY <1>2, PlacesOut
<1> HIDE DEF rest
<1>5. Places(b, rest) \in Nat /\ Places(b, lists) \in Nat /\ Places(b, new) \in Nat
  BY <1>1, CellsAre
<1>6. Times(b, lists[x]) \in Nat /\ Times(b, new[x]) \in Nat
  BY <1>1, TimesIs
<1> QED
  BY <1>3, <1>4, <1>5, <1>6

\* No list has anything.
LEMMA PlacesOfNone ==
  ASSUME NEW X, IsFiniteSet(X), NEW lists \in Lists(X), NEW b,
         \A x \in X : Times(b, lists[x]) = 0
  PROVE  Places(b, lists) = 0
<1>1. ASSUME NEW x \in X PROVE Spots(b, lists[x]) = {}
  <2>1. lists[x] \in Seq(Names)
    BY DEF Lists
  <2>2. IsFiniteSet(Spots(b, lists[x])) /\ Cardinality(Spots(b, lists[x])) = 0
    BY <2>1, TimesIs DEF Times
  <2> QED
    BY <2>2, FS_EmptySet
<1>2. Cells(b, lists) = {}
  BY <1>1, CellsAre
<1> QED
  BY <1>2, CellsAre, FS_EmptySet

\* A block is in one cache, once.
LEMMA PlacesInCaches ==
  ASSUME NEW cache \in Caches, Apart(cache), NEW b \in Blocks
  PROVE  Places(b, cache) = One(b \in InCache(cache))
<1>1. cache \in Lists(Threads)
  BY DEF Caches, Lists, Names
<1> DEFINE P == Cells(b, cache)
<1>2. /\ IsFiniteSet(P) /\ Places(b, cache) = Cardinality(P)
      /\ P = {p \in Threads \X Nat : p[2] \in Spots(b, cache[p[1]])}
  BY <1>1, ThreadsAssumption, CellsAre
<1> HIDE DEF P
<1>3. CASE b \in InCache(cache)
  <2>0. PICK t \in Threads : InList(b, cache[t])
    BY <1>3 DEF InCache
  <2>1. PICK i \in DOMAIN cache[t] : cache[t][i] = b
    BY <2>0 DEF InList
  <2>2. i \in Nat
    BY DEF Caches
  <2>3. <<t, i>> \in P
    BY <1>2, <2>1, <2>2 DEF Spots
  <2>4. ASSUME NEW p \in P PROVE p = <<t, i>>
    <3>1. p[1] \in Threads /\ p[2] \in DOMAIN cache[p[1]] /\ cache[p[1]][p[2]] = b
      BY <1>2 DEF Spots
    <3>2. p[1] = t /\ p[2] = i
      BY <2>1, <3>1 DEF Apart
    <3> QED
      BY <1>2, <3>2
  <2>5. P = {<<t, i>>}
    BY <2>3, <2>4
  <2> QED
    BY <1>2, <1>3, <2>5, FS_Singleton DEF One
<1>4. CASE b \notin InCache(cache)
  <2>1. P = {}
    BY <1>2, <1>4 DEF Spots, InCache, InList
  <2> QED
    BY <1>2, <1>4, <2>1, FS_EmptySet DEF One
<1> QED
  BY <1>3, <1>4

\* The blocks of references that are one behind the other
LEMMA BlocksAre ==
  ASSUME NEW refs \in Seq(RefType)
  PROVE  BlocksOf(refs) \in Seq(Names) /\ Len(BlocksOf(refs)) = Len(refs)
<1>1. \A i \in 1 .. Len(refs) : refs[i].block \in Names
  <2> TAKE i \in 1 .. Len(refs)
  <2>1. refs[i] \in RefType
    OBVIOUS
  <2> QED
    BY <2>1 DEF RefType, Names
<1>2. Len(refs) \in Nat /\ DOMAIN refs = 1 .. Len(refs)
  OBVIOUS
<1>3. BlocksOf(refs) = [i \in 1 .. Len(refs) |-> refs[i].block]
  BY <1>2 DEF BlocksOf
<1>4. BlocksOf(refs) \in [1 .. Len(refs) -> Names]
  BY <1>1, <1>3
<1> HIDE DEF BlocksOf
<1> QED
  BY <1>2, <1>4

LEMMA BlocksJoined ==
  ASSUME NEW refs \in Seq(RefType), NEW more \in Seq(RefType), NEW all \in Seq(RefType),
         Joined(refs, more, all)
  PROVE  \A c : Times(c, BlocksOf(all)) = Times(c, BlocksOf(refs)) + Times(c, BlocksOf(more))
<1>1. /\ BlocksOf(refs) \in Seq(Names) /\ BlocksOf(more) \in Seq(Names) /\ BlocksOf(all) \in Seq(Names)
      /\ Len(BlocksOf(refs)) = Len(refs) /\ Len(BlocksOf(more)) = Len(more)
      /\ Len(BlocksOf(all)) = Len(all) /\ Len(refs) \in Nat /\ Len(more) \in Nat
  BY BlocksAre
<1>2. /\ \A i \in 1 .. Len(refs) : BlocksOf(refs)[i] = refs[i].block
      /\ \A i \in 1 .. Len(more) : BlocksOf(more)[i] = more[i].block
      /\ \A i \in 1 .. Len(all) : BlocksOf(all)[i] = all[i].block
  BY DEF BlocksOf
<1>3. Joined(BlocksOf(refs), BlocksOf(more), BlocksOf(all))
  <2>1. \A i \in 1 .. Len(refs) : i \in 1 .. Len(all) /\ all[i] = refs[i]
    BY <1>1 DEF Joined
  <2>2. \A i \in 1 .. Len(more) : Len(refs) + i \in 1 .. Len(all) /\ all[Len(refs) + i] = more[i]
    BY <1>1 DEF Joined
  <2> DEFINE p == BlocksOf(refs)
             q == BlocksOf(more)
             w == BlocksOf(all)
  <2>3. /\ Len(w) = Len(p) + Len(q) /\ \A i \in 1 .. Len(p) : w[i] = p[i]
        /\ \A i \in 1 .. Len(q) : w[Len(p) + i] = q[i]
    <3>1. Len(all) = Len(refs) + Len(more)
      BY DEF Joined
    <3>2. \A i \in 1 .. Len(refs) : w[i] = p[i]
      BY <1>2, <2>1
    <3>3. \A i \in 1 .. Len(more) : w[Len(refs) + i] = q[i]
      BY <1>2, <2>2
    <3> HIDE DEF p, q, w
    <3> QED
      BY <1>1, <3>1, <3>2, <3>3 DEF p, q, w
  <2> HIDE DEF p, q, w
  <2>4. Joined(p, q, w)
    BY <2>3 DEF Joined
  <2> QED
    BY <2>4 DEF p, q, w
<1> QED
  BY <1>1, <1>3, TimesJoined, Zenon

LEMMA BlocksConcat ==
  ASSUME NEW refs \in Seq(RefType), NEW more \in Seq(RefType)
  PROVE  \A c : Times(c, BlocksOf(refs \o more))
                = Times(c, BlocksOf(refs)) + Times(c, BlocksOf(more))
<1>1. refs \o more \in Seq(RefType) /\ Joined(refs, more, refs \o more)
  BY DEF Joined
<1> QED
  BY <1>1, BlocksJoined, Zenon

LEMMA BlocksOfOne ==
  ASSUME NEW ref \in RefType
  PROVE  BlocksOf(<<ref>>) = <<ref.block>>
<1>1. Len(<<ref>>) = 1 /\ DOMAIN <<ref>> = 1 .. 1 /\ <<ref>>[1] = ref
  OBVIOUS
<1>2. BlocksOf(<<ref>>) = [i \in 1 .. 1 |-> ref.block]
  BY <1>1 DEF BlocksOf
<1> QED
  BY <1>2

\* What a buffer refers to: its references and its ring
BufferList(b) == BlocksOf(Refs(b) \o OwnRef(b))

LEMMA RefsAre ==
  ASSUME NEW b, BufferOK(b)
  PROVE  /\ Refs(b) \in Seq(RefType) /\ OwnRef(b) \in Seq(RefType)
         /\ \A i \in 1 .. Len(Refs(b)) : Refs(b)[i].block \in Blocks
         /\ b.array => Len(Refs(b)) = b.num
<1>1. b \in BufferType
  BY DEF BufferOK
<1>2. OwnRef(b) \in Seq(RefType)
  <2>1. b.second \in RefType
    BY <1>1 DEF BufferType
  <2> QED
    BY <2>1 DEF OwnRef
<1>3. CASE b.array
  <2>1. /\ b.num \in Nat /\ b.slots \in Seq(RefType) /\ DOMAIN b.slots = 1 .. Len(b.slots)
        /\ \A i \in 0 .. Len(b.slots) : Index(b, i) \in 1 .. Len(b.slots)
        /\ \A i \in 0 .. b.num - 1 : b.slots[Index(b, i)].block \in Blocks
        /\ b.num <= Len(b.slots) /\ Len(b.slots) \in Nat
    BY <1>3, RingFacts
  <2>2. \A i \in 1 .. b.num : /\ b.slots[Index(b, i - 1)] \in RefType
                              /\ b.slots[Index(b, i - 1)].block \in Blocks
    <3> TAKE i \in 1 .. b.num
    <3>1. i - 1 \in 0 .. b.num - 1 /\ i - 1 \in 0 .. Len(b.slots)
      BY SMTT(60), <2>1
    <3>2. Index(b, i - 1) \in 1 .. Len(b.slots)
      BY <2>1, <3>1
    <3>3. \A j \in 1 .. Len(b.slots) : b.slots[j] \in RefType
      BY <2>1
    <3>4. b.slots[Index(b, i - 1)].block \in Blocks
      BY <2>1, <3>1
    <3> QED
      BY <3>2, <3>3, <3>4
  <2>3. Refs(b) = [i \in 1 .. b.num |-> b.slots[Index(b, i - 1)]]
    BY <1>3 DEF Refs, RefAt
  <2> DEFINE r == Refs(b)
             s(i) == b.slots[Index(b, i - 1)]
  <2>4. r = [i \in 1 .. b.num |-> s(i)] /\ \A i \in 1 .. b.num : s(i) \in RefType /\ s(i).block \in Blocks
    BY <2>2, <2>3
  <2> HIDE DEF r, s
  <2>5. r \in [1 .. b.num -> RefType] /\ \A i \in 1 .. b.num : r[i].block \in Blocks
    BY <2>4
  <2>6. r \in Seq(RefType) /\ Len(r) = b.num
    <3> DEFINE n == b.num
    <3>1. n \in Nat /\ r \in [1 .. n -> RefType]
      BY <2>1, <2>5
    <3> HIDE DEF n
    <3>2. r \in Seq(RefType) /\ Len(r) = n
      BY <3>1
    <3> QED
      BY <3>2 DEF n
  <2> QED
    BY <1>2, <2>5, <2>6 DEF r
<1>4. CASE ~ b.array
  <2>1. b.first \in RefType /\ b.second \in RefType
    BY <1>1 DEF BufferType
  <2>2. CASE b.first.block = Null
    BY <1>2, <1>4, <2>2 DEF Refs
  <2>3. CASE b.first.block # Null /\ b.second.block = Null
    <3>1. Refs(b) = <<b.first>> /\ b.first.block \in Blocks
      BY <1>4, <2>1, <2>3 DEF Refs, RefType
    <3> QED
      BY <1>2, <1>4, <2>1, <3>1
  <2>4. CASE b.first.block # Null /\ b.second.block # Null
    <3>1. Refs(b) = <<b.first, b.second>> /\ b.first.block \in Blocks /\ b.second.block \in Blocks
      BY <1>4, <2>1, <2>4 DEF Refs, RefType
    <3> QED
      BY <1>2, <1>4, <2>1, <3>1
  <2> QED
    BY <2>2, <2>3, <2>4
<1> QED
  BY <1>3, <1>4

LEMMA BufferTimes ==
  ASSUME NEW b, BufferOK(b)
  PROVE  /\ BufferList(b) \in Seq(Names)
         /\ \A c : /\ Times(c, BufferList(b)) = Times(c, BlocksOf(Refs(b))) + One(c \in RingOf(b))
                   /\ Times(c, BlocksOf(Refs(b))) \in Nat
<1>1. Refs(b) \in Seq(RefType) /\ OwnRef(b) \in Seq(RefType)
  BY RefsAre
<1>2. Refs(b) \o OwnRef(b) \in Seq(RefType)
  BY <1>1
<1>3. BufferList(b) \in Seq(Names) /\ BlocksOf(Refs(b)) \in Seq(Names)
  BY <1>1, <1>2, BlocksAre DEF BufferList
<1>4. \A c : Times(c, BufferList(b)) = Times(c, BlocksOf(Refs(b))) + Times(c, BlocksOf(OwnRef(b)))
  BY <1>1, BlocksConcat, Zenon DEF BufferList
<1>5. \A c : Times(c, BlocksOf(OwnRef(b))) = One(c \in RingOf(b))
  <2> TAKE c
  <2>1. CASE b.array
    <3>1. b.second \in RefType
      BY DEF BufferOK, BufferType
    <3>2. BlocksOf(OwnRef(b)) = <<b.second.block>>
      BY <2>1, <3>1, BlocksOfOne DEF OwnRef
    <3> QED
      BY <2>1, <3>2, TimesOfOne DEF RingOf, One
  <2>2. CASE ~ b.array
    <3>1. BlocksOf(OwnRef(b)) = <<>>
      BY <2>2 DEF OwnRef, BlocksOf
    <3> QED
      BY <2>2, <3>1, TimesOfNone DEF RingOf, One
  <2> QED
    BY <2>1, <2>2
<1>6. \A c : Times(c, BlocksOf(Refs(b))) \in Nat
  BY <1>3, TimesIs
<1> QED
  BY <1>3, <1>4, <1>5, <1>6

\* What a thread has in hand: the references that its call takes along, and
\* what acquire_block_ref has answered.
Targets == Buffers \cup {nobuffer}
Items == [ref : RefType, dst : Targets, moved : BOOLEAN, src : Targets]
Moving(items) == [i \in DOMAIN items |-> IF items[i].moved THEN items[i].ref.block ELSE Null]
HandOf(items, ref) == Moving(items) \o <<ref.block>>

LEMMA MovingIs ==
  ASSUME NEW items \in Seq(Items)
  PROVE  /\ Moving(items) \in Seq(Names) /\ Len(Moving(items)) = Len(items) /\ Len(items) \in Nat
         /\ \A i \in 1 .. Len(items) :
               Moving(items)[i] = IF items[i].moved THEN items[i].ref.block ELSE Null
<1>1. \A i \in 1 .. Len(items) : (IF items[i].moved THEN items[i].ref.block ELSE Null) \in Names
  <2> TAKE i \in 1 .. Len(items)
  <2>1. items[i] \in Items
    OBVIOUS
  <2>2. items[i].ref \in RefType
    BY <2>1 DEF Items
  <2> QED
    BY <2>2 DEF RefType, Names
<1>2. Len(items) \in Nat /\ DOMAIN items = 1 .. Len(items)
  OBVIOUS
<1>3. Moving(items) = [i \in 1 .. Len(items) |-> IF items[i].moved THEN items[i].ref.block ELSE Null]
  BY <1>2 DEF Moving
<1>4. Moving(items) \in [1 .. Len(items) -> Names]
  BY <1>1, <1>3
<1>5. \A i \in 1 .. Len(items) :
         Moving(items)[i] = IF items[i].moved THEN items[i].ref.block ELSE Null
  BY <1>3
<1> HIDE DEF Moving
<1> QED
  BY <1>2, <1>4, <1>5

LEMMA MovingJoined ==
  ASSUME NEW items \in Seq(Items), NEW more \in Seq(Items), NEW all \in Seq(Items),
         Joined(items, more, all)
  PROVE  \A c : Times(c, Moving(all)) = Times(c, Moving(items)) + Times(c, Moving(more))
<1> DEFINE p == Moving(items)
           q == Moving(more)
           w == Moving(all)
<1>1. /\ p \in Seq(Names) /\ q \in Seq(Names) /\ w \in Seq(Names)
      /\ Len(p) = Len(items) /\ Len(q) = Len(more) /\ Len(w) = Len(all)
      /\ Len(items) \in Nat /\ Len(more) \in Nat
  BY MovingIs
<1>2. /\ \A i \in 1 .. Len(items) : p[i] = IF items[i].moved THEN items[i].ref.block ELSE Null
      /\ \A i \in 1 .. Len(more) : q[i] = IF more[i].moved THEN more[i].ref.block ELSE Null
      /\ \A i \in 1 .. Len(all) : w[i] = IF all[i].moved THEN all[i].ref.block ELSE Null
  BY MovingIs
<1> HIDE DEF p, q, w
<1>3. /\ Len(all) = Len(items) + Len(more) /\ \A i \in 1 .. Len(items) : all[i] = items[i]
      /\ \A i \in 1 .. Len(more) : all[Len(items) + i] = more[i]
  BY DEF Joined
<1>4. \A i \in 1 .. Len(items) : w[i] = p[i]
  <2> TAKE i \in 1 .. Len(items)
  <2>1. i \in 1 .. Len(all) /\ all[i] = items[i]
    BY <1>1, <1>3
  <2> QED
    BY <1>2, <2>1
<1>5. \A i \in 1 .. Len(more) : w[Len(items) + i] = q[i]
  <2> TAKE i \in 1 .. Len(more)
  <2>1. Len(items) + i \in 1 .. Len(all) /\ all[Len(items) + i] = more[i]
    BY <1>1, <1>3
  <2> QED
    BY <1>2, <2>1
<1>6. Joined(p, q, w)
  BY <1>1, <1>3, <1>4, <1>5 DEF Joined
<1>7. \A c : Times(c, w) = Times(c, p) + Times(c, q)
  BY <1>1, <1>6, TimesJoined, Zenon
<1> QED
  BY <1>7 DEF p, q, w

LEMMA MovingTail ==
  ASSUME NEW items \in Seq(Items), items # <<>>
  PROVE  /\ Head(items) \in Items /\ Tail(items) \in Seq(Items)
         /\ \A c \in Blocks : Times(c, Moving(items))
               = One(c \in Coming(Head(items).ref, Head(items).moved)) + Times(c, Moving(Tail(items)))
<1> DEFINE e == Head(items)
<1>1. e \in Items /\ <<e>> \in Seq(Items) /\ Tail(items) \in Seq(Items) /\ Joined(<<e>>, Tail(items), items)
  BY DEF Joined
<1>2. \A c : Times(c, Moving(items)) = Times(c, Moving(<<e>>)) + Times(c, Moving(Tail(items)))
  BY <1>1, MovingJoined, Zenon
<1> HIDE DEF e
<1>3. ASSUME NEW c \in Blocks
      PROVE  Times(c, Moving(<<e>>)) = One(c \in Coming(e.ref, e.moved))
  <2> DEFINE x == IF e.moved THEN e.ref.block ELSE Null
  <2>1. Moving(<<e>>) = <<x>>
    <3>1. DOMAIN <<e>> = 1 .. 1 /\ <<e>>[1] = e
      OBVIOUS
    <3>2. Moving(<<e>>) = [i \in 1 .. 1 |-> x]
      BY <3>1 DEF Moving
    <3> HIDE DEF x
    <3> QED
      BY <3>2
  <2>2. Times(c, Moving(<<e>>)) = One(x = c)
    BY <2>1, TimesOfOne
  <2>3. Null \notin Blocks
    BY SizesAssumption DEF Null, Blocks
  <2>4. x = c <=> c \in Coming(e.ref, e.moved)
    BY <2>3 DEF Coming
  <2> QED
    BY <2>2, <2>4 DEF One
<1> QED
  BY <1>1, <1>2, <1>3 DEF e

LEMMA HandTimes ==
  ASSUME NEW items \in Seq(Items), NEW ref \in RefType
  PROVE  /\ HandOf(items, ref) \in Seq(Names)
         /\ \A c : /\ Times(c, HandOf(items, ref)) = Times(c, Moving(items)) + One(ref.block = c)
                   /\ Times(c, Moving(items)) \in Nat
<1>1. Moving(items) \in Seq(Names) /\ <<ref.block>> \in Seq(Names)
  <2>1. ref.block \in Names
    BY DEF RefType, Names
  <2> QED
    BY <2>1, MovingIs
<1>2. \A c : Times(c, HandOf(items, ref)) = Times(c, Moving(items)) + Times(c, <<ref.block>>)
  BY <1>1, TimesConcat, Zenon DEF HandOf
<1>3. HandOf(items, ref) \in Seq(Names)
  BY <1>1 DEF HandOf
<1>4. \A c : Times(c, Moving(items)) \in Nat
  BY <1>1, TimesIs
<1> QED
  BY <1>2, <1>3, <1>4, TimesOfOne

\* The items that a call starts with
LEMMA ItemsAre ==
  ASSUME NEW refs \in Seq(RefType), NEW z \in Targets, NEW rh \in Targets
  PROVE  /\ Drops(refs) \in Seq(Items) /\ Moves(refs, z) \in Seq(Items)
         /\ Copies(refs, z, rh) \in Seq(Items)
         /\ Len(Drops(refs)) = Len(refs) /\ Len(Moves(refs, z)) = Len(refs)
         /\ Len(Copies(refs, z, rh)) = Len(refs) /\ Len(refs) \in Nat
<1>1. \A i \in 1 .. Len(refs) : refs[i] \in RefType
  OBVIOUS
<1>2. Len(refs) \in Nat /\ DOMAIN refs = 1 .. Len(refs)
  OBVIOUS
<1>3. /\ Drops(refs) = [i \in 1 .. Len(refs) |-> Item(refs[i], nobuffer, TRUE, nobuffer)]
      /\ Moves(refs, z) = [i \in 1 .. Len(refs) |-> Item(refs[i], z, TRUE, nobuffer)]
      /\ Copies(refs, z, rh) = [i \in 1 .. Len(refs) |-> Item(refs[i], z, FALSE, rh)]
  BY <1>2 DEF Drops, Moves, Copies
<1>4. \A ref \in RefType : /\ Item(ref, nobuffer, TRUE, nobuffer) \in Items
                           /\ Item(ref, z, TRUE, nobuffer) \in Items
                           /\ Item(ref, z, FALSE, rh) \in Items
  BY DEF Item, Items, Targets
<1>5. /\ Drops(refs) \in [1 .. Len(refs) -> Items] /\ Moves(refs, z) \in [1 .. Len(refs) -> Items]
      /\ Copies(refs, z, rh) \in [1 .. Len(refs) -> Items]
  BY <1>1, <1>3, <1>4
<1>6. \A s \in [1 .. Len(refs) -> Items] : s \in Seq(Items) /\ Len(s) = Len(refs)
  BY <1>2
<1> QED
  BY <1>2, <1>5, <1>6, Zenon

LEMMA MovingOf ==
  ASSUME NEW refs \in Seq(RefType), NEW z \in Targets, NEW rh \in Targets
  PROVE  /\ Moving(Drops(refs)) = BlocksOf(refs) /\ Moving(Moves(refs, z)) = BlocksOf(refs)
         /\ \A c \in Blocks : Times(c, Moving(Copies(refs, z, rh))) = 0
<1>1. Moving(Drops(refs)) = BlocksOf(refs) /\ Moving(Moves(refs, z)) = BlocksOf(refs)
  BY DEF Moving, Drops, Moves, BlocksOf, Item
<1>2. Null \notin Blocks
  BY SizesAssumption DEF Null, Blocks
<1>3. ASSUME NEW c \in Blocks PROVE Spots(c, Moving(Copies(refs, z, rh))) = {}
  BY <1>2 DEF Moving, Copies, Item, Spots
<1>4. \A c \in Blocks : Times(c, Moving(Copies(refs, z, rh))) = 0
  BY <1>3, FS_EmptySet DEF Times
<1> QED
  BY <1>1, <1>4

\* What Selected chooses from the prefixes of a list
Chosen(f, s, some) ==
    f = [i \in 0 .. Len(s) |->
            IF i = 0 THEN <<>> ELSE IF HasBytes(s[i]) = some THEN Append(f[i - 1], s[i]) ELSE f[i - 1]]
Picks(f, s, some, n) ==
    /\ f \in [0 .. n -> Seq(RefType)] /\ f[0] = <<>>
    /\ \A i \in 1 .. n : f[i] = IF HasBytes(s[i]) = some THEN Append(f[i - 1], s[i]) ELSE f[i - 1]

LEMMA ChosenUpTo ==
  ASSUME NEW s \in Seq(RefType), NEW some, NEW n \in 0 .. Len(s)
  PROVE  \E f : Picks(f, s, some, n)
<1> DEFINE G(f, k) == Picks(f, s, some, k)
           Q == {k \in Nat : k <= Len(s) => \E f : G(f, k)}
<1>1. 0 \in Q
  <2> DEFINE f == [i \in 0 .. 0 |-> <<>>]
  <2>1. f \in [0 .. 0 -> Seq(RefType)] /\ f[0] = <<>>
    OBVIOUS
  <2>2. G(f, 0)
    BY <2>1 DEF Picks
  <2> QED
    BY <2>2
<1>2. ASSUME NEW k \in Q PROVE k + 1 \in Q
  <2>0. k + 1 \in Nat /\ (k <= Len(s) => \E f : G(f, k))
    OBVIOUS
  <2> SUFFICES ASSUME k + 1 <= Len(s) PROVE \E g : G(g, k + 1)
    BY <2>0
  <2>1. k \in Nat /\ k + 1 \in 1 .. Len(s) /\ k <= Len(s)
    OBVIOUS
  <2>2. PICK f : G(f, k)
    BY <2>0, <2>1
  <2> DEFINE x == IF HasBytes(s[k + 1]) = some THEN Append(f[k], s[k + 1]) ELSE f[k]
             g == [i \in 0 .. k + 1 |-> IF i = k + 1 THEN x ELSE f[i]]
  <2>3. s[k + 1] \in RefType /\ f[k] \in Seq(RefType)
    BY <2>1, <2>2 DEF Picks
  <2>4. x \in Seq(RefType)
    BY <2>3
  <2>5. g \in [0 .. k + 1 -> Seq(RefType)] /\ g[0] = <<>>
    <3> HIDE DEF x
    <3> QED
      BY <2>1, <2>2, <2>4 DEF Picks
  <2>6. ASSUME NEW i \in 1 .. k + 1
        PROVE  g[i] = IF HasBytes(s[i]) = some THEN Append(g[i - 1], s[i]) ELSE g[i - 1]
    <3>1. CASE i = k + 1
      <4>1. g[i] = x /\ i - 1 = k /\ g[k] = f[k]
        BY <2>1, <3>1
      <4> HIDE DEF g
      <4> QED
        BY <3>1, <4>1
    <3>2. CASE i # k + 1
      <4>1. i \in 1 .. k /\ g[i] = f[i] /\ g[i - 1] = f[i - 1]
        BY <2>1, <3>2
      <4>2. f[i] = IF HasBytes(s[i]) = some THEN Append(f[i - 1], s[i]) ELSE f[i - 1]
        BY <2>2, <4>1 DEF Picks
      <4> HIDE DEF g
      <4> QED
        BY <4>1, <4>2
    <3> QED
      BY <3>1, <3>2
  <2> HIDE DEF g
  <2>7. G(g, k + 1)
    BY <2>5, <2>6 DEF Picks
  <2> QED
    BY <2>7
<1>3. Q = Nat
  BY <1>1, <1>2, SetInduction
<1>4. n \in Nat /\ n <= Len(s)
  OBVIOUS
<1> QED
  BY <1>3, <1>4

LEMMA ChosenIs ==
  ASSUME NEW s \in Seq(RefType), NEW some
  PROVE  \E f : Chosen(f, s, some) /\ Picks(f, s, some, Len(s))
<1>1. Len(s) \in 0 .. Len(s) /\ Len(s) \in Nat
  OBVIOUS
<1>3. PICK f : Picks(f, s, some, Len(s))
  BY <1>1, ChosenUpTo
<1>2. /\ f \in [0 .. Len(s) -> Seq(RefType)] /\ f[0] = <<>>
      /\ \A i \in 1 .. Len(s) :
            f[i] = IF HasBytes(s[i]) = some THEN Append(f[i - 1], s[i]) ELSE f[i - 1]
  BY <1>3 DEF Picks
<1>4. ASSUME NEW i \in 0 .. Len(s)
      PROVE  f[i] = IF i = 0 THEN <<>> ELSE IF HasBytes(s[i]) = some THEN Append(f[i - 1], s[i]) ELSE f[i - 1]
  <2>1. CASE i = 0
    BY <1>2, <2>1
  <2>2. CASE i # 0
    <3>1. i \in 1 .. Len(s)
      BY <2>2
    <3> QED
      BY <1>2, <2>2, <3>1
  <2> QED
    BY <2>1, <2>2
<1>5. f = [i \in 0 .. Len(s) |-> f[i]]
  BY <1>2
<1>6. Chosen(f, s, some)
  BY <1>4, <1>5 DEF Chosen
<1> QED
  BY <1>3, <1>6

\* There is one such function.
LEMMA ChosenOnce ==
  ASSUME NEW s \in Seq(RefType), NEW some, NEW f, NEW g, Chosen(f, s, some), Picks(g, s, some, Len(s))
  PROVE  f = g
<1> DEFINE n == Len(s)
           Q == {i \in Nat : i <= n => f[i] = g[i]}
<1>1. n \in Nat
  OBVIOUS
<1>2. /\ \A i \in 1 .. n : g[i] = IF HasBytes(s[i]) = some THEN Append(g[i - 1], s[i]) ELSE g[i - 1]
      /\ g[0] = <<>> /\ g = [i \in 0 .. n |-> g[i]]
  BY DEF Picks
<1>3. /\ \A i \in 0 .. n : f[i] = IF i = 0 THEN <<>> ELSE
                                  IF HasBytes(s[i]) = some THEN Append(f[i - 1], s[i]) ELSE f[i - 1]
      /\ f = [i \in 0 .. n |-> f[i]]
  <2> DEFINE v(i) == IF i = 0 THEN <<>> ELSE
                     IF HasBytes(s[i]) = some THEN Append(f[i - 1], s[i]) ELSE f[i - 1]
  <2>1. f = [i \in 0 .. n |-> v(i)]
    BY DEF Chosen
  <2> HIDE DEF v
  <2>2. \A i \in 0 .. n : f[i] = v(i)
    BY <2>1
  <2>3. f = [i \in 0 .. n |-> f[i]]
    BY <2>1, <2>2
  <2> QED
    BY <2>2, <2>3 DEF v
<1> HIDE DEF n
<1>4. 0 \in Q
  <2>1. 0 \in 0 .. n
    BY <1>1
  <2> QED
    BY <1>2, <1>3, <2>1
<1>5. ASSUME NEW i \in Q PROVE i + 1 \in Q
  <2> SUFFICES ASSUME i + 1 <= n PROVE f[i + 1] = g[i + 1]
    OBVIOUS
  <2>1. i + 1 \in 1 .. n /\ i + 1 \in 0 .. n /\ (i + 1) - 1 = i /\ i + 1 # 0 /\ f[i] = g[i]
    BY <1>1
  <2>2. g[i + 1] = IF HasBytes(s[i + 1]) = some THEN Append(g[i], s[i + 1]) ELSE g[i]
    BY <1>2, <2>1
  <2>3. f[i + 1] = IF HasBytes(s[i + 1]) = some THEN Append(f[i], s[i + 1]) ELSE f[i]
    BY <1>3, <2>1
  <2> QED
    BY <2>1, <2>2, <2>3
<1>6. Q = Nat
  BY <1>4, <1>5, SetInduction
<1>7. \A i \in 0 .. n : f[i] = g[i]
  BY <1>1, <1>6
<1> QED
  BY <1>2, <1>3, <1>7

LEMMA SelectedIs ==
  ASSUME NEW s \in Seq(RefType), NEW some, NEW f, Picks(f, s, some, Len(s))
  PROVE  Selected(s, some) = f[Len(s)]
<1> DEFINE g == CHOOSE g : Chosen(g, s, some)
<1>1. f = g
  <2>1. Chosen(g, s, some)
    BY ChosenIs
  <2> HIDE DEF g
  <2> QED
    BY <2>1, ChosenOnce
<1>2. Selected(s, some) = g[Len(s)]
  BY DEF Selected, Chosen
<1> QED
  BY <1>1, <1>2

\* What is selected and what is not are the references, each once.
LEMMA SelectedParts ==
  ASSUME NEW s \in Seq(RefType)
  PROVE  /\ Selected(s, TRUE) \in Seq(RefType) /\ Selected(s, FALSE) \in Seq(RefType)
         /\ \A c : Times(c, BlocksOf(Selected(s, TRUE))) + Times(c, BlocksOf(Selected(s, FALSE)))
                   = Times(c, BlocksOf(s))
<1> DEFINE n == Len(s)
<1>1. n \in Nat /\ \A i \in 1 .. n : s[i] \in RefType
  OBVIOUS
<1>2. PICK f : Picks(f, s, TRUE, n)
  BY ChosenIs
<1>3. PICK g : Picks(g, s, FALSE, n)
  BY ChosenIs
<1>4. Selected(s, TRUE) = f[n] /\ Selected(s, FALSE) = g[n]
  BY <1>2, <1>3, SelectedIs
<1>5. /\ f \in [0 .. n -> Seq(RefType)] /\ f[0] = <<>> /\ g \in [0 .. n -> Seq(RefType)] /\ g[0] = <<>>
      /\ \A i \in 1 .. n : f[i] = IF HasBytes(s[i]) = TRUE THEN Append(f[i - 1], s[i]) ELSE f[i - 1]
      /\ \A i \in 1 .. n : g[i] = IF HasBytes(s[i]) = FALSE THEN Append(g[i - 1], s[i]) ELSE g[i - 1]
  BY <1>2, <1>3 DEF Picks
<1> HIDE DEF n
<1> DEFINE Sum(i) == \A c : Times(c, BlocksOf(f[i])) + Times(c, BlocksOf(g[i]))
                            = Times(c, BlocksOf(SubSeq(s, 1, i)))
           Q == {i \in Nat : i <= n => Sum(i)}
<1>6. 0 \in Q
  <2>1. SubSeq(s, 1, 0) = <<>> /\ BlocksOf(<<>>) = <<>>
    BY DEF BlocksOf
  <2>2. BlocksOf(f[0]) = <<>> /\ BlocksOf(g[0]) = <<>> /\ BlocksOf(SubSeq(s, 1, 0)) = <<>>
    BY <1>5, <2>1, Zenon
  <2>3. Sum(0)
    <3> TAKE c
    <3>1. Times(c, <<>>) = 0 /\ 0 + 0 = 0
      BY TimesOfNone
    <3> QED
      BY <2>2, <3>1, Zenon
  <2> HIDE DEF Sum
  <2> QED
    BY <2>3
<1>7. ASSUME NEW k \in Q PROVE k + 1 \in Q
  <2> SUFFICES ASSUME k + 1 <= n PROVE Sum(k + 1)
    <3> HIDE DEF Sum
    <3> QED
      OBVIOUS
  <2>1. k \in Nat /\ k + 1 \in 1 .. n /\ (k + 1) - 1 = k /\ k \in 0 .. n /\ s[k + 1] \in RefType
    BY <1>1
  <2>2. Sum(k)
    <3> HIDE DEF Sum
    <3> QED
      BY <2>1
  <2> DEFINE x == s[k + 1]
             u == SubSeq(s, 1, k)
  <2>3. f[k] \in Seq(RefType) /\ g[k] \in Seq(RefType) /\ u \in Seq(RefType)
    <3>1. f[k] \in Seq(RefType) /\ g[k] \in Seq(RefType)
      BY <1>5, <2>1, Zenon
    <3>2. u \in Seq(RefType)
      BY <2>1 DEF n
    <3> QED
      BY <3>1, <3>2
  <2>4. \A l \in Seq(RefType) : \A c : Times(c, BlocksOf(Append(l, x)))
                                       = Times(c, BlocksOf(l)) + Times(c, BlocksOf(<<x>>))
    <3> TAKE l \in Seq(RefType)
    <3>1. Append(l, x) = l \o <<x>> /\ <<x>> \in Seq(RefType)
      BY <2>1
    <3> HIDE DEF x
    <3> QED
      BY ZenonT(60), <3>1, BlocksConcat
  <2>5. SubSeq(s, 1, k + 1) = Append(u, x)
    BY <1>1, <2>1 DEF n
  <2>6. /\ f[k + 1] = IF HasBytes(x) = TRUE THEN Append(f[k], x) ELSE f[k]
        /\ g[k + 1] = IF HasBytes(x) = FALSE THEN Append(g[k], x) ELSE g[k]
    BY <1>5, <2>1
  <2>7. \A l \in Seq(RefType) : \A c : Times(c, BlocksOf(l)) \in Nat
    BY BlocksAre, TimesIs
  <2> HIDE DEF x, u
  <2>8. HasBytes(x) \in BOOLEAN
    BY DEF HasBytes
  <2> SUFFICES ASSUME NEW c
               PROVE  Times(c, BlocksOf(f[k + 1])) + Times(c, BlocksOf(g[k + 1]))
                      = Times(c, BlocksOf(SubSeq(s, 1, k + 1)))
    OBVIOUS
  <2>9. Times(c, BlocksOf(f[k])) + Times(c, BlocksOf(g[k])) = Times(c, BlocksOf(u))
    BY <2>2 DEF u
  <2>10. /\ Times(c, BlocksOf(f[k])) \in Nat /\ Times(c, BlocksOf(g[k])) \in Nat
         /\ Times(c, BlocksOf(u)) \in Nat /\ Times(c, BlocksOf(<<x>>)) \in Nat
    <3>1. <<x>> \in Seq(RefType)
      BY <2>1 DEF x
    <3> QED
      BY <2>3, <2>7, <3>1, Zenon
  <2>11. /\ Times(c, BlocksOf(Append(f[k], x))) = Times(c, BlocksOf(f[k])) + Times(c, BlocksOf(<<x>>))
         /\ Times(c, BlocksOf(Append(g[k], x))) = Times(c, BlocksOf(g[k])) + Times(c, BlocksOf(<<x>>))
         /\ Times(c, BlocksOf(Append(u, x))) = Times(c, BlocksOf(u)) + Times(c, BlocksOf(<<x>>))
    BY <2>3, <2>4
  <2>12. CASE HasBytes(x) = TRUE
    <3>1. f[k + 1] = Append(f[k], x) /\ g[k + 1] = g[k]
      BY <2>6, <2>12
    <3> DEFINE p == Times(c, BlocksOf(f[k]))
               q == Times(c, BlocksOf(g[k]))
               w == Times(c, BlocksOf(u))
               v == Times(c, BlocksOf(<<x>>))
    <3>2. p \in Nat /\ q \in Nat /\ w \in Nat /\ v \in Nat /\ p + q = w
      BY <2>9, <2>10
    <3>3. /\ Times(c, BlocksOf(f[k + 1])) = p + v /\ Times(c, BlocksOf(g[k + 1])) = q
          /\ Times(c, BlocksOf(SubSeq(s, 1, k + 1))) = w + v
      BY <2>5, <2>11, <3>1, Zenon
    <3> HIDE DEF p, q, w, v
    <3>4. (p + v) + q = w + v
      BY <3>2
    <3> QED
      BY <3>3, <3>4, Zenon
  <2>13. CASE HasBytes(x) = FALSE
    <3>1. f[k + 1] = f[k] /\ g[k + 1] = Append(g[k], x)
      BY <2>6, <2>13
    <3> DEFINE p == Times(c, BlocksOf(f[k]))
               q == Times(c, BlocksOf(g[k]))
               w == Times(c, BlocksOf(u))
               v == Times(c, BlocksOf(<<x>>))
    <3>2. p \in Nat /\ q \in Nat /\ w \in Nat /\ v \in Nat /\ p + q = w
      BY <2>9, <2>10
    <3>3. /\ Times(c, BlocksOf(f[k + 1])) = p /\ Times(c, BlocksOf(g[k + 1])) = q + v
          /\ Times(c, BlocksOf(SubSeq(s, 1, k + 1))) = w + v
      BY <2>5, <2>11, <3>1, Zenon
    <3> HIDE DEF p, q, w, v
    <3>4. p + (q + v) = w + v
      BY <3>2
    <3> QED
      BY <3>3, <3>4, Zenon
  <2> QED
    BY <2>8, <2>12, <2>13
<1>8. Q = Nat
  BY <1>6, <1>7, SetInduction
<1>9. Sum(n)
  <2>1. n \in Q /\ n <= n
    BY <1>1, <1>8
  <2> HIDE DEF Sum
  <2> QED
    BY <2>1
<1>10. SubSeq(s, 1, n) = s
  BY DEF n
<1>11. f[n] \in Seq(RefType) /\ g[n] \in Seq(RefType)
  BY <1>1, <1>5
<1> QED
  BY <1>4, <1>9, <1>10, <1>11

-----------------------------------------------------------------------------
(* popn *)

\* How many bytes the first references are
LEMMA LengthsAre ==
  ASSUME NEW refs \in Seq(RefType)
  PROVE  /\ Lengths(refs, 0) = 0
         /\ \A n \in 0 .. Len(refs) - 1 :
               Lengths(refs, n + 1) = Lengths(refs, n) + refs[n + 1].length
         /\ \A n \in 0 .. Len(refs) : Lengths(refs, n) \in Nat
         /\ \A n \in 0 .. Len(refs) : Lengths(refs, n) <= Lengths(refs, Len(refs))
<1> DEFINE w == [i \in DOMAIN refs |-> refs[i].length]
           L == Len(refs)
<1>1. DOMAIN refs = 1 .. L /\ L \in Nat
  OBVIOUS
<1>2. \A i \in 1 .. L : w[i] = refs[i].length /\ w[i] \in Nat
  <2>1. \A i \in 1 .. L : refs[i] \in RefType
    OBVIOUS
  <2>2. \A i \in 1 .. L : refs[i].length \in Nat
    BY <2>1 DEF RefType
  <2> QED
    BY <1>1, <2>2
<1>3. \A n \in Nat : Lengths(refs, n) = SumTo(w, n)
  BY DEF Lengths
<1> HIDE DEF w, L
<1>4. SumTo(w, 0) = 0
  BY SumOfNone
<1>5. ASSUME NEW n \in 0 .. L - 1
      PROVE  SumTo(w, n + 1) = SumTo(w, n) + w[n + 1] /\ n + 1 \in 1 .. L /\ n \in Nat
  <2>1. n \in Nat /\ n + 1 \in 1 .. L /\ \A i \in 1 .. n + 1 : w[i] \in Int
    BY <1>1, <1>2
  <2>2. \A i \in 1 .. n : w[i] = w[i]
    OBVIOUS
  <2> QED
    BY <2>1, <2>2, SumGrows
<1>6. \A n \in 0 .. L - 1 : Lengths(refs, n + 1) = Lengths(refs, n) + refs[n + 1].length
  BY <1>2, <1>3, <1>5
<1>7. \A n \in 0 .. L - 1 : refs[n + 1].length \in Nat
  BY <1>1, <1>2
<1> DEFINE P == {n \in Nat : n <= L => Lengths(refs, n) \in Nat}
<1>8. P = Nat
  <2>1. 0 \in P
    BY <1>3, <1>4
  <2>2. ASSUME NEW n \in P PROVE n + 1 \in P
    <3>1. CASE n + 1 <= L
      <4>1. n \in 0 .. L - 1 /\ Lengths(refs, n) \in Nat
        BY <1>1, <3>1
      <4> QED
        BY <1>6, <1>7, <4>1
    <3> QED
      BY <3>1
  <2>3. P \in SUBSET Nat
    OBVIOUS
  <2> HIDE DEF P
  <2> QED
    BY <2>1, <2>2, <2>3, SetInduction
<1>9. \A n \in 0 .. L : Lengths(refs, n) \in Nat
  BY <1>1, <1>8
<1> HIDE DEF P
<1> DEFINE Q == {d \in Nat : d <= L => Lengths(refs, L - d) <= Lengths(refs, L)}
<1>10. Q = Nat
  <2>1. 0 \in Q
    BY <1>1, <1>9
  <2>2. ASSUME NEW d \in Q PROVE d + 1 \in Q
    <3>1. CASE d + 1 <= L
      <4> DEFINE n == L - (d + 1)
      <4>1. n \in 0 .. L - 1 /\ n + 1 = L - d /\ n \in 0 .. L /\ n + 1 \in 0 .. L
        BY <1>1, <3>1
      <4>2. Lengths(refs, L - d) <= Lengths(refs, L)
        BY <1>1, <3>1
      <4> HIDE DEF n
      <4>3. Lengths(refs, n) <= Lengths(refs, n + 1)
        BY <1>6, <1>7, <1>9, <4>1
      <4>4. Lengths(refs, n) <= Lengths(refs, L)
        <5>1. L \in 0 .. L
          BY <1>1
        <5>2. Lengths(refs, L) \in Nat /\ Lengths(refs, n) \in Nat /\ Lengths(refs, n + 1) \in Nat
          BY <1>9, <4>1, <5>1
        <5> QED
          BY <4>1, <4>2, <4>3, <5>2
      <4> QED
        BY <4>4 DEF n
    <3> QED
      BY <3>1
  <2>3. Q \in SUBSET Nat
    OBVIOUS
  <2> HIDE DEF Q
  <2> QED
    BY <2>1, <2>2, <2>3, SetInduction
<1>11. ASSUME NEW n \in 0 .. L PROVE Lengths(refs, n) <= Lengths(refs, L)
  <2>1. L - n \in Nat /\ L - n <= L /\ L - (L - n) = n
    BY <1>1
  <2>2. L - n \in Q
    BY <1>10, <2>1
  <2> QED
    BY <2>1, <2>2
<1> QED
  BY <1>3, <1>4, <1>6, <1>9, <1>11 DEF L

\* Where popn stops: after whole references, with less than a whole one to go
LEMMA TakenIs ==
  ASSUME NEW b, BufferOK(b), NEW n \in Nat
  PROVE  /\ Taken(b, n) \in 0 .. Len(Refs(b)) /\ Copied(b, n) \in Nat
         /\ Taken(b, n) < Len(Refs(b)) =>
               Rest(b, n) \in Nat /\ Rest(b, n) <= Refs(b)[Taken(b, n) + 1].length
<1> DEFINE refs == Refs(b)
           L == Len(refs)
           W(i) == Lengths(refs, i)
           Stop(k) == W(k) <= n /\ (k < L => W(k + 1) > n)
<1>1. refs \in Seq(RefType) /\ L \in Nat
  BY RefsAre
<1>2. /\ W(0) = 0 /\ \A i \in 0 .. L : W(i) \in Nat /\ W(i) <= W(L)
      /\ \A i \in 0 .. L - 1 : W(i + 1) = W(i) + refs[i + 1].length
  BY <1>1, LengthsAre
<1>3. \A i \in 0 .. L - 1 : refs[i + 1].length \in Nat
  <2>1. \A i \in 1 .. L : refs[i] \in RefType
    BY <1>1
  <2>2. \A i \in 1 .. L : refs[i].length \in Nat
    BY <2>1 DEF RefType
  <2> HIDE DEF refs, L
  <2>3. \A i \in 0 .. L - 1 : i + 1 \in 1 .. L
    BY <1>1
  <2> QED
    BY <2>2, <2>3
<1>4. CASE ~ b.array /\ b.first.length = 0
  <2>1. Taken(b, n) = 0 /\ Copied(b, n) = 0
    BY <1>4 DEF Taken, Copied
  <2>2. Rest(b, n) = 0
    BY <1>2, <2>1 DEF Rest
  <2>3. 0 \in 0 .. L /\ (0 < L => 0 <= refs[0 + 1].length)
    <3> HIDE DEF refs, L
    <3>1. 0 < L => 0 \in 0 .. L - 1
      BY <1>1
    <3>2. 0 < L => refs[0 + 1].length \in Nat
      BY <1>3, <3>1
    <3> QED
      BY <1>1, <3>2
  <2> QED
    BY <2>1, <2>2, <2>3
<1>5. CASE ~ (~ b.array /\ b.first.length = 0)
  <2>1. /\ Taken(b, n) = CHOOSE k \in 0 .. L : Stop(k)
        /\ Copied(b, n) = MinOf(n, W(L)) /\ Rest(b, n) = Copied(b, n) - W(Taken(b, n))
    BY <1>5 DEF Taken, Copied, Rest
  <2> HIDE DEF refs, L, W
  <2>2. \E k \in 0 .. L : Stop(k)
    <3> DEFINE T == {k \in 0 .. L : k < L => W(k + 1) > n}
    <3>1. L \in T /\ T \in SUBSET Nat
      BY <1>1
    <3>2. PICK k \in T : \A j \in T : k <= j
      <4> HIDE DEF T
      <4> QED
        BY <3>1, LeastOne
    <3>3. k \in 0 .. L /\ (k < L => W(k + 1) > n)
      OBVIOUS
    <3>4. W(k) <= n
      <4>1. CASE k = 0
        BY <1>2, <4>1
      <4>2. CASE k # 0
        <5>1. k - 1 \in 0 .. L /\ k - 1 < L /\ k - 1 \notin T /\ (k - 1) + 1 = k
          <6>1. k - 1 \in 0 .. L /\ k - 1 < L /\ ~ (k <= k - 1) /\ (k - 1) + 1 = k
            BY <1>1, <3>3, <4>2
          <6> HIDE DEF T
          <6> QED
            BY <3>2, <6>1
        <5>2. ~ (W(k) > n)
          BY <5>1
        <5> QED
          BY <1>2, <3>3, <5>2
      <4> QED
        BY <4>1, <4>2
    <3> QED
      BY <3>3, <3>4
  <2>3. Taken(b, n) \in 0 .. L /\ Stop(Taken(b, n))
    <3> HIDE DEF Stop
    <3> QED
      BY <2>1, <2>2
  <2> DEFINE k == Taken(b, n)
  <2>4. W(L) \in Nat /\ W(k) \in Nat /\ W(k) <= W(L) /\ W(k) <= n /\ (k < L => W(k + 1) > n)
    <3>1. L \in 0 .. L
      BY <1>1
    <3> QED
      BY <1>2, <2>3, <3>1
  <2>5. Copied(b, n) \in Nat /\ Copied(b, n) <= n /\ Copied(b, n) >= W(k)
    BY <2>1, <2>4 DEF MinOf
  <2>6. ASSUME k < L PROVE Rest(b, n) \in Nat /\ Rest(b, n) <= refs[k + 1].length
    <3>1. k \in 0 .. L - 1
      BY <1>1, <2>3, <2>6
    <3>2. W(k + 1) = W(k) + refs[k + 1].length /\ refs[k + 1].length \in Nat
      BY <1>2, <1>3, <3>1
    <3> HIDE DEF k
    <3>3. Rest(b, n) = Copied(b, n) - W(k)
      BY <2>1 DEF k
    <3> QED
      BY <2>4, <2>5, <2>6, <3>2, <3>3
  <2> QED
    BY <2>3, <2>5, <2>6 DEF refs, L
<1> QED
  BY <1>4, <1>5

\* popn leaves the references behind the first k, of which the next one may be
\* cut; the places of the others hold none.
Left(b, c, k) ==
    /\ BufferOK(c) /\ RingOf(c) = RingOf(b)
    /\ \A x : Times(x, BlocksOf(Refs(b)))
              = Times(x, BlocksOf(SubSeq(Refs(b), 1, k))) + Times(x, BlocksOf(Refs(c)))

\* The lists of blocks tell it.
LEMMA LeftIs ==
  ASSUME NEW b, BufferOK(b), NEW c, BufferOK(c), RingOf(c) = RingOf(b),
         NEW k \in 0 .. Len(Refs(b)), Len(Refs(c)) = Len(Refs(b)) - k,
         \A i \in 1 .. Len(Refs(c)) : Refs(c)[i].block = Refs(b)[k + i].block
  PROVE  Left(b, c, k)
<1> DEFINE r == Refs(b)
           s == Refs(c)
           p == SubSeq(r, 1, k)
<1>1. r \in Seq(RefType) /\ s \in Seq(RefType) /\ Len(r) \in Nat /\ Len(s) \in Nat
  BY RefsAre
<1>2. p \in Seq(RefType) /\ Len(p) = k /\ \A i \in 1 .. k : p[i] = r[i]
  BY <1>1
<1> HIDE DEF r, s, p
<1> DEFINE u == BlocksOf(r)
           v == BlocksOf(s)
           q == BlocksOf(p)
<1>3. /\ u \in Seq(Names) /\ v \in Seq(Names) /\ q \in Seq(Names)
      /\ Len(u) = Len(r) /\ Len(v) = Len(s) /\ Len(q) = k
  BY <1>1, <1>2, BlocksAre
<1>4. /\ \A i \in 1 .. Len(r) : u[i] = r[i].block
      /\ \A i \in 1 .. Len(s) : v[i] = s[i].block
      /\ \A i \in 1 .. k : q[i] = p[i].block
  BY <1>1, <1>2 DEF BlocksOf
<1> HIDE DEF u, v, q
<1>5. k \in 0 .. Len(r) /\ Len(s) = Len(r) - k /\ \A i \in 1 .. Len(s) : s[i].block = r[k + i].block
  BY DEF r, s
<1>6. \A i \in 1 .. k : u[i] = q[i]
  <2>1. \A i \in 1 .. k : i \in 1 .. Len(r)
    BY <1>1, <1>5
  <2> QED
    BY <1>2, <1>4, <2>1
<1>7. \A i \in 1 .. Len(s) : u[k + i] = v[i]
  <2>1. \A i \in 1 .. Len(s) : k + i \in 1 .. Len(r)
    BY <1>1, <1>5
  <2> QED
    BY <1>4, <1>5, <2>1
<1>8. Joined(q, v, u)
  BY <1>1, <1>3, <1>5, <1>6, <1>7 DEF Joined
<1>9. \A x : Times(x, u) = Times(x, q) + Times(x, v)
  BY <1>3, <1>8, TimesJoined, Zenon
<1> QED
  BY <1>9 DEF Left, u, v, q, r, s, p

PoppedSlots(b, k, d) ==
    [i \in DOMAIN b.slots |->
        CASE i \in {Index(b, j - 1) : j \in 1 .. k} -> NoRef
          [] k < b.num /\ i = Index(b, k) -> Cut(b.slots[i], d)
          [] OTHER -> b.slots[i]]

LEMMA ArrayPopnIs ==
  ASSUME NEW b \in BufferType, NEW n
  PROVE  LET c == ArrayPopn(b, n)
             k == Taken(b, n)
             s == PoppedSlots(b, k, Rest(b, n))
         IN /\ c.array = b.array /\ c.first = b.first /\ c.second = b.second
            /\ c.begin = (b.begin + k) % BeginRange /\ c.num = b.num - k
            /\ c.slots = s
            /\ ((b.begin + k) % BeginRange \in Nat /\ b.num - k \in Nat /\ Copied(b, n) \in Int
                  /\ s \in Seq(RefType)) => c \in BufferType
<1> DEFINE k == Taken(b, n)
           s == PoppedSlots(b, k, Rest(b, n))
           m == Copied(b, n)
           p == (b.begin + k) % BeginRange
           q == b.num - k
           c == ArrayPopn(b, n)
<1>1. c = [b EXCEPT !.begin = p, !.num = q, !.nbytes = @ - m, !.slots = s]
  BY DEF ArrayPopn, PoppedSlots
<1> HIDE DEF k, s, m, p, q, c
<1>2. /\ c.array = b.array /\ c.first = b.first /\ c.second = b.second /\ c.begin = p /\ c.num = q
      /\ c.slots = s
  BY <1>1 DEF BufferType
<1>3. ASSUME p \in Nat, q \in Nat, m \in Int, s \in Seq(RefType) PROVE c \in BufferType
  <2>1. b.nbytes - m \in Int
    BY <1>3 DEF BufferType
  <2> QED
    BY <1>1, <1>3, <2>1 DEF BufferType
<1> QED
  BY <1>2, <1>3 DEF k, s, m, p, q, c

LEMMA PoppedSlotsIs ==
  ASSUME NEW b, NEW k, NEW d
  PROVE  LET s == PoppedSlots(b, k, d)
             given == {Index(b, j - 1) : j \in 1 .. k}
             L == Len(b.slots)
         IN ((k < b.num => Index(b, k) \notin given) /\ DOMAIN b.slots = 1 .. L) =>
            /\ DOMAIN s = 1 .. L
            /\ \A i \in 1 .. L : i \in given => s[i] = NoRef
            /\ \A i \in 1 .. L :
                  (i \notin given /\ k < b.num /\ i = Index(b, k)) => s[i] = Cut(b.slots[i], d)
            /\ \A i \in 1 .. L :
                  (i \notin given /\ ~ (k < b.num /\ i = Index(b, k))) => s[i] = b.slots[i]
<1> DEFINE s == PoppedSlots(b, k, d)
           given == {Index(b, j - 1) : j \in 1 .. k}
           L == Len(b.slots)
           cut(i) == k < b.num /\ i = Index(b, k)
<1> SUFFICES ASSUME k < b.num => Index(b, k) \notin given, DOMAIN b.slots = 1 .. L
            PROVE  /\ DOMAIN s = 1 .. L
                   /\ \A i \in 1 .. L : i \in given => s[i] = NoRef
                   /\ \A i \in 1 .. L : (i \notin given /\ cut(i)) => s[i] = Cut(b.slots[i], d)
                   /\ \A i \in 1 .. L : (i \notin given /\ ~ cut(i)) => s[i] = b.slots[i]
  OBVIOUS
<1>1. s = [i \in 1 .. L |-> CASE i \in given -> NoRef
                              [] cut(i) -> Cut(b.slots[i], d)
                              [] OTHER -> b.slots[i]]
  BY DEF PoppedSlots
<1>2. \A i : cut(i) => i \notin given
  OBVIOUS
<1> HIDE DEF s, given, cut, L
<1>3. /\ DOMAIN s = 1 .. L
      /\ \A i \in 1 .. L : i \in given => s[i] = NoRef
      /\ \A i \in 1 .. L : (i \notin given /\ cut(i)) => s[i] = Cut(b.slots[i], d)
      /\ \A i \in 1 .. L : (i \notin given /\ ~ cut(i)) => s[i] = b.slots[i]
  BY <1>1, <1>2
<1> QED
  BY <1>3

LEMMA ArrayPopnLeft ==
  ASSUME NEW b, BufferOK(b), b.array, NEW n \in Nat
  PROVE  Left(b, ArrayPopn(b, n), Taken(b, n))
<1> DEFINE c == ArrayPopn(b, n)
           k == Taken(b, n)
           d == Rest(b, n)
           L == Len(b.slots)
           r == Refs(b)
           given == {Index(b, j - 1) : j \in 1 .. k}
           s == PoppedSlots(b, k, d)
<1>1. /\ Ringlike(b) /\ b \in BufferType /\ L \in Nat /\ L >= 2 /\ b.slots \in Seq(RefType)
      /\ DOMAIN b.slots = 1 .. L /\ b.num \in Nat /\ b.num <= L
      /\ \A i \in 0 .. L : Index(b, i) \in 1 .. L
  BY RingFacts
<1>2. /\ L \in RingSizes /\ b.second.block \in Blocks /\ b.begin \in Nat
      /\ \A j \in 1 .. L : b.slots[j].block # Null <=> j \in Window(b)
  BY DEF BufferOK, RingOK, BufferType
<1>3. r = [i \in 1 .. b.num |-> b.slots[Index(b, i - 1)]] /\ Len(r) = b.num
  BY RefsAre DEF Refs, RefAt
<1>4. k \in 0 .. b.num /\ Copied(b, n) \in Nat /\ k \in Nat /\ k <= b.num
      /\ (k < b.num => d \in Nat /\ d <= b.slots[Index(b, k)].length)
  <2>1. /\ k \in 0 .. Len(r) /\ Copied(b, n) \in Nat
        /\ k < Len(r) => d \in Nat /\ d <= r[k + 1].length
    BY TakenIs
  <2> HIDE DEF k, d, r
  <2>2. k \in 0 .. b.num /\ k \in Nat /\ k <= b.num
    BY <1>1, <1>3, <2>1
  <2>3. ASSUME k < b.num PROVE r[k + 1] = b.slots[Index(b, k)]
    <3>1. k + 1 \in 1 .. b.num /\ (k + 1) - 1 = k
      BY <1>1, <2>2, <2>3
    <3> QED
      BY <1>3, <3>1
  <2> QED
    BY <1>3, <2>1, <2>2, <2>3
<1>5. /\ c.array = b.array /\ c.first = b.first /\ c.second = b.second
      /\ c.begin = (b.begin + k) % BeginRange /\ c.num = b.num - k /\ c.slots = s
      /\ ((b.begin + k) % BeginRange \in Nat /\ b.num - k \in Nat /\ Copied(b, n) \in Int
            /\ s \in Seq(RefType)) => c \in BufferType
  BY <1>1, ArrayPopnIs
<1> HIDE DEF c, k, d
<1> DEFINE N == b.num
           M == c.num
<1>20. k \in Nat /\ N \in Nat /\ L \in Nat /\ k <= N /\ N <= L /\ M = N - k /\ M \in Nat
  <2>1. k \in Nat /\ b.num \in Nat /\ k <= b.num /\ c.num = b.num - k
    BY <1>1, <1>4, <1>5
  <2> QED
    BY SMTT(60), <1>1, <2>1
<1>21. ASSUME k < N PROVE Index(b, k) \notin given
  <2> SUFFICES ASSUME Index(b, k) \in given PROVE FALSE
    OBVIOUS
  <2>1. PICK j \in 1 .. k : Index(b, k) = Index(b, j - 1)
    OBVIOUS
  <2>2. j - 1 \in Nat /\ j - 1 < L /\ j - 1 # k /\ k < L
    <3> HIDE DEF L, N
    <3> QED
      BY <1>20, <1>21
  <2> QED
    BY <1>1, <1>20, <2>1, <2>2, IndexInjective
<1>6. /\ DOMAIN s = 1 .. L
      /\ \A i \in 1 .. L : i \in given => s[i] = NoRef
      /\ \A i \in 1 .. L : (i \notin given /\ k < N /\ i = Index(b, k)) => s[i] = Cut(b.slots[i], d)
      /\ \A i \in 1 .. L : (i \notin given /\ ~ (k < N /\ i = Index(b, k))) => s[i] = b.slots[i]
  <2>1. k < b.num => Index(b, k) \notin given
    BY <1>21
  <2> QED
    BY <1>1, <2>1, PoppedSlotsIs
<1> HIDE DEF s, given
<1>7. ASSUME NEW i \in 1 .. L
      PROVE  s[i] \in RefType /\ s[i].block = IF i \in given THEN Null ELSE b.slots[i].block
  <2>1. b.slots[i] \in RefType
    BY <1>1
  <2>2. CASE i \in given
    BY <1>6, <2>2 DEF NoRef, RefType
  <2>3. CASE i \notin given /\ k < N /\ i = Index(b, k)
    <3>1. d \in Nat /\ d <= b.slots[i].length
      BY <1>4, <2>3
    <3>2. s[i] = Cut(b.slots[i], d)
      BY <1>6, <2>3
    <3> DEFINE x == b.slots[i]
    <3>3. x \in RefType /\ d <= x.length
      BY <2>1, <3>1
    <3> HIDE DEF x
    <3>4. x.offset + d \in Int /\ x.length - d \in Nat
      BY <3>1, <3>3 DEF RefType
    <3>5. Cut(x, d) \in RefType /\ Cut(x, d).block = x.block
      BY <3>3, <3>4 DEF RefType, Cut
    <3> QED
      BY <2>3, <3>2, <3>5 DEF x
  <2>4. CASE i \notin given /\ ~ (k < b.num /\ i = Index(b, k))
    BY <1>6, <2>1, <2>4
  <2> QED
    BY <2>2, <2>3, <2>4
<1>8. s \in Seq(RefType) /\ Len(s) = L
  <2>1. s = [i \in 1 .. L |-> s[i]]
    BY <1>6 DEF s, PoppedSlots
  <2>2. s \in [1 .. L -> RefType]
    BY <1>7, <2>1
  <2> HIDE DEF L
  <2> QED
    BY <1>1, <2>2
<1>9. (b.begin + k) % BeginRange \in Nat /\ (b.begin + k) % BeginRange < BeginRange
  <2>1. BeginRange \in Nat /\ BeginRange > 0 /\ b.begin + k \in Nat
    BY <1>2, <1>4, RingAssumption
  <2> QED
    BY <2>1, Remainder
<1>10. c \in BufferType
  <2>1. b.num - k \in Nat /\ Copied(b, n) \in Int
    BY <1>4, <1>20 DEF N
  <2> QED
    BY <1>5, <1>8, <1>9, <2>1, Zenon
<1>11. Ringlike(c) /\ Len(c.slots) = L
  BY <1>1, <1>5, <1>8, <1>10 DEF Ringlike
<1>12. ASSUME NEW i \in Nat, i + k < L PROVE Index(c, i) = Index(b, i + k)
  <2>1. k <= L /\ Len(c.slots) = Len(b.slots) /\ Len(b.slots) \in RingSizes
        /\ c.begin = (b.begin + k) % BeginRange
    BY <1>2, <1>5, <1>11, <1>20
  <2> QED
    BY <1>1, <1>11, <1>12, <1>20, <2>1, IndexMoved
<1>13. ASSUME NEW j \in 1 .. L
       PROVE  j \in Window(c) <=> j \in Window(b) /\ j \notin given
  <2>1. ASSUME j \in Window(c) PROVE j \in Window(b) /\ j \notin given
    <3>1. PICK i \in 0 .. c.num - 1 : j = Index(c, i)
      BY <2>1 DEF Window
    <3>2. i \in Nat /\ i + k \in 0 .. b.num - 1 /\ i + k < L /\ i + k \in Nat
      <4>1. i \in 0 .. M - 1
        OBVIOUS
      <4> HIDE DEF L, M, N
      <4>2. i \in Nat /\ i + k \in 0 .. N - 1 /\ i + k < L /\ i + k \in Nat
        BY <1>20, <4>1
      <4> QED
        BY <4>2 DEF N
    <3>3. j = Index(b, i + k)
      BY <1>12, <3>1, <3>2
    <3>4. j \in Window(b)
      BY <3>2, <3>3 DEF Window
    <3>5. ASSUME j \in given PROVE FALSE
      <4>1. PICK m \in 1 .. k : j = Index(b, m - 1)
        BY <3>5 DEF given
      <4>2. m - 1 \in Nat /\ m - 1 < L /\ m - 1 # i + k
        <5> HIDE DEF L, M, N
        <5> QED
          BY <1>20, <3>2
      <4> QED
        BY <1>1, <3>2, <3>3, <4>1, <4>2, IndexInjective
    <3> QED
      BY <3>4, <3>5
  <2>2. ASSUME j \in Window(b), j \notin given PROVE j \in Window(c)
    <3>1. PICK i \in 0 .. b.num - 1 : j = Index(b, i)
      BY <2>2 DEF Window
    <3>2. ~ (i + 1 \in 1 .. k)
      <4>1. (i + 1) - 1 = i
        BY <1>1
      <4> QED
        BY <2>2, <3>1, <4>1 DEF given
    <3>3. i - k \in 0 .. c.num - 1 /\ i - k \in Nat /\ (i - k) + k = i /\ i < L
      <4>1. i \in 0 .. N - 1
        OBVIOUS
      <4> HIDE DEF L, M, N
      <4>2. i - k \in 0 .. M - 1 /\ i - k \in Nat /\ (i - k) + k = i /\ i < L
        BY <1>20, <4>1, <3>2
      <4> QED
        BY <4>2 DEF M
    <3>4. Index(c, i - k) = j
      BY <1>12, <3>1, <3>3
    <3> QED
      BY <3>3, <3>4 DEF Window
  <2> QED
    BY <2>1, <2>2
<1>14. BufferOK(c)
  <2>1. \A j \in 1 .. L : c.slots[j].block # Null <=> j \in Window(c)
    BY <1>2, <1>5, <1>7, <1>13
  <2>2. c.num <= L /\ c.begin < BeginRange /\ c.second.block \in Blocks
    BY <1>1, <1>2, <1>4, <1>5, <1>9
  <2> QED
    BY <1>2, <1>5, <1>10, <1>11, <2>1, <2>2 DEF BufferOK, RingOK
<1>15. Refs(c) = [i \in 1 .. c.num |-> c.slots[Index(c, i - 1)]] /\ Len(Refs(c)) = c.num
  BY <1>5, <1>14, RefsAre DEF Refs, RefAt
<1>16. ASSUME NEW i \in 1 .. Len(Refs(c)) PROVE Refs(c)[i].block = Refs(b)[k + i].block
  <2>1. i \in 1 .. c.num /\ i - 1 \in Nat /\ (i - 1) + k < L /\ (k + i) - 1 = (i - 1) + k
        /\ k + i \in 1 .. b.num /\ i - 1 \in 0 .. c.num - 1
    <3>1. i \in 1 .. M
      BY <1>15
    <3> HIDE DEF L, M, N
    <3>2. /\ i \in 1 .. M /\ i - 1 \in Nat /\ (i - 1) + k < L /\ (k + i) - 1 = (i - 1) + k
          /\ k + i \in 1 .. N /\ i - 1 \in 0 .. M - 1
      BY <1>20, <3>1
    <3> QED
      BY <3>2 DEF M, N
  <2> DEFINE j == Index(c, i - 1)
  <2>2. j = Index(b, (k + i) - 1) /\ j \in Window(c)
    BY <1>12, <2>1 DEF Window
  <2>3. j \in 1 .. L
    <3>1. (k + i) - 1 \in 0 .. L
      <4>1. i \in 1 .. M
        BY <2>1
      <4> HIDE DEF L, M, N
      <4> QED
        BY <1>20, <4>1
    <3> QED
      BY <1>1, <2>2, <3>1
  <2>4. j \notin given
    BY <1>13, <2>2, <2>3
  <2>5. Refs(c)[i] = s[j] /\ Refs(b)[k + i] = b.slots[Index(b, (k + i) - 1)]
    BY <1>3, <1>5, <1>15, <2>1
  <2> HIDE DEF j
  <2> QED
    BY <1>7, <2>2, <2>3, <2>4, <2>5
<1>17. RingOf(c) = RingOf(b)
  BY <1>5 DEF RingOf
<1>18. k \in 0 .. Len(Refs(b)) /\ Len(Refs(c)) = Len(Refs(b)) - k
  BY <1>3, <1>4, <1>5, <1>15
<1>19. Left(b, c, k)
  BY <1>14, <1>16, <1>17, <1>18, LeftIs
<1> QED
  BY <1>19 DEF c, k

\* A buffer without references
LEMMA EmptyIs ==
  /\ BufferOK(Empty) /\ ~ Empty.array /\ Refs(Empty) = <<>> /\ OwnRef(Empty) = <<>>
  /\ RingOf(Empty) = {} /\ NoRef \in RefType /\ NoRef.block = Null
<1>1. NoRef \in RefType /\ NoRef.block = Null
  BY DEF NoRef, RefType
<1>2. Empty \in BufferType
  BY <1>1 DEF Empty, BufferType
<1>3. ~ Empty.array /\ Empty.first = NoRef /\ Empty.second = NoRef
  BY DEF Empty
<1>4. BufferOK(Empty) /\ Refs(Empty) = <<>> /\ OwnRef(Empty) = <<>> /\ RingOf(Empty) = {}
  BY <1>1, <1>2, <1>3 DEF BufferOK, Refs, OwnRef, RingOf
<1> QED
  BY <1>1, <1>3, <1>4

LEMMA CutIs ==
  ASSUME NEW x \in RefType, NEW d \in Nat, d <= x.length
  PROVE  Cut(x, d) \in RefType /\ Cut(x, d).block = x.block
<1>1. x.offset + d \in Int /\ x.length - d \in Nat
  BY DEF RefType
<1> QED
  BY <1>1 DEF RefType, Cut

\* The references of a buffer without a ring
LEMMA SimpleRefs ==
  ASSUME NEW b, BufferOK(b), ~ b.array
  PROVE  /\ b.first \in RefType /\ b.second \in RefType /\ b \in BufferType
         /\ b.first.block = Null => Refs(b) = <<>>
         /\ b.first.block # Null /\ b.second.block = Null => Refs(b) = <<b.first>>
         /\ b.first.block # Null /\ b.second.block # Null => Refs(b) = <<b.first, b.second>>
         /\ b.first.block = Null => b.second.block = Null
BY DEF BufferOK, BufferType, Refs

LEMMA FirstCutLeft ==
  ASSUME NEW b, BufferOK(b), ~ b.array, Refs(b) # <<>>, NEW d \in Nat, d <= b.first.length
  PROVE  Left(b, [b EXCEPT !.first = Cut(@, d)], 0)
<1> DEFINE x == Cut(b.first, d)
           c == [b EXCEPT !.first = x]
<1>1. /\ b.first \in RefType /\ b.second \in RefType /\ b \in BufferType
      /\ b.first.block # Null
      /\ b.second.block = Null => Refs(b) = <<b.first>>
      /\ b.second.block # Null => Refs(b) = <<b.first, b.second>>
  BY SimpleRefs
<1>2. x \in RefType /\ x.block = b.first.block
  BY <1>1, CutIs
<1> HIDE DEF x
<1>3. /\ c \in BufferType /\ c.array = b.array /\ c.first = x /\ c.second = b.second
  BY <1>1, <1>2 DEF BufferType
<1> HIDE DEF c
<1>4. BufferOK(c) /\ RingOf(c) = RingOf(b)
  BY <1>1, <1>2, <1>3 DEF BufferOK, RingOf
<1>5. /\ b.second.block = Null => Refs(c) = <<x>>
      /\ b.second.block # Null => Refs(c) = <<x, b.second>>
  BY <1>1, <1>2, <1>3 DEF Refs
<1>6. Len(Refs(c)) = Len(Refs(b)) /\ Len(Refs(b)) \in Nat
      /\ \A i \in 1 .. Len(Refs(c)) : Refs(c)[i].block = Refs(b)[i].block
  BY <1>1, <1>2, <1>5
<1>7. /\ 0 \in 0 .. Len(Refs(b)) /\ Len(Refs(c)) = Len(Refs(b)) - 0
      /\ \A i \in 1 .. Len(Refs(c)) : Refs(c)[i].block = Refs(b)[0 + i].block
  BY <1>6
<1>8. Left(b, c, 0)
  BY <1>4, <1>7, LeftIs
<1> QED
  BY <1>8 DEF c, x

LEMMA SecondLeft ==
  ASSUME NEW b, BufferOK(b), ~ b.array, Len(Refs(b)) > 1, NEW d \in Nat, d <= b.second.length
  PROVE  Left(b, [Empty EXCEPT !.first = Cut(b.second, d)], 1)
<1> DEFINE x == Cut(b.second, d)
           c == [Empty EXCEPT !.first = x]
<1>1. /\ b.first \in RefType /\ b.second \in RefType /\ b \in BufferType
      /\ b.second.block # Null /\ Refs(b) = <<b.first, b.second>>
  BY SMTT(60), SimpleRefs
<1>2. x \in RefType /\ x.block = b.second.block
  BY <1>1, CutIs
<1> HIDE DEF x
<1>3. c \in BufferType /\ ~ c.array /\ c.first = x /\ c.second.block = Null
  <2>1. /\ Empty \in BufferType /\ ~ Empty.array /\ Empty.second = NoRef
    BY EmptyIs DEF BufferOK, Empty
  <2>2. c \in BufferType /\ c.array = Empty.array /\ c.first = x /\ c.second = Empty.second
    BY <1>2, <2>1 DEF BufferType
  <2> QED
    BY <2>1, <2>2, EmptyIs
<1> HIDE DEF c
<1>4. BufferOK(c) /\ RingOf(c) = RingOf(b) /\ Refs(c) = <<x>>
  BY <1>1, <1>2, <1>3 DEF BufferOK, RingOf, Refs
<1>5. /\ 1 \in 0 .. Len(Refs(b)) /\ Len(Refs(c)) = Len(Refs(b)) - 1
      /\ \A i \in 1 .. Len(Refs(c)) : Refs(c)[i].block = Refs(b)[1 + i].block
  BY <1>1, <1>2, <1>4
<1>6. Left(b, c, 1)
  BY <1>4, <1>5, LeftIs
<1> QED
  BY <1>6 DEF c, x

LEMMA NoneLeft ==
  ASSUME NEW b, BufferOK(b), ~ b.array
  PROVE  Left(b, Empty, Len(Refs(b)))
<1>1. Refs(b) \in Seq(RefType)
  BY RefsAre
<1>2. Len(Refs(b)) \in 0 .. Len(Refs(b)) /\ Len(Refs(Empty)) = Len(Refs(b)) - Len(Refs(b))
  BY <1>1, EmptyIs
<1>3. RingOf(Empty) = RingOf(b)
  BY EmptyIs DEF RingOf
<1>4. \A i \in 1 .. Len(Refs(Empty)) : Refs(Empty)[i].block = Refs(b)[Len(Refs(b)) + i].block
  BY EmptyIs
<1> QED
  BY <1>2, <1>3, <1>4, EmptyIs, LeftIs

LEMMA PopnLeft ==
  ASSUME NEW b, BufferOK(b), Refs(b) # <<>>, NEW n \in Nat
  PROVE  LET c == IF b.array THEN ArrayPopn(b, n) ELSE SimplePopn(b, n)
         IN Left(b, c, Taken(b, n)) /\ Taken(b, n) \in 0 .. Len(Refs(b))
<1> DEFINE k == Taken(b, n)
           L == Len(Refs(b))
           d == Rest(b, n)
<1>1. /\ k \in 0 .. L /\ L \in Nat
      /\ k < L => d \in Nat /\ d <= Refs(b)[k + 1].length
  <2>1. Refs(b) \in Seq(RefType)
    BY RefsAre
  <2>2. L \in Nat
    BY <2>1
  <2> HIDE DEF k, L, d
  <2>3. /\ k \in 0 .. L
        /\ k < L => d \in Nat /\ d <= Refs(b)[k + 1].length
    BY TakenIs, Zenon DEF k, L, d
  <2> QED
    BY <2>2, <2>3
<1>2. CASE b.array
  BY <1>1, <1>2, ArrayPopnLeft
<1>3. CASE ~ b.array /\ k = L
  <2>1. SimplePopn(b, n) = Empty
    BY <1>3 DEF SimplePopn
  <2> QED
    BY <1>1, <1>3, <2>1, NoneLeft
<1>4. CASE ~ b.array /\ k # L /\ k = 0
  <2>1. k < L
    <3> HIDE DEF k, L
    <3> QED
      BY <1>1, <1>4
  <2>2. SimplePopn(b, n) = [b EXCEPT !.first = Cut(@, d)]
    BY <1>4, <2>1 DEF SimplePopn
  <2>3. Refs(b)[1] = b.first
    BY <1>4, SimpleRefs
  <2>4. d \in Nat /\ d <= b.first.length
    <3> HIDE DEF d, k, L
    <3> QED
      BY <1>1, <1>4, <2>1, <2>3
  <2> HIDE DEF d
  <2>5. Left(b, [b EXCEPT !.first = Cut(@, d)], 0)
    BY <1>4, <2>4, FirstCutLeft
  <2> QED
    BY <1>1, <1>4, <2>2, <2>5
<1>5. CASE ~ b.array /\ k # L /\ k # 0
  <2>1. k < L /\ k >= 1
    <3> HIDE DEF k, L
    <3> QED
      BY <1>1, <1>5
  <2>2. SimplePopn(b, n) = [Empty EXCEPT !.first = Cut(b.second, d)]
    BY <1>5, <2>1 DEF SimplePopn
  <2>3. L > 1
    <3> HIDE DEF k, L
    <3> QED
      BY <1>1, <2>1
  <2>4. Refs(b) = <<b.first, b.second>>
    <3>1. ASSUME Refs(b) = <<b.first>> PROVE FALSE
      BY <2>3, <3>1
    <3>2. b.first.block # Null /\ b.second.block # Null
      BY <1>5, <3>1, SimpleRefs
    <3> QED
      BY <1>5, <3>2, SimpleRefs
  <2>5. L = 2
    BY <2>4
  <2>6. k = 1
    <3> HIDE DEF k, L
    <3> QED
      BY <1>1, <2>1, <2>5
  <2>7. d \in Nat /\ d <= b.second.length
    <3>1. Refs(b)[2] = b.second
      BY <2>4
    <3> HIDE DEF d, k, L
    <3> QED
      BY <1>1, <2>1, <2>6, <3>1
  <2> HIDE DEF d
  <2>8. Left(b, [Empty EXCEPT !.first = Cut(b.second, d)], 1)
    BY <1>5, <2>3, <2>7, SecondLeft
  <2> QED
    BY <1>1, <1>5, <2>2, <2>6, <2>8
<1> QED
  BY <1>2, <1>3, <1>4, <1>5

-----------------------------------------------------------------------------
(* The invariant *)

\* What the calls that are under way keep to: what goes to a buffer has a block,
\* what is copied is still in the buffer that it is copied from, and a call that
\* needs a block has no other work to do.
CallType == [op : {"none", "append", "read"}, dst : Targets, data : Seq(Nat), count : Nat]
CallOK(c, items) ==
    /\ c \in CallType
    /\ c.op # "none" => c.dst \in Buffers /\ items = <<>>
    /\ c.op = "read" => c.count \in Counts
CopyOK(e, items, bufs) ==
    /\ e.dst # nobuffer /\ e.src \in Buffers
    /\ Times(e.ref.block, BlocksOf(Refs(bufs[e.src]))) > 0
    /\ \A j \in 1 .. Len(items) : e.src # items[j].dst
TodoOK(items, bufs) ==
    /\ items \in Seq(Items)
    /\ \A i \in 1 .. Len(items) :
          /\ items[i].dst # nobuffer => items[i].ref.block \in Blocks
          /\ ~ items[i].moved => CopyOK(items[i], items, bufs)
BusyOf(c, items) == {c.dst} \cup UNION {{items[i].dst, items[i].src} : i \in DOMAIN items}
BuffersOK(bufs) == bufs \in [Buffers -> BufferType] /\ \A z \in Buffers : BufferOK(bufs[z])
CallsApart(calls, lists) ==
    \A t, u \in Threads :
        t # u => BusyOf(calls[t], lists[t]) \cap BusyOf(calls[u], lists[u]) \subseteq {nobuffer}
Quiet(bufs, calls, lists) ==
    /\ BuffersOK(bufs)
    /\ calls \in [Threads -> CallType] /\ lists \in [Threads -> Seq(Items)]
    /\ \A t \in Threads : CallOK(calls[t], lists[t]) /\ TodoOK(lists[t], bufs)
    /\ CallsApart(calls, lists)

\* A thread may go on with its buffers and take ones that no call uses.
Claims(calls, lists, t, S) ==
    \A z \in S : \/ z = nobuffer \/ z \in BusyOf(calls[t], lists[t])
                 \/ \A u \in Threads : z \notin BusyOf(calls[u], lists[u])
OnlyAt(f, g, x) == \A y \in DOMAIN f \ {x} : g[y] = f[y]

LEMMA QuietStep ==
  ASSUME NEW bufs, NEW calls, NEW lists, Quiet(bufs, calls, lists), NEW t \in Threads,
         NEW Z \in SUBSET Buffers, NEW bufs2, BuffersOK(bufs2),
         \A z \in Buffers \ Z : bufs2[z] = bufs[z],
         NEW calls2 \in [Threads -> CallType], OnlyAt(calls, calls2, t),
         NEW lists2 \in [Threads -> Seq(Items)], OnlyAt(lists, lists2, t),
         CallOK(calls2[t], lists2[t]), TodoOK(lists2[t], bufs2),
         Claims(calls, lists, t, Z \cup BusyOf(calls2[t], lists2[t]))
  PROVE  Quiet(bufs2, calls2, lists2)
<1>1. \A u \in Threads \ {t} : calls2[u] = calls[u] /\ lists2[u] = lists[u]
  BY DEF OnlyAt, Quiet
<1>2. ASSUME NEW u \in Threads \ {t}, NEW z \in Z \cup BusyOf(calls2[t], lists2[t]),
             z \in BusyOf(calls[u], lists[u])
      PROVE  z = nobuffer
  <2>1. BusyOf(calls[t], lists[t]) \cap BusyOf(calls[u], lists[u]) \subseteq {nobuffer}
    BY DEF Quiet, CallsApart
  <2> QED
    BY <1>2, <2>1 DEF Claims
<1>3. CallsApart(calls2, lists2)
  <2> SUFFICES ASSUME NEW v \in Threads, NEW u \in Threads, v # u
               PROVE  BusyOf(calls2[v], lists2[v]) \cap BusyOf(calls2[u], lists2[u])
                      \subseteq {nobuffer}
    BY DEF CallsApart
  <2>1. CASE v = t
    BY <1>1, <1>2, <2>1
  <2>2. CASE u = t
    BY <1>1, <1>2, <2>2
  <2>3. CASE v # t /\ u # t
    BY <1>1, <2>3 DEF Quiet, CallsApart
  <2> QED
    BY <2>1, <2>2, <2>3
<1>4. ASSUME NEW u \in Threads PROVE CallOK(calls2[u], lists2[u]) /\ TodoOK(lists2[u], bufs2)
  <2>1. CASE u = t
    BY <2>1
  <2>2. CASE u # t
    <3> DEFINE items == lists[u]
    <3>1. CallOK(calls[u], items) /\ TodoOK(items, bufs)
      BY DEF Quiet
    <3>2. \A i \in 1 .. Len(items) : items[i].src \in BusyOf(calls[u], items)
      <4>1. items \in Seq(Items)
        BY <3>1 DEF TodoOK
      <4>2. DOMAIN items = 1 .. Len(items)
        BY <4>1
      <4> HIDE DEF items
      <4> SUFFICES ASSUME NEW i \in DOMAIN items PROVE items[i].src \in BusyOf(calls[u], items)
        BY <4>2
      <4>3. items[i].src \in UNION {{items[j].dst, items[j].src} : j \in DOMAIN items}
        OBVIOUS
      <4> QED
        BY <4>3 DEF BusyOf
    <3>3. \A i \in 1 .. Len(items) :
             ~ items[i].moved => CopyOK(items[i], items, bufs2)
      <4> SUFFICES ASSUME NEW i \in 1 .. Len(items), ~ items[i].moved
                   PROVE  CopyOK(items[i], items, bufs2)
        OBVIOUS
      <4>1. CopyOK(items[i], items, bufs)
        BY <3>1 DEF TodoOK
      <4>2. items[i].src \in Buffers /\ items[i].src # nobuffer
        BY <4>1, BuffersAssumption DEF CopyOK
      <4>3. items[i].src \notin Z
        BY <1>2, <2>2, <3>2, <4>2
      <4>4. bufs2[items[i].src] = bufs[items[i].src]
        BY <4>2, <4>3
      <4> HIDE DEF items
      <4> QED
        BY <4>1, <4>4 DEF CopyOK
    <3> HIDE DEF items
    <3>4. TodoOK(items, bufs2)
      BY <3>1, <3>3 DEF TodoOK
    <3> QED
      BY <1>1, <2>2, <3>1, <3>4 DEF items
  <2> QED
    BY <2>1, <2>2
<1> QED
  BY <1>3, <1>4 DEF Quiet

\* The references outside the caches
ListsOf(bufs) == [z \in Buffers |-> BufferList(bufs[z])]
Hands(lists, refs) == [t \in Threads |-> HandOf(lists[t], refs[t])]
Load(bl, hl, dl) == [c \in Blocks |-> Places(c, bl) + Places(c, hl) + Times(c, dl)]
Outside(bufs, lists, refs, dq) == Load(ListsOf(bufs), Hands(lists, refs), BlocksOf(dq))

LEMMA LoadIs ==
  ASSUME NEW bl \in Lists(Buffers), NEW hl \in Lists(Threads), NEW dl \in Seq(Names)
  PROVE  /\ Load(bl, hl, dl) \in Loads
         /\ \A c \in Blocks : /\ Load(bl, hl, dl)[c] = Places(c, bl) + Places(c, hl) + Times(c, dl)
                              /\ Places(c, bl) \in Nat /\ Places(c, hl) \in Nat /\ Times(c, dl) \in Nat
<1>1. ASSUME NEW c \in Blocks
      PROVE  Places(c, bl) \in Nat /\ Places(c, hl) \in Nat /\ Times(c, dl) \in Nat
  BY CellsAre, TimesIs, BuffersAssumption, ThreadsAssumption
<1> QED
  BY <1>1 DEF Load, Loads

LEMMA ListsAre ==
  ASSUME NEW bufs, BuffersOK(bufs), NEW lists \in [Threads -> Seq(Items)],
         NEW refs \in [Threads -> RefType]
  PROVE  /\ ListsOf(bufs) \in Lists(Buffers) /\ Hands(lists, refs) \in Lists(Threads)
         /\ \A z \in Buffers : ListsOf(bufs)[z] = BufferList(bufs[z])
         /\ \A t \in Threads : Hands(lists, refs)[t] = HandOf(lists[t], refs[t])
<1>1. \A z \in Buffers : BufferList(bufs[z]) \in Seq(Names)
  BY BufferTimes DEF BuffersOK
<1>2. \A t \in Threads : HandOf(lists[t], refs[t]) \in Seq(Names)
  BY HandTimes
<1> QED
  BY <1>1, <1>2 DEF ListsOf, Hands, Lists

\* What a block that a thread holds counts for at least
LEMMA HandCounts ==
  ASSUME NEW hl \in Lists(Threads), NEW t \in Threads, NEW c
  PROVE  Places(c, hl) >= Times(c, hl[t]) /\ Places(c, hl) \in Nat /\ Times(c, hl[t]) \in Nat
<1>1. \A u \in Threads \ {t} : hl[u] = hl[u]
  OBVIOUS
<1> QED
  BY <1>1, PlacesChange, ThreadsAssumption

\* A thread that has a block from acquire_block_ref is the only one to use the
\* room of it.
HeldBy(h, refs, t) ==
    /\ refs[t].block \in Blocks /\ refs[t].block \notin InCache(h.cache)
    /\ refs[t].offset = h.block[refs[t].block].offset
    /\ refs[t].length = LeftSpace(h, refs[t].block)
    /\ \A u \in Threads \ {t} : refs[u].block # refs[t].block
HeldOK(h, refs) ==
    /\ refs \in [Threads -> RefType]
    /\ \A t \in Threads : refs[t] # NoRef => HeldBy(h, refs, t)

\* They stay what they are as long as they are counted.
LEMMA HeldStays ==
  ASSUME NEW h, NEW refs, HeldOK(h, refs), NEW g, NEW F, Keeps(h, g, F),
         \A t \in Threads : refs[t] # NoRef => F[refs[t].block] > 0
  PROVE  HeldOK(g, refs)
<1> SUFFICES ASSUME NEW t \in Threads, refs[t] # NoRef
             PROVE  HeldBy(g, refs, t)
  BY DEF HeldOK
<1> DEFINE b == refs[t].block
<1>1. HeldBy(h, refs, t) /\ F[b] > 0
  BY DEF HeldOK
<1>2. b \in Blocks /\ b \notin InCache(h.cache)
  BY <1>1 DEF HeldBy
<1>3. /\ b \notin InCache(g.cache) /\ g.block[b].offset = h.block[b].offset
      /\ g.block[b].capacity = h.block[b].capacity
  BY <1>1, <1>2 DEF Keeps, SameFront
<1>4. LeftSpace(g, b) = LeftSpace(h, b)
  BY <1>3 DEF LeftSpace
<1> QED
  BY <1>1, <1>3, <1>4 DEF HeldBy

LEMMA HeldCounted ==
  ASSUME NEW h, NEW refs, HeldOK(h, refs), NEW lists \in [Threads -> Seq(Items)],
         NEW F, \A c \in Blocks : F[c] \in Nat /\ F[c] >= Places(c, Hands(lists, refs))
  PROVE  \A t \in Threads : refs[t] # NoRef => F[refs[t].block] > 0
<1> SUFFICES ASSUME NEW t \in Threads, refs[t] # NoRef
             PROVE  F[refs[t].block] > 0
  OBVIOUS
<1> DEFINE b == refs[t].block
           hl == Hands(lists, refs)
<1>1. refs \in [Threads -> RefType] /\ b \in Blocks
  BY DEF HeldOK, HeldBy
<1>2. hl \in Lists(Threads) /\ hl[t] = HandOf(lists[t], refs[t])
  <2>1. \A u \in Threads : HandOf(lists[u], refs[u]) \in Seq(Names)
    BY <1>1, HandTimes
  <2> QED
    BY <2>1 DEF Hands, Lists
<1>3. Times(b, hl[t]) = Times(b, Moving(lists[t])) + One(refs[t].block = b)
      /\ Times(b, Moving(lists[t])) \in Nat
  BY <1>1, <1>2, HandTimes
<1>4. Times(b, hl[t]) > 0
  BY <1>3 DEF One
<1> HIDE DEF hl
<1>5. Places(b, hl) >= Times(b, hl[t]) /\ Places(b, hl) \in Nat /\ Times(b, hl[t]) \in Nat
  BY <1>2, HandCounts
<1>6. F[b] >= Places(b, hl) /\ F[b] \in Nat
  BY <1>1 DEF hl
<1> HIDE DEF b
<1>7. F[b] > 0
  BY <1>4, <1>5, <1>6
<1> QED
  BY <1>7 DEF b

\* The whole: the blocks are counted and the calls keep to the rules.
Good(h, bufs, calls, lists, refs, dq) ==
    /\ HeapOK(h, Outside(bufs, lists, refs, dq)) /\ Within(h, MaxBlocks)
    /\ Quiet(bufs, calls, lists) /\ HeldOK(h, refs) /\ dq \in Seq(RefType)

LEMMA OutsideIs ==
  ASSUME NEW bufs, BuffersOK(bufs), NEW lists \in [Threads -> Seq(Items)],
         NEW refs \in [Threads -> RefType], NEW dq \in Seq(RefType)
  PROVE  /\ Outside(bufs, lists, refs, dq) \in Loads
         /\ \A c \in Blocks :
               /\ Outside(bufs, lists, refs, dq)[c]
                  = Places(c, ListsOf(bufs)) + Places(c, Hands(lists, refs)) + Times(c, BlocksOf(dq))
               /\ Outside(bufs, lists, refs, dq)[c] \in Nat
               /\ Outside(bufs, lists, refs, dq)[c] >= Places(c, Hands(lists, refs))
<1> DEFINE bl == ListsOf(bufs)
           hl == Hands(lists, refs)
           dl == BlocksOf(dq)
<1>1. bl \in Lists(Buffers) /\ hl \in Lists(Threads) /\ dl \in Seq(Names)
  BY ListsAre, BlocksAre
<1> HIDE DEF bl, hl, dl
<1>2. /\ Load(bl, hl, dl) \in Loads
      /\ \A c \in Blocks : /\ Load(bl, hl, dl)[c] = Places(c, bl) + Places(c, hl) + Times(c, dl)
                           /\ Places(c, bl) \in Nat /\ Places(c, hl) \in Nat /\ Times(c, dl) \in Nat
  BY <1>1, LoadIs
<1>3. \A c \in Blocks : /\ Load(bl, hl, dl)[c] \in Nat
                        /\ Load(bl, hl, dl)[c] >= Places(c, hl)
  BY <1>2
<1> QED
  BY <1>2, <1>3 DEF Outside, bl, hl, dl

-----------------------------------------------------------------------------
(* What a step does to the references *)

\* What a thread holds, with the deque, and with one buffer
Mine(c, items, ref, dq) == Times(c, Moving(items)) + One(ref.block = c) + Times(c, BlocksOf(dq))
Yours(c, b) == Times(c, BlocksOf(Refs(b))) + One(c \in RingOf(b))

LEMMA SharesAre ==
  ASSUME NEW items \in Seq(Items), NEW ref \in RefType, NEW dq \in Seq(RefType), NEW c
  PROVE  /\ Mine(c, items, ref, dq) \in Nat
         /\ Mine(c, items, ref, dq) = Times(c, HandOf(items, ref)) + Times(c, BlocksOf(dq))
         /\ Times(c, HandOf(items, ref)) \in Nat /\ Times(c, BlocksOf(dq)) \in Nat
<1>1. BlocksOf(dq) \in Seq(Names)
  BY BlocksAre
<1>2. Times(c, BlocksOf(dq)) \in Nat
  BY <1>1, TimesIs
<1>3. /\ Times(c, HandOf(items, ref)) = Times(c, Moving(items)) + One(ref.block = c)
      /\ Times(c, Moving(items)) \in Nat
  BY HandTimes
<1> QED
  BY <1>2, <1>3 DEF Mine, One

LEMMA YoursIs ==
  ASSUME NEW b, BufferOK(b), NEW c
  PROVE  /\ Yours(c, b) \in Nat /\ Yours(c, b) = Times(c, BufferList(b))
         /\ Times(c, BlocksOf(Refs(b))) \in Nat
BY BufferTimes DEF Yours, One

\* The places that the steps of one thread change
LEMMA ThreadPlaces ==
  ASSUME NEW a \in Lists(Threads), NEW b \in Lists(Threads), NEW t \in Threads,
         \A u \in Threads \ {t} : b[u] = a[u]
  PROVE  \A c : /\ Places(c, b) = Places(c, a) - Times(c, a[t]) + Times(c, b[t])
                /\ Places(c, a) >= Times(c, a[t])
                /\ Places(c, a) \in Nat /\ Places(c, b) \in Nat
                /\ Times(c, a[t]) \in Nat /\ Times(c, b[t]) \in Nat
BY PlacesChange, ThreadsAssumption

HandsDiffer(lists, refs, lists2, refs2, t) ==
    \A c : /\ Places(c, Hands(lists2, refs2))
              = Places(c, Hands(lists, refs)) - Times(c, HandOf(lists[t], refs[t]))
                + Times(c, HandOf(lists2[t], refs2[t]))
           /\ Places(c, Hands(lists, refs)) >= Times(c, HandOf(lists[t], refs[t]))
           /\ Places(c, Hands(lists, refs)) \in Nat /\ Places(c, Hands(lists2, refs2)) \in Nat

LEMMA HandsChange ==
  ASSUME NEW lists \in [Threads -> Seq(Items)], NEW lists2 \in [Threads -> Seq(Items)],
         NEW refs \in [Threads -> RefType], NEW refs2 \in [Threads -> RefType],
         NEW t \in Threads, OnlyAt(lists, lists2, t), OnlyAt(refs, refs2, t)
  PROVE  HandsDiffer(lists, refs, lists2, refs2, t)
<1> DEFINE a == Hands(lists, refs)
           b == Hands(lists2, refs2)
<1>1. a \in Lists(Threads) /\ b \in Lists(Threads)
  <2>1. \A u \in Threads : /\ HandOf(lists[u], refs[u]) \in Seq(Names)
                           /\ HandOf(lists2[u], refs2[u]) \in Seq(Names)
    BY HandTimes
  <2> QED
    BY <2>1 DEF Hands, Lists
<1>2. a[t] = HandOf(lists[t], refs[t]) /\ b[t] = HandOf(lists2[t], refs2[t])
  BY DEF Hands
<1>3. \A u \in Threads \ {t} : b[u] = a[u]
  BY DEF Hands, OnlyAt
<1> HIDE DEF a, b
<1>4. \A c : /\ Places(c, b) = Places(c, a) - Times(c, a[t]) + Times(c, b[t])
             /\ Places(c, a) >= Times(c, a[t])
             /\ Places(c, a) \in Nat /\ Places(c, b) \in Nat
             /\ Times(c, a[t]) \in Nat /\ Times(c, b[t]) \in Nat
  BY <1>1, <1>3, ThreadPlaces, Zenon
<1>5. \A c : /\ Places(c, b) = Places(c, a) - Times(c, HandOf(lists[t], refs[t]))
                               + Times(c, HandOf(lists2[t], refs2[t]))
             /\ Places(c, a) >= Times(c, HandOf(lists[t], refs[t]))
             /\ Places(c, a) \in Nat /\ Places(c, b) \in Nat
  BY <1>2, <1>4, Zenon
<1> QED
  BY <1>5 DEF a, b, HandsDiffer

LEMMA BuffersChange ==
  ASSUME NEW bufs, BuffersOK(bufs), NEW bufs2, BuffersOK(bufs2), NEW z \in Buffers,
         OnlyAt(bufs, bufs2, z)
  PROVE  \A c : /\ Places(c, ListsOf(bufs2))
                   = Places(c, ListsOf(bufs)) - Yours(c, bufs[z]) + Yours(c, bufs2[z])
                /\ Places(c, ListsOf(bufs)) >= Yours(c, bufs[z])
                /\ Places(c, ListsOf(bufs)) \in Nat /\ Places(c, ListsOf(bufs2)) \in Nat
<1> DEFINE a == ListsOf(bufs)
           b == ListsOf(bufs2)
<1>1. a \in Lists(Buffers) /\ b \in Lists(Buffers)
  <2>1. \A u \in Buffers : BufferList(bufs[u]) \in Seq(Names) /\ BufferList(bufs2[u]) \in Seq(Names)
    BY BufferTimes DEF BuffersOK
  <2> QED
    BY <2>1 DEF ListsOf, Lists
<1>2. a[z] = BufferList(bufs[z]) /\ b[z] = BufferList(bufs2[z])
  BY DEF ListsOf
<1>3. \A u \in Buffers \ {z} : b[u] = a[u]
  BY DEF ListsOf, OnlyAt, BuffersOK
<1>4. \A c : Yours(c, bufs[z]) = Times(c, a[z]) /\ Yours(c, bufs2[z]) = Times(c, b[z])
  BY <1>2, YoursIs DEF BuffersOK
<1> HIDE DEF a, b
<1>5. \A c : /\ Places(c, b) = Places(c, a) - Times(c, a[z]) + Times(c, b[z])
             /\ Places(c, a) >= Times(c, a[z])
             /\ Places(c, a) \in Nat /\ Places(c, b) \in Nat
             /\ Times(c, a[z]) \in Nat /\ Times(c, b[z]) \in Nat
  BY <1>1, <1>3, PlacesChange, BuffersAssumption
<1>6. \A c : /\ Places(c, b) = Places(c, a) - Yours(c, bufs[z]) + Yours(c, bufs2[z])
             /\ Places(c, a) >= Yours(c, bufs[z])
             /\ Places(c, a) \in Nat /\ Places(c, b) \in Nat
  BY <1>4, <1>5, Zenon
<1> QED
  BY <1>6 DEF a, b

\* No buffer changes.
HandsTell(bufs, lists, refs, dq, lists2, refs2, dq2, t) ==
    \A c \in Blocks :
        /\ Outside(bufs, lists2, refs2, dq2)[c]
           = Outside(bufs, lists, refs, dq)[c] - Mine(c, lists[t], refs[t], dq)
             + Mine(c, lists2[t], refs2[t], dq2)
        /\ Outside(bufs, lists, refs, dq)[c] >= Mine(c, lists[t], refs[t], dq)

LEMMA OutsideOf ==
  ASSUME NEW bufs, BuffersOK(bufs),
         NEW lists \in [Threads -> Seq(Items)], NEW lists2 \in [Threads -> Seq(Items)],
         NEW refs \in [Threads -> RefType], NEW refs2 \in [Threads -> RefType],
         NEW t \in Threads, OnlyAt(lists, lists2, t), OnlyAt(refs, refs2, t),
         NEW dq \in Seq(RefType), NEW dq2 \in Seq(RefType)
  PROVE  HandsTell(bufs, lists, refs, dq, lists2, refs2, dq2, t)
<1> SUFFICES \A c \in Blocks :
            /\ Outside(bufs, lists2, refs2, dq2)[c]
               = Outside(bufs, lists, refs, dq)[c] - Mine(c, lists[t], refs[t], dq)
                 + Mine(c, lists2[t], refs2[t], dq2)
            /\ Outside(bufs, lists, refs, dq)[c] >= Mine(c, lists[t], refs[t], dq)
  BY DEF HandsTell
<1>0. \A c \in Blocks :
         /\ Outside(bufs, lists, refs, dq)[c]
            = Places(c, ListsOf(bufs)) + Places(c, Hands(lists, refs)) + Times(c, BlocksOf(dq))
         /\ Outside(bufs, lists2, refs2, dq2)[c]
            = Places(c, ListsOf(bufs)) + Places(c, Hands(lists2, refs2)) + Times(c, BlocksOf(dq2))
  <2>1. \A c \in Blocks :
         /\ Outside(bufs, lists, refs, dq)[c]
            = Places(c, ListsOf(bufs)) + Places(c, Hands(lists, refs)) + Times(c, BlocksOf(dq))
         /\ Outside(bufs, lists, refs, dq)[c] \in Nat
         /\ Outside(bufs, lists, refs, dq)[c] >= Places(c, Hands(lists, refs))
    BY OutsideIs, Zenon
  <2>2. \A c \in Blocks :
         /\ Outside(bufs, lists2, refs2, dq2)[c]
            = Places(c, ListsOf(bufs)) + Places(c, Hands(lists2, refs2)) + Times(c, BlocksOf(dq2))
         /\ Outside(bufs, lists2, refs2, dq2)[c] \in Nat
         /\ Outside(bufs, lists2, refs2, dq2)[c] >= Places(c, Hands(lists2, refs2))
    BY OutsideIs, Zenon
  <2> QED
    BY <2>1, <2>2, Zenon
<1>9. \A c : /\ Places(c, Hands(lists2, refs2))
                   = Places(c, Hands(lists, refs)) - Times(c, HandOf(lists[t], refs[t]))
                     + Times(c, HandOf(lists2[t], refs2[t]))
                /\ Places(c, Hands(lists, refs)) >= Times(c, HandOf(lists[t], refs[t]))
                /\ Places(c, Hands(lists, refs)) \in Nat /\ Places(c, Hands(lists2, refs2)) \in Nat
  <2>1. HandsDiffer(lists, refs, lists2, refs2, t)
    BY HandsChange
  <2> QED
    BY <2>1, Zenon DEF HandsDiffer
<1> TAKE c \in Blocks
<1> DEFINE F == Outside(bufs, lists, refs, dq)[c]
           G == Outside(bufs, lists2, refs2, dq2)[c]
           X == Places(c, ListsOf(bufs))
           A == Places(c, Hands(lists, refs))
           B == Places(c, Hands(lists2, refs2))
           d == Times(c, BlocksOf(dq))
           e == Times(c, BlocksOf(dq2))
           m == Times(c, HandOf(lists[t], refs[t]))
           n == Times(c, HandOf(lists2[t], refs2[t]))
<1>1. F = X + A + d /\ G = X + B + e
  BY <1>0, Zenon
<1>2. B = A - m + n /\ A >= m /\ A \in Nat /\ B \in Nat
  BY <1>9, Zenon
<1>3. Mine(c, lists[t], refs[t], dq) = m + d /\ Mine(c, lists2[t], refs2[t], dq2) = n + e
      /\ m \in Nat /\ n \in Nat /\ d \in Nat /\ e \in Nat
  BY SharesAre
<1>4. X \in Nat
  BY ListsAre, CellsAre, BuffersAssumption
<1> HIDE DEF F, G, X, A, B, d, e, m, n
<1>5. G = F - (m + d) + (n + e) /\ F >= m + d
  BY <1>1, <1>2, <1>3, <1>4
<1> QED
  BY <1>3, <1>5 DEF F, G

\* One buffer changes.
BufferTells(bufs, lists, refs, dq, bufs2, lists2, refs2, dq2, t, z) ==
    \A c \in Blocks :
        /\ Outside(bufs2, lists2, refs2, dq2)[c]
           = Outside(bufs, lists, refs, dq)[c]
             - Yours(c, bufs[z]) - Mine(c, lists[t], refs[t], dq)
             + Yours(c, bufs2[z]) + Mine(c, lists2[t], refs2[t], dq2)
        /\ Outside(bufs, lists, refs, dq)[c]
           >= Yours(c, bufs[z]) + Mine(c, lists[t], refs[t], dq)

LEMMA OutsideWith ==
  ASSUME NEW bufs, BuffersOK(bufs), NEW bufs2, BuffersOK(bufs2), NEW z \in Buffers,
         OnlyAt(bufs, bufs2, z),
         NEW lists \in [Threads -> Seq(Items)], NEW lists2 \in [Threads -> Seq(Items)],
         NEW refs \in [Threads -> RefType], NEW refs2 \in [Threads -> RefType],
         NEW t \in Threads, OnlyAt(lists, lists2, t), OnlyAt(refs, refs2, t),
         NEW dq \in Seq(RefType), NEW dq2 \in Seq(RefType)
  PROVE  BufferTells(bufs, lists, refs, dq, bufs2, lists2, refs2, dq2, t, z)
<1> SUFFICES \A c \in Blocks :
            /\ Outside(bufs2, lists2, refs2, dq2)[c]
               = Outside(bufs, lists, refs, dq)[c]
                 - Yours(c, bufs[z]) - Mine(c, lists[t], refs[t], dq)
                 + Yours(c, bufs2[z]) + Mine(c, lists2[t], refs2[t], dq2)
            /\ Outside(bufs, lists, refs, dq)[c]
               >= Yours(c, bufs[z]) + Mine(c, lists[t], refs[t], dq)
  BY DEF BufferTells
<1>0. \A c \in Blocks :
         /\ Outside(bufs, lists, refs, dq)[c]
            = Places(c, ListsOf(bufs)) + Places(c, Hands(lists, refs)) + Times(c, BlocksOf(dq))
         /\ Outside(bufs2, lists2, refs2, dq2)[c]
            = Places(c, ListsOf(bufs2)) + Places(c, Hands(lists2, refs2)) + Times(c, BlocksOf(dq2))
  <2>1. \A c \in Blocks :
         /\ Outside(bufs, lists, refs, dq)[c]
            = Places(c, ListsOf(bufs)) + Places(c, Hands(lists, refs)) + Times(c, BlocksOf(dq))
         /\ Outside(bufs, lists, refs, dq)[c] \in Nat
         /\ Outside(bufs, lists, refs, dq)[c] >= Places(c, Hands(lists, refs))
    BY OutsideIs, Zenon
  <2>2. \A c \in Blocks :
         /\ Outside(bufs2, lists2, refs2, dq2)[c]
            = Places(c, ListsOf(bufs2)) + Places(c, Hands(lists2, refs2)) + Times(c, BlocksOf(dq2))
         /\ Outside(bufs2, lists2, refs2, dq2)[c] \in Nat
         /\ Outside(bufs2, lists2, refs2, dq2)[c] >= Places(c, Hands(lists2, refs2))
    BY OutsideIs, Zenon
  <2> QED
    BY <2>1, <2>2, Zenon
<1>9. \A c : /\ Places(c, Hands(lists2, refs2))
                   = Places(c, Hands(lists, refs)) - Times(c, HandOf(lists[t], refs[t]))
                     + Times(c, HandOf(lists2[t], refs2[t]))
                /\ Places(c, Hands(lists, refs)) >= Times(c, HandOf(lists[t], refs[t]))
                /\ Places(c, Hands(lists, refs)) \in Nat /\ Places(c, Hands(lists2, refs2)) \in Nat
  <2>1. HandsDiffer(lists, refs, lists2, refs2, t)
    BY HandsChange
  <2> QED
    BY <2>1, Zenon DEF HandsDiffer
<1> TAKE c \in Blocks
<1> DEFINE F == Outside(bufs, lists, refs, dq)[c]
           G == Outside(bufs2, lists2, refs2, dq2)[c]
           X == Places(c, ListsOf(bufs))
           Y == Places(c, ListsOf(bufs2))
           x == Yours(c, bufs[z])
           y == Yours(c, bufs2[z])
           A == Places(c, Hands(lists, refs))
           B == Places(c, Hands(lists2, refs2))
           d == Times(c, BlocksOf(dq))
           e == Times(c, BlocksOf(dq2))
           m == Times(c, HandOf(lists[t], refs[t]))
           n == Times(c, HandOf(lists2[t], refs2[t]))
<1>1. F = X + A + d /\ G = Y + B + e
  BY <1>0, Zenon
<1>2. B = A - m + n /\ A >= m /\ A \in Nat /\ B \in Nat
  BY <1>9, Zenon
<1>3. Mine(c, lists[t], refs[t], dq) = m + d /\ Mine(c, lists2[t], refs2[t], dq2) = n + e
      /\ m \in Nat /\ n \in Nat /\ d \in Nat /\ e \in Nat
  BY SharesAre
<1>4. Y = X - x + y /\ X >= x /\ X \in Nat /\ Y \in Nat
  BY BuffersChange
<1>5. x \in Nat /\ y \in Nat
  BY YoursIs DEF BuffersOK
<1> HIDE DEF F, G, X, Y, x, y, A, B, d, e, m, n
<1>6. G = F - x - (m + d) + y + (n + e) /\ F >= x + (m + d)
  BY <1>1, <1>2, <1>3, <1>4, <1>5
<1> QED
  BY <1>3, <1>6 DEF F, G, x, y

LEMMA Evened ==
  ASSUME NEW f \in Nat, NEW g, NEW x \in Nat, NEW y \in Nat, NEW m \in Nat, NEW n \in Nat,
         g = f - x - m + y + n, y + n = x + m
  PROVE  g = f
OBVIOUS

\* A call that only moves references, the thread's own
LEMMA CallMoves ==
  ASSUME NEW h, NEW bufs, NEW calls, NEW lists, NEW refs, NEW dq,
         Good(h, bufs, calls, lists, refs, dq), NEW t \in Threads,
         NEW calls2 \in [Threads -> CallType], OnlyAt(calls, calls2, t),
         NEW lists2 \in [Threads -> Seq(Items)], OnlyAt(lists, lists2, t),
         CallOK(calls2[t], lists2[t]), TodoOK(lists2[t], bufs),
         Claims(calls, lists, t, BusyOf(calls2[t], lists2[t])),
         NEW dq2 \in Seq(RefType),
         \A c \in Blocks : Mine(c, lists2[t], refs[t], dq2) = Mine(c, lists[t], refs[t], dq)
  PROVE  Good(h, bufs, calls2, lists2, refs, dq2)
<1>1. /\ Quiet(bufs, calls, lists) /\ HeldOK(h, refs) /\ dq \in Seq(RefType)
      /\ BuffersOK(bufs) /\ lists \in [Threads -> Seq(Items)] /\ refs \in [Threads -> RefType]
  BY DEF Good, Quiet, HeldOK
<1>2. Quiet(bufs, calls2, lists2)
  <2>1. {} \cup BusyOf(calls2[t], lists2[t]) = BusyOf(calls2[t], lists2[t])
    OBVIOUS
  <2>2. Claims(calls, lists, t, {} \cup BusyOf(calls2[t], lists2[t]))
    BY <2>1
  <2>3. \A z \in Buffers \ {} : bufs[z] = bufs[z]
    OBVIOUS
  <2>4. {} \in SUBSET Buffers
    OBVIOUS
  <2> QED
    BY <1>1, <2>2, <2>3, <2>4, QuietStep
<1> DEFINE F == Outside(bufs, lists, refs, dq)
           G == Outside(bufs, lists2, refs, dq2)
<1>3. F \in Loads /\ G \in Loads /\ \A c \in Blocks : F[c] \in Nat
  BY <1>1, OutsideIs
<1>4. \A c \in Blocks : /\ G[c] = F[c] - Mine(c, lists[t], refs[t], dq)
                                  + Mine(c, lists2[t], refs[t], dq2)
                        /\ F[c] >= Mine(c, lists[t], refs[t], dq)
  <2>1. OnlyAt(refs, refs, t)
    BY DEF OnlyAt
  <2>2. HandsTell(bufs, lists, refs, dq, lists2, refs, dq2, t)
    BY <1>1, <2>1, OutsideOf
  <2> QED
    BY <2>2 DEF HandsTell
<1>5. \A c \in Blocks : Mine(c, lists[t], refs[t], dq) \in Nat
  BY <1>1, SharesAre
<1> HIDE DEF F, G
<1>6. G = F
  BY <1>3, <1>4, <1>5, SameLoads
<1> QED
  BY <1>1, <1>2, <1>6 DEF Good, F, G

\* ... and those of a buffer
Balanced(b, items, ref, dq, b2, items2, dq2) ==
    \A c \in Blocks : Yours(c, b2) + Mine(c, items2, ref, dq2) = Yours(c, b) + Mine(c, items, ref, dq)

LEMMA CallTakes ==
  ASSUME NEW h, NEW bufs, NEW calls, NEW lists, NEW refs, NEW dq,
         Good(h, bufs, calls, lists, refs, dq), NEW t \in Threads,
         NEW z \in Buffers, NEW bufs2, BuffersOK(bufs2), OnlyAt(bufs, bufs2, z),
         NEW lists2 \in [Threads -> Seq(Items)], OnlyAt(lists, lists2, t),
         CallOK(calls[t], lists2[t]), TodoOK(lists2[t], bufs2),
         Claims(calls, lists, t, {z} \cup BusyOf(calls[t], lists2[t])),
         NEW dq2 \in Seq(RefType),
         Balanced(bufs[z], lists[t], refs[t], dq, bufs2[z], lists2[t], dq2)
  PROVE  Good(h, bufs2, calls, lists2, refs, dq2)
<1>1. /\ Quiet(bufs, calls, lists) /\ HeldOK(h, refs) /\ dq \in Seq(RefType)
      /\ BuffersOK(bufs) /\ lists \in [Threads -> Seq(Items)] /\ refs \in [Threads -> RefType]
      /\ calls \in [Threads -> CallType] /\ OnlyAt(calls, calls, t) /\ OnlyAt(refs, refs, t)
  BY DEF Good, Quiet, HeldOK, OnlyAt
<1>2. Quiet(bufs2, calls, lists2)
  <2>1. \A y \in Buffers \ {z} : bufs2[y] = bufs[y]
    BY <1>1 DEF OnlyAt, BuffersOK
  <2>2. {z} \in SUBSET Buffers
    OBVIOUS
  <2> QED
    BY <1>1, <2>1, <2>2, QuietStep
<1> DEFINE F == Outside(bufs, lists, refs, dq)
           G == Outside(bufs2, lists2, refs, dq2)
<1>3. F \in Loads /\ G \in Loads /\ \A c \in Blocks : F[c] \in Nat
  BY <1>1, OutsideIs
<1>4. \A c \in Blocks : /\ G[c] = F[c] - Yours(c, bufs[z]) - Mine(c, lists[t], refs[t], dq)
                                  + Yours(c, bufs2[z]) + Mine(c, lists2[t], refs[t], dq2)
                        /\ F[c] >= Yours(c, bufs[z]) + Mine(c, lists[t], refs[t], dq)
  <2>1. BufferTells(bufs, lists, refs, dq, bufs2, lists2, refs, dq2, t, z)
    BY <1>1, OutsideWith
  <2> QED
    BY <2>1 DEF BufferTells
<1>5. \A c \in Blocks : /\ Mine(c, lists[t], refs[t], dq) \in Nat
                        /\ Mine(c, lists2[t], refs[t], dq2) \in Nat
                        /\ Yours(c, bufs[z]) \in Nat /\ Yours(c, bufs2[z]) \in Nat
  BY <1>1, SharesAre, YoursIs DEF BuffersOK
<1> HIDE DEF F, G
<1>6. ASSUME NEW c \in Blocks PROVE G[c] = F[c]
  <2> DEFINE x == Yours(c, bufs[z])
             y == Yours(c, bufs2[z])
             m == Mine(c, lists[t], refs[t], dq)
             n == Mine(c, lists2[t], refs[t], dq2)
             f == F[c]
             g == G[c]
  <2>1. /\ f \in Nat /\ g = f - x - m + y + n /\ y + n = x + m
        /\ x \in Nat /\ y \in Nat /\ m \in Nat /\ n \in Nat
    BY <1>3, <1>4, <1>5 DEF Balanced
  <2> HIDE DEF x, y, m, n, f, g
  <2>2. g = f
    BY <2>1, Evened
  <2> QED
    BY <2>2 DEF f, g
<1>7. G = F
  BY <1>3, <1>6, SameLoads
<1> QED
  BY <1>1, <1>2, <1>7 DEF Good, F, G

\* A step on the blocks alone
LEMMA BlocksStep ==
  ASSUME NEW h, NEW bufs, NEW calls, NEW lists, NEW refs, NEW dq,
         Good(h, bufs, calls, lists, refs, dq), NEW g,
         HeapOK(g, Outside(bufs, lists, refs, dq)),
         Keeps(h, g, Outside(bufs, lists, refs, dq)), Within(g, MaxBlocks)
  PROVE  Good(g, bufs, calls, lists, refs, dq)
<1>1. /\ Quiet(bufs, calls, lists) /\ HeldOK(h, refs) /\ dq \in Seq(RefType)
      /\ BuffersOK(bufs) /\ lists \in [Threads -> Seq(Items)] /\ refs \in [Threads -> RefType]
  BY DEF Good, Quiet, HeldOK
<1> DEFINE F == Outside(bufs, lists, refs, dq)
<1>2. \A c \in Blocks : F[c] \in Nat /\ F[c] >= Places(c, Hands(lists, refs))
  BY <1>1, OutsideIs
<1> HIDE DEF F
<1>3. \A t \in Threads : refs[t] # NoRef => F[refs[t].block] > 0
  BY <1>1, <1>2, HeldCounted
<1>4. HeldOK(g, refs)
  <2>1. Keeps(h, g, F)
    BY DEF F
  <2> QED
    BY <1>1, <1>3, <2>1, HeldStays
<1> QED
  BY <1>1, <1>4 DEF Good

-----------------------------------------------------------------------------
(* The items that a call starts with *)

\* A block is in a list when it is there at least once.
LEMMA TimesPositive ==
  ASSUME NEW S, NEW s \in Seq(S), NEW c
  PROVE  Times(c, s) > 0 <=> \E i \in 1 .. Len(s) : s[i] = c
<1>1. IsFiniteSet(Spots(c, s)) /\ Times(c, s) \in Nat
  BY TimesIs
<1>2. DOMAIN s = 1 .. Len(s)
  OBVIOUS
<1>3. Spots(c, s) = {} <=> ~ \E i \in 1 .. Len(s) : s[i] = c
  BY <1>2 DEF Spots
<1>4. Times(c, s) = 0 <=> Spots(c, s) = {}
  BY <1>1, FS_EmptySet DEF Times
<1> HIDE DEF Times
<1> QED
  BY <1>1, <1>3, <1>4

LEMMA BlocksPositive ==
  ASSUME NEW refs \in Seq(RefType), NEW c
  PROVE  Times(c, BlocksOf(refs)) > 0 <=> \E i \in 1 .. Len(refs) : refs[i].block = c
<1>1. BlocksOf(refs) \in Seq(Names) /\ Len(BlocksOf(refs)) = Len(refs)
  BY BlocksAre
<1>2. \A i \in 1 .. Len(refs) : BlocksOf(refs)[i] = refs[i].block
  BY DEF BlocksOf
<1> DEFINE s == BlocksOf(refs)
<1> HIDE DEF s
<1>3. Times(c, s) > 0 <=> \E i \in 1 .. Len(s) : s[i] = c
  BY <1>1, TimesPositive DEF s
<1> QED
  BY <1>1, <1>2, <1>3 DEF s

\* References that are taken along, and which buffers a list of items names
AllMoved(items) ==
    \A i \in 1 .. Len(items) :
        items[i].moved /\ (items[i].dst # nobuffer => items[i].ref.block \in Blocks)
Uses(items, S) == \A i \in 1 .. Len(items) : items[i].dst \in S /\ items[i].src \in S
WithBlocks(refs) == \A i \in 1 .. Len(refs) : refs[i].block \in Blocks

LEMMA DropsAre ==
  ASSUME NEW refs \in Seq(RefType), NEW S, nobuffer \in S
  PROVE  /\ Drops(refs) \in Seq(Items) /\ AllMoved(Drops(refs)) /\ Uses(Drops(refs), S)
         /\ Moving(Drops(refs)) = BlocksOf(refs)
<1>1. nobuffer \in Targets
  BY DEF Targets
<1>2. Drops(refs) \in Seq(Items) /\ Len(Drops(refs)) = Len(refs) /\ Moving(Drops(refs)) = BlocksOf(refs)
  BY <1>1, ItemsAre, MovingOf
<1>3. \A i \in 1 .. Len(refs) : LET e == Drops(refs)[i]
                                  IN e.ref = refs[i] /\ e.dst = nobuffer /\ e.moved /\ e.src = nobuffer
  <2>1. DOMAIN refs = 1 .. Len(refs)
    OBVIOUS
  <2> QED
    BY <2>1 DEF Drops, Item
<1> QED
  BY <1>2, <1>3 DEF AllMoved, Uses

LEMMA MovesAre ==
  ASSUME NEW refs \in Seq(RefType), WithBlocks(refs), NEW z \in Buffers, NEW S,
         nobuffer \in S, z \in S
  PROVE  /\ Moves(refs, z) \in Seq(Items) /\ AllMoved(Moves(refs, z)) /\ Uses(Moves(refs, z), S)
         /\ Moving(Moves(refs, z)) = BlocksOf(refs)
<1>1. z \in Targets
  BY DEF Targets
<1>2. /\ Moves(refs, z) \in Seq(Items) /\ Len(Moves(refs, z)) = Len(refs)
      /\ Moving(Moves(refs, z)) = BlocksOf(refs)
  BY <1>1, ItemsAre, MovingOf
<1>3. \A i \in 1 .. Len(refs) : LET e == Moves(refs, z)[i]
                                  IN e.ref = refs[i] /\ e.dst = z /\ e.moved /\ e.src = nobuffer
  <2>1. DOMAIN refs = 1 .. Len(refs)
    OBVIOUS
  <2> QED
    BY <2>1 DEF Moves, Item
<1> QED
  BY <1>2, <1>3 DEF AllMoved, Uses, WithBlocks

LEMMA ItemsJoined ==
  ASSUME NEW a \in Seq(Items), NEW b \in Seq(Items), AllMoved(a), AllMoved(b), NEW S,
         Uses(a, S), Uses(b, S)
  PROVE  /\ a \o b \in Seq(Items) /\ AllMoved(a \o b) /\ Uses(a \o b, S)
         /\ \A c : Times(c, Moving(a \o b)) = Times(c, Moving(a)) + Times(c, Moving(b))
<1> DEFINE w == a \o b
<1>1. /\ w \in Seq(Items) /\ Len(w) = Len(a) + Len(b) /\ Len(a) \in Nat /\ Len(b) \in Nat
      /\ \A i \in 1 .. Len(a) : w[i] = a[i]
      /\ \A i \in 1 .. Len(b) : w[Len(a) + i] = b[i]
  OBVIOUS
<1> HIDE DEF w
<1>2. \A i \in 1 .. Len(w) : \/ i \in 1 .. Len(a) /\ w[i] = a[i]
                             \/ \E j \in 1 .. Len(b) : w[i] = b[j]
  <2> SUFFICES ASSUME NEW i \in 1 .. Len(w), i \notin 1 .. Len(a)
               PROVE  \E j \in 1 .. Len(b) : w[i] = b[j]
    BY <1>1
  <2>1. i - Len(a) \in 1 .. Len(b) /\ Len(a) + (i - Len(a)) = i
    BY <1>1
  <2> QED
    BY <1>1, <2>1
<1>3. AllMoved(w) /\ Uses(w, S)
  BY <1>2 DEF AllMoved, Uses
<1>4. Joined(a, b, w)
  BY <1>1 DEF Joined
<1>5. \A c : Times(c, Moving(w)) = Times(c, Moving(a)) + Times(c, Moving(b))
  BY <1>1, <1>4, MovingJoined, Zenon
<1> QED
  BY <1>1, <1>3, <1>5 DEF w

LEMMA MovedOK ==
  ASSUME NEW items \in Seq(Items), AllMoved(items), NEW bufs
  PROVE  TodoOK(items, bufs)
BY DEF AllMoved, TodoOK

LEMMA NoItems ==
  /\ <<>> \in Seq(Items) /\ Moving(<<>>) = <<>> /\ AllMoved(<<>>) /\ \A S : Uses(<<>>, S)
BY DEF Moving, AllMoved, Uses

LEMMA BusyIn ==
  ASSUME NEW c, NEW items \in Seq(Items), NEW S, c.dst \in S, Uses(items, S)
  PROVE  BusyOf(c, items) \subseteq S
<1>1. DOMAIN items = 1 .. Len(items)
  OBVIOUS
<1> QED
  BY <1>1 DEF BusyOf, Uses

LEMMA NoCallOK ==
  ASSUME NEW items
  PROVE  CallOK(NoCall, items) /\ NoCall.dst = nobuffer /\ NoCall \in CallType
<1>1. <<>> \in Seq(Nat)
  OBVIOUS
<1>2. nobuffer \in Targets
  BY DEF Targets
<1> QED
  BY <1>1, <1>2 DEF NoCall, CallOK, CallType

\* A copy is still where it comes from.
LEMMA CopiesAre ==
  ASSUME NEW bufs, BuffersOK(bufs), NEW z \in Buffers, NEW rh \in Buffers, z # rh,
         NEW refs \in Seq(RefType), WithBlocks(refs),
         \A i \in 1 .. Len(refs) : Times(refs[i].block, BlocksOf(Refs(bufs[rh]))) > 0
  PROVE  /\ Copies(refs, z, rh) \in Seq(Items) /\ Uses(Copies(refs, z, rh), {nobuffer, z, rh})
         /\ TodoOK(Copies(refs, z, rh), bufs)
         /\ \A c \in Blocks : Times(c, Moving(Copies(refs, z, rh))) = 0
<1>1. z \in Targets /\ rh \in Targets
  BY DEF Targets
<1> DEFINE items == Copies(refs, z, rh)
<1>2. items \in Seq(Items) /\ Len(items) = Len(refs) /\ Len(refs) \in Nat
  BY <1>1, ItemsAre
<1>3. \A c \in Blocks : Times(c, Moving(items)) = 0
  BY <1>1, MovingOf
<1>4. \A i \in 1 .. Len(refs) : items[i].dst = z /\ items[i].src = rh /\ ~ items[i].moved
                                 /\ items[i].ref = refs[i]
  <2>1. DOMAIN refs = 1 .. Len(refs)
    OBVIOUS
  <2> QED
    BY <2>1 DEF Copies, Item
<1> HIDE DEF items
<1>5. Uses(items, {nobuffer, z, rh})
  BY <1>2, <1>4 DEF Uses
<1>6. z # nobuffer
  BY BuffersAssumption
<1>7. \A i \in 1 .. Len(items) : items[i].dst = z /\ items[i].src = rh /\ ~ items[i].moved
                                 /\ items[i].ref = refs[i]
  BY <1>2, <1>4
<1>8. ASSUME NEW i \in 1 .. Len(items) PROVE CopyOK(items[i], items, bufs)
  <2>1. Times(refs[i].block, BlocksOf(Refs(bufs[rh]))) > 0
    BY <1>2
  <2> QED
    BY <1>6, <1>7, <2>1 DEF CopyOK
<1>9. \A i \in 1 .. Len(items) : items[i].ref.block \in Blocks
  BY <1>2, <1>7 DEF WithBlocks
<1>10. TodoOK(items, bufs)
  BY <1>2, <1>8, <1>9 DEF TodoOK
<1> QED
  BY <1>2, <1>3, <1>5, <1>10 DEF items

\* The references that a call takes from a buffer
LEMMA SelectedBlocks ==
  ASSUME NEW refs \in Seq(RefType), WithBlocks(refs)
  PROVE  LET s == Selected(refs, TRUE)
         IN /\ s \in Seq(RefType) /\ WithBlocks(s)
            /\ \A i \in 1 .. Len(s) : Times(s[i].block, BlocksOf(refs)) > 0
<1> DEFINE s == Selected(refs, TRUE)
           r == Selected(refs, FALSE)
<1>1. /\ s \in Seq(RefType) /\ r \in Seq(RefType)
      /\ \A c : Times(c, BlocksOf(s)) + Times(c, BlocksOf(r)) = Times(c, BlocksOf(refs))
  BY SelectedParts
<1> HIDE DEF s, r
<1>2. ASSUME NEW i \in 1 .. Len(s) PROVE Times(s[i].block, BlocksOf(refs)) > 0
  <2> DEFINE c == s[i].block
  <2>1. Times(c, BlocksOf(s)) > 0
    BY <1>1, BlocksPositive
  <2>2. /\ BlocksOf(s) \in Seq(Names) /\ BlocksOf(r) \in Seq(Names)
    BY <1>1, BlocksAre
  <2>3. Times(c, BlocksOf(s)) \in Nat /\ Times(c, BlocksOf(r)) \in Nat
    BY <2>2, TimesIs
  <2>4. Times(c, BlocksOf(s)) + Times(c, BlocksOf(r)) = Times(c, BlocksOf(refs))
    BY <1>1
  <2> HIDE DEF c
  <2>5. Times(c, BlocksOf(refs)) > 0
    BY <2>1, <2>3, <2>4
  <2> QED
    BY <2>5 DEF c
<1>3. WithBlocks(s)
  BY <1>2, BlocksPositive DEF WithBlocks
<1> QED
  BY <1>1, <1>2, <1>3 DEF s

-----------------------------------------------------------------------------
(* The calls *)

GoodNow == Good(heap, zb, call, todo, held, deque.refs)

LEMMA GoodParts ==
  ASSUME GoodNow
  PROVE  /\ BuffersOK(zb) /\ zb \in [Buffers -> BufferType] /\ \A z \in Buffers : BufferOK(zb[z])
         /\ call \in [Threads -> CallType] /\ todo \in [Threads -> Seq(Items)]
         /\ held \in [Threads -> RefType] /\ deque.refs \in Seq(RefType)
         /\ \A t \in Threads : CallOK(call[t], todo[t]) /\ TodoOK(todo[t], zb)
         /\ HeldOK(heap, held) /\ Within(heap, MaxBlocks)
         /\ Outside(zb, todo, held, deque.refs) \in Loads
         /\ HeapOK(heap, Outside(zb, todo, held, deque.refs))
<1>1. /\ BuffersOK(zb) /\ zb \in [Buffers -> BufferType] /\ \A z \in Buffers : BufferOK(zb[z])
      /\ call \in [Threads -> CallType] /\ todo \in [Threads -> Seq(Items)]
      /\ held \in [Threads -> RefType] /\ deque.refs \in Seq(RefType)
      /\ \A t \in Threads : CallOK(call[t], todo[t]) /\ TodoOK(todo[t], zb)
      /\ HeldOK(heap, held) /\ Within(heap, MaxBlocks)
      /\ HeapOK(heap, Outside(zb, todo, held, deque.refs))
  BY DEF GoodNow, Good, Quiet, BuffersOK, HeldOK
<1> QED
  BY <1>1, OutsideIs

\* A thread that starts a call has nothing else to do, and no other call uses
\* the buffers.
Free(z) == \A u \in Threads : z \notin BusyOf(call[u], todo[u])

LEMMA Starting ==
  ASSUME GoodNow, NEW t \in Threads, NEW op, NEW x, Starts(t, op, x)
  PROVE  /\ call[t] = NoCall /\ todo[t] = <<>>
         /\ \A z : Usable(z) => Free(z)
         /\ \A c : Mine(c, todo[t], held[t], deque.refs)
                   = One(held[t].block = c) + Times(c, BlocksOf(deque.refs))
         /\ \A S : (\A z \in S : z = nobuffer \/ Free(z)) => Claims(call, todo, t, S)
<1>1. call[t] = NoCall /\ todo[t] = <<>>
  BY DEF Starts, Idle
<1>2. \A z : Usable(z) => Free(z)
  BY DEF Usable, Busy, Free, BusyOf
<1>3. \A S : (\A z \in S : z = nobuffer \/ Free(z)) => Claims(call, todo, t, S)
  BY DEF Claims, Free
<1>4. Moving(todo[t]) = <<>>
  BY <1>1, NoItems
<1>5. ASSUME NEW c
      PROVE  Mine(c, todo[t], held[t], deque.refs)
             = One(held[t].block = c) + Times(c, BlocksOf(deque.refs))
  <2>1. Times(c, Moving(todo[t])) = 0
    BY <1>4, TimesOfNone
  <2>2. Times(c, BlocksOf(deque.refs)) \in Nat
    BY GoodParts, SharesAre
  <2> DEFINE x1 == One(held[t].block = c)
             x2 == Times(c, BlocksOf(deque.refs))
             x3 == Times(c, Moving(todo[t]))
  <2>3. x1 \in Nat /\ x2 \in Nat /\ x3 = 0
    BY <2>1, <2>2 DEF One
  <2>4. Mine(c, todo[t], held[t], deque.refs) = x3 + x1 + x2
    BY DEF Mine
  <2> HIDE DEF x1, x2, x3
  <2>5. Mine(c, todo[t], held[t], deque.refs) = x1 + x2
    BY <2>3, <2>4
  <2> QED
    BY <2>5 DEF x1, x2
<1> QED
  BY <1>1, <1>2, <1>3, <1>5, Zenon

\* A call that needs a block for every step
LEMMA CallWaits ==
  ASSUME GoodNow, NEW t \in Threads, NEW op, NEW z \in Buffers, Starts(t, op, z), Usable(z),
         NEW c, CallOK(c, <<>>), c.dst = z, call' = [call EXCEPT ![t] = c],
         UNCHANGED <<heap, zb, todo, held, deque>>
  PROVE  GoodNow'
<1>1. /\ call \in [Threads -> CallType] /\ todo \in [Threads -> Seq(Items)]
      /\ deque.refs \in Seq(RefType) /\ TodoOK(todo[t], zb)
  BY GoodParts
<1>2. /\ call[t] = NoCall /\ todo[t] = <<>> /\ Free(z)
      /\ \A S : (\A y \in S : y = nobuffer \/ Free(y)) => Claims(call, todo, t, S)
  BY Starting
<1>3. call' \in [Threads -> CallType] /\ call'[t] = c /\ OnlyAt(call, call', t)
  BY <1>1 DEF OnlyAt, CallOK
<1>4. OnlyAt(todo, todo, t)
  BY DEF OnlyAt
<1>5. Claims(call, todo, t, BusyOf(call'[t], todo[t]))
  <2>1. BusyOf(call'[t], todo[t]) \subseteq {z}
    BY <1>2, <1>3, NoItems, BusyIn
  <2> QED
    BY <1>2, <2>1
<1>6. CallOK(call'[t], todo[t])
  BY <1>2, <1>3
<1>7. Good(heap, zb, call', todo, held, deque.refs)
  BY <1>1, <1>3, <1>4, <1>5, <1>6, CallMoves DEF GoodNow
<1> QED
  BY <1>7 DEF GoodNow

LEMMA BytesAre ==
  ASSUME written \in Nat, NEW n \in Nat
  PROVE  NewBytes(n) \in Seq(Nat) /\ Len(NewBytes(n)) = n
<1>1. \A i \in 1 .. n : written + 1 + i \in Nat
  OBVIOUS
<1>2. NewBytes(n) \in [1 .. n -> Nat]
  BY <1>1 DEF NewBytes
<1> QED
  BY <1>2

LEMMA AppendBufStep ==
  ASSUME GoodNow, written \in Nat, NEW t \in Threads, NEW z \in Buffers, NEW n \in Counts,
         AppendBuf(t, z, n)
  PROVE  GoodNow' /\ written' \in Nat
<1> DEFINE c == [op |-> "append", dst |-> z, data |-> NewBytes(n), count |-> n]
<1>1. n \in Nat /\ NewBytes(n) \in Seq(Nat)
  BY CallsAssumption, BytesAre, SizesAssumption
<1>2. CallOK(c, <<>>) /\ c.dst = z
  BY <1>1 DEF CallOK, CallType, Targets
<1>3. Starts(t, "append", z) /\ Usable(z) /\ UNCHANGED <<heap, zb, todo, held, deque>>
      /\ call' = [call EXCEPT ![t] = c] /\ written' = written + n
  BY DEF AppendBuf
<1> HIDE DEF c
<1>4. GoodNow'
  BY <1>2, <1>3, CallWaits
<1> QED
  BY <1>1, <1>3, <1>4

LEMMA ReadFromFdStep ==
  ASSUME GoodNow, written \in Nat, NEW t \in Threads, NEW z \in Buffers, NEW n \in Counts,
         ReadFromFd(t, z, n)
  PROVE  GoodNow' /\ written' \in Nat
<1> DEFINE c == [op |-> "read", dst |-> z, data |-> <<>>, count |-> n]
<1>1. n \in Nat /\ <<>> \in Seq(Nat)
  BY CallsAssumption, SizesAssumption
<1>2. CallOK(c, <<>>) /\ c.dst = z
  BY <1>1 DEF CallOK, CallType, Targets
<1>3. Starts(t, "read", z) /\ Usable(z) /\ UNCHANGED <<heap, zb, todo, held, deque>>
      /\ call' = [call EXCEPT ![t] = c] /\ written' = written
  BY DEF ReadFromFd
<1> HIDE DEF c
<1>4. GoodNow'
  BY <1>2, <1>3, CallWaits
<1> QED
  BY <1>3, <1>4

\* A call that goes through a list of references, most of them a buffer's: none
\* is lost on the way.
Sends(b, dq, b2, items, dq2) ==
    \A c \in Blocks : Yours(c, b2) + (Times(c, Moving(items)) + Times(c, BlocksOf(dq2)))
                      = Yours(c, b) + Times(c, BlocksOf(dq))

LEMMA CallGoes ==
  ASSUME GoodNow, NEW t \in Threads, NEW op, NEW x, Starts(t, op, x),
         NEW items \in Seq(Items), todo' = [todo EXCEPT ![t] = items],
         NEW z \in Buffers, Free(z), NEW b, BufferOK(b), zb' = [zb EXCEPT ![z] = b],
         NEW S, Uses(items, S), nobuffer \in S, \A y \in S : y = nobuffer \/ Free(y),
         TodoOK(items, zb'), deque'.refs \in Seq(RefType),
         Sends(zb[z], deque.refs, b, items, deque'.refs),
         UNCHANGED <<heap, call, held>>
  PROVE  GoodNow'
<1>1. /\ call \in [Threads -> CallType] /\ todo \in [Threads -> Seq(Items)]
      /\ zb \in [Buffers -> BufferType] /\ \A y \in Buffers : BufferOK(zb[y])
      /\ deque.refs \in Seq(RefType) /\ held \in [Threads -> RefType]
  BY GoodParts
<1>2. /\ call[t] = NoCall /\ todo[t] = <<>>
      /\ \A c : Mine(c, todo[t], held[t], deque.refs)
                = One(held[t].block = c) + Times(c, BlocksOf(deque.refs))
      /\ \A T : (\A y \in T : y = nobuffer \/ Free(y)) => Claims(call, todo, t, T)
  BY Starting
<1>3. todo' \in [Threads -> Seq(Items)] /\ todo'[t] = items /\ OnlyAt(todo, todo', t)
  BY <1>1 DEF OnlyAt
<1>4. zb'[z] = b /\ OnlyAt(zb, zb', z) /\ BuffersOK(zb')
  <2>1. b \in BufferType
    BY DEF BufferOK
  <2> QED
    BY <1>1, <2>1 DEF OnlyAt, BuffersOK
<1>5. CallOK(call[t], todo'[t])
  BY <1>2, NoCallOK
<1>6. Claims(call, todo, t, {z} \cup BusyOf(call[t], todo'[t]))
  <2>1. BusyOf(call[t], todo'[t]) \subseteq S
    <3>1. call[t].dst \in S
      BY <1>2, NoCallOK
    <3>2. BusyOf(call[t], items) \subseteq S
      BY <3>1, BusyIn
    <3> QED
      BY <1>3, <3>2
  <2> QED
    BY <1>2, <2>1
<1>7. ASSUME NEW c \in Blocks
      PROVE  Yours(c, zb'[z]) + Mine(c, todo'[t], held[t], deque'.refs)
             = Yours(c, zb[z]) + Mine(c, todo[t], held[t], deque.refs)
  <2> DEFINE o == One(held[t].block = c)
             m == Times(c, Moving(items))
             d == Times(c, BlocksOf(deque'.refs))
             e == Times(c, BlocksOf(deque.refs))
             u == Yours(c, b)
             v == Yours(c, zb[z])
             p == Mine(c, todo'[t], held[t], deque'.refs)
             q == Mine(c, todo[t], held[t], deque.refs)
  <2>1. p = m + o + d
    BY <1>3 DEF Mine
  <2>2. q = o + e
    BY <1>2
  <2>3. u + (m + d) = v + e
    BY DEF Sends
  <2>4. o \in Nat /\ m \in Nat /\ d \in Nat /\ e \in Nat
    <3>1. BlocksOf(deque.refs) \in Seq(Names) /\ BlocksOf(deque'.refs) \in Seq(Names)
          /\ Moving(items) \in Seq(Names)
      BY <1>1, BlocksAre, MovingIs
    <3> QED
      BY <3>1, TimesIs DEF One
  <2>5. u \in Nat /\ v \in Nat
    BY <1>1, YoursIs
  <2> HIDE DEF o, m, d, e, u, v, p, q
  <2>6. u + p = v + q
    BY <2>1, <2>2, <2>3, <2>4, <2>5
  <2> QED
    BY <1>4, <2>6 DEF u, v, p, q
<1>8. Good(heap, zb', call, todo', held, deque'.refs)
  <2>1. TodoOK(todo'[t], zb')
    BY <1>3
  <2>2. Good(heap, zb, call, todo, held, deque.refs)
    BY DEF GoodNow
  <2>3. BuffersOK(zb') /\ OnlyAt(zb, zb', z) /\ OnlyAt(todo, todo', t)
        /\ todo' \in [Threads -> Seq(Items)]
    BY <1>3, <1>4
  <2>4. Balanced(zb[z], todo[t], held[t], deque.refs, zb'[z], todo'[t], deque'.refs)
    BY <1>7 DEF Balanced
  <2> QED
    BY <1>5, <1>6, <2>1, <2>2, <2>3, <2>4, CallTakes, Zenon
<1> QED
  BY <1>8 DEF GoodNow

LEMMA PopnStep ==
  ASSUME GoodNow, NEW t \in Threads, NEW z \in Buffers, NEW n \in Counts, Popn(t, z, n)
  PROVE  GoodNow'
<1> DEFINE b == zb[z]
           k == Taken(b, n)
           c == IF b.array THEN ArrayPopn(b, n) ELSE SimplePopn(b, n)
           given == SubSeq(Refs(b), 1, k)
           S == {nobuffer, z}
<1>1. /\ Starts(t, "popn", z) /\ Usable(z) /\ Refs(b) # <<>> /\ zb' = [zb EXCEPT ![z] = c]
      /\ todo' = [todo EXCEPT ![t] = Drops(given)] /\ UNCHANGED <<heap, call, held, deque>>
  BY DEF Popn
<1>2. n \in Nat
  BY CallsAssumption, SizesAssumption
<1>3. BufferOK(b) /\ Refs(b) \in Seq(RefType) /\ deque.refs \in Seq(RefType)
  BY GoodParts, RefsAre
<1>4. Left(b, c, k) /\ k \in 0 .. Len(Refs(b))
  BY <1>1, <1>2, <1>3, PopnLeft
<1> HIDE DEF c, k
<1>5. given \in Seq(RefType)
  BY <1>3, <1>4
<1>6. /\ BufferOK(c) /\ RingOf(c) = RingOf(b)
      /\ \A x : Times(x, BlocksOf(Refs(b))) = Times(x, BlocksOf(given)) + Times(x, BlocksOf(Refs(c)))
  BY <1>4 DEF Left
<1> HIDE DEF given
<1>7. /\ Drops(given) \in Seq(Items) /\ AllMoved(Drops(given)) /\ Uses(Drops(given), S)
      /\ Moving(Drops(given)) = BlocksOf(given)
  BY <1>5, DropsAre
<1>8. TodoOK(Drops(given), zb')
  BY <1>7, MovedOK
<1>9. Free(z)
  BY <1>1, Starting
<1>10. ASSUME NEW x \in Blocks
       PROVE  Yours(x, c) + (Times(x, Moving(Drops(given))) + Times(x, BlocksOf(deque'.refs)))
              = Yours(x, zb[z]) + Times(x, BlocksOf(deque.refs))
  <2> DEFINE p == Times(x, BlocksOf(Refs(b)))
             q == Times(x, BlocksOf(given))
             r == Times(x, BlocksOf(Refs(c)))
             d == Times(x, BlocksOf(deque.refs))
             o == One(x \in RingOf(b))
  <2>1. p = q + r
    BY <1>6
  <2>2. q \in Nat /\ r \in Nat /\ d \in Nat /\ o \in Nat
    BY <1>3, <1>5, <1>6, BlocksAre, TimesIs, YoursIs DEF One
  <2>3. Yours(x, c) = r + o /\ Yours(x, zb[z]) = p + o
    BY <1>6 DEF Yours
  <2>4. deque'.refs = deque.refs
    BY <1>1
  <2> HIDE DEF p, q, r, d, o, b
  <2>5. (r + o) + (q + d) = (p + o) + d
    BY <2>1, <2>2
  <2> QED
    BY <1>7, <2>3, <2>4, <2>5 DEF q, d
<1>11. deque'.refs \in Seq(RefType)
  BY <1>1, <1>3
<1>12. Sends(zb[z], deque.refs, c, Drops(given), deque'.refs)
  BY <1>10 DEF Sends
<1>13. \A y \in S : y = nobuffer \/ Free(y)
  BY <1>9
<1> QED
  <2>1. UNCHANGED <<heap, call, held>> /\ nobuffer \in S
    BY <1>1
  <2>2. /\ Starts(t, "popn", z) /\ todo' = [todo EXCEPT ![t] = Drops(given)]
        /\ zb' = [zb EXCEPT ![z] = c] /\ BufferOK(c) /\ Drops(given) \in Seq(Items)
        /\ Uses(Drops(given), S)
    BY <1>1, <1>6, <1>7
  <2> HIDE DEF S, b
  <2> QED
    BY <1>8, <1>9, <1>11, <1>12, <1>13, <2>1, <2>2, CallGoes, Zenon

\* The array of a buffer that was moved from: none of its slots is in use.
Emptied(b) ==
    [b EXCEPT !.begin = 0, !.num = 0, !.nbytes = 0,
              !.slots = [i \in DOMAIN @ |-> IF @[i] = Unset THEN Unset ELSE NoRef]]

LEMMA EmptiedIs ==
  ASSUME NEW b, BufferOK(b), b.array
  PROVE  /\ BufferOK(Emptied(b)) /\ RingOf(Emptied(b)) = RingOf(b) /\ Refs(Emptied(b)) = <<>>
<1> DEFINE c == Emptied(b)
           s == [i \in DOMAIN b.slots |-> IF b.slots[i] = Unset THEN Unset ELSE NoRef]
           L == Len(b.slots)
<1>1. /\ b \in BufferType /\ b.slots \in Seq(RefType) /\ DOMAIN b.slots = 1 .. L /\ L \in Nat
      /\ L >= 2
  BY RingFacts
<1>2. L \in RingSizes /\ b.second.block \in Blocks
  BY DEF BufferOK, RingOK
<1>3. Unset \in RefType /\ NoRef \in RefType /\ Unset.block = Null /\ NoRef.block = Null
  BY DEF Unset, NoRef, RefType
<1>4. s \in Seq(RefType) /\ Len(s) = L /\ \A i \in 1 .. L : s[i].block = Null
  <2>1. s \in [1 .. L -> RefType]
    BY <1>1, <1>3
  <2>2. \A i \in 1 .. L : s[i].block = Null
    BY <1>1, <1>3
  <2> HIDE DEF s, L
  <2> QED
    BY <1>1, <2>1, <2>2
<1>5. c = [b EXCEPT !.begin = 0, !.num = 0, !.nbytes = 0, !.slots = s]
  BY DEF Emptied
<1> HIDE DEF c, s
<1>6. /\ c \in BufferType /\ c.array = b.array /\ c.second = b.second /\ c.begin = 0 /\ c.num = 0
      /\ c.slots = s
  <2>1. 0 \in Nat /\ 0 \in Int /\ s \in Seq(RefType)
    BY <1>4
  <2>2. c \in BufferType
    BY <1>1, <1>5, <2>1 DEF BufferType
  <2>3. c.array = b.array /\ c.second = b.second /\ c.begin = 0 /\ c.num = 0 /\ c.slots = s
    BY <1>1, <1>5 DEF BufferType
  <2> QED
    BY <2>2, <2>3
<1>7. Window(c) = {}
  <2>1. 0 .. c.num - 1 = {}
    BY <1>6
  <2> QED
    BY <2>1 DEF Window
<1>8. BufferOK(c)
  <2>1. \A j \in 1 .. L : c.slots[j].block # Null <=> j \in Window(c)
    BY <1>4, <1>6, <1>7
  <2>2. 0 < BeginRange /\ 0 <= L
    BY <1>1, RingAssumption
  <2> QED
    BY <1>2, <1>4, <1>6, <2>1, <2>2 DEF BufferOK, RingOK
<1>9. RingOf(c) = RingOf(b)
  BY <1>6 DEF RingOf
<1>10. Refs(c) = <<>>
  <2>1. Refs(c) \in Seq(RefType) /\ Len(Refs(c)) = 0
    BY <1>6, <1>8, RefsAre
  <2> QED
    BY <2>1
<1> QED
  BY <1>8, <1>9, <1>10 DEF c

LEMMA MoveAppendStep ==
  ASSUME GoodNow, NEW t \in Threads, NEW z \in Buffers, NEW rh \in Buffers, MoveAppend(t, z, rh)
  PROVE  GoodNow'
<1> DEFINE b == zb[rh]
           refs == Refs(b)
           c == IF ~ b.array THEN Empty ELSE Emptied(b)
           items == IF b.array THEN Moves(refs, z)
                    ELSE Moves(Selected(refs, TRUE), z) \o Drops(Selected(refs, FALSE))
           S == {nobuffer, z}
<1>1. /\ Starts(t, "move", z) /\ Usable(z) /\ Usable(rh) /\ zb' = [zb EXCEPT ![rh] = c]
      /\ todo' = [todo EXCEPT ![t] = items] /\ UNCHANGED <<heap, call, held>> /\ deque' = deque
  BY DEF MoveAppend, Emptied
<1>2. BufferOK(b) /\ refs \in Seq(RefType) /\ deque.refs \in Seq(RefType) /\ WithBlocks(refs)
  BY GoodParts, RefsAre DEF WithBlocks
<1>3. BufferOK(c) /\ RingOf(c) = RingOf(b) /\ Refs(c) = <<>>
  <2>1. CASE b.array
    BY <1>2, <2>1, EmptiedIs
  <2>2. CASE ~ b.array
    BY <2>2, EmptyIs DEF RingOf
  <2> QED
    BY <2>1, <2>2
<1> HIDE DEF c
<1>4. /\ items \in Seq(Items) /\ AllMoved(items) /\ Uses(items, S)
      /\ \A x : Times(x, Moving(items)) = Times(x, BlocksOf(refs))
  <2>1. CASE b.array
    <3>1. /\ Moves(refs, z) \in Seq(Items) /\ AllMoved(Moves(refs, z)) /\ Uses(Moves(refs, z), S)
          /\ Moving(Moves(refs, z)) = BlocksOf(refs)
      BY <1>2, MovesAre
    <3> QED
      BY <2>1, <3>1
  <2>2. CASE ~ b.array
    <3> DEFINE p == Moves(Selected(refs, TRUE), z)
               q == Drops(Selected(refs, FALSE))
    <3>1. /\ Selected(refs, TRUE) \in Seq(RefType) /\ Selected(refs, FALSE) \in Seq(RefType)
          /\ \A x : Times(x, BlocksOf(Selected(refs, TRUE))) + Times(x, BlocksOf(Selected(refs, FALSE)))
                    = Times(x, BlocksOf(refs))
          /\ WithBlocks(Selected(refs, TRUE))
      BY <1>2, SelectedParts, SelectedBlocks
    <3>2. /\ p \in Seq(Items) /\ AllMoved(p) /\ Uses(p, S)
          /\ Moving(p) = BlocksOf(Selected(refs, TRUE))
      <4> DEFINE sel == Selected(refs, TRUE)
      <4>1. sel \in Seq(RefType) /\ WithBlocks(sel) /\ nobuffer \in S /\ z \in S
        BY <3>1
      <4> HIDE DEF sel, S
      <4>2. /\ Moves(sel, z) \in Seq(Items) /\ AllMoved(Moves(sel, z)) /\ Uses(Moves(sel, z), S)
            /\ Moving(Moves(sel, z)) = BlocksOf(sel)
        BY <4>1, MovesAre
      <4> QED
        BY <4>2 DEF sel
    <3>3. /\ q \in Seq(Items) /\ AllMoved(q) /\ Uses(q, S)
          /\ Moving(q) = BlocksOf(Selected(refs, FALSE))
      BY <3>1, DropsAre
    <3>4. items = p \o q
      BY <2>2
    <3> HIDE DEF p, q, items
    <3>5. /\ p \o q \in Seq(Items) /\ AllMoved(p \o q) /\ Uses(p \o q, S)
          /\ \A x : Times(x, Moving(p \o q)) = Times(x, Moving(p)) + Times(x, Moving(q))
      BY <3>2, <3>3, ItemsJoined
    <3> QED
      BY <3>1, <3>2, <3>3, <3>4, <3>5
  <2> QED
    BY <2>1, <2>2
<1> HIDE DEF items
<1>5. TodoOK(items, zb')
  BY <1>4, MovedOK
<1>6. Free(z) /\ Free(rh)
  BY <1>1, Starting
<1>7. Sends(zb[rh], deque.refs, c, items, deque'.refs)
  <2> SUFFICES ASSUME NEW x \in Blocks
               PROVE  Yours(x, c) + (Times(x, Moving(items)) + Times(x, BlocksOf(deque'.refs)))
                      = Yours(x, zb[rh]) + Times(x, BlocksOf(deque.refs))
    BY DEF Sends
  <2> DEFINE p == Times(x, BlocksOf(refs))
             d == Times(x, BlocksOf(deque.refs))
             o == One(x \in RingOf(b))
  <2>1. p \in Nat /\ d \in Nat /\ o \in Nat
    BY <1>2, BlocksAre, TimesIs, YoursIs DEF One
  <2>2. Times(x, BlocksOf(Refs(c))) = 0
    BY <1>3, TimesOfNone DEF BlocksOf
  <2>3. Yours(x, c) = 0 + o /\ Yours(x, zb[rh]) = p + o
    BY <1>3, <2>2 DEF Yours
  <2>4. deque'.refs = deque.refs
    BY <1>1
  <2>5. Times(x, Moving(items)) = p
    BY <1>4
  <2> HIDE DEF p, d, o, b, refs
  <2>6. (0 + o) + (p + d) = (p + o) + d
    BY <2>1
  <2> QED
    BY <2>3, <2>4, <2>5, <2>6 DEF d
<1>8. deque'.refs \in Seq(RefType) /\ nobuffer \in S /\ \A y \in S : y = nobuffer \/ Free(y)
  BY <1>1, <1>2, <1>6
<1> QED
  <2> HIDE DEF S, b
  <2> QED
    BY <1>1, <1>3, <1>4, <1>5, <1>6, <1>7, <1>8, CallGoes, Zenon

\* What a buffer in the place of another sends on
LEMMA SentOn ==
  ASSUME NEW b, BufferOK(b), NEW dq \in Seq(RefType), NEW dq2 \in Seq(RefType),
         NEW items \in Seq(Items),
         \A x \in Blocks : Times(x, Moving(items)) + Times(x, BlocksOf(dq2))
                           = Times(x, BufferList(b)) + Times(x, BlocksOf(dq))
  PROVE  Sends(b, dq, Empty, items, dq2)
<1> SUFFICES ASSUME NEW x \in Blocks
             PROVE  Yours(x, Empty) + (Times(x, Moving(items)) + Times(x, BlocksOf(dq2)))
                    = Yours(x, b) + Times(x, BlocksOf(dq))
  BY DEF Sends
<1> DEFINE m == Times(x, Moving(items))
           d == Times(x, BlocksOf(dq2))
           y == Yours(x, b)
           e == Times(x, BlocksOf(dq))
<1>1. Yours(x, b) = Times(x, BufferList(b)) /\ y \in Nat
  BY YoursIs
<1>2. Yours(x, Empty) = 0
  <2>1. Times(x, BlocksOf(Refs(Empty))) = 0
    BY EmptyIs, TimesOfNone DEF BlocksOf
  <2>2. One(x \in RingOf(Empty)) = 0
    BY EmptyIs DEF One
  <2> QED
    BY <2>1, <2>2 DEF Yours
<1>3. m \in Nat /\ d \in Nat /\ e \in Nat
  BY BlocksAre, MovingIs, TimesIs
<1>4. m + d = y + e
  BY <1>1
<1> HIDE DEF m, d, y, e
<1>5. 0 + (m + d) = y + e
  BY <1>3, <1>4
<1> QED
  BY <1>2, <1>5 DEF m, d, y, e

LEMMA DestroyStep ==
  ASSUME GoodNow, NEW t \in Threads, NEW z \in Buffers, Destroy(t, z)
  PROVE  GoodNow'
<1> DEFINE b == zb[z]
           items == Drops(Refs(b) \o OwnRef(b))
           S == {nobuffer, z}
<1>1. /\ Starts(t, "destroy", z) /\ Usable(z) /\ zb' = [zb EXCEPT ![z] = Empty]
      /\ todo' = [todo EXCEPT ![t] = items] /\ UNCHANGED <<heap, call, held>> /\ deque' = deque
  BY DEF Destroy
<1>2. /\ BufferOK(b) /\ Refs(b) \in Seq(RefType) /\ OwnRef(b) \in Seq(RefType)
      /\ deque.refs \in Seq(RefType)
  BY GoodParts, RefsAre
<1>3. Refs(b) \o OwnRef(b) \in Seq(RefType)
  BY <1>2
<1>4. /\ items \in Seq(Items) /\ AllMoved(items) /\ Uses(items, S)
      /\ Moving(items) = BufferList(b)
  BY <1>3, DropsAre DEF BufferList
<1> HIDE DEF items
<1>5. TodoOK(items, zb')
  BY <1>4, MovedOK
<1>6. Free(z)
  BY <1>1, Starting
<1>7. Sends(zb[z], deque.refs, Empty, items, deque'.refs)
  <2>1. deque'.refs = deque.refs
    BY <1>1
  <2>2. \A x \in Blocks : Times(x, Moving(items)) + Times(x, BlocksOf(deque'.refs))
                          = Times(x, BufferList(b)) + Times(x, BlocksOf(deque.refs))
    BY <1>4, <2>1
  <2> QED
    BY <1>2, <1>4, <2>1, <2>2, SentOn
<1>8. deque'.refs \in Seq(RefType) /\ nobuffer \in S /\ \A y \in S : y = nobuffer \/ Free(y)
  BY <1>1, <1>2, <1>6
<1> QED
  <2> HIDE DEF S, b
  <2> QED
    BY <1>1, <1>4, <1>5, <1>6, <1>7, <1>8, EmptyIs, CallGoes, Zenon

LEMMA DumpRefsToStep ==
  ASSUME GoodNow, NEW t \in Threads, NEW z \in Buffers, DumpRefsTo(t, z)
  PROVE  GoodNow'
<1> DEFINE b == zb[z]
           sel == Selected(Refs(b), TRUE)
           rest == Selected(Refs(b), FALSE)
           items == Drops(rest \o OwnRef(b))
           S == {nobuffer, z}
<1>1. /\ Starts(t, "dump", z) /\ Usable(z) /\ zb' = [zb EXCEPT ![z] = Empty]
      /\ todo' = [todo EXCEPT ![t] = items] /\ UNCHANGED <<heap, call, held>>
      /\ deque'.refs = deque.refs \o sel
  BY DEF DumpRefsTo
<1>2. /\ BufferOK(b) /\ Refs(b) \in Seq(RefType) /\ OwnRef(b) \in Seq(RefType)
      /\ deque.refs \in Seq(RefType)
  BY GoodParts, RefsAre
<1>3. /\ sel \in Seq(RefType) /\ rest \in Seq(RefType)
      /\ \A x : Times(x, BlocksOf(sel)) + Times(x, BlocksOf(rest)) = Times(x, BlocksOf(Refs(b)))
  BY <1>2, SelectedParts
<1> HIDE DEF sel, rest
<1>4. rest \o OwnRef(b) \in Seq(RefType) /\ deque.refs \o sel \in Seq(RefType)
  BY <1>2, <1>3
<1>5. /\ items \in Seq(Items) /\ AllMoved(items) /\ Uses(items, S)
      /\ Moving(items) = BlocksOf(rest \o OwnRef(b))
  BY <1>4, DropsAre
<1> HIDE DEF items
<1>6. TodoOK(items, zb')
  BY <1>5, MovedOK
<1>7. Free(z)
  BY <1>1, Starting
<1>8. ASSUME NEW x \in Blocks
      PROVE  Times(x, Moving(items)) + Times(x, BlocksOf(deque'.refs))
             = Times(x, BufferList(b)) + Times(x, BlocksOf(deque.refs))
  <2> DEFINE s == Times(x, BlocksOf(sel))
             r == Times(x, BlocksOf(rest))
             p == Times(x, BlocksOf(Refs(b)))
             o == Times(x, BlocksOf(OwnRef(b)))
             d == Times(x, BlocksOf(deque.refs))
  <2>1. s \in Nat /\ r \in Nat /\ p \in Nat /\ o \in Nat /\ d \in Nat
    BY <1>2, <1>3, BlocksAre, TimesIs
  <2>2. s + r = p
    BY <1>3
  <2>3. Times(x, BlocksOf(rest \o OwnRef(b))) = r + o
    BY <1>2, <1>3, BlocksConcat
  <2>4. Times(x, BlocksOf(deque.refs \o sel)) = d + s
    BY <1>2, <1>3, BlocksConcat
  <2>5. Times(x, BufferList(b)) = p + o
    BY <1>2, BlocksConcat DEF BufferList
  <2> HIDE DEF s, r, p, o, d, b
  <2>6. (r + o) + (d + s) = (p + o) + d
    BY <2>1, <2>2
  <2> QED
    BY <1>1, <1>5, <2>3, <2>4, <2>5, <2>6 DEF d
<1>9. deque'.refs \in Seq(RefType)
  BY <1>1, <1>4
<1>10. Sends(zb[z], deque.refs, Empty, items, deque'.refs)
  BY <1>2, <1>5, <1>8, <1>9, SentOn
<1>11. nobuffer \in S /\ \A y \in S : y = nobuffer \/ Free(y)
  BY <1>7
<1> QED
  <2> HIDE DEF S, b
  <2> QED
    BY <1>1, <1>5, <1>6, <1>7, <1>9, <1>10, <1>11, EmptyIs, CallGoes, Zenon

\* A call that leaves the buffers as they are
Passes(dq, items, dq2) ==
    \A c \in Blocks : Times(c, Moving(items)) + Times(c, BlocksOf(dq2)) = Times(c, BlocksOf(dq))

LEMMA CallPasses ==
  ASSUME GoodNow, NEW t \in Threads, NEW op, NEW x, Starts(t, op, x),
         NEW items \in Seq(Items), todo' = [todo EXCEPT ![t] = items],
         NEW S, Uses(items, S), nobuffer \in S, \A y \in S : y = nobuffer \/ Free(y),
         TodoOK(items, zb), deque'.refs \in Seq(RefType),
         Passes(deque.refs, items, deque'.refs), UNCHANGED <<heap, zb, call, held>>
  PROVE  GoodNow'
<1>1. /\ call \in [Threads -> CallType] /\ todo \in [Threads -> Seq(Items)]
      /\ deque.refs \in Seq(RefType) /\ held \in [Threads -> RefType]
  BY GoodParts
<1>2. /\ call[t] = NoCall /\ todo[t] = <<>>
      /\ \A c : Mine(c, todo[t], held[t], deque.refs)
                = One(held[t].block = c) + Times(c, BlocksOf(deque.refs))
      /\ \A T : (\A y \in T : y = nobuffer \/ Free(y)) => Claims(call, todo, t, T)
  BY Starting
<1>3. todo' \in [Threads -> Seq(Items)] /\ todo'[t] = items /\ OnlyAt(todo, todo', t)
      /\ OnlyAt(call, call, t)
  BY <1>1 DEF OnlyAt
<1>4. CallOK(call[t], todo'[t])
  BY <1>2, NoCallOK
<1>5. Claims(call, todo, t, BusyOf(call[t], todo'[t]))
  <2>1. call[t].dst \in S
    BY <1>2, NoCallOK
  <2>2. BusyOf(call[t], items) \subseteq S
    BY <2>1, BusyIn
  <2> QED
    BY <1>2, <1>3, <2>2
<1>6. ASSUME NEW c \in Blocks
      PROVE  Mine(c, todo'[t], held[t], deque'.refs) = Mine(c, todo[t], held[t], deque.refs)
  <2> DEFINE o == One(held[t].block = c)
             m == Times(c, Moving(items))
             d == Times(c, BlocksOf(deque'.refs))
             e == Times(c, BlocksOf(deque.refs))
             p == Mine(c, todo'[t], held[t], deque'.refs)
             q == Mine(c, todo[t], held[t], deque.refs)
  <2>1. p = m + o + d
    BY <1>3 DEF Mine
  <2>2. q = o + e
    BY <1>2
  <2>3. m + d = e
    BY DEF Passes
  <2>4. o \in Nat /\ m \in Nat /\ d \in Nat /\ e \in Nat
    <3>1. BlocksOf(deque.refs) \in Seq(Names) /\ BlocksOf(deque'.refs) \in Seq(Names)
          /\ Moving(items) \in Seq(Names)
      BY <1>1, BlocksAre, MovingIs
    <3> QED
      BY <3>1, TimesIs DEF One
  <2> HIDE DEF o, m, d, e, p, q
  <2>5. p = q
    BY <2>1, <2>2, <2>3, <2>4
  <2> QED
    BY <2>5 DEF p, q
<1>7. Good(heap, zb, call, todo', held, deque'.refs)
  <2>1. TodoOK(todo'[t], zb)
    BY <1>3
  <2>2. Good(heap, zb, call, todo, held, deque.refs)
    BY DEF GoodNow
  <2> QED
    BY <1>1, <1>3, <1>4, <1>5, <1>6, <2>1, <2>2, CallMoves
<1> QED
  BY <1>7 DEF GoodNow

LEMMA CopyAppendStep ==
  ASSUME GoodNow, NEW t \in Threads, NEW z \in Buffers, NEW rh \in Buffers, CopyAppend(t, z, rh)
  PROVE  GoodNow'
<1> DEFINE b == zb[rh]
           refs == IF b.array THEN Refs(b) ELSE Selected(Refs(b), TRUE)
           items == Copies(refs, z, rh)
           S == {nobuffer, z, rh}
<1>1. /\ Starts(t, "copy", z) /\ Usable(z) /\ Usable(rh) /\ z # rh
      /\ todo' = [todo EXCEPT ![t] = items] /\ UNCHANGED <<heap, zb, call, held>> /\ deque' = deque
  BY DEF CopyAppend
<1>2. BufferOK(b) /\ Refs(b) \in Seq(RefType) /\ deque.refs \in Seq(RefType) /\ WithBlocks(Refs(b))
      /\ BuffersOK(zb)
  BY GoodParts, RefsAre DEF WithBlocks
<1>3. /\ refs \in Seq(RefType) /\ WithBlocks(refs)
      /\ \A i \in 1 .. Len(refs) : Times(refs[i].block, BlocksOf(Refs(b))) > 0
  <2>1. CASE b.array
    BY <1>2, <2>1, BlocksPositive
  <2>2. CASE ~ b.array
    BY <1>2, <2>2, SelectedBlocks
  <2> QED
    BY <2>1, <2>2
<1> HIDE DEF refs
<1>4. /\ items \in Seq(Items) /\ Uses(items, S) /\ TodoOK(items, zb)
      /\ \A c \in Blocks : Times(c, Moving(items)) = 0
  BY <1>1, <1>2, <1>3, CopiesAre
<1> HIDE DEF items
<1>5. Free(z) /\ Free(rh)
  BY <1>1, Starting
<1>6. Passes(deque.refs, items, deque'.refs)
  <2>1. \A c \in Blocks : Times(c, BlocksOf(deque.refs)) \in Nat
    BY <1>2, BlocksAre, TimesIs
  <2> QED
    BY <1>1, <1>4, <2>1 DEF Passes
<1>7. deque'.refs \in Seq(RefType) /\ nobuffer \in S /\ \A y \in S : y = nobuffer \/ Free(y)
  BY <1>1, <1>2, <1>5
<1> QED
  <2> HIDE DEF S
  <2> QED
    BY <1>1, <1>4, <1>6, <1>7, CallPasses, Zenon

LEMMA TakeDumpedStep ==
  ASSUME GoodNow, NEW t \in Threads, TakeDumped(t)
  PROVE  GoodNow'
<1> DEFINE refs == <<Head(deque.refs)>>
           items == Drops(refs)
           S == {nobuffer}
<1>1. /\ Starts(t, "take", nobuffer) /\ deque.refs # <<>> /\ todo' = [todo EXCEPT ![t] = items]
      /\ deque'.refs = Tail(deque.refs) /\ UNCHANGED <<heap, zb, call, held>>
  BY DEF TakeDumped
<1>2. deque.refs \in Seq(RefType)
  BY GoodParts
<1>3. /\ Head(deque.refs) \in RefType /\ Tail(deque.refs) \in Seq(RefType)
      /\ refs \in Seq(RefType) /\ Len(deque.refs) = 1 + Len(Tail(deque.refs)) /\ Len(refs) = 1
      /\ refs[1] = deque.refs[1]
      /\ \A i \in 1 .. Len(Tail(deque.refs)) : Tail(deque.refs)[i] = deque.refs[1 + i]
  BY <1>1, <1>2
<1> HIDE DEF refs
<1>4. /\ items \in Seq(Items) /\ AllMoved(items) /\ Uses(items, S) /\ Moving(items) = BlocksOf(refs)
  BY <1>3, DropsAre
<1> HIDE DEF items
<1>5. TodoOK(items, zb)
  BY <1>4, MovedOK
<1>6. Passes(deque.refs, items, deque'.refs)
  <2>1. Joined(refs, Tail(deque.refs), deque.refs)
    BY <1>3 DEF Joined
  <2>2. \A c : Times(c, BlocksOf(deque.refs))
               = Times(c, BlocksOf(refs)) + Times(c, BlocksOf(Tail(deque.refs)))
    BY <1>2, <1>3, <2>1, BlocksJoined, Zenon
  <2> QED
    BY <1>1, <1>4, <2>2 DEF Passes
<1>7. deque'.refs \in Seq(RefType) /\ nobuffer \in S /\ \A y \in S : y = nobuffer \/ Free(y)
  BY <1>1, <1>3
<1> QED
  <2> HIDE DEF S
  <2> QED
    BY <1>1, <1>4, <1>5, <1>6, <1>7, CallPasses, Zenon

-----------------------------------------------------------------------------
(* The steps on the blocks *)

LEMMA SkipFullHeadStep ==
  ASSUME GoodNow, NEW t \in Threads, SkipFullHead(t)
  PROVE  GoodNow'
<1> DEFINE F == Outside(zb, todo, held, deque.refs)
           g == DropFullHead(heap, t)
<1>1. F \in Loads /\ HeapOK(heap, F) /\ Within(heap, MaxBlocks)
  BY GoodParts
<1>2. heap.cache[t] # <<>> /\ heap' = g /\ UNCHANGED <<zb, call, todo, held, deque>>
  BY DEF SkipFullHead, HeadFull
<1> HIDE DEF F
<1>3. HeapOK(g, F) /\ Keeps(heap, g, F) /\ g.live \subseteq heap.live
  BY <1>1, <1>2, DropFullHeadKeeps
<1> HIDE DEF g
<1>4. Within(g, MaxBlocks)
  BY <1>1, <1>3 DEF Within
<1>5. Good(g, zb, call, todo, held, deque.refs)
  BY <1>3, <1>4, BlocksStep DEF GoodNow, F
<1> QED
  BY <1>2, <1>5 DEF GoodNow

LEMMA ExitStepStep ==
  ASSUME GoodNow, NEW t \in Threads, ExitStep(t)
  PROVE  GoodNow'
<1> DEFINE F == Outside(zb, todo, held, deque.refs)
           g == DropHead(heap, t)
<1>1. F \in Loads /\ HeapOK(heap, F) /\ Within(heap, MaxBlocks)
  BY GoodParts
<1>2. heap.cache[t] # <<>> /\ heap' = g /\ UNCHANGED <<zb, call, todo, held, deque>>
  BY DEF ExitStep
<1> HIDE DEF F
<1>3. HeapOK(g, F) /\ Keeps(heap, g, F) /\ g.live \subseteq heap.live
  BY <1>1, <1>2, DropHeadKeeps
<1> HIDE DEF g
<1>4. Within(g, MaxBlocks)
  BY <1>1, <1>3 DEF Within
<1>5. Good(g, zb, call, todo, held, deque.refs)
  BY <1>3, <1>4, BlocksStep DEF GoodNow, F
<1> QED
  BY <1>2, <1>5 DEF GoodNow

\* What is left of a call after its first item
LEMMA NextItem ==
  ASSUME GoodNow, NEW t \in Threads, todo[t] # <<>>
  PROVE  LET e == Head(todo[t])
             rest == Tail(todo[t])
         IN /\ e \in Items /\ rest \in Seq(Items) /\ TodoOK(rest, zb) /\ CallOK(call[t], rest)
            /\ call[t].op = "none"
            /\ e.dst \in BusyOf(call[t], todo[t])
            /\ BusyOf(call[t], rest) \subseteq BusyOf(call[t], todo[t])
            /\ e.dst # nobuffer => e.ref.block \in Blocks
            /\ ~ e.moved => CopyOK(e, todo[t], zb) /\ e.src # e.dst
            /\ \A i \in 1 .. Len(rest) : ~ rest[i].moved => rest[i].src # e.dst
<1> DEFINE items == todo[t]
           e == Head(items)
           rest == Tail(items)
<1>1. items \in Seq(Items) /\ CallOK(call[t], items) /\ TodoOK(items, zb)
  BY GoodParts
<1>2. /\ e \in Items /\ rest \in Seq(Items) /\ e = items[1] /\ 1 \in 1 .. Len(items)
      /\ Len(rest) = Len(items) - 1 /\ Len(items) \in Nat /\ Len(rest) \in Nat
      /\ \A i \in 1 .. Len(rest) : rest[i] = items[i + 1] /\ i + 1 \in 1 .. Len(items)
  <2> HIDE DEF items
  <2>1. items \in Seq(Items) /\ items # <<>>
    BY <1>1 DEF items
  <2> QED
    BY <2>1
<1>3. DOMAIN items = 1 .. Len(items) /\ DOMAIN rest = 1 .. Len(rest)
  BY <1>1, <1>2
<1>4. items # <<>>
  OBVIOUS
<1> HIDE DEF items, e, rest
<1>5. call[t].op = "none" /\ call[t] \in CallType
  BY <1>1, <1>4 DEF CallOK, CallType
<1>6. CallOK(call[t], rest)
  BY <1>1, <1>5 DEF CallOK
<1>7. /\ e.dst # nobuffer => e.ref.block \in Blocks
      /\ ~ e.moved => CopyOK(e, items, zb)
  BY <1>1, <1>2 DEF TodoOK
<1>8. ~ e.moved => e.src # e.dst
  BY <1>2, <1>7 DEF CopyOK
<1>9. ASSUME NEW i \in 1 .. Len(rest)
      PROVE  /\ rest[i].dst # nobuffer => rest[i].ref.block \in Blocks
             /\ ~ rest[i].moved => CopyOK(rest[i], rest, zb) /\ rest[i].src # e.dst
  <2>1. /\ rest[i].dst # nobuffer => rest[i].ref.block \in Blocks
        /\ ~ rest[i].moved => CopyOK(rest[i], items, zb)
    BY <1>1, <1>2 DEF TodoOK
  <2>2. CopyOK(rest[i], items, zb) => CopyOK(rest[i], rest, zb) /\ rest[i].src # e.dst
    BY <1>2 DEF CopyOK
  <2> QED
    BY <2>1, <2>2
<1>10. TodoOK(rest, zb)
  BY <1>2, <1>9 DEF TodoOK
<1>11. e.dst \in BusyOf(call[t], items)
  <2>1. e.dst \in UNION {{items[i].dst, items[i].src} : i \in DOMAIN items}
    BY <1>2, <1>3
  <2> QED
    BY <2>1 DEF BusyOf
<1>12. BusyOf(call[t], rest) \subseteq BusyOf(call[t], items)
  <2> SUFFICES ASSUME NEW i \in 1 .. Len(rest), NEW y \in {rest[i].dst, rest[i].src}
               PROVE  y \in BusyOf(call[t], items)
    BY <1>3 DEF BusyOf
  <2>1. y \in {items[i + 1].dst, items[i + 1].src} /\ i + 1 \in DOMAIN items
    BY <1>2, <1>3
  <2>2. y \in UNION {{items[j].dst, items[j].src} : j \in DOMAIN items}
    BY <2>1
  <2> QED
    BY <2>2 DEF BusyOf
<1> QED
  BY <1>2, <1>5, <1>6, <1>7, <1>8, <1>9, <1>10, <1>11, <1>12 DEF items, e, rest

\* A step that changes blocks, references in hand and buffers: the parts of GoodNow'
LEMMA GoodFrom ==
  ASSUME NEW h, NEW bufs, NEW calls, NEW lists, NEW refs, NEW dq \in Seq(RefType),
         Quiet(bufs, calls, lists), HeldOK(h, refs), Within(h, MaxBlocks),
         NEW F, HeapOK(h, F), Outside(bufs, lists, refs, dq) = F
  PROVE  Good(h, bufs, calls, lists, refs, dq)
BY DEF Good

LEMMA DropRefStep ==
  ASSUME GoodNow, NEW t \in Threads, DropRef(t)
  PROVE  GoodNow'
<1> DEFINE items == todo[t]
           e == Head(items)
           rest == Tail(items)
           F == Outside(zb, todo, held, deque.refs)
           G == Outside(zb, todo', held, deque.refs)
           b == e.ref.block
<1>1. /\ items # <<>> /\ e.dst = nobuffer /\ heap' = Release(heap, t, e.ref)
      /\ todo' = [todo EXCEPT ![t] = rest] /\ UNCHANGED <<zb, call, held, deque>>
  BY DEF DropRef
<1>2. /\ BuffersOK(zb) /\ call \in [Threads -> CallType] /\ todo \in [Threads -> Seq(Items)]
      /\ held \in [Threads -> RefType] /\ deque.refs \in Seq(RefType)
      /\ HeldOK(heap, held) /\ Within(heap, MaxBlocks) /\ F \in Loads /\ HeapOK(heap, F)
      /\ Quiet(zb, call, todo)
  BY GoodParts DEF GoodNow, Good
<1>3. /\ e \in Items /\ rest \in Seq(Items) /\ TodoOK(rest, zb) /\ CallOK(call[t], rest)
      /\ BusyOf(call[t], rest) \subseteq BusyOf(call[t], items)
      /\ ~ e.moved => CopyOK(e, items, zb)
  BY <1>1, NextItem
<1>4. e.moved
  BY <1>1, <1>3 DEF CopyOK
<1>5. /\ todo' \in [Threads -> Seq(Items)] /\ todo'[t] = rest /\ OnlyAt(todo, todo', t)
      /\ OnlyAt(call, call, t) /\ OnlyAt(held, held, t)
  BY <1>1, <1>2, <1>3 DEF OnlyAt
<1>6. Quiet(zb, call, todo')
  <2>1. Claims(call, todo, t, {} \cup BusyOf(call[t], todo'[t]))
    BY <1>3, <1>5 DEF Claims
  <2>2. CallOK(call[t], todo'[t]) /\ TodoOK(todo'[t], zb)
    BY <1>3, <1>5
  <2>3. {} \in SUBSET Buffers /\ \A z \in Buffers \ {} : zb[z] = zb[z]
    OBVIOUS
  <2> QED
    BY <1>2, <1>5, <2>1, <2>2, <2>3, QuietStep
<1>7. \A c \in Blocks : Times(c, Moving(items)) = One(c = b) + Times(c, Moving(rest))
  <2>1. \A c \in Blocks : Times(c, Moving(items))
                          = One(c \in Coming(e.ref, e.moved)) + Times(c, Moving(rest))
    BY <1>1, <1>2, MovingTail, Zenon
  <2>2. \A c \in Blocks : One(c \in Coming(e.ref, e.moved)) = One(c = b)
    BY <1>4 DEF Coming, One
  <2> QED
    BY <2>1, <2>2
<1>8. G \in Loads /\ \A c \in Blocks : /\ G[c] \in Nat /\ F[c] \in Nat
                                       /\ G[c] >= Places(c, Hands(todo', held))
  BY <1>2, <1>5, OutsideIs
<1> HIDE DEF items, e, rest
<1>9. \A c \in Blocks : /\ G[c] = F[c] - Mine(c, items, held[t], deque.refs)
                                  + Mine(c, rest, held[t], deque.refs)
                        /\ F[c] >= Mine(c, items, held[t], deque.refs)
  <2>1. HandsTell(zb, todo, held, deque.refs, todo', held, deque.refs, t)
    BY <1>2, <1>5, OutsideOf
  <2> QED
    BY <1>5, <2>1 DEF HandsTell, F, G, items
<1> HIDE DEF F, G
<1>10. ASSUME NEW c \in Blocks
       PROVE  G[c] = F[c] - One(c = b) /\ F[c] >= One(c = b)
  <2> DEFINE m == Times(c, Moving(items))
             n == Times(c, Moving(rest))
             o == One(held[t].block = c)
             d == Times(c, BlocksOf(deque.refs))
             i == One(c = b)
             f == F[c]
             k == G[c]
  <2>1. m = i + n
    BY <1>7
  <2>2. k = f - (m + o + d) + (n + o + d) /\ f >= m + o + d
    BY <1>9 DEF Mine
  <2>3. m \in Nat /\ n \in Nat /\ o \in Nat /\ d \in Nat /\ i \in Nat /\ f \in Nat
    <3>1. items \in Seq(Items) /\ rest \in Seq(Items)
      BY <1>2, <1>3 DEF items
    <3>2. Moving(items) \in Seq(Names) /\ Moving(rest) \in Seq(Names)
          /\ BlocksOf(deque.refs) \in Seq(Names)
      BY <1>2, <3>1, MovingIs, BlocksAre
    <3> QED
      BY <1>8, <3>2, TimesIs DEF One
  <2> HIDE DEF m, n, o, d, i, f, k
  <2>4. k = f - i /\ f >= i
    BY <2>1, <2>2, <2>3
  <2> QED
    BY <2>4 DEF k, f, i
<1>11. HeapOK(heap', G) /\ Keeps(heap, heap', G) /\ heap'.live \subseteq heap.live
  <2>1. CASE b = Null
    <3>1. \A c \in Blocks : G[c] = F[c]
      <4>1. \A c \in Blocks : One(c = b) = 0
        BY <2>1 DEF One, Null, Blocks
      <4> QED
        BY <1>8, <1>10, <4>1
    <3>2. G = F
      BY <1>2, <1>8, <3>1, SameLoads
    <3>3. heap' = heap
      BY <1>1, <2>1 DEF Release
    <3> QED
      BY <1>2, <3>2, <3>3, KeepsSame
  <2>2. CASE b # Null
    <3>1. b \in Blocks
      BY <1>3, <2>2 DEF Items, RefType
    <3>2. heap' = DecRef(heap, t, b)
      BY <1>1, <2>2 DEF Release
    <3>3. F[b] > 0
      <4>1. One(b = b) = 1 /\ F[b] \in Nat /\ F[b] >= One(b = b)
        BY <1>8, <1>10, <3>1 DEF One
      <4> QED
        BY <4>1
    <3>4. G = Less(F, b)
      <4>1. /\ Less(F, b) \in Loads
            /\ \A c \in Blocks : Less(F, b)[c] = F[c] - One(c = b)
        BY <1>2, <3>1, <3>3, LoadsChange
      <4> QED
        BY <1>8, <1>10, <4>1, SameLoads
    <3> HIDE DEF b
    <3> QED
      BY <1>2, <3>1, <3>2, <3>3, <3>4, DecRefKeeps
  <2> QED
    BY <2>1, <2>2
<1>12. HeldOK(heap', held)
  <2>1. \A u \in Threads : held[u] # NoRef => G[held[u].block] > 0
    BY <1>2, <1>5, <1>8, HeldCounted
  <2> QED
    BY <1>2, <1>11, <2>1, HeldStays
<1>13. Within(heap', MaxBlocks)
  BY <1>2, <1>11 DEF Within
<1>14. Good(heap', zb, call, todo', held, deque.refs)
  BY <1>2, <1>6, <1>11, <1>12, <1>13, GoodFrom DEF G
<1> QED
  BY <1>1, <1>14 DEF GoodNow

\* What a thread holds of a block is its last.
LEMMA HeldOther ==
  ASSUME NEW h, NEW F \in Loads, HeapOK(h, F), NEW refs, HeldOK(h, refs), NEW t \in Threads,
         refs[t] # NoRef, F[refs[t].block] > 0, NEW b, b \in InCache(h.cache) \/ b \notin h.live
  PROVE  refs[t].block # b
<1>1. refs[t].block \in Blocks /\ refs[t].block \notin InCache(h.cache)
  BY DEF HeldOK, HeldBy
<1>2. refs[t].block \in h.live
  BY <1>1, HeapOKParts
<1> QED
  BY <1>1, <1>2

LEMMA TakeNewRef ==
  ASSUME GoodNow, NEW t \in Threads, held[t] = NoRef, NEW a, a = AcquireBlockRef(heap, t),
         heap' = a.h, Bounded(a.h), held' = [held EXCEPT ![t] = a.ref],
         UNCHANGED <<zb, call, todo, deque>>
  PROVE  GoodNow'
<1> DEFINE F == Outside(zb, todo, held, deque.refs)
           G == Outside(zb, todo, held', deque.refs)
           p == PopFront(heap, t)
           g == p.h
           b == p.block
<1>1. /\ BuffersOK(zb) /\ call \in [Threads -> CallType] /\ todo \in [Threads -> Seq(Items)]
      /\ held \in [Threads -> RefType] /\ deque.refs \in Seq(RefType)
      /\ HeldOK(heap, held) /\ Within(heap, MaxBlocks) /\ F \in Loads /\ HeapOK(heap, F)
      /\ Quiet(zb, call, todo)
  BY GoodParts DEF GoodNow, Good
<1>2. /\ a.h = g /\ a.ref = [block |-> b, offset |-> g.block[b].offset, length |-> LeftSpace(g, b)]
  BY DEF AcquireBlockRef
<1>3. MaxBlocks + 1 \in Blocks /\ MaxBlocks \in Nat
  BY SizesAssumption DEF Blocks
<1>4. Popped(heap, g, F, b)
  BY <1>1, <1>3, PopFrontKeeps
<1> HIDE DEF g, b, F
<1>5. /\ b \in Blocks /\ (b \in InCache(heap.cache) \/ b \notin heap.live)
      /\ HeapOK(g, More(F, b)) /\ Keeps(heap, g, F) /\ b \notin InCache(g.cache)
  BY <1>4 DEF Popped
<1>6. More(F, b) \in Loads /\ More(F, b)[b] > 0 /\ \A c \in Blocks : More(F, b)[c] = F[c] + One(c = b)
  BY <1>1, <1>5, LoadsChange
<1>7. a.ref \in RefType
  <2> DEFINE x == g.block[b]
  <2>1. x \in BlockType /\ Sound(x)
    <3>1. b \in g.live
      BY <1>5, <1>6, HeapOKParts
    <3> QED
      BY <1>5, <1>6, <3>1, HeapOKParts
  <2>2. LeftSpace(g, b) = x.capacity - x.offset
    BY DEF LeftSpace
  <2> HIDE DEF x
  <2>3. x.offset \in Int /\ x.capacity - x.offset \in Nat
    BY <2>1 DEF BlockType, Sound
  <2> QED
    BY <1>2, <1>5, <2>2, <2>3 DEF RefType, x
<1>8. held' \in [Threads -> RefType] /\ held'[t] = a.ref /\ OnlyAt(held, held', t)
      /\ OnlyAt(todo, todo, t)
  BY <1>1, <1>7 DEF OnlyAt
<1>9. G = More(F, b)
  <2>1. G \in Loads /\ F \in Loads
    BY <1>1, <1>8, OutsideIs
  <2>2. HandsTell(zb, todo, held, deque.refs, todo, held', deque.refs, t)
    BY <1>1, <1>8, OutsideOf
  <2>3. \A c \in Blocks : /\ G[c] = F[c] - Mine(c, todo[t], held[t], deque.refs)
                                    + Mine(c, todo[t], held'[t], deque.refs)
                          /\ F[c] >= Mine(c, todo[t], held[t], deque.refs)
    BY <2>2 DEF HandsTell, F, G
  <2>4. ASSUME NEW c \in Blocks PROVE G[c] = More(F, b)[c]
    <3> DEFINE m == Times(c, Moving(todo[t]))
               o == One(held[t].block = c)
               r == One(held'[t].block = c)
               d == Times(c, BlocksOf(deque.refs))
               f == F[c]
               k == G[c]
    <3>1. k = f - (m + o + d) + (m + r + d)
      BY <2>3 DEF Mine
    <3>2. o = 0
      BY DEF One, NoRef, Null, Blocks
    <3>3. m \in Nat /\ r \in Nat /\ d \in Nat /\ f \in Nat
      <4>1. Moving(todo[t]) \in Seq(Names) /\ BlocksOf(deque.refs) \in Seq(Names)
        BY <1>1, MovingIs, BlocksAre
      <4>2. f \in Nat
        BY <2>1 DEF Loads
      <4> QED
        BY <4>1, <4>2, TimesIs DEF One
    <3>4. r = One(c = b)
      BY <1>2, <1>8 DEF One
    <3> HIDE DEF m, o, r, d, f, k
    <3>5. k = f + r
      BY <3>1, <3>2, <3>3
    <3> QED
      BY <1>6, <3>4, <3>5 DEF k, f
  <2> HIDE DEF G
  <2> QED
    BY <1>6, <2>1, <2>4, SameLoads
<1>10. \A c \in Blocks : F[c] \in Nat /\ F[c] >= Places(c, Hands(todo, held))
  BY <1>1, OutsideIs DEF F
<1>11. \A u \in Threads : held[u] # NoRef => F[held[u].block] > 0
  BY <1>1, <1>10, HeldCounted
<1>12. HeldOK(g, held)
  BY <1>1, <1>5, <1>11, HeldStays
<1>13. \A u \in Threads : held[u].block # b
  <2> SUFFICES ASSUME NEW u \in Threads PROVE held[u].block # b
    OBVIOUS
  <2>1. CASE held[u] = NoRef
    BY <1>5, <2>1 DEF NoRef, Null, Blocks
  <2>2. CASE held[u] # NoRef
    BY <1>1, <1>5, <1>11, <2>2, HeldOther
  <2> QED
    BY <2>1, <2>2
<1>14. HeldOK(g, held')
  <2> SUFFICES ASSUME NEW u \in Threads, held'[u] # NoRef PROVE HeldBy(g, held', u)
    BY <1>8 DEF HeldOK
  <2>1. \A v \in Threads \ {t} : held'[v] = held[v]
    BY <1>1, <1>8 DEF OnlyAt
  <2>2. CASE u = t
    <3>1. /\ held'[t].block = b /\ held'[t].offset = g.block[b].offset
          /\ held'[t].length = LeftSpace(g, b)
      BY <1>2, <1>8
    <3> QED
      BY <1>5, <1>13, <2>1, <2>2, <3>1 DEF HeldBy
  <2>3. CASE u # t
    <3>1. HeldBy(g, held, u) /\ held'[u] = held[u]
      BY <1>12, <2>1, <2>3 DEF HeldOK
    <3>2. held'[t].block = b
      BY <1>2, <1>8
    <3> QED
      BY <1>13, <2>1, <2>3, <3>1, <3>2 DEF HeldBy
  <2> QED
    BY <2>2, <2>3
<1>15. Within(g, MaxBlocks)
  BY <1>2, <1>3 DEF Within, Bounded
<1>16. Good(g, zb, call, todo, held', deque.refs)
  BY <1>1, <1>5, <1>9, <1>14, <1>15, GoodFrom DEF G
<1> QED
  BY <1>2, <1>16 DEF GoodNow

LEMMA TakeRefStep ==
  ASSUME GoodNow, NEW t \in Threads, TakeRef(t)
  PROVE  GoodNow'
<1>1. held[t] = NoRef /\ UNCHANGED <<zb, call, todo, deque>>
  BY DEF TakeRef
<1>2. CASE HeadFull(heap, t) /\ heap' = PopFullHead(heap, t) /\ held' = held
  <2> DEFINE F == Outside(zb, todo, held, deque.refs)
             g == PopFullHead(heap, t)
  <2>1. F \in Loads /\ HeapOK(heap, F) /\ Within(heap, MaxBlocks)
    BY GoodParts
  <2>2. heap.cache[t] # <<>>
    BY <1>2 DEF HeadFull
  <2> HIDE DEF F
  <2>3. HeapOK(g, F) /\ Keeps(heap, g, F) /\ g.live \subseteq heap.live
    BY <2>1, <2>2, PopFullHeadKeeps
  <2> HIDE DEF g
  <2>4. Within(g, MaxBlocks)
    BY <2>1, <2>3 DEF Within
  <2>5. Good(g, zb, call, todo, held, deque.refs)
    BY <2>3, <2>4, BlocksStep DEF GoodNow, F
  <2> QED
    BY <1>1, <1>2, <2>5 DEF GoodNow, g
<1>3. CASE ~ HeadFull(heap, t)
  <2> DEFINE a == AcquireBlockRef(heap, t)
  <2>1. heap' = a.h /\ Bounded(a.h) /\ held' = [held EXCEPT ![t] = a.ref]
    BY <1>3 DEF TakeRef
  <2> HIDE DEF a
  <2> QED
    BY <1>1, <2>1, TakeNewRef DEF a
<1> QED
  BY <1>2, <1>3 DEF TakeRef

\* A reference that is given back goes into the buffer; the cache has its own.
LEMMA GiveRefStep ==
  ASSUME GoodNow, written \in Nat, NEW t \in Threads, NEW z \in Buffers, NEW n \in Counts,
         GiveRef(t, z, n)
  PROVE  GoodNow' /\ written' \in Nat
<1> DEFINE ref == [held[t] EXCEPT !.length = n]
           b == held[t].block
           data == NewBytes(n)
           items == Moves(<<ref>>, z)
           F == Outside(zb, todo, held, deque.refs)
           G == Outside(zb, todo', held', deque.refs)
           g == ReturnBlockRef(Write(heap, ref, data), t, ref)
<1>1. /\ Starts(t, "ref", z) /\ held[t] # NoRef /\ n \in 1 .. held[t].length /\ Usable(z)
      /\ heap' = g /\ held' = [held EXCEPT ![t] = NoRef] /\ todo' = [todo EXCEPT ![t] = items]
      /\ written' = written + n /\ UNCHANGED <<zb, call, deque>>
  BY DEF GiveRef
<1>2. /\ BuffersOK(zb) /\ call \in [Threads -> CallType] /\ todo \in [Threads -> Seq(Items)]
      /\ held \in [Threads -> RefType] /\ deque.refs \in Seq(RefType)
      /\ HeldOK(heap, held) /\ Within(heap, MaxBlocks) /\ F \in Loads /\ HeapOK(heap, F)
      /\ Quiet(zb, call, todo)
  BY GoodParts DEF GoodNow, Good
<1>3. /\ call[t] = NoCall /\ todo[t] = <<>> /\ Free(z)
      /\ \A c : Mine(c, todo[t], held[t], deque.refs)
                = One(held[t].block = c) + Times(c, BlocksOf(deque.refs))
      /\ \A S : (\A y \in S : y = nobuffer \/ Free(y)) => Claims(call, todo, t, S)
  BY <1>1, Starting
<1>4. n \in Nat /\ data \in Seq(Nat) /\ Len(data) = n
  BY CallsAssumption, BytesAre, SizesAssumption
<1>5. /\ ref \in RefType /\ ref.block = b /\ ref.offset = held[t].offset /\ ref.length = n
      /\ NoRef \in RefType /\ NoRef.block = Null
  BY <1>2, <1>4, EmptyIs DEF RefType
<1>6. /\ b \in Blocks /\ b \notin InCache(heap.cache) /\ held[t].offset = heap.block[b].offset
      /\ held[t].length = LeftSpace(heap, b) /\ \A u \in Threads \ {t} : held[u].block # b
  BY <1>1, <1>2 DEF HeldOK, HeldBy
<1>7. \A u \in Threads : held[u] # NoRef => F[held[u].block] > 0
  <2>1. \A c \in Blocks : F[c] \in Nat /\ F[c] >= Places(c, Hands(todo, held))
    BY <1>2, OutsideIs DEF F
  <2> QED
    BY <1>2, <2>1, HeldCounted
<1> HIDE DEF ref, items, data
<1>8. Takes(heap, ref, data, ref.offset + ref.length)
  <2> DEFINE x == heap.block[b]
  <2>1. b \in heap.live /\ x \in BlockType
    BY <1>1, <1>2, <1>6, <1>7, HeapOKParts
  <2>2. Sound(x)
    BY <1>2, <1>6, <2>1, HeapOKParts
  <2>3. LeftSpace(heap, b) = x.capacity - x.offset
    BY DEF LeftSpace
  <2>4. n <= LeftSpace(heap, b)
    BY <1>1, <1>6
  <2>5. \A i \in 1 .. ref.length : data[i] \in Nat
    BY <1>4, <1>5
  <2> HIDE DEF x
  <2>6. x.offset \in Nat /\ x.capacity \in Nat
    BY <2>1 DEF BlockType
  <2>7. x.offset + n \in Nat /\ x.offset + n <= x.capacity
    BY <1>4, <2>3, <2>4, <2>6
  <2>8. ref.offset + ref.length = x.offset + n /\ ref.offset = x.offset
    BY <1>5, <1>6 DEF x
  <2>9. ref.offset + ref.length \in Nat /\ ref.offset + ref.length <= x.capacity
    BY <2>7, <2>8
  <2> DEFINE o == ref.offset + ref.length
  <2>10. o \in Nat /\ o <= o
    BY <2>9
  <2> HIDE DEF o
  <2>11. Takes(heap, ref, data, o)
    BY <1>4, <1>5, <1>6, <2>1, <2>5, <2>8, <2>9, <2>10 DEF Takes, x, o
  <2> QED
    BY <2>11 DEF o
<1> HIDE DEF F
<1>9. HeapOK(g, F) /\ Keeps(heap, g, Aside(F, b)) /\ g.live \subseteq heap.live
  <2>1. F[ref.block] > 0 /\ ref.block \notin InCache(heap.cache)
    BY <1>1, <1>5, <1>6, <1>7
  <2> QED
    BY <1>2, <1>5, <1>8, <2>1, ReturnBlockRefKeeps
<1> HIDE DEF g
<1>10. <<ref>> \in Seq(RefType) /\ WithBlocks(<<ref>>)
  BY <1>5, <1>6 DEF WithBlocks
<1>11. /\ items \in Seq(Items) /\ AllMoved(items) /\ Uses(items, {nobuffer, z})
       /\ Moving(items) = <<b>>
  <2> DEFINE S == {nobuffer, z}
             refs == <<ref>>
  <2>1. nobuffer \in S /\ z \in S
    OBVIOUS
  <2>2. refs \in Seq(RefType) /\ WithBlocks(refs)
    BY <1>10
  <2>3. BlocksOf(refs) = <<ref.block>>
    BY <1>5, BlocksOfOne
  <2> HIDE DEF S, refs
  <2>4. /\ Moves(refs, z) \in Seq(Items) /\ AllMoved(Moves(refs, z)) /\ Uses(Moves(refs, z), S)
        /\ Moving(Moves(refs, z)) = BlocksOf(refs)
    BY <2>1, <2>2, MovesAre
  <2>5. Moves(refs, z) = items
    BY DEF items, refs
  <2> QED
    BY <1>5, <2>3, <2>4, <2>5 DEF S
<1>12. /\ todo' \in [Threads -> Seq(Items)] /\ todo'[t] = items /\ OnlyAt(todo, todo', t)
       /\ held' \in [Threads -> RefType] /\ held'[t] = NoRef /\ OnlyAt(held, held', t)
       /\ OnlyAt(call, call, t)
  BY <1>1, <1>2, <1>5, <1>11 DEF OnlyAt
<1>13. Quiet(zb, call, todo')
  <2>1. CallOK(call[t], todo'[t]) /\ TodoOK(todo'[t], zb)
    BY <1>3, <1>11, <1>12, NoCallOK, MovedOK
  <2>2. BusyOf(call[t], items) \subseteq {nobuffer, z}
    <3>1. call[t].dst \in {nobuffer, z}
      BY <1>3, NoCallOK
    <3> QED
      BY <1>11, <3>1, BusyIn
  <2>3. Claims(call, todo, t, {} \cup BusyOf(call[t], todo'[t]))
    BY <1>3, <1>12, <2>2
  <2>4. {} \in SUBSET Buffers /\ \A y \in Buffers \ {} : zb[y] = zb[y]
    OBVIOUS
  <2> QED
    BY <1>2, <1>12, <2>1, <2>3, <2>4, QuietStep
<1>14. G = F
  <2>1. G \in Loads /\ F \in Loads
    BY <1>2, <1>12, OutsideIs
  <2>2. HandsTell(zb, todo, held, deque.refs, todo', held', deque.refs, t)
    BY <1>2, <1>12, OutsideOf
  <2>3. \A c \in Blocks : /\ G[c] = F[c] - Mine(c, todo[t], held[t], deque.refs)
                                    + Mine(c, todo'[t], held'[t], deque.refs)
                          /\ F[c] >= Mine(c, todo[t], held[t], deque.refs)
    BY <2>2 DEF HandsTell, F, G
  <2>4. ASSUME NEW c \in Blocks
        PROVE  Mine(c, todo'[t], held'[t], deque.refs) = Mine(c, todo[t], held[t], deque.refs)
    <3>1. Times(c, <<b>>) = One(b = c)
      BY TimesOfOne
    <3>2. One(NoRef.block = c) = 0
      BY <1>5 DEF One, Null, Blocks
    <3> DEFINE o == One(b = c)
               d == Times(c, BlocksOf(deque.refs))
    <3>3. Mine(c, todo'[t], held'[t], deque.refs) = o + 0 + d
      BY <1>11, <1>12, <3>1, <3>2 DEF Mine
    <3>4. Mine(c, todo[t], held[t], deque.refs) = o + d
      BY <1>3
    <3>5. o \in Nat
      BY DEF One
    <3> HIDE DEF o, d
    <3> QED
      BY <3>3, <3>4, <3>5
  <2>5. \A c \in Blocks : Mine(c, todo[t], held[t], deque.refs) \in Nat /\ F[c] \in Nat
    BY <1>2, <2>1, SharesAre DEF Loads
  <2>6. \A c \in Blocks : G[c] = F[c]
    <3> SUFFICES ASSUME NEW c \in Blocks PROVE G[c] = F[c]
      OBVIOUS
    <3> DEFINE m == Mine(c, todo[t], held[t], deque.refs)
               f == F[c]
               k == G[c]
    <3>1. k = f - m + m /\ m \in Nat /\ f \in Nat
      BY <2>3, <2>4, <2>5
    <3> HIDE DEF m, f, k
    <3>2. k = f
      BY <3>1
    <3> QED
      BY <3>2 DEF k, f
  <2> HIDE DEF G
  <2> QED
    BY <2>1, <2>6, SameLoads
<1>15. HeldOK(heap, held')
  <2> SUFFICES ASSUME NEW u \in Threads, held'[u] # NoRef PROVE HeldBy(heap, held', u)
    BY <1>12 DEF HeldOK
  <2>1. u # t
    BY <1>12
  <2>2. held'[u] = held[u] /\ \A v \in Threads \ {t} : held'[v] = held[v]
    BY <1>1, <1>2, <2>1
  <2>3. HeldBy(heap, held, u)
    BY <1>2, <2>2 DEF HeldOK
  <2>4. held'[t].block = Null /\ held'[u].block \in Blocks
    BY <1>5, <1>12, <2>2, <2>3 DEF HeldBy
  <2>5. held'[t].block # held'[u].block
    BY <2>4 DEF Null, Blocks
  <2> QED
    BY <2>2, <2>3, <2>5 DEF HeldBy
<1>16. HeldOK(g, held')
  <2>1. \A u \in Threads : held'[u] # NoRef => Aside(F, b)[held'[u].block] > 0
    <3> SUFFICES ASSUME NEW u \in Threads, held'[u] # NoRef
                 PROVE  Aside(F, b)[held'[u].block] > 0
      OBVIOUS
    <3>1. u # t
      BY <1>12
    <3>2. held'[u] = held[u] /\ held[u].block # b
      BY <1>1, <1>2, <1>6, <3>1
    <3>3. F[held[u].block] > 0 /\ held[u].block \in Blocks
      BY <1>2, <1>7, <3>2 DEF HeldOK, HeldBy
    <3> QED
      BY <1>2, <3>2, <3>3 DEF Aside, Loads
  <2> QED
    BY <1>9, <1>15, <2>1, HeldStays
<1>17. Within(g, MaxBlocks)
  BY <1>2, <1>9 DEF Within
<1>18. Good(g, zb, call, todo', held', deque.refs)
  BY <1>2, <1>9, <1>13, <1>14, <1>16, <1>17, GoodFrom DEF G
<1> QED
  BY <1>1, <1>4, <1>18 DEF GoodNow

\* Every block has at most one of the references.
LEMMA EachOnce ==
  ASSUME NEW refs \in Seq(RefType),
         \A i, j \in 1 .. Len(refs) : refs[i].block = refs[j].block => i = j
  PROVE  \A c : Times(c, BlocksOf(refs)) = One(c \in ReadBlocks(refs))
<1> SUFFICES ASSUME NEW c PROVE Times(c, BlocksOf(refs)) = One(c \in ReadBlocks(refs))
  OBVIOUS
<1>1. DOMAIN refs = 1 .. Len(refs)
  OBVIOUS
<1>2. Spots(c, BlocksOf(refs)) = {i \in 1 .. Len(refs) : refs[i].block = c}
  BY <1>1 DEF Spots, BlocksOf
<1>3. CASE c \in ReadBlocks(refs)
  <2>1. PICK i \in 1 .. Len(refs) : refs[i].block = c
    BY <1>1, <1>3 DEF ReadBlocks
  <2>2. Spots(c, BlocksOf(refs)) = {i}
    BY <1>2, <2>1
  <2>3. Cardinality({i}) = 1
    BY FS_Singleton
  <2> QED
    BY <1>3, <2>2, <2>3 DEF Times, One
<1>4. CASE c \notin ReadBlocks(refs)
  <2>1. Spots(c, BlocksOf(refs)) = {}
    BY <1>1, <1>2, <1>4 DEF ReadBlocks
  <2>2. Cardinality({}) = 0
    BY FS_EmptySet
  <2> QED
    BY <1>4, <2>1, <2>2 DEF Times, One
<1> QED
  BY <1>3, <1>4

LEMMA LinkBlockStep ==
  ASSUME GoodNow, NEW t \in Threads, LinkBlock(t)
  PROVE  GoodNow'
<1> DEFINE F == Outside(zb, todo, held, deque.refs)
           g == LinkLast(heap, t)
<1>1. heap' = g /\ Bounded(g) /\ UNCHANGED <<zb, call, todo, held, deque>>
  BY DEF LinkBlock
<1>2. F \in Loads /\ HeapOK(heap, F) /\ Within(heap, MaxBlocks)
  BY GoodParts
<1>3. MaxBlocks \in Nat /\ MaxBlocks + 1 \in Blocks
  BY SizesAssumption DEF Blocks
<1> HIDE DEF F
<1>4. HeapOK(g, F) /\ Keeps(heap, g, F)
  BY <1>2, <1>3, LinkLastKeeps
<1> HIDE DEF g
<1>5. Within(g, MaxBlocks)
  BY <1>1, <1>3 DEF Within, Bounded
<1>6. Good(g, zb, call, todo, held, deque.refs)
  BY <1>4, <1>5, BlocksStep DEF GoodNow, F
<1> QED
  BY <1>1, <1>6 DEF GoodNow

\* The call of a thread is over.
LEMMA CallEnds ==
  ASSUME NEW h, Good(h, zb, call, todo, held, deque.refs), NEW t \in Threads, todo[t] = <<>>,
         call' = [call EXCEPT ![t] = NoCall]
  PROVE  Good(h, zb, call', todo, held, deque.refs)
<1>1. /\ call \in [Threads -> CallType] /\ todo \in [Threads -> Seq(Items)]
      /\ deque.refs \in Seq(RefType)
  BY DEF Good, Quiet
<1>2. call'[t] = NoCall /\ call' \in [Threads -> CallType] /\ OnlyAt(call, call', t)
      /\ OnlyAt(todo, todo, t)
  BY <1>1, NoCallOK DEF OnlyAt
<1>3. CallOK(call'[t], todo[t]) /\ TodoOK(todo[t], zb)
  <2>1. TodoOK(<<>>, zb)
    BY NoItems, MovedOK
  <2> QED
    BY <1>2, <2>1, NoCallOK
<1>4. Claims(call, todo, t, BusyOf(call'[t], todo[t]))
  <2> DEFINE S == {nobuffer}
  <2>1. BusyOf(NoCall, <<>>) \subseteq S
    <3>1. NoCall.dst \in S
      BY NoCallOK
    <3> HIDE DEF S
    <3> QED
      BY <3>1, NoItems, BusyIn
  <2> QED
    BY <1>2, <2>1 DEF Claims
<1>5. \A c \in Blocks : Mine(c, todo[t], held[t], deque.refs) = Mine(c, todo[t], held[t], deque.refs)
  OBVIOUS
<1> QED
  BY <1>1, <1>2, <1>3, <1>4, <1>5, CallMoves

\* The blocks that were read into go into the buffer.
LEMMA ReadTaken ==
  ASSUME GoodNow, NEW t \in Threads, call[t].op = "read", call[t].dst \in Buffers,
         todo[t] = <<>>, call' = [call EXCEPT ![t] = NoCall],
         NEW refs \in Seq(RefType), WithBlocks(refs),
         \A i, j \in 1 .. Len(refs) : refs[i].block = refs[j].block => i = j,
         todo' = [todo EXCEPT ![t] = Moves(refs, call[t].dst)],
         NEW g, HeapOK(g, Plus(Outside(zb, todo, held, deque.refs), ReadBlocks(refs))),
         Keeps(heap, g, Outside(zb, todo, held, deque.refs)), Within(g, MaxBlocks)
  PROVE  Good(g, zb, call', todo', held, deque.refs)
<1> DEFINE z == call[t].dst
           items == Moves(refs, z)
           F == Outside(zb, todo, held, deque.refs)
           G == Outside(zb, todo', held, deque.refs)
           S == {nobuffer, z}
<1>1. /\ BuffersOK(zb) /\ call \in [Threads -> CallType] /\ todo \in [Threads -> Seq(Items)]
      /\ held \in [Threads -> RefType] /\ deque.refs \in Seq(RefType)
      /\ HeldOK(heap, held) /\ F \in Loads /\ Quiet(zb, call, todo)
  BY GoodParts DEF GoodNow, Good
<1>2. z \in Buffers /\ z \in S /\ nobuffer \in S
  OBVIOUS
<1> HIDE DEF S
<1>3. /\ items \in Seq(Items) /\ AllMoved(items) /\ Uses(items, S)
      /\ Moving(items) = BlocksOf(refs)
  BY <1>2, MovesAre
<1> HIDE DEF items
<1>4. /\ todo' \in [Threads -> Seq(Items)] /\ todo'[t] = items /\ OnlyAt(todo, todo', t)
      /\ call' \in [Threads -> CallType] /\ call'[t] = NoCall /\ OnlyAt(call, call', t)
      /\ OnlyAt(held, held, t)
  <2>1. todo' = [todo EXCEPT ![t] = items]
    BY DEF items
  <2> QED
    BY <1>1, <1>3, <2>1, NoCallOK DEF OnlyAt
<1>5. Quiet(zb, call', todo')
  <2>1. CallOK(call'[t], todo'[t]) /\ TodoOK(todo'[t], zb)
    BY <1>3, <1>4, NoCallOK, MovedOK
  <2>2. BusyOf(call'[t], todo'[t]) \subseteq S
    <3>1. call'[t].dst \in S
      BY <1>2, <1>4, NoCallOK
    <3> QED
      BY <1>3, <1>4, <3>1, BusyIn
  <2>3. z \in BusyOf(call[t], todo[t])
    BY DEF BusyOf
  <2>4. Claims(call, todo, t, {} \cup BusyOf(call'[t], todo'[t]))
    BY <2>2, <2>3 DEF Claims, S
  <2> DEFINE Z == {}
  <2>5. Z \in SUBSET Buffers /\ \A y \in Buffers \ Z : zb[y] = zb[y]
    OBVIOUS
  <2>6. Claims(call, todo, t, Z \cup BusyOf(call'[t], todo'[t]))
    BY <2>4
  <2> HIDE DEF Z
  <2> QED
    BY ZenonT(60), <1>1, <1>4, <2>1, <2>5, <2>6, QuietStep
<1>6. G \in Loads /\ \A c \in Blocks : F[c] \in Nat /\ F[c] >= Places(c, Hands(todo, held))
  BY <1>1, <1>4, OutsideIs
<1>7. \A c \in Blocks : G[c] = F[c] + One(c \in ReadBlocks(refs))
  <2>1. HandsTell(zb, todo, held, deque.refs, todo', held, deque.refs, t)
    BY <1>1, <1>4, OutsideOf
  <2>2. \A c \in Blocks : G[c] = F[c] - Mine(c, todo[t], held[t], deque.refs)
                                 + Mine(c, todo'[t], held[t], deque.refs)
    BY <2>1 DEF HandsTell, F, G
  <2> SUFFICES ASSUME NEW c \in Blocks PROVE G[c] = F[c] + One(c \in ReadBlocks(refs))
    OBVIOUS
  <2> DEFINE i == One(c \in ReadBlocks(refs))
             o == One(held[t].block = c)
             d == Times(c, BlocksOf(deque.refs))
             f == F[c]
             k == G[c]
  <2>3. Times(c, Moving(todo'[t])) = i
    BY <1>3, <1>4, EachOnce
  <2>4. Times(c, Moving(todo[t])) = 0
    BY NoItems, TimesOfNone
  <2>5. k = f - (0 + o + d) + (i + o + d)
    BY <2>2, <2>3, <2>4 DEF Mine
  <2>6. o \in Nat /\ d \in Nat /\ i \in Nat /\ f \in Nat
    <3>1. BlocksOf(deque.refs) \in Seq(Names)
      BY <1>1, BlocksAre
    <3> QED
      BY <1>6, <3>1, TimesIs DEF One
  <2> HIDE DEF i, o, d, f, k
  <2>7. k = f + i
    BY <2>5, <2>6
  <2> QED
    BY <2>7 DEF k, f, i
<1> HIDE DEF F, G
<1>8. G = Plus(F, ReadBlocks(refs))
  <2>1. /\ Plus(F, ReadBlocks(refs)) \in Loads
        /\ \A c \in Blocks : Plus(F, ReadBlocks(refs))[c] = F[c] + One(c \in ReadBlocks(refs))
    BY <1>1, PlusIs
  <2> QED
    BY <1>6, <1>7, <2>1, SameLoads
<1>9. HeldOK(g, held)
  <2>1. \A u \in Threads : held[u] # NoRef => F[held[u].block] > 0
    BY <1>1, <1>6, HeldCounted
  <2>2. Keeps(heap, g, F)
    BY DEF F
  <2> QED
    BY <1>1, <2>1, <2>2, HeldStays
<1>10. HeapOK(g, G)
  BY <1>8 DEF F
<1> QED
  BY <1>1, <1>5, <1>9, <1>10, GoodFrom DEF G

LEMMA ReadIntoStep ==
  ASSUME GoodNow, written \in Nat, NEW t \in Threads, NEW nr, ReadInto(t, nr)
  PROVE  GoodNow' /\ written' \in Nat
<1> DEFINE c == call[t]
           h == heap
           list == h.cache[t]
           refs == ReadRefs(h, list, nr)
           short == MinOf(Len(list), MaxIov)
           F == Outside(zb, todo, held, deque.refs)
<1>1. F \in Loads /\ HeapOK(heap, F) /\ Within(heap, MaxBlocks)
  BY GoodParts
<1>2. /\ c.op = "read" /\ call' = [call EXCEPT ![t] = NoCall] /\ list # <<>>
      /\ UNCHANGED <<zb, held, deque>>
      /\ \/ nr = 0 /\ UNCHANGED <<heap, todo, bytes, written>>
         \/ /\ nr \in 1 .. c.count /\ nr <= Room(h, list, short)
            /\ heap' = ReadOut(h, t, refs, NewBytes(nr))
            /\ todo' = [todo EXCEPT ![t] = Moves(refs, c.dst)]
            /\ written' = written + nr
  BY DEF ReadInto, TooShort
<1>3. c.dst \in Buffers /\ todo[t] = <<>> /\ c.count \in Nat /\ MaxIov \in Nat
  <2>1. CallOK(c, todo[t])
    BY GoodParts
  <2> QED
    BY <1>2, <2>1, CallsAssumption, SizesAssumption DEF CallOK
<1> HIDE DEF F
<1>4. HeapOK(h, F) /\ Within(h, MaxBlocks)
  BY <1>1
<1>5. CASE nr = 0 /\ UNCHANGED <<heap, todo, bytes, written>>
  <2>1. Good(heap, zb, call', todo, held, deque.refs)
    BY <1>2, <1>3, CallEnds DEF GoodNow
  <2> QED
    BY <1>2, <1>5, <2>1 DEF GoodNow
<1>6. CASE /\ nr \in 1 .. c.count /\ nr <= Room(h, list, short)
           /\ heap' = ReadOut(h, t, refs, NewBytes(nr))
           /\ todo' = [todo EXCEPT ![t] = Moves(refs, c.dst)]
           /\ written' = written + nr
  <2>1. nr \in Nat /\ nr >= 1 /\ nr <= c.count
    BY <1>3, <1>6
  <2>2. NewBytes(nr) \in Seq(Nat) /\ Len(NewBytes(nr)) = nr
    BY <2>1, BytesAre
  <2> HIDE DEF h
  <2>3. /\ Listed(h, list) /\ \A i, j \in 1 .. Len(list) : list[i] = list[j] => i = j
    BY <1>1, <1>4, CacheListed
  <2> HIDE DEF list
  <2>4. list \in Seq(Blocks) /\ \A n \in 0 .. Len(list) : Room(h, list, n) \in Nat
    BY <2>3, RoomIs DEF Listed
  <2>5. Len(list) \in Nat /\ Len(list) >= 1
    BY <1>2, <2>4 DEF list
  <2>6. short \in 0 .. Len(list)
    BY <1>3, <2>5 DEF MinOf
  <2> HIDE DEF short
  <2> DEFINE room == Room(h, list, Len(list))
             first == Room(h, list, short)
  <2>7. room >= nr
    <3>1. room \in Nat /\ first \in Nat /\ first <= room /\ nr <= first
      BY <1>6, <2>3, <2>4, <2>5, <2>6, RoomGrows
    <3> HIDE DEF room, first
    <3> QED
      BY <2>1, <3>1
  <2> HIDE DEF room, first
  <2>8. ReadsInto(h, list, refs, nr)
    <3>1. Room(h, list, Len(list)) >= nr
      BY <2>7 DEF room
    <3> QED
      BY <2>1, <2>3, <2>5, <3>1, ReadRefsAre
  <2> DEFINE g == ReadOut(h, t, refs, NewBytes(nr))
             data == NewBytes(nr)
  <2> HIDE DEF refs
  <2>9. HeapOK(g, Plus(F, ReadBlocks(refs))) /\ Keeps(h, g, F) /\ g.live = h.live
    <3>1. ReadsInto(h, h.cache[t], refs, nr)
      BY <2>8 DEF list
    <3>2. data \in Seq(Nat) /\ Len(data) = nr
      BY <2>2
    <3> HIDE DEF data
    <3>3. LET k == ReadOut(h, t, refs, data)
          IN HeapOK(k, Plus(F, ReadBlocks(refs))) /\ Keeps(h, k, F) /\ k.live = h.live
      BY <1>1, <1>4, <2>1, <3>1, <3>2, ReadOutKeeps
    <3> QED
      BY <3>3 DEF data
  <2> HIDE DEF g
  <2>10. Keeps(heap, g, F)
    BY <2>9 DEF h
  <2>11. Within(g, MaxBlocks)
    BY <1>4, <2>9 DEF Within
  <2>12. refs \in Seq(RefType) /\ Len(refs) \in 1 .. Len(list)
         /\ \A i \in 1 .. Len(refs) : refs[i].block = list[i]
    BY <2>8 DEF ReadsInto
  <2>13. \A i \in 1 .. Len(refs) : i \in 1 .. Len(list) /\ list[i] \in Blocks
    <3>1. Len(refs) \in Nat /\ Len(refs) <= Len(list)
      BY <2>5, <2>12
    <3>2. \A i \in 1 .. Len(list) : list[i] \in Blocks
      BY <2>4
    <3> QED
      BY <2>5, <3>1, <3>2
  <2>14. WithBlocks(refs)
    BY <2>12, <2>13 DEF WithBlocks
  <2>15. \A i, j \in 1 .. Len(refs) : refs[i].block = refs[j].block => i = j
    BY <2>3, <2>12, <2>13
  <2>16. heap' = g
    BY <1>6 DEF g
  <2>17. Good(g, zb, call', todo', held, deque.refs)
    <3>1. HeapOK(g, Plus(Outside(zb, todo, held, deque.refs), ReadBlocks(refs)))
      BY <2>9 DEF F
    <3>2. Keeps(heap, g, Outside(zb, todo, held, deque.refs))
      BY <2>10 DEF F
    <3> QED
      BY <1>2, <1>3, <1>6, <2>11, <2>12, <2>14, <2>15, <3>1, <3>2, ReadTaken
  <2>18. written' \in Nat
    BY <1>6, <2>1
  <2> QED
    BY <1>2, <2>16, <2>17, <2>18 DEF GoodNow
<1> QED
  BY <1>2, <1>5, <1>6

-----------------------------------------------------------------------------
(* append_ref, of a reference that a thread comes with *)

\* All references but the ring of z and the one that comes along
Others(bufs, lists, refs, dq, z) ==
    Load([ListsOf(bufs) EXCEPT ![z] = BlocksOf(Refs(bufs[z]))], Hands(lists, refs), BlocksOf(dq))
Brings(items, rest, ref, moved) ==
    \A c \in Blocks : Times(c, Moving(items)) = One(c \in Coming(ref, moved)) + Times(c, Moving(rest))

LEMMA BufferPlaces ==
  ASSUME NEW a \in Lists(Buffers), NEW b \in Lists(Buffers), NEW z \in Buffers,
         \A y \in Buffers \ {z} : b[y] = a[y]
  PROVE  \A c : /\ Places(c, b) = Places(c, a) - Times(c, a[z]) + Times(c, b[z])
                /\ Places(c, a) >= Times(c, a[z])
                /\ Places(c, a) \in Nat /\ Places(c, b) \in Nat
BY PlacesChange, BuffersAssumption

LEMMA OthersAre ==
  ASSUME NEW bufs, BuffersOK(bufs), NEW z \in Buffers, NEW lists \in [Threads -> Seq(Items)],
         NEW refs \in [Threads -> RefType], NEW dq \in Seq(RefType)
  PROVE  LET K == Others(bufs, lists, refs, dq, z)
             a == ListsOf(bufs)
             p == BlocksOf(Refs(bufs[z]))
             bl == [a EXCEPT ![z] = p]
             hl == Hands(lists, refs)
             dl == BlocksOf(dq)
         IN /\ K \in Loads /\ bl \in Lists(Buffers) /\ a \in Lists(Buffers)
            /\ bl[z] = p /\ a[z] = BufferList(bufs[z]) /\ OnlyAt(a, bl, z)
            /\ \A c \in Blocks : /\ K[c] = Places(c, bl) + Places(c, hl) + Times(c, dl)
                                 /\ Places(c, bl) \in Nat /\ Places(c, hl) \in Nat
                                 /\ Times(c, dl) \in Nat
<1> DEFINE a == ListsOf(bufs)
           p == BlocksOf(Refs(bufs[z]))
           bl == [a EXCEPT ![z] = p]
           hl == Hands(lists, refs)
           dl == BlocksOf(dq)
<1>1. a \in Lists(Buffers) /\ hl \in Lists(Threads) /\ a[z] = BufferList(bufs[z])
  BY ListsAre
<1>2. p \in Seq(Names) /\ dl \in Seq(Names)
  <2>1. Refs(bufs[z]) \in Seq(RefType)
    BY RefsAre DEF BuffersOK
  <2> QED
    BY <2>1, BlocksAre
<1> HIDE DEF a, p, hl, dl
<1>3. bl \in Lists(Buffers) /\ bl[z] = p /\ OnlyAt(a, bl, z)
  BY <1>1, <1>2 DEF Lists, OnlyAt
<1> HIDE DEF bl
<1>4. /\ Load(bl, hl, dl) \in Loads
      /\ \A c \in Blocks : /\ Load(bl, hl, dl)[c] = Places(c, bl) + Places(c, hl) + Times(c, dl)
                           /\ Places(c, bl) \in Nat /\ Places(c, hl) \in Nat /\ Times(c, dl) \in Nat
  BY <1>1, <1>2, <1>3, LoadIs
<1>5. Others(bufs, lists, refs, dq, z) = Load(bl, hl, dl)
  BY DEF Others, bl, a, p, hl, dl
<1> QED
  BY <1>1, <1>3, <1>4, <1>5 DEF bl, a, p, hl, dl

Splits(bufs, lists, refs, dq, z, rest, ref, moved) ==
    Outside(bufs, lists, refs, dq)
    = Plus(Plus(Others(bufs, rest, refs, dq, z), RingOf(bufs[z])), Coming(ref, moved))

LEMMA RingApart ==
  ASSUME NEW bufs, BuffersOK(bufs), NEW z \in Buffers, NEW t \in Threads,
         NEW lists \in [Threads -> Seq(Items)], NEW lists2 \in [Threads -> Seq(Items)],
         OnlyAt(lists, lists2, t), NEW refs \in [Threads -> RefType], NEW dq \in Seq(RefType),
         NEW ref, NEW moved, Brings(lists[t], lists2[t], ref, moved)
  PROVE  Splits(bufs, lists, refs, dq, z, lists2, ref, moved)
<1> DEFINE F == Outside(bufs, lists, refs, dq)
           K == Others(bufs, lists2, refs, dq, z)
           R == RingOf(bufs[z])
           C == Coming(ref, moved)
           a == ListsOf(bufs)
           p == BlocksOf(Refs(bufs[z]))
           bl == [a EXCEPT ![z] = p]
           hl == Hands(lists2, refs)
           h0 == Hands(lists, refs)
           dl == BlocksOf(dq)
<1>1. /\ K \in Loads /\ bl \in Lists(Buffers) /\ a \in Lists(Buffers)
      /\ bl[z] = p /\ a[z] = BufferList(bufs[z]) /\ OnlyAt(a, bl, z)
      /\ \A c \in Blocks : /\ K[c] = Places(c, bl) + Places(c, hl) + Times(c, dl)
                           /\ Places(c, bl) \in Nat /\ Places(c, hl) \in Nat
                           /\ Times(c, dl) \in Nat
  BY OthersAre
<1>2. /\ F \in Loads
      /\ \A c \in Blocks : F[c] = Places(c, a) + Places(c, h0) + Times(c, dl)
  BY ZenonT(60), OutsideIs
<1>3. \A c \in Blocks : /\ Places(c, bl) = Places(c, a) - Times(c, a[z]) + Times(c, bl[z])
                        /\ Places(c, a) >= Times(c, a[z]) /\ Places(c, a) \in Nat
  <2>1. \A y \in Buffers \ {z} : bl[y] = a[y]
    BY <1>1 DEF OnlyAt, Lists
  <2>2. bl \in Lists(Buffers) /\ a \in Lists(Buffers)
    BY <1>1
  <2> HIDE DEF bl, a
  <2>3. \A c : /\ Places(c, bl) = Places(c, a) - Times(c, a[z]) + Times(c, bl[z])
               /\ Places(c, a) >= Times(c, a[z])
               /\ Places(c, a) \in Nat /\ Places(c, bl) \in Nat
    BY <2>1, <2>2, BufferPlaces
  <2> QED
    BY <2>3
<1>4. HandsDiffer(lists, refs, lists2, refs, t)
  BY HandsChange DEF OnlyAt
<1>5. BufferOK(bufs[z])
  BY DEF BuffersOK
<1> HIDE DEF F, K, bl
<1>6. ASSUME NEW c \in Blocks PROVE F[c] = K[c] + One(c \in R) + One(c \in C)
  <2> DEFINE u == Places(c, a)
             v == Places(c, bl)
             m == Times(c, p)
             r == One(c \in R)
             x == One(c \in C)
             h == Places(c, h0)
             g == Places(c, hl)
             s == Times(c, HandOf(lists[t], refs[t]))
             w == Times(c, HandOf(lists2[t], refs[t]))
             i == Times(c, Moving(lists[t]))
             j == Times(c, Moving(lists2[t]))
             o == One(refs[t].block = c)
             d == Times(c, dl)
             f == F[c]
             k == K[c]
  <2>1. Times(c, BufferList(bufs[z])) = m + r /\ m \in Nat
    BY <1>5, BufferTimes
  <2>2. v = u - (m + r) + m /\ u >= m + r /\ u \in Nat
    BY <1>1, <1>3, <2>1
  <2>3. g = h - s + w /\ h >= s /\ h \in Nat
    BY <1>4 DEF HandsDiffer
  <2>4. s = i + o /\ w = j + o /\ i \in Nat /\ j \in Nat
    BY HandTimes
  <2>5. i = x + j
    BY DEF Brings
  <2>6. f = u + h + d /\ k = v + g + d /\ d \in Nat
    BY <1>1, <1>2
  <2>7. o \in Nat /\ r \in Nat /\ x \in Nat
    BY DEF One
  <2> HIDE DEF u, v, m, r, x, h, g, s, w, i, j, o, d, f, k
  <2>8. f = k + r + x
    BY <2>2, <2>3, <2>4, <2>5, <2>6, <2>7, <2>1
  <2> QED
    BY <2>8 DEF f, k, r, x
<1> HIDE DEF R, C
<1>7. Plus(K, R) \in Loads /\ \A c \in Blocks : Plus(K, R)[c] = K[c] + One(c \in R)
  BY <1>1, PlusIs
<1>8. /\ Plus(Plus(K, R), C) \in Loads
      /\ \A c \in Blocks : Plus(Plus(K, R), C)[c] = Plus(K, R)[c] + One(c \in C)
  BY <1>7, PlusIs
<1>9. \A c \in Blocks : F[c] = Plus(Plus(K, R), C)[c]
  BY <1>6, <1>7, <1>8
<1>10. F = Plus(Plus(K, R), C)
  BY <1>2, <1>8, <1>9, SameLoads
<1> QED
  BY <1>10 DEF Splits, F, K, R, C

Joins(bufs, lists, refs, dq, z, bufs2, ref) ==
    Outside(bufs2, lists, refs, dq)
    = Plus(Plus(Others(bufs, lists, refs, dq, z), RingOf(bufs2[z])), Kept(bufs[z], ref))

LEMMA RingTogether ==
  ASSUME NEW bufs, BuffersOK(bufs), NEW z \in Buffers, NEW bufs2, BuffersOK(bufs2),
         OnlyAt(bufs, bufs2, z), NEW lists \in [Threads -> Seq(Items)],
         NEW refs \in [Threads -> RefType], NEW dq \in Seq(RefType),
         NEW ref, ref.block \in Blocks, Appended(bufs[z], bufs2[z], ref, Stores(bufs[z], ref))
  PROVE  Joins(bufs, lists, refs, dq, z, bufs2, ref)
<1> DEFINE F == Outside(bufs2, lists, refs, dq)
           K == Others(bufs, lists, refs, dq, z)
           R == RingOf(bufs2[z])
           C == Kept(bufs[z], ref)
           a == ListsOf(bufs2)
           p == BlocksOf(Refs(bufs[z]))
           q == BlocksOf(Refs(bufs2[z]))
           bl == [ListsOf(bufs) EXCEPT ![z] = p]
           hl == Hands(lists, refs)
           dl == BlocksOf(dq)
<1>1. /\ K \in Loads /\ bl \in Lists(Buffers) /\ bl[z] = p /\ OnlyAt(ListsOf(bufs), bl, z)
      /\ \A c \in Blocks : /\ K[c] = Places(c, bl) + Places(c, hl) + Times(c, dl)
                           /\ Places(c, bl) \in Nat /\ Places(c, hl) \in Nat
                           /\ Times(c, dl) \in Nat
  BY OthersAre
<1>2. /\ F \in Loads
      /\ \A c \in Blocks : F[c] = Places(c, a) + Places(c, hl) + Times(c, dl)
  BY ZenonT(60), OutsideIs
<1>3. a \in Lists(Buffers) /\ a[z] = BufferList(bufs2[z])
  BY ListsAre
<1>4. \A y \in Buffers \ {z} : a[y] = bl[y]
  <2>1. \A y \in Buffers \ {z} : bufs2[y] = bufs[y]
    BY DEF OnlyAt, BuffersOK
  <2> QED
    BY <2>1 DEF ListsOf
<1> HIDE DEF bl, a, F, K
<1>5. \A c \in Blocks : /\ Places(c, a) = Places(c, bl) - Times(c, bl[z]) + Times(c, a[z])
                        /\ Places(c, bl) >= Times(c, bl[z]) /\ Places(c, bl) \in Nat
  BY <1>1, <1>3, <1>4, BufferPlaces
<1>6. BufferOK(bufs2[z]) /\ BufferOK(bufs[z])
  BY DEF BuffersOK
<1>7. p \in Seq(Names)
  <2>1. Refs(bufs[z]) \in Seq(RefType)
    BY <1>6, RefsAre
  <2> QED
    BY <2>1, BlocksAre
<1>8. \A c \in Blocks : Times(c, q) = Times(c, p) + One(c \in C)
  <2>1. CASE Stores(bufs[z], ref)
    <3>1. q = Append(p, ref.block)
      BY <2>1 DEF Appended
    <3>2. ref.block \in Names
      BY DEF Names
    <3> HIDE DEF p, q
    <3>3. \A c : Times(c, q) = Times(c, p) + One(ref.block = c)
      BY <1>7, <3>1, <3>2, TimesAppend
    <3> QED
      BY <2>1, <3>3 DEF Kept, One
  <2>2. CASE ~ Stores(bufs[z], ref)
    <3>1. q = p
      BY <2>2 DEF Appended
    <3>2. \A c : Times(c, p) \in Nat
      BY <1>7, TimesIs
    <3>3. \A c : One(c \in C) = 0
      BY <2>2 DEF Kept, One
    <3> HIDE DEF p, q, C
    <3> QED
      BY <3>1, <3>2, <3>3
  <2> QED
    BY <2>1, <2>2
<1>9. ASSUME NEW c \in Blocks PROVE F[c] = K[c] + One(c \in R) + One(c \in C)
  <2> DEFINE u == Places(c, bl)
             v == Places(c, a)
             m == Times(c, p)
             n == Times(c, q)
             r == One(c \in R)
             x == One(c \in C)
             h == Places(c, hl)
             d == Times(c, dl)
             f == F[c]
             k == K[c]
  <2>1. Times(c, BufferList(bufs2[z])) = n + r
    BY <1>6, BufferTimes
  <2>2. v = u - m + (n + r) /\ u >= m /\ u \in Nat
    BY <1>1, <1>3, <1>5, <2>1
  <2>3. n = m + x
    BY <1>8
  <2>4. f = v + h + d /\ k = u + h + d /\ h \in Nat /\ d \in Nat
    BY <1>1, <1>2
  <2>5. r \in Nat /\ x \in Nat /\ m \in Nat
    BY <1>7, TimesIs DEF One
  <2> HIDE DEF u, v, m, n, r, x, h, d, f, k
  <2>6. f = k + r + x
    BY <2>2, <2>3, <2>4, <2>5
  <2> QED
    BY <2>6 DEF f, k, r, x
<1> HIDE DEF R, C
<1>10. Plus(K, R) \in Loads /\ \A c \in Blocks : Plus(K, R)[c] = K[c] + One(c \in R)
  BY <1>1, PlusIs
<1>11. /\ Plus(Plus(K, R), C) \in Loads
       /\ \A c \in Blocks : Plus(Plus(K, R), C)[c] = Plus(K, R)[c] + One(c \in C)
  BY <1>10, PlusIs
<1>12. \A c \in Blocks : F[c] = Plus(Plus(K, R), C)[c]
  BY <1>9, <1>10, <1>11
<1>13. F = Plus(Plus(K, R), C)
  BY <1>2, <1>11, <1>12, SameLoads
<1> QED
  BY <1>13 DEF Joins, F, K, R, C

\* The reference of another buffer is one of the others.
LEMMA OthersKnow ==
  ASSUME NEW bufs, BuffersOK(bufs), NEW z \in Buffers, NEW lists \in [Threads -> Seq(Items)],
         NEW refs \in [Threads -> RefType], NEW dq \in Seq(RefType),
         NEW y \in Buffers, y # z, NEW c \in Blocks, Times(c, BlocksOf(Refs(bufs[y]))) > 0
  PROVE  Others(bufs, lists, refs, dq, z)[c] > 0
<1> DEFINE K == Others(bufs, lists, refs, dq, z)
           a == ListsOf(bufs)
           bl == [a EXCEPT ![z] = BlocksOf(Refs(bufs[z]))]
           hl == Hands(lists, refs)
           dl == BlocksOf(dq)
<1>1. /\ bl \in Lists(Buffers) /\ a \in Lists(Buffers) /\ OnlyAt(a, bl, z)
      /\ \A x \in Blocks : /\ K[x] = Places(x, bl) + Places(x, hl) + Times(x, dl)
                           /\ Places(x, bl) \in Nat /\ Places(x, hl) \in Nat
                           /\ Times(x, dl) \in Nat
  BY OthersAre
<1>2. bl[y] = BufferList(bufs[y])
  BY <1>1, ListsAre DEF OnlyAt, Lists
<1> HIDE DEF bl, K
<1>3. Places(c, bl) >= Times(c, bl[y])
  BY <1>1, BufferPlaces
<1> DEFINE m == Times(c, BlocksOf(Refs(bufs[y])))
           r == One(c \in RingOf(bufs[y]))
           v == Places(c, bl)
           g == Places(c, hl)
           d == Times(c, dl)
           k == K[c]
<1>4. Times(c, BufferList(bufs[y])) = m + r /\ m \in Nat /\ m > 0
  BY BufferTimes DEF BuffersOK
<1>5. v >= m + r
  BY <1>2, <1>3, <1>4
<1>6. r \in Nat
  BY DEF One
<1>7. k = v + g + d /\ v \in Nat /\ g \in Nat /\ d \in Nat
  BY <1>1
<1> HIDE DEF m, r, v, g, d, k
<1>8. k > 0
  BY <1>4, <1>5, <1>6, <1>7
<1> QED
  BY <1>8 DEF k, K

InOrder(h) == \E F \in Loads : HeapOK(h, F)

\* The block of a reference does not go away while append_ref is at work.
Known(h, z, ref, moved) ==
    \/ moved \/ ref.block \in InCache(h.cache)
    \/ \E y \in Buffers \ {z} : Times(ref.block, BlocksOf(Refs(zb[y]))) > 0

\* The blocks after append_ref
LEMMA HeapAppended ==
  ASSUME NEW h, Quiet(zb, call, todo), HeldOK(h, held), deque.refs \in Seq(RefType),
         HeapOK(h, Outside(zb, todo, held, deque.refs)), Within(h, MaxBlocks + 1),
         NEW t \in Threads, NEW z \in Buffers, NEW ref \in RefType, ref.block \in Blocks,
         NEW moved \in BOOLEAN, NEW lists \in [Threads -> Seq(Items)], OnlyAt(todo, lists, t),
         Brings(todo[t], lists[t], ref, moved), Known(h, z, ref, moved),
         NEW r, r = AppendRef(h, t, zb[z], ref, moved), RingBounded(r.b), Bounded(r.h)
  PROVE  /\ InOrder(r.h) /\ HeldOK(r.h, held) /\ Within(r.h, MaxBlocks)
         /\ r.b.array => r.b.second \in RefType /\ r.b.second.block \in Blocks
         /\ HeapOK(r.h, Plus(Plus(Others(zb, lists, held, deque.refs, z), RingOf(r.b)),
                             Kept(zb[z], ref)))
<1> DEFINE b == zb[z]
           K == Others(zb, lists, held, deque.refs, z)
           n == MaxBlocks + 1
<1>1. /\ BuffersOK(zb) /\ zb \in [Buffers -> BufferType] /\ todo \in [Threads -> Seq(Items)]
      /\ held \in [Threads -> RefType]
  BY DEF Quiet, BuffersOK, HeldOK
<1>2. /\ K \in Loads
      /\ \A c \in Blocks : K[c] \in Nat /\ K[c] >= Places(c, Hands(lists, held))
  <2> DEFINE bl == [ListsOf(zb) EXCEPT ![z] = BlocksOf(Refs(zb[z]))]
             hl == Hands(lists, held)
             dl == BlocksOf(deque.refs)
  <2>1. /\ K \in Loads
        /\ \A c \in Blocks : /\ K[c] = Places(c, bl) + Places(c, hl) + Times(c, dl)
                             /\ Places(c, bl) \in Nat /\ Places(c, hl) \in Nat
                             /\ Times(c, dl) \in Nat
    BY <1>1, OthersAre
  <2> HIDE DEF K, bl, hl, dl
  <2>2. ASSUME NEW c \in Blocks PROVE K[c] \in Nat /\ K[c] >= Places(c, hl)
    <3> DEFINE k == K[c]
               u == Places(c, bl)
               v == Places(c, hl)
               w == Times(c, dl)
    <3>1. k = u + v + w /\ u \in Nat /\ v \in Nat /\ w \in Nat
      BY <2>1
    <3> HIDE DEF k, u, v, w
    <3>2. k \in Nat /\ k >= v
      BY <3>1
    <3> QED
      BY <3>2 DEF k, v
  <2> QED
    BY <2>1, <2>2 DEF hl
<1>3. HeapOK(h, Plus(Plus(K, RingOf(b)), Coming(ref, moved)))
  <2>1. Splits(zb, todo, held, deque.refs, z, lists, ref, moved)
    BY <1>1, RingApart
  <2> QED
    BY <2>1 DEF Splits
<1>4. /\ b \in BufferType
      /\ b.array => b.second.block \in Blocks
      /\ ~ b.array /\ b.first.block = Null => b.second.block = Null
  BY <1>1 DEF BuffersOK, BufferOK, RingOK
<1>5. Reach(h, K, ref, moved)
  <2>1. CASE moved \/ ref.block \in InCache(h.cache)
    BY <2>1 DEF Reach
  <2>2. CASE \E y \in Buffers \ {z} : Times(ref.block, BlocksOf(Refs(zb[y]))) > 0
    <3>1. PICK y \in Buffers \ {z} : Times(ref.block, BlocksOf(Refs(zb[y]))) > 0
      BY <2>2
    <3>2. K[ref.block] > 0
      <4>1. y \in Buffers /\ y # z
        OBVIOUS
      <4> QED
        BY <1>1, <3>1, <4>1, OthersKnow
    <3> QED
      BY <3>2 DEF Reach
  <2> QED
    BY <2>1, <2>2 DEF Known
<1>6. Within(h, n) /\ n + 2 \in Blocks /\ MaxBlocks \in Nat
  BY SizesAssumption DEF Blocks
<1> HIDE DEF K, n
<1>7. AppendIs(h, r, K, b, ref, n + 2)
  <2> HIDE DEF b
  <2>2. r = AppendRef(h, t, b, ref, moved)
    BY DEF b
  <2> QED
    BY <1>2, <1>3, <1>4, <1>5, <1>6, <2>2, AppendRefHeap
<1>8. /\ HeapOK(r.h, Plus(Plus(K, RingOf(r.b)), Kept(b, ref))) /\ Keeps(h, r.h, K)
      /\ r.b.array => r.b.second \in RefType /\ r.b.second.block \in Blocks
  BY <1>7 DEF AppendIs, Goes
<1>9. InOrder(r.h)
  <2>1. Plus(Plus(K, RingOf(r.b)), Kept(b, ref)) \in Loads
    BY <1>2, PlusIs
  <2> QED
    BY <1>8, <2>1 DEF InOrder
<1>10. HeldOK(r.h, held)
  <2>1. \A u \in Threads : held[u] # NoRef => K[held[u].block] > 0
    BY <1>2, HeldCounted
  <2> QED
    BY <1>8, <2>1, HeldStays
<1>11. Within(r.h, MaxBlocks)
  BY <1>6 DEF Within, Bounded
<1> QED
  BY <1>8, <1>9, <1>10, <1>11 DEF K

\* The whole after append_ref, unless the ring was scrambled
LEMMA GoodAppended ==
  ASSUME NEW h, Quiet(zb, call, todo), HeldOK(h, held), deque.refs \in Seq(RefType),
         HeapOK(h, Outside(zb, todo, held, deque.refs)), Within(h, MaxBlocks + 1),
         NEW t \in Threads, NEW z \in Buffers, NEW ref \in RefType, ref.block \in Blocks,
         NEW moved \in BOOLEAN, NEW lists \in [Threads -> Seq(Items)], OnlyAt(todo, lists, t),
         Brings(todo[t], lists[t], ref, moved), Known(h, z, ref, moved),
         NEW r, r = AppendRef(h, t, zb[z], ref, moved), RingBounded(r.b), Bounded(r.h),
         ~ Scrambled(zb[z], r.b),
         NEW calls \in [Threads -> CallType], OnlyAt(call, calls, t), CallOK(calls[t], lists[t]),
         TodoOK(lists[t], [zb EXCEPT ![z] = r.b]),
         Claims(call, todo, t, {z} \cup BusyOf(calls[t], lists[t]))
  PROVE  Good(r.h, [zb EXCEPT ![z] = r.b], calls, lists, held, deque.refs)
<1> DEFINE b == zb[z]
           new == [zb EXCEPT ![z] = r.b]
           K == Others(zb, lists, held, deque.refs, z)
<1>1. /\ BuffersOK(zb) /\ zb \in [Buffers -> BufferType] /\ todo \in [Threads -> Seq(Items)]
      /\ held \in [Threads -> RefType] /\ BufferOK(b)
  BY DEF Quiet, BuffersOK, HeldOK
<1>2. /\ HeldOK(r.h, held) /\ Within(r.h, MaxBlocks)
      /\ r.b.array => r.b.second \in RefType /\ r.b.second.block \in Blocks
      /\ HeapOK(r.h, Plus(Plus(K, RingOf(r.b)), Kept(b, ref)))
  BY HeapAppended
<1>3. Appended(b, r.b, ref, Stores(b, ref))
  <2> HIDE DEF b
  <2>1. r = AppendRef(h, t, b, ref, moved) /\ ~ Scrambled(b, r.b)
    BY DEF b
  <2> QED
    BY <1>1, <1>2, <2>1, AppendRefBuffer
<1>4. BufferOK(r.b) /\ r.b \in BufferType
  BY <1>3 DEF Appended, BufferOK
<1>5. BuffersOK(new) /\ new[z] = r.b /\ OnlyAt(zb, new, z) /\ \A y \in Buffers \ {z} : new[y] = zb[y]
  BY <1>1, <1>4 DEF BuffersOK, OnlyAt
<1> HIDE DEF b, new
<1>6. Quiet(new, calls, lists)
  <2> DEFINE Z == {z}
  <2>1. Z \in SUBSET Buffers /\ \A y \in Buffers \ Z : new[y] = zb[y]
    BY <1>5
  <2>2. Claims(call, todo, t, Z \cup BusyOf(calls[t], lists[t]))
    OBVIOUS
  <2> HIDE DEF Z
  <2>3. TodoOK(lists[t], new)
    BY DEF new
  <2> QED
    BY <1>5, <2>1, <2>2, <2>3, QuietStep
<1>7. Outside(new, lists, held, deque.refs) = Plus(Plus(K, RingOf(new[z])), Kept(zb[z], ref))
  <2>1. Appended(zb[z], new[z], ref, Stores(zb[z], ref))
    BY <1>3, <1>5 DEF b
  <2>2. Joins(zb, lists, held, deque.refs, z, new, ref)
    BY <1>1, <1>5, <2>1, RingTogether
  <2> QED
    BY <1>1, <1>5, <2>1, <2>2, RingTogether DEF Joins
<1>8. Good(r.h, new, calls, lists, held, deque.refs)
  <2>1. HeapOK(r.h, Outside(new, lists, held, deque.refs))
    BY <1>2, <1>5, <1>7 DEF b
  <2> QED
    BY <1>2, <1>6, <2>1 DEF Good
<1> QED
  BY <1>8 DEF new

\* What is copied is still there when another buffer changes.
LEMMA TodoStays ==
  ASSUME NEW items, BuffersOK(zb), TodoOK(items, zb), NEW z \in Buffers,
         \A i \in 1 .. Len(items) : ~ items[i].moved => items[i].src # z, NEW b
  PROVE  TodoOK(items, [zb EXCEPT ![z] = b])
<1> DEFINE new == [zb EXCEPT ![z] = b]
<1>1. \A y \in Buffers \ {z} : new[y] = zb[y]
  BY DEF BuffersOK
<1> HIDE DEF new
<1>2. ASSUME NEW i \in 1 .. Len(items)
      PROVE  /\ items[i].dst # nobuffer => items[i].ref.block \in Blocks
             /\ ~ items[i].moved => CopyOK(items[i], items, new)
  <2>1. /\ items[i].dst # nobuffer => items[i].ref.block \in Blocks
        /\ ~ items[i].moved => CopyOK(items[i], items, zb)
    BY DEF TodoOK
  <2>2. ASSUME ~ items[i].moved PROVE CopyOK(items[i], items, new)
    <3>1. CopyOK(items[i], items, zb) /\ items[i].src \in Buffers \ {z}
      BY <2>1, <2>2 DEF CopyOK
    <3>2. new[items[i].src] = zb[items[i].src]
      BY <1>1, <3>1
    <3> QED
      BY <3>1, <3>2 DEF CopyOK
  <2> QED
    BY <2>1, <2>2
<1>3. items \in Seq(Items)
  BY DEF TodoOK
<1> QED
  BY <1>2, <1>3 DEF TodoOK, new

LEMMA PutRefStep ==
  ASSUME GoodNow, NEW t \in Threads, PutRef(t)
  PROVE  InOrder(heap') /\ (broken' = {} => GoodNow')
<1> DEFINE items == todo[t]
           e == Head(items)
           rest == Tail(items)
           z == e.dst
           ref == e.ref
           r == AppendRef(heap, t, zb[z], ref, e.moved)
           F == Outside(zb, todo, held, deque.refs)
<1>1. /\ items # <<>> /\ z # nobuffer /\ heap' = r.h /\ Bounded(r.h) /\ RingBounded(r.b)
      /\ zb' = [zb EXCEPT ![z] = r.b] /\ todo' = [todo EXCEPT ![t] = rest]
      /\ broken' = IF Scrambled(zb[z], r.b) THEN broken \cup {z} ELSE broken
      /\ UNCHANGED <<call, held, deque>>
  BY DEF PutRef
<1>2. /\ BuffersOK(zb) /\ call \in [Threads -> CallType] /\ todo \in [Threads -> Seq(Items)]
      /\ held \in [Threads -> RefType] /\ deque.refs \in Seq(RefType)
      /\ HeldOK(heap, held) /\ Within(heap, MaxBlocks) /\ HeapOK(heap, F)
      /\ Quiet(zb, call, todo)
  BY GoodParts DEF GoodNow, Good
<1>3. /\ e \in Items /\ rest \in Seq(Items) /\ TodoOK(rest, zb) /\ CallOK(call[t], rest)
      /\ z \in BusyOf(call[t], items)
      /\ BusyOf(call[t], rest) \subseteq BusyOf(call[t], items)
      /\ ref.block \in Blocks
      /\ (~ e.moved => CopyOK(e, items, zb) /\ e.src # z)
      /\ \A i \in 1 .. Len(rest) : ~ rest[i].moved => rest[i].src # z
  BY <1>1, NextItem
<1>4. z \in Buffers /\ ref \in RefType /\ e.moved \in BOOLEAN
  BY <1>1, <1>3 DEF Items, Targets
<1>5. /\ todo' \in [Threads -> Seq(Items)] /\ todo'[t] = rest /\ OnlyAt(todo, todo', t)
      /\ OnlyAt(call, call, t)
  BY <1>1, <1>2, <1>3 DEF OnlyAt
<1>6. Brings(todo[t], todo'[t], ref, e.moved)
  <2>1. \A c \in Blocks : Times(c, Moving(items))
                          = One(c \in Coming(ref, e.moved)) + Times(c, Moving(rest))
    BY <1>1, <1>2, MovingTail, Zenon
  <2> QED
    BY <1>5, <2>1 DEF Brings
<1>7. Known(heap, z, ref, e.moved)
  BY <1>3 DEF Known, CopyOK
<1>8. Within(heap, MaxBlocks + 1)
  BY <1>2, SizesAssumption DEF Within
<1>9. Claims(call, todo, t, {z} \cup BusyOf(call[t], todo'[t]))
  BY <1>3, <1>5 DEF Claims
<1>10. TodoOK(todo'[t], [zb EXCEPT ![z] = r.b]) /\ CallOK(call[t], todo'[t])
  BY <1>2, <1>3, <1>4, <1>5, TodoStays
<1> HIDE DEF F, items, e, rest, z, ref
<1> DEFINE moved == e.moved
<1>11. HeapOK(heap, Outside(zb, todo, held, deque.refs))
  BY <1>2 DEF F
<1>12. InOrder(r.h)
  <2>1. r = AppendRef(heap, t, zb[z], ref, moved)
    OBVIOUS
  <2>2. Brings(todo[t], todo'[t], ref, moved) /\ Known(heap, z, ref, moved) /\ moved \in BOOLEAN
    BY <1>4, <1>6, <1>7
  <2> HIDE DEF r, moved
  <2> QED
    BY <1>1, <1>2, <1>3, <1>4, <1>5, <1>8, <1>11, <2>1, <2>2, HeapAppended
<1>13. ASSUME ~ Scrambled(zb[z], r.b)
       PROVE  Good(r.h, [zb EXCEPT ![z] = r.b], call, todo', held, deque.refs)
  <2>1. r = AppendRef(heap, t, zb[z], ref, moved)
    OBVIOUS
  <2>2. Brings(todo[t], todo'[t], ref, moved) /\ Known(heap, z, ref, moved) /\ moved \in BOOLEAN
    BY <1>4, <1>6, <1>7
  <2> HIDE DEF r, moved
  <2> QED
    BY <1>1, <1>2, <1>3, <1>4, <1>5, <1>8, <1>9, <1>10, <1>11, <1>13, <2>1, <2>2, GoodAppended
<1> QED
  BY <1>1, <1>12, <1>13 DEF GoodNow

\* What append writes into the head block
HasRoom(h, b, n) == n \in Nat /\ n <= LeftSpace(h, b)
Bytes(data, n) == \A i \in 1 .. n : data[i] \in Nat
ChunkRef(h, b, n) == [block |-> b, offset |-> h.block[b].offset, length |-> n]
WithChunk(h, b, n, data) ==
    [Write(h, ChunkRef(h, b, n), data) EXCEPT !.block[b].offset = RoundUp(@ + n)]

LEMMA ChunkWrites ==
  ASSUME NEW h, NEW F \in Loads, HeapOK(h, F), NEW b \in Blocks, b \in InCache(h.cache),
         NEW n, HasRoom(h, b, n), NEW data, Bytes(data, n),
         NEW ref, ref = ChunkRef(h, b, n), NEW g, g = WithChunk(h, b, n, data)
  PROVE  /\ ref \in RefType /\ ref.block = b
         /\ HeapOK(g, F) /\ Keeps(h, g, F) /\ g.live = h.live /\ g.cache = h.cache
<1> DEFINE x == h.block[b]
           o == RoundUp(x.offset + n)
<1>1. b \in h.live /\ x \in BlockType
  BY HeapOKParts
<1>2. Sound(x)
  BY <1>1, HeapOKParts
<1>3. LeftSpace(h, b) = x.capacity - x.offset
  BY DEF LeftSpace
<1>4. n \in Nat /\ n <= LeftSpace(h, b)
  BY DEF HasRoom
<1> HIDE DEF x
<1>5. x.offset \in Nat /\ x.capacity \in Nat /\ x.capacity % Align = 0
  BY <1>1, <1>2 DEF BlockType, Sound
<1>6. x.offset + n \in Nat /\ x.offset + n <= x.capacity
  BY <1>3, <1>4, <1>5
<1>7. o \in Nat /\ x.offset + n <= o /\ o <= x.capacity
  <2> DEFINE m == x.offset + n
             cap == x.capacity
  <2>1. m \in Nat /\ cap \in Nat /\ m <= cap /\ cap % Align = 0
    BY <1>5, <1>6
  <2> HIDE DEF m, cap
  <2>2. RoundUp(m) \in Nat /\ m <= RoundUp(m) /\ RoundUp(m) <= cap
    BY <2>1, RoundUpFits
  <2> QED
    BY <2>2 DEF m, cap
<1>8. ref \in RefType /\ ref.block = b /\ ref.offset = x.offset /\ ref.length = n
  BY <1>4, <1>5 DEF RefType, ChunkRef, x
<1> HIDE DEF o
<1>9. Takes(h, ref, data, o)
  BY <1>1, <1>4, <1>7, <1>8 DEF Takes, Bytes, x
<1>10. g = Wrote(h, ref, data, o)
  <2> DEFINE w == Write(h, ref, data)
  <2>1. h \in Heaps /\ h.block \in [Blocks -> BlockType]
    BY HeapOKParts DEF HeapOK
  <2>2. w.block[b].offset = x.offset
    <3>1. w.block = [h.block EXCEPT ![b] = Written(@, ref, data)]
      BY <1>8, <2>1 DEF Write, Heaps
    <3>2. w.block[b] = Written(x, ref, data)
      BY <2>1, <3>1 DEF x
    <3> QED
      BY <1>1, <3>2 DEF Written, BlockType
  <2>3. w.block \in [Blocks -> {w.block[c] : c \in Blocks}]
    <3>1. w.block = [h.block EXCEPT ![b] = Written(@, ref, data)]
      BY <1>8, <2>1 DEF Write, Heaps
    <3> QED
      BY <2>1, <3>1
  <2> HIDE DEF w
  <2>4. [w EXCEPT !.block[b].offset = RoundUp(@ + n)]
        = [w EXCEPT !.block[b].offset = RoundUp(w.block[b].offset + n)]
    OBVIOUS
  <2>5. g = [w EXCEPT !.block[b].offset = RoundUp(@ + n)]
    BY DEF WithChunk, w
  <2>6. Wrote(h, ref, data, o) = [w EXCEPT !.block[b].offset = o]
    BY <1>8 DEF Wrote, w
  <2>7. RoundUp(w.block[b].offset + n) = o
    BY <2>2 DEF o
  <2> QED
    BY <2>4, <2>5, <2>6, <2>7
<1>11. HeapOK(g, F) /\ g.live = h.live /\ g.cache = h.cache
  <2> DEFINE k == Wrote(h, ref, data, o)
  <2>1. HeapOK(k, F) /\ k.live = h.live /\ k.cache = h.cache
    BY <1>9, WroteKeeps
  <2> HIDE DEF k
  <2>2. g = k
    BY <1>10 DEF k
  <2> QED
    BY <2>1, <2>2
<1>12. Keeps(h, g, F)
  <2> DEFINE k == Wrote(h, ref, data, o)
  <2>1. ref.block \in InCache(h.cache)
    BY <1>8
  <2>2. Keeps(h, k, F)
    BY <1>9, <2>1, WroteKeeps
  <2> QED
    BY <1>10, <2>2
<1> QED
  BY <1>8, <1>11, <1>12

\* What is left of append's call
CallLeft(c, n) ==
    IF n = Len(c.data) THEN NoCall ELSE [c EXCEPT !.data = SubSeq(@, n + 1, Len(@))]

LEMMA CallGoesOn ==
  ASSUME NEW c \in CallType, c.op = "append", CallOK(c, <<>>), NEW n \in Nat
  PROVE  /\ CallLeft(c, n) \in CallType /\ CallOK(CallLeft(c, n), <<>>)
         /\ CallLeft(c, n).dst \in {nobuffer, c.dst}
<1>1. c.data \in Seq(Nat)
  BY DEF CallType
<1>2. SubSeq(c.data, n + 1, Len(c.data)) \in Seq(Nat)
  <2> DEFINE s == c.data
  <2> HIDE DEF s
  <2>1. s \in Seq(Nat)
    BY <1>1 DEF s
  <2>2. SubSeq(s, n + 1, Len(s)) \in Seq(Nat)
    BY <2>1
  <2> QED
    BY <2>2 DEF s
<1> DEFINE d == SubSeq(c.data, n + 1, Len(c.data))
           k == [c EXCEPT !.data = d]
<1>3. d \in Seq(Nat)
  BY <1>2
<1>4. [c EXCEPT !.data = SubSeq(@, n + 1, Len(@))] = k
  OBVIOUS
<1> HIDE DEF d
<1>5. k \in CallType /\ k.op = c.op /\ k.dst = c.dst
  BY <1>3 DEF CallType
<1> HIDE DEF k
<1>6. CallOK(k, <<>>)
  BY <1>5 DEF CallOK
<1> QED
  BY <1>4, <1>5, <1>6, NoCallOK DEF CallLeft

LEMMA AppendChunkStep ==
  ASSUME GoodNow, NEW t \in Threads, AppendChunk(t)
  PROVE  InOrder(heap') /\ (broken' = {} => GoodNow')
<1> DEFINE c == call[t]
           z == c.dst
           h == AcquireBlock(heap, t)
           b == Head(h.cache[t])
           n == MinOf(Len(c.data), LeftSpace(h, b))
           ref == [block |-> b, offset |-> h.block[b].offset, length |-> n]
           g == [Write(h, ref, c.data) EXCEPT !.block[b].offset = RoundUp(@ + n)]
           r == AppendRef(g, t, zb[z], ref, FALSE)
           F == Outside(zb, todo, held, deque.refs)
<1>1. /\ c.op = "append" /\ heap' = r.h /\ Bounded(r.h) /\ RingBounded(r.b)
      /\ zb' = [zb EXCEPT ![z] = r.b]
      /\ broken' = IF Scrambled(zb[z], r.b) THEN broken \cup {z} ELSE broken
      /\ call' = [call EXCEPT ![t] = CallLeft(c, n)]
      /\ UNCHANGED <<todo, held, deque>>
  BY DEF AppendChunk, CallLeft
<1>2. /\ BuffersOK(zb) /\ call \in [Threads -> CallType] /\ todo \in [Threads -> Seq(Items)]
      /\ held \in [Threads -> RefType] /\ deque.refs \in Seq(RefType)
      /\ HeldOK(heap, held) /\ Within(heap, MaxBlocks) /\ F \in Loads /\ HeapOK(heap, F)
      /\ Quiet(zb, call, todo) /\ CallOK(c, todo[t])
  BY GoodParts DEF GoodNow, Good
<1>3. c \in CallType /\ z \in Buffers /\ todo[t] = <<>> /\ c.data \in Seq(Nat)
  BY <1>1, <1>2 DEF CallOK, CallType
<1>4. \A u \in Threads : held[u] # NoRef => F[held[u].block] > 0
  <2>1. \A x \in Blocks : F[x] \in Nat /\ F[x] >= Places(x, Hands(todo, held))
    BY <1>2, OutsideIs DEF F
  <2> QED
    BY <1>2, <2>1, HeldCounted
<1>5. MaxBlocks \in Nat /\ MaxBlocks + 1 \in Blocks
  BY SizesAssumption DEF Blocks
<1> HIDE DEF F, c, z
<1>6. /\ HeapOK(h, F) /\ Keeps(heap, h, F) /\ Within(h, MaxBlocks + 1)
      /\ h.cache[t] # <<>> /\ b \in InCache(h.cache)
  BY <1>2, <1>5, AcquireBlockKeeps
<1> HIDE DEF h, b
<1>7. b \in Blocks
  BY <1>6 DEF InCache
<1>8. n \in Nat /\ HasRoom(h, b, n) /\ n <= Len(c.data)
  <2>1. LeftSpace(h, b) \in Nat
    <3> DEFINE x == h.block[b]
    <3>1. b \in h.live /\ x \in BlockType
      BY <1>2, <1>6, <1>7, HeapOKParts
    <3>2. Sound(x)
      BY <1>2, <1>6, <1>7, <3>1, HeapOKParts
    <3>3. LeftSpace(h, b) = x.capacity - x.offset
      BY DEF LeftSpace
    <3> HIDE DEF x
    <3>4. x.offset \in Nat /\ x.capacity \in Nat /\ x.offset <= x.capacity
      BY <3>1, <3>2 DEF BlockType, Sound
    <3> QED
      BY <3>3, <3>4
  <2>2. Len(c.data) \in Nat
    BY <1>3
  <2> QED
    BY <2>1, <2>2 DEF MinOf, HasRoom
<1>9. \A i \in 1 .. n : c.data[i] \in Nat
  <2> DEFINE s == c.data
  <2>1. s \in Seq(Nat) /\ n <= Len(s)
    BY <1>3, <1>8
  <2> HIDE DEF s, n
  <2>2. \A i \in 1 .. n : s[i] \in Nat
    BY <1>8, <2>1
  <2> QED
    BY <2>2 DEF s
<1> HIDE DEF n
<1>10. /\ ref \in RefType /\ ref.block = b
       /\ HeapOK(g, F) /\ Keeps(h, g, F) /\ g.live = h.live /\ g.cache = h.cache
  <2> DEFINE data == c.data
  <2>1. Bytes(data, n)
    BY <1>9 DEF Bytes
  <2>2. g = WithChunk(h, b, n, data)
    BY DEF WithChunk, ChunkRef
  <2>3. ref = ChunkRef(h, b, n)
    BY DEF ChunkRef
  <2> HIDE DEF g, ref, data
  <2> QED
    BY <1>2, <1>6, <1>7, <1>8, <2>1, <2>2, <2>3, ChunkWrites
<1> HIDE DEF g, ref
<1>11. Keeps(heap, g, F)
  BY <1>2, <1>6, <1>10, KeepsOn, OKHeap
<1>12. HeldOK(g, held) /\ Within(g, MaxBlocks + 1)
  BY <1>2, <1>4, <1>6, <1>10, <1>11, HeldStays DEF Within
<1>13. Known(g, z, ref, FALSE) /\ ref.block \in Blocks
  BY <1>6, <1>7, <1>10 DEF Known
<1>14. OnlyAt(todo, todo, t) /\ Brings(todo[t], todo[t], ref, FALSE)
  <2>1. ASSUME NEW x \in Blocks
        PROVE  Times(x, Moving(todo[t])) = One(x \in Coming(ref, FALSE)) + Times(x, Moving(todo[t]))
    <3> DEFINE i == One(x \in Coming(ref, FALSE))
               m == Times(x, Moving(todo[t]))
    <3>1. i = 0
      BY DEF One, Coming
    <3>2. m = 0
      BY <1>3, NoItems, TimesOfNone
    <3> HIDE DEF i, m
    <3>3. m = i + m
      BY <3>1, <3>2
    <3> QED
      BY <3>3 DEF i, m
  <2> QED
    BY <2>1 DEF Brings, OnlyAt
<1>15. /\ CallLeft(c, n) \in CallType /\ CallOK(CallLeft(c, n), <<>>)
       /\ CallLeft(c, n).dst \in {nobuffer, z}
  BY <1>1, <1>2, <1>3, <1>8, CallGoesOn DEF z
<1>16. /\ call' \in [Threads -> CallType] /\ call'[t] = CallLeft(c, n) /\ OnlyAt(call, call', t)
  BY <1>1, <1>2, <1>15 DEF OnlyAt
<1>17. CallOK(call'[t], todo[t]) /\ TodoOK(todo[t], [zb EXCEPT ![z] = r.b])
  <2>1. TodoOK(<<>>, [zb EXCEPT ![z] = r.b])
    BY NoItems, MovedOK
  <2> QED
    BY <1>3, <1>15, <1>16, <2>1
<1>18. Claims(call, todo, t, {z} \cup BusyOf(call'[t], todo[t]))
  <2> DEFINE S == {nobuffer, z}
  <2>1. BusyOf(call'[t], todo[t]) \subseteq S
    <3>1. call'[t].dst \in S
      BY <1>15, <1>16
    <3>2. Uses(todo[t], S) /\ todo[t] \in Seq(Items)
      BY <1>3, NoItems
    <3> HIDE DEF S
    <3> QED
      BY <3>1, <3>2, BusyIn
  <2>2. z \in BusyOf(call[t], todo[t])
    BY DEF BusyOf, c, z
  <2> QED
    BY <2>1, <2>2 DEF Claims
<1>19. HeapOK(g, Outside(zb, todo, held, deque.refs)) /\ FALSE \in BOOLEAN
  BY <1>10 DEF F
<1> DEFINE moved == FALSE
<1>20. InOrder(r.h)
  <2>1. r = AppendRef(g, t, zb[z], ref, moved) /\ moved \in BOOLEAN
        /\ Known(g, z, ref, moved) /\ Brings(todo[t], todo[t], ref, moved)
    BY <1>13, <1>14
  <2> HIDE DEF r, moved
  <2> QED
    BY <1>1, <1>2, <1>3, <1>10, <1>12, <1>13, <1>14, <1>19, <2>1, HeapAppended
<1>21. ASSUME ~ Scrambled(zb[z], r.b)
       PROVE  Good(r.h, [zb EXCEPT ![z] = r.b], call', todo, held, deque.refs)
  <2>1. r = AppendRef(g, t, zb[z], ref, moved) /\ moved \in BOOLEAN
        /\ Known(g, z, ref, moved) /\ Brings(todo[t], todo[t], ref, moved)
    BY <1>13, <1>14
  <2> HIDE DEF r, moved
  <2>2. /\ Quiet(zb, call, todo) /\ HeldOK(g, held) /\ deque.refs \in Seq(RefType)
        /\ HeapOK(g, Outside(zb, todo, held, deque.refs)) /\ Within(g, MaxBlocks + 1)
        /\ z \in Buffers /\ ref \in RefType /\ ref.block \in Blocks
        /\ todo \in [Threads -> Seq(Items)] /\ OnlyAt(todo, todo, t)
        /\ RingBounded(r.b) /\ Bounded(r.h) /\ ~ Scrambled(zb[z], r.b)
    BY <1>1, <1>2, <1>3, <1>10, <1>12, <1>13, <1>14, <1>19, <1>21
  <2> QED
    BY <1>16, <1>17, <1>18, <2>1, <2>2, GoodAppended
<1> QED
  BY <1>1, <1>20, <1>21 DEF GoodNow

\* A slot that was never stored to is as if it had been given back.
LEMMA UnsetFilled ==
  ASSUME NEW b, BufferOK(b), b.array, b.num = 0
  PROVE  LET j == Index(b, -1)
             c == [b EXCEPT !.slots[j] = NoRef]
         IN BufferOK(c) /\ RingOf(c) = RingOf(b) /\ Refs(c) = <<>> /\ Refs(b) = <<>>
<1> DEFINE j == Index(b, -1)
           s == [b.slots EXCEPT ![j] = NoRef]
           c == [b EXCEPT !.slots = s]
<1>1. /\ b \in BufferType /\ b.slots \in Seq(RefType) /\ DOMAIN b.slots = 1 .. Len(b.slots)
      /\ j \in 1 .. Len(b.slots) /\ Len(b.slots) \in Nat
  BY RingFacts
<1>2. [b EXCEPT !.slots[j] = NoRef] = c
  OBVIOUS
<1>3. NoRef \in RefType /\ NoRef.block = Null
  BY EmptyIs
<1> HIDE DEF j
<1>4. s \in Seq(RefType) /\ Len(s) = Len(b.slots) /\ s[j] = NoRef
      /\ \A i \in 1 .. Len(b.slots) : i # j => s[i] = b.slots[i]
  BY <1>1, <1>3
<1> HIDE DEF s
<1>5. /\ c \in BufferType /\ c.slots = s /\ c.array = b.array /\ c.second = b.second
      /\ c.begin = b.begin /\ c.num = b.num /\ c.first = b.first
  BY <1>1, <1>4 DEF BufferType
<1> HIDE DEF c
<1>6. Window(b) = {} /\ Window(c) = {}
  <2>1. \A i \in 0 .. 0 - 1 : FALSE
    OBVIOUS
  <2>2. 0 .. b.num - 1 = {} /\ 0 .. c.num - 1 = {}
    BY <1>5, <2>1
  <2> QED
    BY <2>2 DEF Window
<1>7. \A i \in 1 .. Len(s) : s[i].block = Null
  <2>1. \A i \in 1 .. Len(b.slots) : b.slots[i].block = Null
    BY <1>6 DEF BufferOK, RingOK
  <2> QED
    BY <1>3, <1>4, <2>1
<1>8. BufferOK(c)
  BY <1>4, <1>5, <1>6, <1>7 DEF BufferOK, RingOK
<1>9. RingOf(c) = RingOf(b)
  BY <1>5 DEF RingOf
<1>10. Refs(b) = <<>> /\ Refs(c) = <<>>
  <2>1. Refs(b) \in Seq(RefType) /\ Len(Refs(b)) = 0
    BY RefsAre
  <2>2. Refs(c) \in Seq(RefType) /\ Len(Refs(c)) = 0
    BY <1>5, <1>8, RefsAre
  <2> QED
    BY <2>1, <2>2
<1> QED
  BY <1>2, <1>8, <1>9, <1>10 DEF c, j

LEMMA NowInOrder ==
  ASSUME GoodNow
  PROVE  InOrder(heap)
BY GoodParts DEF InOrder

LEMMA PutIntoUnsetStep ==
  ASSUME GoodNow, NEW t \in Threads, PutIntoUnset(t)
  PROVE  InOrder(heap') /\ (broken' = {} => GoodNow')
<1> DEFINE z == IF todo[t] # <<>> THEN Head(todo[t]).dst ELSE call[t].dst
           b == zb[z]
           j == Index(b, -1)
           c == [b EXCEPT !.slots[j] = NoRef]
<1>1. /\ z # nobuffer /\ ReadsUnset(b) /\ UNCHANGED <<heap, call, todo, held, deque>>
      /\ \/ broken' = broken \cup {z} /\ zb' = zb
         \/ zb' = [zb EXCEPT ![z].slots[j] = NoRef] /\ broken' = broken
  BY DEF PutIntoUnset
<1>2. InOrder(heap')
  BY <1>1, NowInOrder
<1>3. ASSUME zb' = [zb EXCEPT ![z].slots[j] = NoRef]
      PROVE  GoodNow'
  <2>1. /\ BuffersOK(zb) /\ zb \in [Buffers -> BufferType] /\ \A y \in Buffers : BufferOK(zb[y])
        /\ call \in [Threads -> CallType] /\ todo \in [Threads -> Seq(Items)]
        /\ deque.refs \in Seq(RefType) /\ CallOK(call[t], todo[t]) /\ TodoOK(todo[t], zb)
    BY GoodParts
  <2>2. z \in Buffers /\ z \in BusyOf(call[t], todo[t])
    <3>1. CASE todo[t] # <<>>
      <4>1. Head(todo[t]) \in Items /\ Head(todo[t]).dst \in BusyOf(call[t], todo[t])
        BY <3>1, NextItem
      <4> QED
        BY <1>1, <3>1, <4>1 DEF Items, Targets
    <3>2. CASE todo[t] = <<>>
      <4>1. z = call[t].dst /\ call[t] \in CallType
        BY <2>1, <3>2
      <4> QED
        BY <1>1, <4>1 DEF CallType, Targets, BusyOf
    <3> QED
      BY <3>1, <3>2
  <2> HIDE DEF z
  <2>3. b.array /\ b.num = 0 /\ BufferOK(b)
    BY <1>1, <2>1, <2>2 DEF ReadsUnset
  <2>4. zb' = [zb EXCEPT ![z] = c]
    BY <1>3
  <2> HIDE DEF b
  <2>5. BufferOK(c) /\ RingOf(c) = RingOf(b) /\ Refs(c) = <<>> /\ Refs(b) = <<>>
    BY <2>3, UnsetFilled
  <2> HIDE DEF c
  <2>6. /\ BuffersOK(zb') /\ zb'[z] = c /\ OnlyAt(zb, zb', z)
        /\ \A y \in Buffers : Refs(zb'[y]) = Refs(zb[y])
    <3>1. c \in BufferType
      BY <2>5 DEF BufferOK
    <3> QED
      BY <2>1, <2>2, <2>4, <2>5, <3>1 DEF BuffersOK, OnlyAt, b
  <2>7. TodoOK(todo[t], zb')
    <3>1. \A i \in 1 .. Len(todo[t]) :
             CopyOK(todo[t][i], todo[t], zb) => CopyOK(todo[t][i], todo[t], zb')
      BY <2>6 DEF CopyOK
    <3> QED
      BY <2>1, <3>1 DEF TodoOK
  <2>8. Balanced(zb[z], todo[t], held[t], deque.refs, zb'[z], todo[t], deque.refs)
    <3>1. \A x : Yours(x, zb'[z]) = Yours(x, zb[z])
      BY <2>5, <2>6 DEF Yours, b
    <3> QED
      BY <3>1 DEF Balanced
  <2>9. Claims(call, todo, t, {z} \cup BusyOf(call[t], todo[t]))
    BY <2>2 DEF Claims
  <2>10. OnlyAt(todo, todo, t) /\ Good(heap, zb, call, todo, held, deque.refs)
    BY DEF OnlyAt, GoodNow
  <2>11. Good(heap, zb', call, todo, held, deque.refs)
    BY <2>1, <2>2, <2>6, <2>7, <2>8, <2>9, <2>10, CallTakes
  <2> QED
    BY <1>1, <2>11 DEF GoodNow
<1>4. broken' = {} => GoodNow'
  BY <1>1, <1>3
<1> QED
  BY <1>2, <1>4

LEMMA ThreadExitStep ==
  ASSUME GoodNow, NEW t \in Threads, ThreadExit(t)
  PROVE  GoodNow'
BY DEF ThreadExit, GoodNow

-----------------------------------------------------------------------------
(* The inductive invariant *)

\* The blocks and the caches are in order: the counts fit some number of
\* references outside the caches, a block is in one cache, once.  As long as no
\* ring was broken that number is the one of the references that there are, in
\* the buffers, the calls and the deque, and the calls keep apart.
Inv == InOrder(heap) /\ (broken = {} => GoodNow /\ written \in Nat)

LEMMA NoBlocksOK ==
  ASSUME NEW F \in Loads, \A c \in Blocks : F[c] = 0
  PROVE  HeapOK(NoBlocks, F) /\ Within(NoBlocks, MaxBlocks) /\ NoBlocks.cache = [t \in Threads |-> <<>>]
<1>1. NoBlock \in BlockType /\ NoBlock.ref_num = 0
  <2> DEFINE n == 0
  <2>1. n \in Nat /\ n % Align = 0
    BY SizesAssumption
  <2> HIDE DEF n
  <2>2. EmptyBlock(n, n) \in BlockType /\ EmptyBlock(n, n).ref_num = n
    BY <2>1, EmptyBlockFits
  <2> QED
    BY <2>2 DEF NoBlock, n
<1> DEFINE block == [b \in Blocks |-> NoBlock]
           cache == [t \in Threads |-> <<>>]
           number == [t \in Threads |-> 0]
<1>2. NoBlocks = HeapOf({}, block, cache, number, {})
  BY DEF NoBlocks, HeapOf
<1>3. /\ block \in [Blocks -> BlockType] /\ \A c \in Blocks : block[c].ref_num = 0
      /\ cache \in Caches /\ number \in [Threads -> Nat]
      /\ \A u \in Threads : cache[u] = <<>> /\ number[u] = 0
  BY <1>1 DEF Caches
<1> HIDE DEF block, cache, number
<1>4. \A u \in Threads : Len(cache[u]) = 0 /\ DOMAIN cache[u] = {}
  BY <1>3
<1>5. Apart(cache) /\ InCache(cache) = {}
  BY <1>4 DEF Apart, InCache, InList
<1>6. PartsOK({}, block, cache, number, {}, F)
  <2>1. \A u \in Threads : number[u] >= Len(cache[u])
    BY <1>3, <1>4
  <2>2. \A c \in Blocks : /\ block[c].ref_num = F[c] + One(c \in InCache(cache)) + One(c \in {})
                          /\ c \in {} <=> block[c].ref_num > 0
    BY <1>3, <1>5 DEF One
  <2> QED
    BY <1>3, <1>5, <2>1, <2>2 DEF PartsOK
<1> DEFINE none == {}
<1>7. PartsOK(none, block, cache, number, none, F) /\ NoBlocks = HeapOf(none, block, cache, number, none)
  BY <1>2, <1>6
<1> HIDE DEF none
<1>8. HeapOK(NoBlocks, F) /\ NoBlocks.live = none /\ NoBlocks.cache = cache
  BY <1>7, HeapIsOK
<1>9. Within(NoBlocks, MaxBlocks)
  BY <1>8, SizesAssumption DEF Within, none
<1> QED
  BY <1>8, <1>9 DEF cache

LEMMA InitInv ==
  ASSUME Init
  PROVE  Inv
<1>1. /\ heap = NoBlocks /\ zb = [z \in Buffers |-> Empty] /\ call = [t \in Threads |-> NoCall]
      /\ todo = [t \in Threads |-> <<>>] /\ held = [t \in Threads |-> NoRef]
      /\ deque.refs = <<>> /\ written = 0
  BY DEF Init
<1>2. BuffersOK(zb) /\ \A z \in Buffers : zb[z] = Empty
  <2>1. Empty \in BufferType
    BY EmptyIs DEF BufferOK
  <2> QED
    BY <1>1, <2>1, EmptyIs DEF BuffersOK
<1>3. /\ todo \in [Threads -> Seq(Items)] /\ \A t \in Threads : todo[t] = <<>>
      /\ call \in [Threads -> CallType] /\ \A t \in Threads : call[t] = NoCall
      /\ held \in [Threads -> RefType] /\ \A t \in Threads : held[t] = NoRef
      /\ deque.refs \in Seq(RefType)
  <2>1. <<>> \in Seq(Items) /\ <<>> \in Seq(RefType) /\ NoCall \in CallType /\ NoRef \in RefType
    BY NoItems, NoCallOK, EmptyIs
  <2> QED
    BY <1>1, <2>1
<1> DEFINE F == Outside(zb, todo, held, deque.refs)
           bl == ListsOf(zb)
           hl == Hands(todo, held)
           dl == BlocksOf(deque.refs)
<1>4. /\ F \in Loads
      /\ \A c \in Blocks : F[c] = Places(c, bl) + Places(c, hl) + Times(c, dl)
  BY SMTT(60), <1>2, <1>3, OutsideIs
<1>5. ASSUME NEW c \in Blocks PROVE F[c] = 0
  <2>1. bl \in Lists(Buffers) /\ hl \in Lists(Threads)
        /\ (\A z \in Buffers : bl[z] = BufferList(zb[z]))
        /\ (\A t \in Threads : hl[t] = HandOf(todo[t], held[t]))
    BY <1>2, <1>3, ListsAre
  <2>2. \A z \in Buffers : Times(c, bl[z]) = 0
    <3>1. Times(c, BufferList(Empty)) = Times(c, BlocksOf(Refs(Empty))) + One(c \in RingOf(Empty))
      BY EmptyIs, BufferTimes
    <3>2. BlocksOf(<<>>) = <<>>
      BY DEF BlocksOf
    <3>3. Times(c, BlocksOf(Refs(Empty))) = 0 /\ One(c \in RingOf(Empty)) = 0
      BY <3>2, EmptyIs, TimesOfNone DEF One
    <3>4. Times(c, BufferList(Empty)) = 0
      BY <3>1, <3>3
    <3> QED
      BY <1>2, <2>1, <3>4
  <2>3. \A t \in Threads : Times(c, hl[t]) = 0
    <3> DEFINE items == <<>>
    <3>4. items \in Seq(Items) /\ NoRef \in RefType
      BY NoItems, EmptyIs
    <3> HIDE DEF items
    <3>5. Times(c, HandOf(items, NoRef)) = Times(c, Moving(items)) + One(NoRef.block = c)
      BY <3>4, HandTimes
    <3>1. Times(c, HandOf(<<>>, NoRef)) = Times(c, Moving(<<>>)) + One(NoRef.block = c)
      BY <3>5 DEF items
    <3>2. Times(c, Moving(<<>>)) = 0 /\ One(NoRef.block = c) = 0
      BY NoItems, TimesOfNone, EmptyIs DEF One, Null, Blocks
    <3>3. Times(c, HandOf(<<>>, NoRef)) = 0
      BY <3>1, <3>2
    <3> QED
      BY <1>3, <2>1, <3>3
  <2>4. Times(c, dl) = 0
    <3>1. dl = <<>>
      BY <1>1 DEF BlocksOf
    <3> QED
      BY <3>1, TimesOfNone
  <2> HIDE DEF bl, hl
  <2>5. Places(c, bl) = 0
    BY <2>1, <2>2, PlacesOfNone, BuffersAssumption
  <2>6. Places(c, hl) = 0
    BY <2>1, <2>3, PlacesOfNone, ThreadsAssumption
  <2> HIDE DEF F, dl
  <2> QED
    BY <1>4, <2>4, <2>5, <2>6
<1> HIDE DEF F
<1>6. HeapOK(heap, F) /\ Within(heap, MaxBlocks)
  BY <1>1, <1>4, <1>5, NoBlocksOK
<1>7. Quiet(zb, call, todo)
  <2>1. \A t \in Threads : CallOK(call[t], todo[t]) /\ TodoOK(todo[t], zb)
    <3>1. TodoOK(<<>>, zb)
      BY NoItems, MovedOK
    <3> QED
      BY <1>3, <3>1, NoCallOK
  <2>2. CallsApart(call, todo)
    <3> DEFINE S == {nobuffer}
    <3>1. BusyOf(NoCall, <<>>) \subseteq S
      <4>1. NoCall.dst \in S
        BY NoCallOK
      <4> HIDE DEF S
      <4> QED
        BY <4>1, NoItems, BusyIn
    <3> QED
      BY <1>3, <3>1 DEF CallsApart
  <2> QED
    BY <1>2, <1>3, <2>1, <2>2 DEF Quiet
<1>8. HeldOK(heap, held)
  BY <1>3 DEF HeldOK
<1>9. GoodNow
  BY <1>3, <1>6, <1>7, <1>8 DEF GoodNow, Good, F
<1> QED
  BY <1>1, <1>9, NowInOrder DEF Inv

LEMMA GoodInOrder ==
  ASSUME NEW h, NEW bufs, NEW calls, NEW lists, NEW refs, NEW dq,
         Good(h, bufs, calls, lists, refs, dq)
  PROVE  InOrder(h)
<1> DEFINE F == Outside(bufs, lists, refs, dq)
<1>1. /\ HeapOK(h, F) /\ BuffersOK(bufs) /\ lists \in [Threads -> Seq(Items)]
      /\ refs \in [Threads -> RefType] /\ dq \in Seq(RefType)
  BY DEF Good, Quiet, HeldOK
<1>2. F \in Loads
  BY <1>1, OutsideIs
<1> HIDE DEF F
<1> QED
  BY <1>1, <1>2 DEF InOrder

LEMMA NextInv ==
  ASSUME Inv, [Next]_vars
  PROVE  Inv'
<1>1. CASE UNCHANGED vars
  BY <1>1 DEF Inv, GoodNow, vars
<1>2. CASE Next
  <2>1. broken = {} /\ GoodNow /\ written \in Nat
    BY <1>2 DEF Inv, Next
  <2>2. ASSUME GoodNow', written' \in Nat PROVE Inv'
    <3>1. InOrder(heap')
      <4>1. Good(heap', zb', call', todo', held', (deque.refs)')
        BY <2>2 DEF GoodNow
      <4> QED
        BY <4>1, GoodInOrder
    <3> QED
      BY <2>2, <3>1 DEF Inv
  <2>3. PICK t \in Threads :
          \/ Step(t) \/ TakeDumped(t) \/ TakeRef(t) \/ ThreadExit(t)
          \/ \E z \in Buffers :
                \/ Destroy(t, z) \/ DumpRefsTo(t, z)
                \/ \E n \in Counts : AppendBuf(t, z, n) \/ ReadFromFd(t, z, n) \/ Popn(t, z, n)
                                     \/ GiveRef(t, z, n)
                \/ \E rh \in Buffers : MoveAppend(t, z, rh) \/ CopyAppend(t, z, rh)
    BY <1>2 DEF Next
  <2>4. CASE SkipFullHead(t)
    BY <2>1, <2>2, <2>4, SkipFullHeadStep DEF SkipFullHead
  <2>5. CASE AppendChunk(t)
    <3>1. InOrder(heap') /\ (broken' = {} => GoodNow') /\ written' = written
      BY <2>1, <2>5, AppendChunkStep DEF AppendChunk
    <3> QED
      BY <2>1, <3>1 DEF Inv
  <2>6. CASE \E nr \in 0 .. call[t].count : ReadInto(t, nr)
    BY <2>1, <2>2, <2>6, ReadIntoStep
  <2>7. CASE DropRef(t)
    BY <2>1, <2>2, <2>7, DropRefStep DEF DropRef
  <2>23. CASE LinkBlock(t)
    BY <2>1, <2>2, <2>23, LinkBlockStep DEF LinkBlock
  <2>8. CASE PutRef(t)
    <3>1. InOrder(heap') /\ (broken' = {} => GoodNow') /\ written' = written
      BY <2>1, <2>8, PutRefStep DEF PutRef
    <3> QED
      BY <2>1, <3>1 DEF Inv
  <2>9. CASE PutIntoUnset(t)
    <3>1. InOrder(heap') /\ (broken' = {} => GoodNow') /\ written' = written
      BY <2>1, <2>9, PutIntoUnsetStep DEF PutIntoUnset
    <3> QED
      BY <2>1, <3>1 DEF Inv
  <2>10. CASE ExitStep(t)
    BY <2>1, <2>2, <2>10, ExitStepStep DEF ExitStep
  <2>11. CASE TakeDumped(t)
    BY <2>1, <2>2, <2>11, TakeDumpedStep DEF TakeDumped
  <2>12. CASE TakeRef(t)
    BY <2>1, <2>2, <2>12, TakeRefStep DEF TakeRef
  <2>13. CASE ThreadExit(t)
    BY <2>1, <2>2, <2>13, ThreadExitStep DEF ThreadExit
  <2>14. ASSUME NEW z \in Buffers, Destroy(t, z) PROVE Inv'
    BY <2>1, <2>2, <2>14, DestroyStep DEF Destroy
  <2>15. ASSUME NEW z \in Buffers, DumpRefsTo(t, z) PROVE Inv'
    BY <2>1, <2>2, <2>15, DumpRefsToStep DEF DumpRefsTo
  <2>16. ASSUME NEW z \in Buffers, NEW n \in Counts, AppendBuf(t, z, n) PROVE Inv'
    BY <2>1, <2>2, <2>16, AppendBufStep
  <2>17. ASSUME NEW z \in Buffers, NEW n \in Counts, ReadFromFd(t, z, n) PROVE Inv'
    BY <2>1, <2>2, <2>17, ReadFromFdStep
  <2>18. ASSUME NEW z \in Buffers, NEW n \in Counts, Popn(t, z, n) PROVE Inv'
    BY <2>1, <2>2, <2>18, PopnStep DEF Popn
  <2>19. ASSUME NEW z \in Buffers, NEW n \in Counts, GiveRef(t, z, n) PROVE Inv'
    BY <2>1, <2>2, <2>19, GiveRefStep
  <2>20. ASSUME NEW z \in Buffers, NEW rh \in Buffers, MoveAppend(t, z, rh) PROVE Inv'
    BY <2>1, <2>2, <2>20, MoveAppendStep DEF MoveAppend
  <2>21. ASSUME NEW z \in Buffers, NEW rh \in Buffers, CopyAppend(t, z, rh) PROVE Inv'
    BY <2>1, <2>2, <2>21, CopyAppendStep DEF CopyAppend
  <2>22. CASE Step(t)
    BY <2>4, <2>5, <2>6, <2>7, <2>8, <2>9, <2>10, <2>22, <2>23 DEF Step
  <2> QED
    BY <2>3, <2>11, <2>12, <2>13, <2>14, <2>15, <2>16, <2>17, <2>18, <2>19, <2>20, <2>21, <2>22
<1> QED
  BY <1>1, <1>2

\* Every call of zbuffer.cpp, by whichever threads in whichever order, keeps the
\* blocks, the caches and the references in order as Inv says.
THEOREM ZBufferInvariant == Spec => []Inv
<1>1. Init => Inv
  BY InitInv
<1>2. Inv /\ [Next]_vars => Inv'
  BY NextInv
<1> QED
  BY <1>1, <1>2, PTL DEF Spec

-----------------------------------------------------------------------------
(* The properties *)

LEMMA CachesApartNow ==
  ASSUME NEW F \in Loads, HeapOK(heap, F)
  PROVE  CachesApart
<1>1. ASSUME NEW t \in Threads
      PROVE  /\ heap.number[t] >= Len(heap.cache[t]) /\ IsInjective(heap.cache[t])
             /\ \A u \in Threads \ {t} : ToSet(heap.cache[t]) \cap ToSet(heap.cache[u]) = {}
  BY HeapOKParts DEF Apart, IsInjective, ToSet
<1>2. ASSUME NEW b \in heap.live
      PROVE  heap.block[b].offset <= heap.block[b].capacity
  BY HeapOKParts DEF Sound
<1> QED
  BY <1>1, <1>2 DEF CachesApart

\* The holders of a block are the references outside, the cache and the loss of it.
LEMMA HoldersAre ==
  ASSUME GoodNow, NEW b \in Blocks
  PROVE  Holders(b) = Outside(zb, todo, held, deque.refs)[b] + One(b \in InCache(heap.cache))
                      + One(b \in heap.lost)
<1> DEFINE F == Outside(zb, todo, held, deque.refs)
           u == Places(b, [z \in Buffers |-> BlocksOf(Refs(zb[z]) \o OwnRef(zb[z]))])
           v == Places(b, [t \in Threads |-> InHand(t) \o <<held[t].block>>])
           w == Cardinality(Spots(b, BlocksOf(deque.refs)))
           p == Places(b, heap.cache)
           q == Cardinality({b} \cap heap.lost)
<1>1. F \in Loads /\ HeapOK(heap, F)
  BY GoodParts
<1>2. F[b] = u + v + w
  <2>1. ListsOf(zb) = [z \in Buffers |-> BlocksOf(Refs(zb[z]) \o OwnRef(zb[z]))]
    BY DEF ListsOf, BufferList
  <2>2. Hands(todo, held) = [t \in Threads |-> InHand(t) \o <<held[t].block>>]
    BY DEF Hands, HandOf, Moving, InHand
  <2> QED
    BY <2>1, <2>2 DEF Outside, Load, Times
<1>3. p = One(b \in InCache(heap.cache))
  BY <1>1, HeapOKParts, PlacesInCaches
<1>4. q = One(b \in heap.lost)
  <2>1. CASE b \in heap.lost
    <3>1. {b} \cap heap.lost = {b} /\ Cardinality({b}) = 1
      BY <2>1, FS_Singleton
    <3> QED
      BY <2>1, <3>1 DEF One
  <2>2. CASE b \notin heap.lost
    <3>1. {b} \cap heap.lost = {} /\ Cardinality({}) = 0
      BY <2>2, FS_EmptySet
    <3> QED
      BY <2>2, <3>1 DEF One
  <2> QED
    BY <2>1, <2>2
<1>5. Holders(b) = u + v + w + p + q
  BY DEF Holders
<1> HIDE DEF F, u, v, w, p, q
<1> QED
  BY <1>2, <1>3, <1>4, <1>5 DEF F

LEMMA RefsCountedNow ==
  ASSUME GoodNow
  PROVE  \A b \in Blocks :
            heap.block[b].ref_num = Holders(b) /\ (b \in heap.live <=> Holders(b) > 0)
<1> SUFFICES ASSUME NEW b \in Blocks
             PROVE  heap.block[b].ref_num = Holders(b) /\ (b \in heap.live <=> Holders(b) > 0)
  OBVIOUS
<1> DEFINE F == Outside(zb, todo, held, deque.refs)
<1>1. F \in Loads /\ HeapOK(heap, F)
  BY GoodParts
<1>2. Holders(b) = F[b] + One(b \in InCache(heap.cache)) + One(b \in heap.lost)
  BY HoldersAre
<1> HIDE DEF F
<1>3. /\ heap.block[b].ref_num = F[b] + One(b \in InCache(heap.cache)) + One(b \in heap.lost)
      /\ b \in heap.live <=> heap.block[b].ref_num > 0
  BY <1>1, HeapOKParts
<1> QED
  BY <1>2, <1>3

\* release_block, acquire_block, read_from_fd and the end of a thread never have
\* a block in two caches or twice in one, nor more blocks in a cache than
\* block_number_ says, and no offset passes the end of a block.
THEOREM CachesStayApart == Spec => []CachesApart
<1>1. Inv => CachesApart
  BY CachesApartNow DEF Inv, InOrder
<1> QED
  BY <1>1, ZBufferInvariant, PTL

\* inc_ref and dec_ref leave ref_num the number of references that there are:
\* a block is released exactly when nothing refers to it, whichever threads
\* copied, moved, dumped and gave back references, unless acquire_block lost it.
THEOREM RefsStayCounted == Spec => []RefsCounted
<1>1. Inv => RefsCounted
  BY RefsCountedNow DEF Inv, RefsCounted
<1> QED
  BY <1>1, ZBufferInvariant, PTL

=============================================================================
