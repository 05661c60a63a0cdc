--------------------------- MODULE LockFreeStack ---------------------------
(***************************************************************************)
(* LockFreeStack<T> (src/include/p/base/object_pool.h): a stack of nodes   *)
(* linked by ids.  A value is a 64-bit word, the id of a node and above it *)
(* a version that push increments; the word 0 is the empty stack.  Every   *)
(* access to head_ or to a node's next is a step of its own.               *)
(*                                                                         *)
(* Several stacks may share the nodes: the pools move their groups between *)
(* two of them.  Nodes are never freed (ObjectArena keeps them for ever),  *)
(* so a stale id can still be followed.                                    *)
(***************************************************************************)
EXTENDS Naturals, Sequences

CONSTANTS
    Threads,
    Ids,        \* node ids, the low 32 bits of a value
    NoId,       \* the low half of the word 0
    Stacks,     \* stacks that share the nodes
    MaxVersion  \* bound: how often one node is pushed

ASSUME IdsAssumption == NoId \notin Ids
ASSUME MaxVersionAssumption == MaxVersion \in Nat

Values == [id : Ids, ver : Nat]
Null == [id |-> NoId, ver |-> 0]
Words == Values \cup {Null}

VARIABLES
    head,     \* head_ of every stack
    next,     \* T::next of every node
    held,     \* the values that callers hold: popped, or never pushed
    pc, loc,  \* the threads, and the locals of push and pop
    stk,      \* history: the ids on every stack, the top one last
    ver,      \* history: the version every node was last pushed with
    got       \* history: the node that the last pop of a thread answered

stackVars == <<head, next, held, pc, loc, stk, ver, got>>

PushPCs == {"pload", "plink", "pcas"}
PopPCs == {"load", "next", "cas"}
Locals == [s : Stacks, value : Words, p : Words, nx : Words]

\* The constructor stores 0.  An id comes out of ObjectArena with version 0;
\* the next of a node is not initialised, and not read before a push.
StackInit ==
    /\ head = [s \in Stacks |-> Null]
    /\ next = [i \in Ids |-> Null]
    /\ held = {[id |-> i, ver |-> 0] : i \in Ids}
    /\ pc = [t \in Threads |-> "idle"]
    /\ loc \in [Threads -> {[s |-> s, value |-> Null, p |-> Null, nx |-> Null] : s \in Stacks}]
    /\ stk = [s \in Stacks |-> <<>>]
    /\ ver = [i \in Ids |-> 0]
    /\ got = [t \in Threads |-> NoId]

Goto(t, label) == pc' = [pc EXCEPT ![t] = label]

-----------------------------------------------------------------------------
(* push *)

\* value += 0x100000000: version + 1
SameVersion(v) == v
NextVersion(v) == [id |-> v.id, ver |-> v.ver + 1]

PushStart(t, s, v) ==
    /\ pc[t] = "idle" /\ v \in held /\ v.ver < MaxVersion
    /\ held' = held \ {v}
    /\ loc' = [loc EXCEPT ![t] = [s |-> s, value |-> NextVersion(v), p |-> Null, nx |-> Null]]
    /\ Goto(t, "pload")
    /\ UNCHANGED <<head, next, stk, ver, got>>

\* p = head_.load()
PushLoad(t) ==
    /\ pc[t] = "pload"
    /\ loc' = [loc EXCEPT ![t].p = head[loc[t].s]]
    /\ Goto(t, "plink")
    /\ UNCHANGED <<head, next, held, stk, ver, got>>

\* node->next = p
PushLink(t) ==
    /\ pc[t] = "plink"
    /\ next' = [next EXCEPT ![loc[t].value.id] = loc[t].p]
    /\ Goto(t, "pcas")
    /\ UNCHANGED <<head, held, loc, stk, ver, got>>

\* head_.compare_exchange_weak(p, value) succeeds ...
PushCas(t) ==
    /\ pc[t] = "pcas"
    /\ LET s == loc[t].s
           v == loc[t].value
       IN /\ head[s] = loc[t].p
          /\ head' = [head EXCEPT ![s] = v]
          /\ stk' = [stk EXCEPT ![s] = Append(stk[s], v.id)]
          /\ ver' = [ver EXCEPT ![v.id] = v.ver]
    /\ Goto(t, "idle")
    /\ UNCHANGED <<next, held, loc, got>>

\* ... or fails, spuriously or not; p is the word found, and the loop goes round.
RetryAtLoad == "pload"
PushRetry(t) ==
    /\ pc[t] = "pcas"
    /\ loc' = [loc EXCEPT ![t].p = head[loc[t].s]]
    /\ Goto(t, RetryAtLoad)
    /\ UNCHANGED <<head, next, held, stk, ver, got>>

-----------------------------------------------------------------------------
(* pop *)

PopStart(t, s) ==
    /\ pc[t] = "idle"
    /\ loc' = [loc EXCEPT ![t] = [s |-> s, value |-> Null, p |-> Null, nx |-> Null]]
    /\ Goto(t, "load")
    /\ UNCHANGED <<head, next, held, stk, ver, got>>

\* p = head_.load(); 0 is answered at once.
PopLoad(t) ==
    /\ pc[t] = "load"
    /\ LET p == head[loc[t].s] IN
       /\ loc' = [loc EXCEPT ![t].p = p]
       /\ \/ p = Null /\ Goto(t, "idle") /\ got' = [got EXCEPT ![t] = NoId]
          \/ p # Null /\ Goto(t, "next") /\ got' = got
    /\ UNCHANGED <<head, next, held, stk, ver>>

\* next = find(p)->next: find only looks at the id.  The read is not atomic
\* with the load, and may race with the push of a thread that popped p meanwhile.
PopNext(t) ==
    /\ pc[t] = "next"
    /\ loc' = [loc EXCEPT ![t].nx = next[loc[t].p.id]]
    /\ Goto(t, "cas")
    /\ UNCHANGED <<head, next, held, stk, ver, got>>

\* head_.compare_exchange_weak(p, next) succeeds: p is the caller's ...
HeadIdIs(t) == head[loc[t].s].id = loc[t].p.id
HeadIs(t) == head[loc[t].s] = loc[t].p
PopCas(t) ==
    /\ pc[t] = "cas" /\ HeadIs(t)
    /\ LET s == loc[t].s
           p == loc[t].p
       IN /\ head' = [head EXCEPT ![s] = loc[t].nx]
          /\ held' = held \cup {p}
          /\ stk' = [stk EXCEPT ![s] = SubSeq(stk[s], 1, Len(stk[s]) - 1)]
          /\ got' = [got EXCEPT ![t] = p.id]
    /\ Goto(t, "idle")
    /\ UNCHANGED <<next, loc, ver>>

\* ... or fails, and the loop goes round.
PopRetry(t) ==
    /\ pc[t] = "cas"
    /\ loc' = [loc EXCEPT ![t].p = head[loc[t].s]]
    /\ Goto(t, "load")
    /\ UNCHANGED <<head, next, held, stk, ver, got>>

-----------------------------------------------------------------------------
StackNext ==
    \E t \in Threads :
        \/ \E s \in Stacks, v \in held : PushStart(t, s, v)
        \/ PushLoad(t) \/ PushLink(t) \/ PushCas(t) \/ PushRetry(t)
        \/ \E s \in Stacks : PopStart(t, s)
        \/ PopLoad(t) \/ PopNext(t) \/ PopCas(t) \/ PopRetry(t)

StackSpec == StackInit /\ [][StackNext]_stackVars

-----------------------------------------------------------------------------
(* Properties *)

\* Every variable keeps its type.
TypeOK ==
    /\ head \in [Stacks -> Words] /\ next \in [Ids -> Words]
    /\ held \subseteq Values
    /\ pc \in [Threads -> {"idle"} \cup PushPCs \cup PopPCs]
    /\ loc \in [Threads -> Locals]
    /\ stk \in [Stacks -> Seq(Ids)] /\ ver \in [Ids -> Nat]
    /\ got \in [Threads -> Ids \cup {NoId}]

Pushing(t) == pc[t] \in PushPCs
Val(i) == [id |-> i, ver |-> ver[i]]
Link(s, k) == IF k = 0 THEN Null ELSE Val(stk[s][k])

\* The locals that push and pop dereference are set, and a word that a
\* thread has read was never pushed with a later version than the last.
Read ==
    /\ \A t \in Threads : Pushing(t) => loc[t].value \in Values
    /\ \A t \in Threads : pc[t] \in {"next", "cas"} => loc[t].p \in Values
    /\ \A t \in Threads : pc[t] \in {"next", "cas"} => loc[t].p.ver <= ver[loc[t].p.id]

\* A node is with a caller, in the hands of one push, or once on one stack: it
\* is never handed out twice, though stale words are followed and compared.
Apart ==
    /\ \A v \in held, w \in held : v.id = w.id => v = w
    /\ \A v \in held, t \in Threads : Pushing(t) => loc[t].value.id # v.id
    /\ \A t, u \in Threads :
          Pushing(t) /\ Pushing(u) /\ loc[t].value.id = loc[u].value.id => t = u
    /\ \A s \in Stacks : \A k \in 1 .. Len(stk[s]) :
          /\ \A v \in held : v.id # stk[s][k]
          /\ \A t \in Threads : Pushing(t) => loc[t].value.id # stk[s][k]
          /\ \A r \in Stacks : \A j \in 1 .. Len(stk[r]) :
                stk[r][j] = stk[s][k] => r = s /\ j = k

\* A caller holds a node with the version it was last pushed with, and the
\* next push gives it a new one.
Versioned ==
    /\ \A v \in held : v.ver = ver[v.id]
    /\ \A t \in Threads : Pushing(t) => loc[t].value.ver = ver[loc[t].value.id] + 1

\* head_ and the next fields link the nodes of every stack in their order.
Linked ==
    \A s \in Stacks :
        /\ head[s] = Link(s, Len(stk[s]))
        /\ \A k \in 1 .. Len(stk[s]) : next[stk[s][k]] = Link(s, k - 1)

\* A push is about to compare head_ with what it linked; what a pop is about
\* to store in head_ is right, unless its p is no longer on any stack.
Ready ==
    /\ \A t \in Threads : pc[t] = "pcas" => next[loc[t].value.id] = loc[t].p
    /\ \A t \in Threads : pc[t] = "cas" =>
          \A s \in Stacks : \A k \in 1 .. Len(stk[s]) :
              loc[t].p = Val(stk[s][k]) => loc[t].nx = next[stk[s][k]]

\* The inductive invariant of the stacks.
StackInv == TypeOK /\ Read /\ Apart /\ Versioned /\ Linked /\ Ready

\* push and pop are atomic: this module implements AbstractStack.
Abs == INSTANCE AbstractStack WITH
    stack <- stk,
    out <- {v.id : v \in held} \cup {loc[t].value.id : t \in {u \in Threads : Pushing(u)}},
    got <- got
Atomic == Abs!AbsSpec
=============================================================================
