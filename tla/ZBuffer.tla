------------------------------- MODULE ZBuffer -------------------------------
(***************************************************************************)
(* ZBuffer (src/src/zbuffer.cpp, src/include/p/base/zbuffer.h): a queue of *)
(* bytes kept as references into shared blocks, two of them in the object  *)
(* and more in a ring that lives in a block itself.  Several threads work  *)
(* on different buffers and share the blocks.                              *)
(*                                                                         *)
(* A call is one step per reference that it stores or gives back, so the   *)
(* calls of other threads fall between them: todo holds what a call has    *)
(* still to do, one entry per reference.                                   *)
(***************************************************************************)
EXTENDS BlockCache, SequencesExt

CONSTANTS
    Buffers,
    nobuffer,
    InitSize,   \* kInitBlockRefArraySize
    RingSizes,  \* bound: the slots that a ring may have, the powers of two in the
                \* code, as long as the size of the block fits Block's uint16_t
    BeginRange, \* 2^32: begin is counted up without the mask
    MaxIov,     \* kMaxIov
    Counts,     \* the counts that append, popn and read_from_fd are called with,
                \* and how much of a reference is used before it is given back
    Programs    \* what the threads do: the calls that each makes and on which
                \* buffers; with its bounds, how many bytes are written at most
                \* and how long a buffer and the deque get

ASSUME RingAssumption ==
    /\ RingSizes \subseteq Nat \ {0, 1} /\ InitSize \in RingSizes /\ BeginRange \in Nat \ {0}
    /\ \A n \in RingSizes : BeginRange % n = 0 /\ ArrayBytes(n) % Align = 0
ASSUME CallsAssumption == Counts \subseteq Nat /\ MaxIov \in Nat \ {0}
ASSUME BuffersAssumption == IsFiniteSet(Buffers) /\ nobuffer \notin Buffers

VARIABLES
    program,  \* one of Programs
    heap,     \* the blocks and the caches, see BlockCache
    zb,       \* the buffers
    call,     \* the call of every thread that needs a block
    todo,     \* what is left of the call of every thread
    held,     \* what acquire_block_ref has answered
    deque,    \* what dump_refs_to has moved out, and the bytes behind it
    bytes,    \* history: the bytes that every buffer should hold
    written,  \* history: the bytes written so far, each one different
    exited,   \* threads whose cache is being destroyed
    broken    \* buffers whose ring is not what the calls made of it

vars == <<program, heap, zb, call, todo, held, deque, bytes, written, exited, broken>>

NoCall == [op |-> "none", dst |-> nobuffer, data |-> <<>>, count |-> 0]

\* What is in a slot of the ring that was never stored to
Unset == [block |-> Null, offset |-> 1, length |-> 0]

\* The union: second_ and first_ref are the same words.
Empty == [array |-> FALSE, first |-> NoRef, second |-> NoRef,
          slots |-> <<>>, begin |-> 0, num |-> 0, nbytes |-> 0]

Init ==
    /\ program \in Programs
    /\ heap = NoBlocks
    /\ zb = [z \in Buffers |-> Empty]
    /\ call = [t \in Threads |-> NoCall]
    /\ todo = [t \in Threads |-> <<>>]
    /\ held = [t \in Threads |-> NoRef]
    /\ deque = [refs |-> <<>>, bytes |-> <<>>]
    /\ bytes = [z \in Buffers |-> <<>>]
    /\ written = 0
    /\ exited = {}
    /\ broken = {}

-----------------------------------------------------------------------------
(* References *)

Merges(last, ref) == last.block = ref.block /\ last.offset + last.length = ref.offset

\* ref_at, for i = -1 too: the index is masked
Index(b, i) == ((b.begin + i + Len(b.slots)) % Len(b.slots)) + 1
RefAt(b, i) == b.slots[Index(b, i)]

\* The references of a buffer, in order
Refs(b) ==
    IF b.array THEN [i \in 1 .. b.num |-> RefAt(b, i - 1)]
    ELSE IF b.first.block = Null THEN <<>>
    ELSE IF b.second.block = Null THEN <<b.first>> ELSE <<b.first, b.second>>

Data(h, ref) == [i \in 1 .. ref.length |-> h.block[ref.block].mem[ref.offset + i - 1]]
DataOf(h, refs) == FlattenSeq([i \in DOMAIN refs |-> Data(h, refs[i])])

\* memcpy into a block
Written(block, ref, data) ==
    [block EXCEPT !.mem = [i \in DOMAIN @ |->
                             IF i \in ref.offset .. ref.offset + ref.length - 1
                             THEN data[i - ref.offset + 1] ELSE @[i]]]
Write(h, ref, data) == [h EXCEPT !.block[ref.block] = Written(@, ref, data)]

\* The sum of the first n numbers of w
SumTo(w, n) ==
    LET sum[i \in 0 .. n] == IF i = 0 THEN 0 ELSE sum[i - 1] + w[i] IN sum[n]
\* How many bytes the first n references are
Lengths(refs, n) == SumTo([i \in DOMAIN refs |-> refs[i].length], n)

-----------------------------------------------------------------------------
(* append_ref, which copies a reference or takes it over *)

\* The caller's reference is one more, or it is moved in.
Stored(h, ref, moved) == IF moved THEN h ELSE IncRef(h, ref.block)
\* The buffer holds one already: the caller's is given back if it is moved.
Merged(h, t, ref, moved) == IF moved THEN DecRef(h, t, ref.block) ELSE h

TransforToArray(h, t, b) ==
    LET a == AcquireBlockRefArray(h, t, InitSize)
    IN [h |-> a.h,
        b |-> [array |-> TRUE, first |-> NoRef, second |-> a.ref,
               slots |-> <<b.first, b.second>> \o [i \in 1 .. InitSize - 2 |-> Unset],
               begin |-> 0, num |-> 2, nbytes |-> b.first.length + b.second.length]]

\* The slots are copied one to one, and begin is kept.
ArrayResizeKeepsOld(h, t, b) ==
    LET a == AcquireBlockRefArray(h, t, 2 * Len(b.slots))
    IN [h |-> a.h,
        b |-> [b EXCEPT !.slots = @ \o [i \in 1 .. Len(@) |-> Unset], !.second = a.ref]]
ArrayResize(h, t, b) ==
    LET a == AcquireBlockRefArray(h, t, 2 * Len(b.slots))
    IN [h |-> DecRef(a.h, t, b.second.block),
        b |-> [b EXCEPT !.slots = @ \o [i \in 1 .. Len(@) |-> Unset], !.second = a.ref]]

ArrayAppendRef(h, t, b, ref, moved) ==
    IF Merges(RefAt(b, b.num - 1), ref)
    THEN [h |-> Merged(h, t, ref, moved),
          b |-> [b EXCEPT !.slots[Index(b, b.num - 1)].length = @ + ref.length,
                          !.nbytes = @ + ref.length]]
    ELSE LET r == IF b.num = Len(b.slots) THEN ArrayResize(h, t, b) ELSE [h |-> h, b |-> b]
         IN [h |-> Stored(r.h, ref, moved),
             b |-> [r.b EXCEPT !.slots[Index(r.b, b.num)] = ref, !.num = @ + 1,
                               !.nbytes = @ + ref.length]]

AppendRef(h, t, b, ref, moved) ==
    CASE ~b.array /\ b.first.block = Null ->
            [h |-> Stored(h, ref, moved), b |-> [b EXCEPT !.first = ref]]
      [] ~b.array /\ b.first.block # Null /\ b.second.block = Null ->
            IF Merges(b.first, ref)
            THEN [h |-> Merged(h, t, ref, moved), b |-> [b EXCEPT !.first.length = @ + ref.length]]
            ELSE [h |-> Stored(h, ref, moved), b |-> [b EXCEPT !.second = ref]]
      [] ~b.array /\ b.second.block # Null ->
            IF Merges(b.second, ref)
            THEN [h |-> Merged(h, t, ref, moved), b |-> [b EXCEPT !.second.length = @ + ref.length]]
            ELSE LET a == TransforToArray(h, t, b) IN ArrayAppendRef(a.h, t, a.b, ref, moved)
      [] OTHER -> ArrayAppendRef(h, t, b, ref, moved)

\* The larger ring finds the references where they were only if begin is 0 to
\* both masks.
RingBounded(b) == b.array => Len(b.slots) \in RingSizes
Scrambled(before, after) ==
    /\ before.array /\ Len(after.slots) > Len(before.slots)
    /\ before.begin % Len(after.slots) # 0

\* An empty ring has no last reference: a slot is compared that may never have
\* been stored to.
ReadsUnset(b) == b.array /\ b.num = 0 /\ RefAt(b, -1) = Unset

-----------------------------------------------------------------------------
(* The calls *)

Idle(t) == t \notin exited /\ call[t] = NoCall /\ todo[t] = <<>>
Busy(t) == {call[t].dst} \cup UNION {{todo[t][i].dst, todo[t][i].src} : i \in DOMAIN todo[t]}
Starts(t, op, z) == <<op, z>> \in program.calls[t] /\ Idle(t)
\* A buffer is used by one call at a time.
Usable(z) == \A t \in Threads : z \notin Busy(t)

Item(ref, dst, moved, src) == [ref |-> ref, dst |-> dst, moved |-> moved, src |-> src]
Drops(refs) == [i \in DOMAIN refs |-> Item(refs[i], nobuffer, TRUE, nobuffer)]
Moves(refs, z) == [i \in DOMAIN refs |-> Item(refs[i], z, TRUE, nobuffer)]
Copies(refs, z, rh) == [i \in DOMAIN refs |-> Item(refs[i], z, FALSE, rh)]

NewBytes(n) == [i \in 1 .. n |-> written + 1 + i]
Grows(z, data) ==
    /\ Len(bytes[z]) + Len(data) <= program.length
    /\ bytes' = [bytes EXCEPT ![z] = @ \o data]

\* append(buf, count): see AppendChunk
AppendBuf(t, z, n) ==
    /\ Starts(t, "append", z) /\ Usable(z) /\ n > 0 /\ written + n <= program.bytes
    /\ Grows(z, NewBytes(n))
    /\ written' = written + n
    /\ call' = [call EXCEPT ![t] = [op |-> "append", dst |-> z, data |-> NewBytes(n), count |-> n]]
    /\ UNCHANGED <<heap, zb, todo, held, deque, exited, broken>>

\* acquire_block finds the head full.
SkipFullHead(t) ==
    /\ call[t].op \in {"append", "read"} /\ HeadFull(heap, t)
    /\ heap' = DropFullHead(heap, t)
    /\ UNCHANGED <<zb, call, todo, held, deque, bytes, written, exited, broken>>

\* One turn of append's loop: as many bytes as the head block has room for
AppendChunk(t) ==
    LET h == AcquireBlock(heap, t)
        b == Head(h.cache[t])
        c == call[t]
        n == MinOf(Len(c.data), LeftSpace(h, b))
        ref == [block |-> b, offset |-> h.block[b].offset, length |-> n]
        g == [Write(h, ref, c.data) EXCEPT !.block[b].offset = RoundUp(@ + n)]
        r == AppendRef(g, t, zb[c.dst], ref, FALSE)
    IN
    /\ c.op = "append" /\ ~HeadFull(heap, t)
    /\ heap' = r.h /\ Bounded(r.h) /\ RingBounded(r.b)
    /\ zb' = [zb EXCEPT ![c.dst] = r.b]
    /\ broken' = IF Scrambled(zb[c.dst], r.b) THEN broken \cup {c.dst} ELSE broken
    /\ call' = [call EXCEPT ![t] = IF n = Len(c.data) THEN NoCall
                                   ELSE [c EXCEPT !.data = SubSeq(@, n + 1, Len(@))]]
    /\ ~ReadsUnset(zb[c.dst])
    /\ UNCHANGED <<todo, held, deque, bytes, written, exited>>

\* read_from_fd(fd, offset, count): see LinkBlock and ReadInto
ReadFromFd(t, z, n) ==
    /\ Starts(t, "read", z) /\ Usable(z)
    /\ call' = [call EXCEPT ![t] = [op |-> "read", dst |-> z, data |-> <<>>, count |-> n]]
    /\ UNCHANGED <<heap, zb, todo, held, deque, bytes, written, exited, broken>>

\* The room in the first n blocks of a list
Room(h, list, n) == SumTo([i \in DOMAIN list |-> LeftSpace(h, list[i])], n)

\* The list of cached blocks is too short for count bytes, and not all of the
\* iovecs are used.
TooShort(h, list, count) ==
    list = <<>> \/ (Room(h, list, Len(list)) < count /\ Len(list) < MaxIov)

\* A block that is missing is created and linked at the end of the list, by
\* acquire_block if there is none.
LinkLast(h, t) ==
    [CreateBlock(h, Cap) EXCEPT !.cache[t] = Append(@, Fresh(h)), !.number[t] = @ + 1]
LinkBlock(t) ==
    /\ call[t].op = "read" /\ ~HeadFull(heap, t)
    /\ TooShort(heap, heap.cache[t], call[t].count)
    /\ heap' = LinkLast(heap, t) /\ Bounded(heap')
    /\ UNCHANGED <<zb, call, todo, held, deque, bytes, written, exited, broken>>

\* The nr bytes that readv has put into the first blocks of the list become
\* references.
ReadRefs(h, list, nr) ==
    LET k == CHOOSE i \in 1 .. Len(list) :
                Room(h, list, i) >= nr /\ \A j \in 1 .. i - 1 : Room(h, list, j) < nr
    IN [i \in 1 .. k |->
          [block |-> list[i], offset |-> h.block[list[i]].offset,
           length |-> IF i < k THEN LeftSpace(h, list[i]) ELSE nr - Room(h, list, k - 1)]]
\* A block of the list with its part of the data in it
Filled(h, refs, data, b) ==
    LET i == CHOOSE i \in DOMAIN refs : refs[i].block = b
        from == Lengths(refs, i - 1)
    IN IF b \notin {refs[j].block : j \in DOMAIN refs} THEN h.block[b]
       ELSE [Written(h.block[b], refs[i], SubSeq(data, from + 1, from + refs[i].length))
               EXCEPT !.offset = @ + refs[i].length]
\* A block that is full is moved out of the cache with the reference it had
\* there; the last one stays if it is not.
ReadOut(h, t, refs, data) ==
    LET last == Last(refs).block
        g == [h EXCEPT !.block = [b \in Blocks |-> Filled(h, refs, data, b)]]
        k == IF Full(g, last) THEN Len(refs) ELSE Len(refs) - 1
        out == [g EXCEPT !.cache[t] = SubSeq(@, k + 1, Len(@)), !.number[t] = @ - k]
    IN IF Full(g, last) THEN out ELSE IncRef([out EXCEPT !.block[last].offset = RoundUp(@)], last)

\* readv fills the iovecs as far as count and the first MaxIov blocks go.
ReadInto(t, nr) ==
    LET c == call[t]
        list == heap.cache[t]
        refs == ReadRefs(heap, list, nr)
    IN
    /\ c.op = "read" /\ ~HeadFull(heap, t) /\ ~TooShort(heap, list, c.count)
    /\ call' = [call EXCEPT ![t] = NoCall]
    /\ \/ nr = 0 /\ UNCHANGED <<heap, todo, bytes, written>>
       \/ /\ nr \in 1 .. c.count /\ nr <= Room(heap, list, MinOf(Len(list), MaxIov))
          /\ written + nr <= program.bytes
          /\ heap' = ReadOut(heap, t, refs, NewBytes(nr))
          /\ todo' = [todo EXCEPT ![t] = Moves(refs, c.dst)]
          /\ Grows(c.dst, NewBytes(nr))
          /\ written' = written + nr
    /\ UNCHANGED <<zb, held, deque, exited, broken>>

\* How many bytes popn(count) answers, how many references it gives back for
\* them, and how many bytes it takes from the next one
Copied(b, n) ==
    IF ~b.array /\ b.first.length = 0 THEN 0 ELSE MinOf(n, Lengths(Refs(b), Len(Refs(b))))
Taken(b, n) ==
    IF ~b.array /\ b.first.length = 0 THEN 0
    ELSE CHOOSE k \in 0 .. Len(Refs(b)) :
            /\ Lengths(Refs(b), k) <= n
            /\ k < Len(Refs(b)) => Lengths(Refs(b), k + 1) > n
Rest(b, n) == Copied(b, n) - Lengths(Refs(b), Taken(b, n))
Cut(ref, n) == [ref EXCEPT !.offset = @ + n, !.length = @ - n]

SimplePopn(b, n) ==
    CASE Taken(b, n) = Len(Refs(b)) -> Empty
      [] Taken(b, n) < Len(Refs(b)) /\ Taken(b, n) = 0 -> [b EXCEPT !.first = Cut(@, Rest(b, n))]
      [] OTHER -> [Empty EXCEPT !.first = Cut(b.second, Rest(b, n))]
ArrayPopnKeepsBegin(b, n) == [b EXCEPT !.num = @ - Taken(b, n), !.nbytes = @ - Copied(b, n)]
ArrayPopn(b, n) ==
    LET k == Taken(b, n)
        given == {Index(b, i - 1) : i \in 1 .. k}
    IN [b EXCEPT !.begin = (@ + k) % BeginRange, !.num = @ - k, !.nbytes = @ - Copied(b, n),
                 !.slots = [i \in DOMAIN @ |->
                              CASE i \in given -> NoRef
                                [] k < b.num /\ i = Index(b, k) -> Cut(@[i], Rest(b, n))
                                [] OTHER -> @[i]]]

Popn(t, z, n) ==
    LET b == zb[z] IN
    /\ Starts(t, "popn", z) /\ Usable(z) /\ Refs(b) # <<>>
    /\ zb' = [zb EXCEPT ![z] = IF b.array THEN ArrayPopn(b, n) ELSE SimplePopn(b, n)]
    /\ todo' = [todo EXCEPT ![t] = Drops(SubSeq(Refs(b), 1, Taken(b, n)))]
    /\ bytes' = [bytes EXCEPT ![z] = SubSeq(@, Copied(b, n) + 1, Len(@))]
    /\ UNCHANGED <<heap, call, held, deque, written, exited, broken>>

HasBytes(ref) == ref.length > 0
\* The references that have bytes, or those that have none
Selected(refs, some) ==
    LET list[i \in 0 .. Len(refs)] ==
            IF i = 0 THEN <<>>
            ELSE IF HasBytes(refs[i]) = some THEN Append(list[i - 1], refs[i]) ELSE list[i - 1]
    IN list[Len(refs)]

\* append(ZBuffer&&): an array stays one, without references, even if it had
\* none.
MoveAppend(t, z, rh) ==
    LET b == zb[rh]
        refs == Refs(b)
    IN
    /\ Starts(t, "move", z) /\ Usable(z) /\ Usable(rh) /\ z # rh /\ b # Empty
    /\ todo' = [todo EXCEPT ![t] =
          IF b.array THEN Moves(refs, z)
          ELSE Moves(Selected(refs, TRUE), z) \o Drops(Selected(refs, FALSE))]
    /\ zb' = [zb EXCEPT ![rh] =
          IF ~b.array THEN Empty
          ELSE [b EXCEPT !.begin = 0, !.num = 0, !.nbytes = 0,
                         !.slots = [i \in DOMAIN @ |-> IF @[i] = Unset THEN Unset ELSE NoRef]]]
    /\ Len(bytes[z]) + Len(bytes[rh]) <= program.length
    /\ bytes' = [bytes EXCEPT ![z] = @ \o bytes[rh], ![rh] = <<>>]
    /\ UNCHANGED <<heap, call, held, deque, written, exited, broken>>

\* append(const ZBuffer&)
CopyAppend(t, z, rh) ==
    LET b == zb[rh]
        refs == Refs(b)
    IN
    /\ Starts(t, "copy", z) /\ Usable(z) /\ Usable(rh) /\ z # rh /\ refs # <<>>
    /\ todo' = [todo EXCEPT ![t] =
          Copies(IF b.array THEN refs ELSE Selected(refs, TRUE), z, rh)]
    /\ Grows(z, bytes[rh])
    /\ UNCHANGED <<heap, zb, call, held, deque, written, exited, broken>>

OwnRef(b) == IF b.array THEN <<b.second>> ELSE <<>>

\* ~ZBuffer, and a new one in its place
Destroy(t, z) ==
    LET b == zb[z] IN
    /\ Starts(t, "destroy", z) /\ Usable(z) /\ b # Empty
    /\ todo' = [todo EXCEPT ![t] = Drops(Refs(b) \o OwnRef(b))]
    /\ zb' = [zb EXCEPT ![z] = Empty]
    /\ bytes' = [bytes EXCEPT ![z] = <<>>]
    /\ UNCHANGED <<heap, call, held, deque, written, exited, broken>>

DumpRefsTo(t, z) ==
    LET b == zb[z] IN
    /\ Starts(t, "dump", z) /\ Usable(z) /\ b # Empty
    /\ Len(deque.bytes) + Len(bytes[z]) <= program.length
    /\ deque' = [refs |-> deque.refs \o Selected(Refs(b), TRUE),
                 bytes |-> deque.bytes \o bytes[z]]
    /\ todo' = [todo EXCEPT ![t] = Drops(Selected(Refs(b), FALSE) \o OwnRef(b))]
    /\ zb' = [zb EXCEPT ![z] = Empty]
    /\ bytes' = [bytes EXCEPT ![z] = <<>>]
    /\ UNCHANGED <<heap, call, held, written, exited, broken>>

\* The first reference of the deque is given back by whoever has used it.
TakeDumped(t) ==
    /\ Starts(t, "take", nobuffer) /\ deque.refs # <<>>
    /\ todo' = [todo EXCEPT ![t] = Drops(<<Head(deque.refs)>>)]
    /\ deque' = [refs |-> Tail(deque.refs),
                 bytes |-> SubSeq(deque.bytes, Head(deque.refs).length + 1, Len(deque.bytes))]
    /\ UNCHANGED <<heap, zb, call, held, bytes, written, exited, broken>>

\* acquire_block_ref; pop_front drops full blocks.
TakeRef(t) ==
    /\ (\E z \in Buffers : Starts(t, "ref", z)) /\ held[t] = NoRef
    /\ \/ /\ HeadFull(heap, t)
          /\ heap' = PopFullHead(heap, t) /\ held' = held
       \/ /\ ~HeadFull(heap, t)
          /\ LET a == AcquireBlockRef(heap, t) IN
             /\ heap' = a.h /\ Bounded(a.h)
             /\ held' = [held EXCEPT ![t] = a.ref]
    /\ UNCHANGED <<zb, call, todo, deque, bytes, written, exited, broken>>

\* return_block_ref after n bytes were written, and append_ref of them
GiveRef(t, z, n) ==
    LET ref == [held[t] EXCEPT !.length = n] IN
    /\ Starts(t, "ref", z) /\ held[t] # NoRef /\ n \in 1 .. held[t].length
    /\ Usable(z) /\ written + n <= program.bytes
    /\ heap' = ReturnBlockRef(Write(heap, ref, NewBytes(n)), t, ref)
    /\ held' = [held EXCEPT ![t] = NoRef]
    /\ todo' = [todo EXCEPT ![t] = Moves(<<ref>>, z)]
    /\ Grows(z, NewBytes(n))
    /\ written' = written + n
    /\ UNCHANGED <<zb, call, deque, exited, broken>>

-----------------------------------------------------------------------------
(* The steps of a call, one reference at a time *)

DropRef(t) ==
    /\ todo[t] # <<>> /\ Head(todo[t]).dst = nobuffer
    /\ heap' = Release(heap, t, Head(todo[t]).ref)
    /\ todo' = [todo EXCEPT ![t] = Tail(@)]
    /\ UNCHANGED <<zb, call, held, deque, bytes, written, exited, broken>>

PutRef(t) ==
    LET e == Head(todo[t])
        r == AppendRef(heap, t, zb[e.dst], e.ref, e.moved)
    IN
    /\ todo[t] # <<>> /\ e.dst # nobuffer /\ ~ReadsUnset(zb[e.dst])
    /\ heap' = r.h /\ Bounded(r.h) /\ RingBounded(r.b)
    /\ zb' = [zb EXCEPT ![e.dst] = r.b]
    /\ broken' = IF Scrambled(zb[e.dst], r.b) THEN broken \cup {e.dst} ELSE broken
    /\ todo' = [todo EXCEPT ![t] = Tail(@)]
    /\ UNCHANGED <<call, held, deque, bytes, written, exited>>

\* What is in a slot that was never stored to may look like the reference
\* before the new one: the buffer then has none of the bytes.  Otherwise it is
\* as if the slot had been given back.
PutIntoUnset(t) ==
    LET z == IF todo[t] # <<>> THEN Head(todo[t]).dst ELSE call[t].dst IN
    /\ z # nobuffer /\ (call[t].op # "read" \/ todo[t] # <<>>)
    /\ ReadsUnset(zb[z])
    /\ \/ broken' = broken \cup {z} /\ zb' = zb
       \/ /\ zb' = [zb EXCEPT ![z].slots[Index(zb[z], -1)] = NoRef]
          /\ broken' = broken
    /\ UNCHANGED <<heap, call, todo, held, deque, bytes, written, exited>>

\* The thread ends: ~ThreadLocalBlockCache
ThreadExit(t) ==
    /\ Starts(t, "exit", nobuffer) /\ held[t] = NoRef
    /\ exited' = exited \cup {t}
    /\ UNCHANGED <<heap, zb, call, todo, held, deque, bytes, written, broken>>
ExitStep(t) ==
    /\ t \in exited /\ heap.cache[t] # <<>>
    /\ heap' = DropHead(heap, t)
    /\ UNCHANGED <<zb, call, todo, held, deque, bytes, written, exited, broken>>

Step(t) ==
    \/ SkipFullHead(t) \/ AppendChunk(t)
    \/ LinkBlock(t) \/ \E nr \in 0 .. call[t].count : ReadInto(t, nr)
    \/ DropRef(t) \/ PutRef(t) \/ PutIntoUnset(t) \/ ExitStep(t)

\* With a broken buffer the program is undefined.
Next ==
    /\ broken = {} /\ program' = program
    /\ \E t \in Threads :
          \/ Step(t) \/ TakeDumped(t) \/ TakeRef(t) \/ ThreadExit(t)
          \/ \E z \in Buffers :
                \/ Destroy(t, z) \/ DumpRefsTo(t, z)
                \/ \E n \in Counts : AppendBuf(t, z, n) \/ ReadFromFd(t, z, n) \/ Popn(t, z, n)
                                     \/ GiveRef(t, z, n)
                \/ \E rh \in Buffers : MoveAppend(t, z, rh) \/ CopyAppend(t, z, rh)

Spec == Init /\ [][Next]_vars

\* A thread that has begun to exit is scheduled.
FairSpec == Spec /\ \A t \in Threads : WF_vars(broken = {} /\ program' = program /\ ExitStep(t))

-----------------------------------------------------------------------------
(* What the other calls answer *)

Size(b) == IF b.array THEN b.nbytes ELSE b.first.length + b.second.length

\* copy_front: reference by reference until count bytes are copied
CopyFront(h, b, n) ==
    FoldLeft(LAMBDA out, r : out \o SubSeq(Data(h, r), 1, MinOf(r.length, n - Len(out))),
             <<>>, IF b.array THEN Refs(b) ELSE <<b.first, b.second>>)

\* map: the pieces that the callback gets
Map(h, b) == [i \in DOMAIN Refs(b) |-> Data(h, Refs(b)[i])]

-----------------------------------------------------------------------------
(* Properties *)

\* What holds a block: places in the lists of references of the buffers, the
\* rings of the buffers, what calls that are under way have in hand, the caches
\* and the deque
Spots(b, list) == {i \in DOMAIN list : list[i] = b}
BlocksOf(refs) == [i \in DOMAIN refs |-> refs[i].block]
InHand(t) == [i \in DOMAIN todo[t] |-> IF todo[t][i].moved THEN todo[t][i].ref.block ELSE Null]
\* How many places there are, with lists[x] the list of x
Places(b, lists) == Cardinality(UNION {{x} \X Spots(b, lists[x]) : x \in DOMAIN lists})
Holders(b) ==
    Places(b, [z \in Buffers |-> BlocksOf(Refs(zb[z]) \o OwnRef(zb[z]))])
    + Places(b, [t \in Threads |-> InHand(t) \o <<held[t].block>>])
    + Cardinality(Spots(b, BlocksOf(deque.refs)))
    + Places(b, heap.cache) + Cardinality({b} \cap heap.lost)

\* A block that anything refers to is there, and its count is the number of its
\* holders, whichever threads copied, moved and gave back references in
\* between: it is neither reused early nor kept for ever.  The one exception is
\* a block that acquire_block has dropped (lost).
RefsCounted ==
    broken = {} => \A b \in Blocks :
        heap.block[b].ref_num = Holders(b) /\ (b \in heap.live <=> Holders(b) > 0)

\* What a buffer holds, with what a call is still adding, is what was written
\* to it, moved and copied into it and not yet popped, in that order, and size,
\* copy_front, map and popn tell the same: no block is written to or emptied
\* while a reference still needs the bytes, and no ring is overwritten.
Arriving(z, t) ==
    DataOf(heap, Selected([i \in DOMAIN todo[t] |-> IF todo[t][i].dst = z THEN todo[t][i].ref
                                                    ELSE NoRef], TRUE))
    \o (IF call[t].dst = z THEN call[t].data ELSE <<>>)
BytesKept ==
    broken = {} =>
        /\ \A z \in Buffers :
              LET content == DataOf(heap, Refs(zb[z])) IN
              /\ content \o FlattenSeq([i \in 1 .. Cardinality(Threads) |->
                                           Arriving(z, SetToSeq(Threads)[i])]) = bytes[z]
              /\ Size(zb[z]) = Len(content)
              /\ FlattenSeq(Map(heap, zb[z])) = content
              /\ \A n \in Counts :
                    /\ CopyFront(heap, zb[z], n) = SubSeq(content, 1, MinOf(n, Len(content)))
                    /\ Copied(zb[z], n) = MinOf(n, Len(content))
              /\ \A i \in 1 .. Len(OwnRef(zb[z])) : \A j \in 1 .. OwnRef(zb[z])[i].length :
                    Data(heap, OwnRef(zb[z])[i])[j] = Ring
        /\ DataOf(heap, deque.refs) = deque.bytes

\* A block is in one cache, once, and block_number_ counts at least the cached
\* blocks, so that it is never counted below 0; no offset passes the end.
CachesApart ==
    /\ \A t \in Threads :
          /\ heap.number[t] >= Len(heap.cache[t])
          /\ IsInjective(heap.cache[t])
          /\ \A u \in Threads \ {t} : ToSet(heap.cache[t]) \cap ToSet(heap.cache[u]) = {}
    /\ \A b \in heap.live : heap.block[b].offset <= heap.block[b].capacity

\* A thread that ends gives every block of its cache back, although each one
\* comes back to that same cache as long as there is room.
ExitEmptiesCache == \A t \in Threads : t \in exited ~> heap.cache[t] = <<>> \/ broken # {}
=============================================================================
