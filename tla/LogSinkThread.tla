--------------------------- MODULE LogSinkThread ---------------------------
(***************************************************************************)
(* LogSinkThread (src/src/logger.cpp): threads append their lines to the   *)
(* current buffer under mutex_front_; the sink thread takes references to  *)
(* the bytes, under mutex_front_ or mutex_backend_, and writes them out    *)
(* under neither.  A line is a number and a length; a byte of a buffer     *)
(* holds the number of the line it belongs to.                             *)
(*                                                                         *)
(* The last new_buffer, when the service stops, holds mutex_backend_ only, *)
(* so each of its accesses to cur_ptr_ is a step of its own, and so is     *)
(* each of append_buf's.                                                   *)
(***************************************************************************)
EXTENDS Naturals, Sequences, FiniteSets

CONSTANTS
    Threads,   \* threads that log
    sink,      \* sinker_thread_, which logs one line when it stops
    nobody,    \* the holder of a free mutex
    Size,      \* kFlushBufferSize
    Lengths,   \* the lengths of lines
    MaxLines   \* bound: lines appended

ASSUME SinkAssumption == sink \notin Threads /\ nobody \notin Threads /\ nobody # sink

\* A longer line would be copied past the end of the buffer; with the default
\* of g_max_length_per_log there is none.
ASSUME LengthsAssumption == Size \in Nat /\ Lengths \subseteq 1 .. Size
ASSUME LinesAssumption == MaxLines \in Nat

Loggers == Threads \cup {sink}
Buffers == 1 .. MaxLines + 3
NoBuffer == 0   \* nullptr
NoLine == 0

VARIABLES
    mutex_front, mutex_backend,   \* who holds the mutexes between two steps
    ref_list,                     \* ref_list_: buffer and length, 0 to free it
    free_buffer_list,             \* free_buffer_list_
    cur_buffer,                   \* cur_buffer_, and ptr_ and end_, its two ends
    cur_ptr,                      \* cur_ptr_: a buffer and an offset
    mem, allocated,               \* the bytes of the buffers, and how many there are
    wild,                         \* the behaviour is undefined from here on: the model stops
    finished,                     \* finished_
    pc, loc,                      \* the loggers, and the locals of append_buf
    spc, ref,                     \* the sink thread, and the local of flush
    stopping,                     \* whoever calls stop: "no", "join" or "done"
    lines, logged,                \* history: the lines begun, the bytes appended
                                  \* before the last new_buffer looks for them
    synced,                       \* history: the last reference to bytes of a buffer
                                  \* that may still be filled
    spoiled,                      \* history: which bytes were overwritten before
                                  \* they were written out
    out,                          \* history: the bytes written by g_output_func
    promised                      \* history: how many were appended when stop was called

buffers == <<ref_list, free_buffer_list, cur_buffer, cur_ptr, allocated>>
history == <<lines, logged, synced, spoiled, out, promised>>
vars == <<mutex_front, mutex_backend, buffers, mem, wild, finished, pc, loc, spc, ref, stopping, history>>

\* A reference also says how many bytes are written before its own (history).
NoRef == [ptr |-> NoBuffer, length |-> 0, at |-> 0]
Start(b) == [buffer |-> b, offset |-> 0]
NoLocals == [line |-> NoLine, length |-> 0, ptr |-> Start(NoBuffer)]

Init ==
    /\ mutex_front = nobody /\ mutex_backend = nobody
    /\ ref_list = <<>> /\ free_buffer_list = <<>>
    /\ cur_buffer = NoBuffer /\ cur_ptr = Start(NoBuffer)
    /\ mem = [b \in Buffers |-> [i \in 1 .. Size |-> NoLine]] /\ allocated = 0
    /\ wild = FALSE
    /\ finished = FALSE
    /\ pc = [t \in Loggers |-> "idle"]
    /\ loc = [t \in Loggers |-> NoLocals]
    /\ spc = "while" /\ ref = NoRef
    /\ stopping = "no"
    /\ lines = 0 /\ logged = <<>> /\ synced = NoRef /\ spoiled = {} /\ out = <<>> /\ promised = 0

Goto(t, label) == pc' = [pc EXCEPT ![t] = label]
SGoto(label) == spc' = label

\* The last new_buffer has looked for bytes in the current buffer.
Ending == spc \in {"rewind", "take", "reset", "lastflush", "lastio", "exit"}

\* How many bytes are written when all that is referred to is
EndOf(r) == r.at + r.length
QueueEnd == IF ref_list = <<>> THEN Len(out) + ref.length ELSE EndOf(ref_list[Len(ref_list)])

-----------------------------------------------------------------------------
(* new_buffer *)

\* The references to what is in the current buffer, then to the buffer itself,
\* which is to be freed after they are written.
HasData == cur_ptr.buffer = cur_buffer /\ cur_ptr.offset > 0
DataRef == IF HasData THEN <<[ptr |-> cur_buffer, length |-> cur_ptr.offset, at |-> QueueEnd]>> ELSE <<>>
FreeRefTo(b, at) == [ptr |-> b, length |-> 0, at |-> at]
FreeRef(at) == IF cur_buffer # NoBuffer THEN <<FreeRefTo(cur_buffer, at)>> ELSE <<>>
DataEnd == IF HasData THEN QueueEnd + cur_ptr.offset ELSE QueueEnd
DataDropped == ref_list \o FreeRef(QueueEnd)
FreeFirst == ref_list \o FreeRef(QueueEnd) \o DataRef
DataFirst == ref_list \o DataRef \o FreeRef(DataEnd)

\* Another buffer becomes the current one, from the free list or from malloc.
TakeBuffer ==
    IF free_buffer_list = <<>>
    THEN allocated' = allocated + 1 /\ cur_buffer' = allocated + 1 /\ UNCHANGED free_buffer_list
    ELSE cur_buffer' = Head(free_buffer_list) /\ free_buffer_list' = Tail(free_buffer_list) /\ UNCHANGED allocated

NewBuffer == ref_list' = DataFirst /\ TakeBuffer /\ cur_ptr' = Start(cur_buffer')

-----------------------------------------------------------------------------
(* append_buf, of a line of length n *)

AppendLock(t, n) ==
    /\ pc[t] = "idle" /\ mutex_front = nobody
    /\ IF t = sink THEN spc = "fatal" ELSE lines < MaxLines
    /\ mutex_front' = t
    /\ lines' = lines + 1
    /\ loc' = [loc EXCEPT ![t] = [NoLocals EXCEPT !.line = lines + 1, !.length = n]]
    /\ Goto(t, "first")
    /\ UNCHANGED <<mutex_backend, buffers, mem, wild, finished, spc, ref, stopping, logged, synced, spoiled, out, promised>>

\* There is no buffer yet, or there is; then cur_ptr_ is read.
AppendFirst(t) ==
    /\ pc[t] = "first"
    /\ \/ cur_buffer = NoBuffer /\ mutex_backend = nobody /\ NewBuffer
       \/ cur_buffer # NoBuffer /\ UNCHANGED buffers
    /\ loc' = [loc EXCEPT ![t].ptr = cur_ptr']
    /\ Goto(t, "room")
    /\ UNCHANGED <<mutex_front, mutex_backend, mem, wild, finished, spc, ref, stopping, history>>

\* append_buf names cur_ptr_ three times.  The compiler may read it again each
\* time or not, so it is read again at any time or not: that matters only when
\* the last new_buffer, under the other mutex, has changed it.
Reload(t) ==
    /\ pc[t] \in {"room", "copy", "store"} /\ loc[t].ptr # cur_ptr
    /\ loc' = [loc EXCEPT ![t].ptr = cur_ptr]
    /\ UNCHANGED <<mutex_front, mutex_backend, buffers, mem, wild, finished, pc, spc, ref, stopping, history>>

\* The line fits into what is left of the buffer, or does not.  A pointer into
\* another buffer than the current one is before or after its end, and new_buffer
\* may then refer to as many bytes as the two buffers are apart.
Overruns(p, n) == p.offset + n > Size
AppendRoom(t) ==
    /\ pc[t] = "room"
    /\ \/ /\ loc[t].ptr.buffer = cur_buffer => ~Overruns(loc[t].ptr, loc[t].length)
          /\ UNCHANGED <<buffers, loc, wild>>
       \/ /\ loc[t].ptr.buffer = cur_buffer => Overruns(loc[t].ptr, loc[t].length)
          /\ mutex_backend = nobody
          /\ NewBuffer /\ loc' = [loc EXCEPT ![t].ptr = cur_ptr']
          /\ wild' \in {FALSE, cur_ptr.buffer # cur_buffer}
    /\ Goto(t, "copy")
    /\ UNCHANGED <<mutex_front, mutex_backend, mem, finished, spc, ref, stopping, history>>

\* memcpy, which may overwrite bytes that are referred to and not yet written.
Span(p, n) == p.offset + 1 .. p.offset + n
Overwritten(p, n) ==
    {at \in {synced.at + i : i \in Span(p, n) \cap 1 .. synced.length} :
        p.buffer = synced.ptr /\ at > Len(out)}
AppendCopy(t) ==
    /\ pc[t] = "copy"
    /\ LET p == loc[t].ptr  n == loc[t].length
       IN \/ /\ p.offset + n <= Size
             /\ mem' = [mem EXCEPT ![p.buffer] =
                          [i \in 1 .. Size |-> IF i \in Span(p, n) THEN loc[t].line ELSE @[i]]]
             /\ spoiled' = spoiled \cup Overwritten(p, n)
             /\ UNCHANGED wild
          \/ /\ p.offset + n > Size
             /\ wild' = TRUE
             /\ UNCHANGED <<mem, spoiled>>
    /\ Goto(t, "store")
    /\ UNCHANGED <<mutex_front, mutex_backend, buffers, finished, loc, spc, ref, stopping, lines, logged, synced, out, promised>>

\* The store of cur_ptr_ += length, and the end of the critical section
AppendStore(t) ==
    /\ pc[t] = "store"
    /\ cur_ptr' = [loc[t].ptr EXCEPT !.offset = @ + loc[t].length]
    /\ logged' = IF Ending THEN logged ELSE logged \o [i \in 1 .. loc[t].length |-> loc[t].line]
    /\ mutex_front' = nobody
    /\ loc' = [loc EXCEPT ![t] = NoLocals]
    /\ Goto(t, "idle")
    /\ spc' = IF t = sink THEN "retire" ELSE spc
    /\ UNCHANGED <<mutex_backend, ref_list, free_buffer_list, cur_buffer, mem, wild, allocated, finished, ref, stopping, lines, synced, spoiled, out, promised>>

-----------------------------------------------------------------------------
(* work *)

Loop ==
    /\ spc = "while"
    /\ SGoto(IF finished THEN "fatal" ELSE "wait")
    /\ UNCHANGED <<mutex_front, mutex_backend, buffers, mem, wild, finished, pc, loc, ref, stopping, history>>

\* wait_for returns when it is notified, or not, or after 200 ms.
WaitFor ==
    /\ spc = "wait" /\ mutex_backend = nobody
    /\ SGoto("sync")
    /\ UNCHANGED <<mutex_front, mutex_backend, buffers, mem, wild, finished, pc, loc, ref, stopping, history>>

\* sync_with_front: the bytes are referred to, and may be overwritten from here on.
KeepPtr == cur_ptr
Rewind == Start(cur_buffer)
SyncWithFront ==
    /\ spc = "sync" /\ mutex_front = nobody
    /\ ref_list' = ref_list \o DataRef
    /\ synced' = IF HasData THEN DataRef[1] ELSE synced
    /\ cur_ptr' = Rewind
    /\ SGoto("flush")
    /\ UNCHANGED <<mutex_front, mutex_backend, free_buffer_list, cur_buffer, allocated, mem, wild, finished, pc, loc, ref, stopping, lines, logged, spoiled, out, promised>>

\* The last flush is outside of the loop.
FlushLabel == IF spc \in {"flush", "io"} THEN "flush" ELSE "lastflush"
IoLabel == IF spc = "flush" THEN "io" ELSE "lastio"
ReturnLabel == IF spc = "flush" THEN "while" ELSE "exit"

\* The head of ref_list_ is a buffer to free, or is written next, or there is none.
NotFreed(b) == free_buffer_list
Freed(b) == Append(free_buffer_list, b)
FlushPop ==
    /\ spc \in {"flush", "lastflush"} /\ mutex_backend = nobody
    /\ \/ /\ ref_list # <<>> /\ Head(ref_list).length = 0
          /\ free_buffer_list' = Freed(Head(ref_list).ptr)
          /\ ref_list' = Tail(ref_list)
          /\ UNCHANGED <<spc, ref>>
       \/ /\ ref_list # <<>> /\ Head(ref_list).length > 0
          /\ ref' = Head(ref_list) /\ ref_list' = Tail(ref_list)
          /\ SGoto(IoLabel)
          /\ UNCHANGED free_buffer_list
       \/ /\ ref_list = <<>>
          /\ SGoto(ReturnLabel)
          /\ UNCHANGED <<ref_list, free_buffer_list, ref>>
    /\ UNCHANGED <<mutex_front, mutex_backend, cur_buffer, cur_ptr, allocated, mem, wild, finished, pc, loc, stopping, history>>

\* g_output_func, without a mutex
FlushIo ==
    /\ spc \in {"io", "lastio"}
    /\ out' = out \o SubSeq(mem[ref.ptr], 1, ref.length)
    /\ ref' = NoRef
    /\ SGoto(FlushLabel)
    /\ UNCHANGED <<mutex_front, mutex_backend, buffers, mem, wild, finished, pc, loc, stopping, lines, logged, synced, spoiled, promised>>

\* The last new_buffer, under mutex_backend_ only: it refers to what is in the
\* current buffer, ...
NoLastRefs == ref_list
LastRefs == ref_list \o DataRef
LastRead ==
    /\ spc = "retire" /\ mutex_backend = nobody
    /\ mutex_backend' = sink
    /\ ref_list' = LastRefs
    /\ synced' = IF HasData THEN DataRef[1] ELSE synced
    /\ SGoto(IF HasData THEN "rewind" ELSE "take")
    /\ UNCHANGED <<mutex_front, free_buffer_list, cur_buffer, cur_ptr, allocated, mem, wild, finished, pc, loc, ref, stopping, lines, logged, spoiled, out, promised>>

\* ... sets cur_ptr_ back, ...
LastRewind ==
    /\ spc = "rewind"
    /\ cur_ptr' = Start(cur_buffer)
    /\ SGoto("take")
    /\ UNCHANGED <<mutex_front, mutex_backend, ref_list, free_buffer_list, cur_buffer, allocated, mem, wild, finished, pc, loc, ref, stopping, history>>

\* ... replaces the buffer, ...
LastTake ==
    /\ spc = "take"
    /\ ref_list' = ref_list \o FreeRef(QueueEnd)
    /\ TakeBuffer
    /\ SGoto("reset")
    /\ UNCHANGED <<mutex_front, mutex_backend, cur_ptr, mem, wild, finished, pc, loc, ref, stopping, history>>

\* ... and then cur_ptr_.  The mutex is not held during the last flush.
HeldAfterLast == sink
FreeAfterLast == nobody
LastReset ==
    /\ spc = "reset"
    /\ mutex_backend' = FreeAfterLast
    /\ cur_ptr' = Start(cur_buffer)
    /\ SGoto("lastflush")
    /\ UNCHANGED <<mutex_front, ref_list, free_buffer_list, cur_buffer, allocated, mem, wild, finished, pc, loc, ref, stopping, history>>

-----------------------------------------------------------------------------
(* stop, and the destructor *)

StopStore ==
    /\ stopping = "no"
    /\ finished' = TRUE /\ stopping' = "join" /\ promised' = Len(logged)
    /\ UNCHANGED <<mutex_front, mutex_backend, buffers, mem, wild, pc, loc, spc, ref, lines, logged, synced, spoiled, out>>

StopJoin ==
    /\ stopping = "join" /\ spc = "exit"
    /\ stopping' = "done"
    /\ UNCHANGED <<mutex_front, mutex_backend, buffers, mem, wild, finished, pc, loc, spc, ref, history>>

-----------------------------------------------------------------------------
AppendStep(t) == AppendFirst(t) \/ AppendRoom(t) \/ AppendCopy(t) \/ AppendStore(t)
Work == Loop \/ WaitFor \/ SyncWithFront \/ FlushPop \/ FlushIo \/ LastRead \/ LastRewind \/ LastTake \/ LastReset

Next ==
    /\ ~wild
    /\ \/ \E t \in Loggers : (\E n \in Lengths : AppendLock(t, n)) \/ AppendStep(t) \/ Reload(t)
       \/ Work \/ StopStore \/ StopJoin

Spec == Init /\ [][Next]_vars

\* Every thread in append_buf and the sink thread are scheduled, and mutexes
\* are granted to those who wait; nothing obliges a thread to log or to stop.
FairSpec ==
    /\ Spec
    /\ \A t \in Threads : WF_vars(~wild /\ AppendStep(t))
    /\ \A n \in Lengths : SF_vars(~wild /\ AppendLock(sink, n))
    /\ WF_vars(~wild /\ AppendStep(sink)) /\ WF_vars(~wild /\ (Work \/ StopJoin)) /\ SF_vars(~wild /\ SyncWithFront)

-----------------------------------------------------------------------------
(* Properties *)

Count(s, x) == Cardinality({i \in DOMAIN s : s[i] = x})
ToFree == [i \in DOMAIN ref_list |-> IF ref_list[i].length = 0 THEN ref_list[i].ptr ELSE NoBuffer]

\* A buffer is the current one, or to be freed, or free, and only one of these:
\* none leaks, and none is filled by the threads while it is free.
BufferInOnePlace ==
    \A b \in Buffers :
        (IF b = cur_buffer THEN 1 ELSE 0)
            + Count(ToFree, b) + Count(free_buffer_list, b)
        = IF b <= allocated THEN 1 ELSE 0

Refers(r, b) == r.ptr = b /\ r.length > 0
Unwritten(b) == Refers(ref, b) \/ \E i \in DOMAIN ref_list : Refers(ref_list[i], b)

\* While the service runs, the bytes of a full buffer stay as they are until
\* they are written, and the buffer is not filled again before.
FullIsIntact ==
    [][/\ \A b \in Buffers : Unwritten(b) /\ b # cur_buffer /\ ~Ending => mem'[b] = mem[b]
       /\ cur_buffer' # cur_buffer => ~Unwritten(cur_buffer')]_vars

\* Byte number at of what was appended is still what it was; if it was
\* overwritten in the current buffer, it belongs to a later line.
Kept(at, byte) == IF at \in spoiled THEN byte > logged[at] ELSE byte = logged[at]

RefKept(r) == \A i \in 1 .. r.length : r.at + i <= Len(logged) => Kept(r.at + i, mem[r.ptr][i])

\* What was appended, and nothing else, is written, being written, referred to
\* or in the current buffer, byte for byte and in that order, except that a
\* byte of a buffer that is still filled may be overwritten by one of a later
\* line: sync_with_front and the last new_buffer let that happen, no other
\* reference does, and nothing is copied past the end of a buffer.  When the
\* last new_buffer has begun, all of it is written, being written or referred
\* to; the lines after that are not spoken of.
BytesKept ==
    /\ \A i \in DOMAIN out : i <= Len(logged) => Kept(i, out[i])
    /\ RefKept(ref) /\ \A i \in DOMAIN ref_list : RefKept(ref_list[i])
    /\ ~Ending =>
          /\ ~wild /\ Len(logged) = QueueEnd + cur_ptr.offset
          /\ \A i \in 1 .. cur_ptr.offset : mem[cur_buffer][i] = logged[QueueEnd + i]
    /\ Ending => QueueEnd >= Len(logged)

\* When stop returns, every byte that was appended before it was called is
\* written, or a later line's in its place if it was overwritten, though
\* other threads may still be logging.
StopFlushes ==
    stopping = "done" => Len(out) >= promised /\ \A i \in 1 .. promised : Kept(i, out[i])

\* A byte that is appended before the last new_buffer looks for it is written
\* in its place, unless it is overwritten before or the behaviour is undefined.
LinesComeOut ==
    \A k \in 1 .. MaxLines * Size :
        Len(logged) >= k ~> wild \/ k \in spoiled \/ (k \in DOMAIN out \cap DOMAIN logged /\ out[k] = logged[k])

\* stop returns, unless the behaviour is undefined: a notification that comes
\* before the wait costs one period.
SinkStops == stopping = "join" ~> stopping = "done" \/ wild

\* What sync_with_front got from the front is written out as it was got.
LinesKept == spoiled = {}

=============================================================================
