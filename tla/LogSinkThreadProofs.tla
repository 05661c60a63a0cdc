------------------------ MODULE LogSinkThreadProofs ------------------------
(***************************************************************************)
(* LogSinkThread, for any number of threads, any size of the buffers and   *)
(* any number of lines: no buffer is lost, free while it is filled or      *)
(* filled before it is written, and what is appended is written byte for   *)
(* byte, or overwritten by a later line where the code lets that happen.   *)
(***************************************************************************)
EXTENDS LogSinkThread, FiniteSetTheorems, SequenceTheorems, TLAPS

Refs == [ptr : Buffers, length : 0 .. Size, at : Nat]
Pointers == [buffer : Buffers \cup {NoBuffer}, offset : 0 .. Size]
Locals == [line : Nat, length : 0 .. Size, ptr : Pointers]
Labels == {"while", "wait", "sync", "flush", "io", "fatal", "retire",
           "rewind", "take", "reset", "lastflush", "lastio", "exit"}

SinkType ==
    /\ mutex_front \in Loggers \cup {nobody} /\ mutex_backend \in {nobody, sink}
    /\ ref_list \in Seq(Refs) /\ free_buffer_list \in Seq(Buffers)
    /\ cur_buffer \in Buffers \cup {NoBuffer} /\ cur_ptr \in Pointers
    /\ mem \in [Buffers -> [1 .. Size -> Nat]] /\ allocated \in Nat
    /\ wild \in BOOLEAN /\ finished \in BOOLEAN
    /\ pc \in [Loggers -> {"idle", "first", "room", "copy", "store"}]
    /\ loc \in [Loggers -> Locals]
    /\ spc \in Labels /\ ref \in Refs \cup {NoRef}
    /\ stopping \in {"no", "join", "done"}
    /\ lines \in Nat /\ logged \in Seq(Nat) /\ synced \in Refs \cup {NoRef} /\ spoiled \in SUBSET Nat
    /\ out \in Seq(Nat) /\ promised \in Nat

\* Who holds the mutexes.  The sink thread logs at "fatal".
Locked ==
    /\ \A t \in Loggers : pc[t] # "idle" <=> mutex_front = t
    /\ mutex_backend = sink <=> spc \in {"rewind", "take", "reset"}
    /\ pc[sink] # "idle" => spc = "fatal"

\* What append_buf has found out about the current buffer.  Until the last
\* new_buffer begins, nothing changes it meanwhile.
Using(t) == pc[t] \in {"room", "copy", "store"}
InUse(t) ==
    /\ Using(t) => /\ cur_buffer # NoBuffer /\ loc[t].ptr.buffer # NoBuffer
                   /\ loc[t].ptr = cur_ptr \/ cur_ptr.offset = 0
                   /\ ~Ending => loc[t].ptr = cur_ptr
    /\ pc[t] = "copy" /\ ~Ending => loc[t].ptr.offset + loc[t].length <= Size
    /\ pc[t] = "store" /\ ~wild => loc[t].ptr.offset + loc[t].length <= Size
Current ==
    /\ cur_buffer = NoBuffer => cur_ptr = Start(NoBuffer)
    /\ cur_buffer # NoBuffer => cur_ptr.buffer # NoBuffer
    /\ spc = "retire" \/ Ending => cur_buffer # NoBuffer
    /\ ~Ending => ~wild /\ cur_ptr.buffer = cur_buffer
    /\ \A t \in Loggers : InUse(t)

\* A line takes a buffer at most once when it does not fit, the first line
\* another one, and so does the last new_buffer: the model has enough of them.
FirstDue == IF cur_buffer = NoBuffer THEN 1 ELSE 0
RoomDue == IF \E t \in Loggers : pc[t] \in {"first", "room"} THEN 1 ELSE 0
LastTaken == IF spc \in {"reset", "lastflush", "lastio", "exit"} THEN 1 ELSE 0
SinkLine == IF pc[sink] # "idle" \/ spc = "retire" \/ Ending THEN 1 ELSE 0
Budget ==
    /\ allocated + FirstDue + RoomDue <= 1 + lines + LastTaken
    /\ lines <= MaxLines + SinkLine

Absent(s, x) == \A i \in DOMAIN s : s[i] # x
Once(s, x) == \E i \in DOMAIN s : s[i] = x /\ \A j \in DOMAIN s : s[j] = x => j = i

\* The buffers that references free, as ToFree has them for ref_list_
Mark(r) == IF r.length = 0 THEN r.ptr ELSE NoBuffer
Marks(s) == [i \in DOMAIN s |-> Mark(s[i])]

Placed(b, cur, marks, free, n) ==
    IF b <= n
    THEN \/ b = cur /\ Absent(marks, b) /\ Absent(free, b)
         \/ b # cur /\ Once(marks, b) /\ Absent(free, b)
         \/ b # cur /\ Absent(marks, b) /\ Once(free, b)
    ELSE b # cur /\ Absent(marks, b) /\ Absent(free, b)

BuffersPlaced == \A b \in Buffers : Placed(b, cur_buffer, Marks(ref_list), free_buffer_list, allocated)

\* Bytes are referred to before the reference that frees their buffer.
Behind(s, i, b) == \E j \in DOMAIN s : j > i /\ Mark(s[j]) = b
Tidy(s, cur) == \A i \in DOMAIN s : s[i].length > 0 => s[i].ptr = cur \/ Behind(s, i, s[i].ptr)
RefsTidy ==
    /\ Tidy(ref_list, cur_buffer)
    /\ IF spc \in {"io", "lastio"}
       THEN ref.length > 0 /\ (ref.ptr = cur_buffer \/ Behind(ref_list, 0, ref.ptr))
       ELSE ref = NoRef

\* The inductive invariant of the buffers, ...
BufferInv == SinkType /\ Locked /\ Current /\ Budget /\ BuffersPlaced /\ RefsTidy

\* ... of the end of the service, ...
Stopped ==
    /\ finished <=> stopping # "no"
    /\ spc \in {"fatal", "retire"} \/ Ending => finished
    /\ stopping = "done" => spc = "exit"
    /\ promised <= Len(logged)
    /\ spc = "exit" => Len(logged) <= Len(out)

\* ... of where in the output the references belong: one after the other, ...
Chain(s, a, e) ==
    /\ s = <<>> => e = a
    /\ s # <<>> => s[1].at = a /\ EndOf(s[Len(s)]) = e
    /\ \A i \in DOMAIN s : a <= s[i].at /\ EndOf(s[i]) <= e
    /\ \A i, j \in DOMAIN s : i < j => EndOf(s[i]) <= s[j].at
    /\ \A i \in DOMAIN s : i + 1 \in DOMAIN s => s[i + 1].at = EndOf(s[i])
Written == Len(out) + ref.length
Queue == Chain(ref_list, Written, QueueEnd) /\ (ref.length > 0 => ref.at = Len(out))

\* ... of the reference whose bytes may be overwritten: no other one is to a
\* buffer that is written to, ...
Listed(s, r) == \E i \in DOMAIN s : s[i] = r
Due(r) == r.length > 0 /\ (r = ref \/ Listed(ref_list, r))
Writable(b) == b = cur_buffer \/ b = cur_ptr.buffer \/ \E t \in Loggers : Using(t) /\ loc[t].ptr.buffer = b
AllFlushed == {"while", "wait", "sync", "fatal", "retire"}
Overwritable ==
    /\ \A r \in Refs : Due(r) /\ Writable(r.ptr) => r = synced
    /\ spc \in AllFlushed => \A r \in Refs : Due(r) => r.ptr # cur_buffer
    /\ EndOf(synced) <= Len(out) \/ Due(synced)
    /\ EndOf(synced) <= QueueEnd /\ EndOf(synced) <= Len(logged)
    /\ spoiled \subseteq 0 .. EndOf(synced)

\* ... and of the bytes: their lines are numbered in order, and those of the
\* line that is being appended are there when cur_ptr_ passes them.
Numbered ==
    /\ \A i \in DOMAIN logged : logged[i] <= lines
    /\ \A t \in Loggers : pc[t] # "idle" => loc[t].line = lines /\ \A i \in DOMAIN logged : logged[i] < lines
    /\ \A t \in Loggers : pc[t] = "store" /\ ~Ending =>
          \A i \in Span(loc[t].ptr, loc[t].length) : mem[cur_buffer][i] = loc[t].line

\* BytesKept, of what is written, of what is referred to and of the rest
OutKept == \A i \in DOMAIN out : i <= Len(logged) => Kept(i, out[i])
RefsKept == \A r \in Refs : Due(r) => RefKept(r)
FrontKept ==
    /\ ~Ending =>
          /\ ~wild /\ Len(logged) = QueueEnd + cur_ptr.offset
          /\ \A i \in 1 .. cur_ptr.offset : mem[cur_buffer][i] = logged[QueueEnd + i]
    /\ Ending => QueueEnd >= Len(logged)

BytesInv == Stopped /\ Queue /\ Overwritable /\ Numbered /\ OutKept /\ RefsKept /\ FrontKept

-----------------------------------------------------------------------------
(* ref_list_ and free_buffer_list_ *)

\* push_back
LEMMA PushedBack ==
  ASSUME NEW S, NEW s \in Seq(S), NEW x \in S
  PROVE  /\ s \o <<x>> = Append(s, x) /\ Append(s, x) \in Seq(S)
         /\ \A i : i \in DOMAIN s => i \in DOMAIN Append(s, x) /\ Append(s, x)[i] = s[i] /\ Len(s) + 1 > i
         /\ Len(s) + 1 \in DOMAIN Append(s, x) /\ Append(s, x)[Len(s) + 1] = x
         /\ \A i \in DOMAIN Append(s, x) : i \in DOMAIN s \/ i = Len(s) + 1
         /\ Len(s) + 1 \notin DOMAIN s
OBVIOUS

\* pop_front
LEMMA PoppedFront ==
  ASSUME NEW S, NEW s \in Seq(S), s # <<>>
  PROVE  /\ Tail(s) \in Seq(S) /\ Head(s) \in S /\ 1 \in DOMAIN s /\ s[1] = Head(s)
         /\ \A i : i \in DOMAIN s /\ i # 1 => i - 1 \in DOMAIN Tail(s) /\ Tail(s)[i - 1] = s[i] /\ i > 1
         /\ \A i \in DOMAIN Tail(s) : i + 1 \in DOMAIN s /\ Tail(s)[i] = s[i + 1] /\ i > 0 /\ i \in Nat
OBVIOUS

\* Where something is after push_back ...
LEMMA PushedOnce ==
  ASSUME NEW S, NEW s \in Seq(S), NEW x \in S, NEW y
  PROVE  /\ x = y /\ Absent(s, y) => Once(Append(s, x), y)
         /\ x # y /\ Absent(s, y) => Absent(Append(s, x), y)
         /\ x # y /\ Once(s, y) => Once(Append(s, x), y)
BY PushedBack DEF Absent, Once

\* ... and after pop_front
LEMMA PoppedOnce ==
  ASSUME NEW S, NEW s \in Seq(S), s # <<>>, NEW y
  PROVE  /\ Head(s) = y /\ Once(s, y) => Absent(Tail(s), y)
         /\ Absent(s, y) => Absent(Tail(s), y) /\ Head(s) # y
         /\ Head(s) # y /\ Once(s, y) => Once(Tail(s), y)
<1>1. CASE Absent(s, y)
  BY <1>1, PoppedFront DEF Absent, Once
<1>2. CASE Once(s, y)
  <2>1. PICK i \in DOMAIN s : s[i] = y /\ \A j \in DOMAIN s : s[j] = y => j = i
    BY <1>2 DEF Once
  <2>2. CASE Head(s) = y
    <3>1. i = 1
      BY <2>1, <2>2, PoppedFront
    <3>2. \A j \in DOMAIN Tail(s) : j + 1 # 1
      BY PoppedFront
    <3> QED
      BY <2>1, <2>2, <3>1, <3>2, <1>2, PoppedFront DEF Absent, Once
  <2>3. CASE Head(s) # y
    <3>1. i # 1 /\ i - 1 \in DOMAIN Tail(s) /\ Tail(s)[i - 1] = y
      BY <2>1, <2>3, PoppedFront
    <3>2. \A j \in DOMAIN Tail(s) : Tail(s)[j] = y => j + 1 = i
      BY <2>1, PoppedFront
    <3>3. \A j \in DOMAIN Tail(s) : j + 1 = i => j = i - 1
      BY PoppedFront
    <3>4. Once(Tail(s), y)
      BY <3>1, <3>2, <3>3 DEF Once
    <3>5. ~Absent(s, y)
      BY <2>1 DEF Absent
    <3> QED
      BY <2>3, <3>4, <3>5
  <2> QED
    BY <2>2, <2>3
<1> QED
  BY <1>1, <1>2

\* The buffers that references free, after push_back and pop_front
LEMMA MarksOf ==
  ASSUME NEW s \in Seq(Refs), NEW r \in Refs
  PROVE  /\ Marks(s) \in Seq(Buffers \cup {NoBuffer}) /\ DOMAIN Marks(s) = DOMAIN s
         /\ \A i \in DOMAIN s : Marks(s)[i] = Mark(s[i])
         /\ Marks(Append(s, r)) = Append(Marks(s), Mark(r)) /\ Mark(r) \in Buffers \cup {NoBuffer}
         /\ s # <<>> => Marks(s) # <<>> /\ Marks(Tail(s)) = Tail(Marks(s)) /\ Mark(Head(s)) = Head(Marks(s))
<1>1. \A x \in Refs : Mark(x) \in Buffers \cup {NoBuffer}
  BY DEF Mark, Refs
<1>2. ASSUME NEW x \in Seq(Refs)
      PROVE  /\ Marks(x) \in Seq(Buffers \cup {NoBuffer}) /\ DOMAIN Marks(x) = DOMAIN x /\ Len(Marks(x)) = Len(x)
             /\ \A i \in DOMAIN x : Marks(x)[i] = Mark(x[i])
  <2> DEFINE B == Buffers \cup {NoBuffer}
             M == Marks(x)
  <2>1. \A i \in 1 .. Len(x) : Mark(x[i]) \in B
    BY <1>1
  <2>2. M = [i \in 1 .. Len(x) |-> Mark(x[i])] /\ Len(x) \in Nat /\ DOMAIN x = 1 .. Len(x)
    BY DEF Marks
  <2> HIDE DEF M, B
  <2>3. M \in [1 .. Len(x) -> B]
    BY <2>1, <2>2
  <2>4. M \in Seq(B) /\ Len(M) = Len(x) /\ DOMAIN M = 1 .. Len(x)
    BY <2>2, <2>3
  <2> QED
    BY <2>2, <2>4 DEF M, B
<1>3. /\ Marks(s) \in Seq(Buffers \cup {NoBuffer}) /\ DOMAIN Marks(s) = DOMAIN s /\ Len(Marks(s)) = Len(s)
      /\ \A i \in DOMAIN s : Marks(s)[i] = Mark(s[i])
  BY <1>2
<1>4. Marks(Append(s, r)) = Append(Marks(s), Mark(r))
  <2> DEFINE B == Buffers \cup {NoBuffer}
             M == Marks(s)
             m == Mark(r)
             N == Marks(Append(s, r))
             A == Append(M, m)
  <2>1. M \in Seq(B) /\ m \in B /\ Len(M) = Len(s) /\ Len(s) \in Nat /\ \A i \in 1 .. Len(s) : M[i] = Mark(s[i])
    BY <1>1, <1>3
  <2>2. /\ A \in Seq(B) /\ Len(A) = Len(s) + 1 /\ A[Len(s) + 1] = m
        /\ \A i \in 1 .. Len(s) : A[i] = Mark(s[i])
    <3> HIDE DEF M, m, B
    <3> QED
      BY <2>1, AppendProperties
  <2>3. /\ N \in Seq(B) /\ Len(N) = Len(s) + 1 /\ N[Len(s) + 1] = m
        /\ \A i \in 1 .. Len(s) : N[i] = Mark(s[i])
    <3>1. /\ Append(s, r) \in Seq(Refs) /\ Len(Append(s, r)) = Len(s) + 1 /\ Append(s, r)[Len(s) + 1] = r
          /\ \A i \in 1 .. Len(s) : Append(s, r)[i] = s[i]
      BY AppendProperties
    <3> DEFINE a == Append(s, r)
    <3>2. DOMAIN a = 1 .. Len(s) + 1
      BY <3>1
    <3> HIDE DEF a
    <3>3. N \in Seq(B) /\ Len(N) = Len(s) + 1 /\ \A i \in 1 .. Len(s) + 1 : N[i] = Mark(a[i])
      BY <1>2, <3>1, <3>2 DEF a
    <3>4. Len(s) + 1 \in 1 .. Len(s) + 1 /\ \A i \in 1 .. Len(s) : i \in 1 .. Len(s) + 1
      BY <2>1
    <3> HIDE DEF N
    <3> QED
      BY <3>1, <3>3, <3>4 DEF a
  <2>4. \A i \in 1 .. Len(s) + 1 : A[i] = N[i]
    <3> HIDE DEF A, N, m
    <3>1. \A i \in 1 .. Len(s) + 1 : i \in 1 .. Len(s) \/ i = Len(s) + 1
      BY <2>1
    <3> QED
      BY <2>2, <2>3, <3>1
  <2> HIDE DEF A, N, B
  <2>5. N = A
    BY <2>2, <2>3, <2>4, SeqEqual
  <2> QED
    BY <2>5 DEF N, A
<1>5. ASSUME s # <<>>
      PROVE  Marks(s) # <<>> /\ Marks(Tail(s)) = Tail(Marks(s)) /\ Mark(Head(s)) = Head(Marks(s))
  <2> DEFINE B == Buffers \cup {NoBuffer}
             M == Marks(s)
             N == Marks(Tail(s))
             T == Tail(M)
  <2>1. /\ M \in Seq(B) /\ Len(M) = Len(s) /\ Len(s) \in Nat /\ Len(s) > 0 /\ Head(s) = s[1]
        /\ \A i \in 1 .. Len(s) : M[i] = Mark(s[i])
    BY <1>3, <1>5
  <2>2. M # <<>> /\ Head(M) = Mark(Head(s))
    <3> HIDE DEF M, B
    <3> QED
      BY <2>1
  <2>3. T \in Seq(B) /\ Len(T) = Len(s) - 1 /\ \A i \in 1 .. Len(s) - 1 : T[i] = Mark(s[i + 1])
    <3>1. \A i \in 1 .. Len(s) - 1 : i + 1 \in 1 .. Len(s)
      BY <2>1
    <3> HIDE DEF M, B
    <3> QED
      BY <2>1, <2>2, <3>1, HeadTailProperties
  <2>4. N \in Seq(B) /\ Len(N) = Len(s) - 1 /\ \A i \in 1 .. Len(s) - 1 : N[i] = Mark(s[i + 1])
    <3>1. Tail(s) \in Seq(Refs) /\ Len(Tail(s)) = Len(s) - 1 /\ \A i \in 1 .. Len(s) - 1 : Tail(s)[i] = s[i + 1]
      BY <1>5, HeadTailProperties
    <3> DEFINE a == Tail(s)
    <3>2. N \in Seq(B) /\ Len(N) = Len(a) /\ \A i \in DOMAIN a : N[i] = Mark(a[i])
      BY <1>2, <3>1
    <3>3. DOMAIN a = 1 .. Len(s) - 1
      BY <3>1
    <3> HIDE DEF N, a
    <3> QED
      BY <3>1, <3>2, <3>3 DEF a
  <2> HIDE DEF T, N, B
  <2>5. N = T
    BY <2>3, <2>4, SeqEqual
  <2> QED
    BY <2>2, <2>5 DEF N, T
<1> QED
  BY <1>1, <1>3, <1>4, <1>5

\* A buffer that is marked is to be freed.
LEMMA MarkIs ==
  ASSUME NEW r \in Refs, NEW b \in Buffers
  PROVE  /\ Mark(r) = b <=> r.length = 0 /\ r.ptr = b
         /\ r.length > 0 => Mark(r) = NoBuffer /\ Mark(r) # b
         /\ \A at \in Nat : FreeRefTo(b, at) \in Refs /\ Mark(FreeRefTo(b, at)) = b
         /\ b # NoBuffer
<1>1. b # NoBuffer
  BY LinesAssumption DEF Buffers, NoBuffer
<1>2. r.length \in 0 .. Size /\ 0 \in 0 .. Size /\ Size \in Nat
  BY LengthsAssumption DEF Refs
<1>3. \A at \in Nat : FreeRefTo(b, at) \in Refs
  BY <1>2 DEF FreeRefTo, Refs
<1> QED
  BY <1>1, <1>2, <1>3 DEF Mark, FreeRefTo

\* The list stays tidy when bytes of the current buffer are added, ...
LEMMA TidyData ==
  ASSUME NEW s \in Seq(Refs), NEW c, Tidy(s, c), NEW r \in Refs, r.ptr = c
  PROVE  Tidy(Append(s, r), c)
<1> SUFFICES ASSUME NEW i \in DOMAIN Append(s, r), Append(s, r)[i].length > 0
             PROVE  Append(s, r)[i].ptr = c \/ Behind(Append(s, r), i, Append(s, r)[i].ptr)
  BY DEF Tidy
<1>1. CASE i = Len(s) + 1
  BY <1>1, PushedBack
<1>2. CASE i \in DOMAIN s
  <2>1. Append(s, r)[i] = s[i]
    BY <1>2, PushedBack
  <2>2. s[i].ptr = c \/ Behind(s, i, s[i].ptr)
    BY <1>2, <2>1 DEF Tidy
  <2>3. Behind(s, i, s[i].ptr) => Behind(Append(s, r), i, s[i].ptr)
    BY PushedBack DEF Behind
  <2> QED
    BY <2>1, <2>2, <2>3
<1> QED
  BY <1>1, <1>2, PushedBack

\* ... when the current buffer is to be freed, whatever is the next one, ...
LEMMA TidyFree ==
  ASSUME NEW s \in Seq(Refs), NEW c \in Buffers, Tidy(s, c), NEW d, NEW r \in Refs, r.length = 0, r.ptr = c
  PROVE  Tidy(Append(s, r), d)
<1> SUFFICES ASSUME NEW i \in DOMAIN Append(s, r), Append(s, r)[i].length > 0
             PROVE  Behind(Append(s, r), i, Append(s, r)[i].ptr)
  BY DEF Tidy
<1>1. Append(s, r)[Len(s) + 1].length = 0
  BY PushedBack
<1>2. i \in DOMAIN s /\ Append(s, r)[i] = s[i]
  BY <1>1, PushedBack
<1>3. Len(s) + 1 \in DOMAIN Append(s, r) /\ Append(s, r)[Len(s) + 1] = r /\ Len(s) + 1 > i
  BY <1>2, PushedBack
<1>4. s[i].ptr = c \/ Behind(s, i, s[i].ptr)
  BY <1>2 DEF Tidy
<1>5. Behind(s, i, s[i].ptr) => Behind(Append(s, r), i, s[i].ptr)
  BY PushedBack DEF Behind
<1>6. s[i].ptr = c => Behind(Append(s, r), i, s[i].ptr)
  BY <1>3, MarkIs DEF Behind
<1> QED
  BY <1>2, <1>4, <1>5, <1>6

\* ... and when the head is taken off.
LEMMA TidyTail ==
  ASSUME NEW s \in Seq(Refs), NEW c, Tidy(s, c), s # <<>>
  PROVE  /\ Tidy(Tail(s), c)
         /\ Head(s).length > 0 => Head(s).ptr = c \/ Behind(Tail(s), 0, Head(s).ptr)
<1>1. ASSUME NEW i \in DOMAIN s, NEW b, Behind(s, i, b)
      PROVE  Behind(Tail(s), i - 1, b)
  <2>1. PICK j \in DOMAIN s : j > i /\ Mark(s[j]) = b
    BY <1>1 DEF Behind
  <2>2. j # 1 /\ j - 1 > i - 1
    BY <2>1
  <2> QED
    BY <2>1, <2>2, PoppedFront DEF Behind
<1>2. ASSUME NEW i \in DOMAIN Tail(s), Tail(s)[i].length > 0
      PROVE  Tail(s)[i].ptr = c \/ Behind(Tail(s), i, Tail(s)[i].ptr)
  <2>1. i + 1 \in DOMAIN s /\ Tail(s)[i] = s[i + 1] /\ (i + 1) - 1 = i
    BY PoppedFront
  <2>2. s[i + 1].ptr = c \/ Behind(s, i + 1, s[i + 1].ptr)
    BY <1>2, <2>1 DEF Tidy
  <2> QED
    BY <1>1, <2>1, <2>2
<1>3. Head(s).length > 0 => Head(s).ptr = c \/ Behind(s, 1, Head(s).ptr)
  BY PoppedFront DEF Tidy
<1> QED
  BY <1>1, <1>2, <1>3, PoppedFront DEF Tidy

\* What is queued goes on where the queue ends ...
LEMMA ChainPushed ==
  ASSUME NEW s \in Seq(Refs), NEW a \in Nat, NEW e \in Nat, Chain(s, a, e), NEW r \in Refs, r.at = e
  PROVE  Chain(Append(s, r), a, EndOf(r)) /\ EndOf(r) \in Nat /\ a <= e /\ e <= EndOf(r)
<1> DEFINE p == Append(s, r)
           n == Len(s)
<1>1. /\ n \in Nat /\ p \in Seq(Refs) /\ Len(p) = n + 1 /\ DOMAIN p = 1 .. n + 1 /\ p # <<>>
      /\ p[n + 1] = r /\ DOMAIN s = 1 .. n
      /\ \A i \in 1 .. n : p[i] = s[i]
  OBVIOUS
<1>2. \A i \in 1 .. n + 1 : p[i].at \in Nat /\ p[i].length \in Nat /\ EndOf(p[i]) \in Nat /\ p[i].at <= EndOf(p[i])
  <2>1. \A x \in Refs : x.at \in Nat /\ x.length \in Nat /\ EndOf(x) \in Nat /\ x.at <= EndOf(x)
    BY LengthsAssumption DEF Refs, EndOf
  <2>2. \A i \in 1 .. n + 1 : p[i] \in Refs
    BY <1>1
  <2> QED
    BY <2>1, <2>2
<1> HIDE DEF p, n
<1>3. s = <<>> <=> n = 0
  BY DEF n
<1>4. /\ n = 0 => e = a
      /\ n # 0 => s[1].at = a /\ EndOf(s[n]) = e
      /\ \A i \in 1 .. n : a <= s[i].at /\ EndOf(s[i]) <= e
      /\ \A i, j \in 1 .. n : i < j => EndOf(s[i]) <= s[j].at
      /\ \A i \in 1 .. n : i + 1 \in 1 .. n => s[i + 1].at = EndOf(s[i])
  BY <1>1, <1>3 DEF Chain, n
<1>5. n + 1 \in 1 .. n + 1 /\ p[n + 1].at = e /\ e <= EndOf(r) /\ EndOf(r) \in Nat
  BY <1>1, <1>2
<1>6. a <= e
  <2>1. CASE n = 0
    BY <1>3, <1>4, <2>1
  <2>2. CASE n # 0
    <3>1. 1 \in 1 .. n /\ 1 \in 1 .. n + 1
      BY <1>1, <2>2
    <3>2. a <= p[1].at /\ EndOf(p[1]) <= e
      BY <1>1, <1>3, <1>4, <3>1
    <3> QED
      BY <1>2, <3>1, <3>2
  <2> QED
    BY <2>1, <2>2
<1>7. p[1].at = a
  <2>1. CASE n = 0
    BY <1>3, <1>4, <1>5, <2>1
  <2>2. CASE n # 0
    BY <1>1, <1>3, <1>4, <2>2
  <2> QED
    BY <2>1, <2>2
<1>8. \A i \in 1 .. n + 1 : i \in 1 .. n \/ i = n + 1
  BY <1>1
<1>9. \A i \in 1 .. n + 1 : a <= p[i].at /\ EndOf(p[i]) <= EndOf(r)
  <2>1. \A i \in 1 .. n : i \in 1 .. n + 1 /\ a <= p[i].at /\ EndOf(p[i]) <= e
    BY <1>1, <1>3, <1>4
  <2>2. \A i \in 1 .. n : EndOf(p[i]) <= EndOf(r)
    BY <1>2, <1>5, <2>1
  <2> QED
    BY <1>1, <1>5, <1>6, <1>8, <2>1, <2>2
<1>10. \A i, j \in 1 .. n + 1 : i < j => EndOf(p[i]) <= p[j].at
  <2> SUFFICES ASSUME NEW i \in 1 .. n + 1, NEW j \in 1 .. n + 1, i < j PROVE EndOf(p[i]) <= p[j].at
    OBVIOUS
  <2>1. i \in 1 .. n
    BY <1>1
  <2>2. CASE j = n + 1
    BY <1>1, <1>3, <1>4, <1>5, <2>1, <2>2
  <2>3. CASE j \in 1 .. n
    BY <1>1, <1>3, <1>4, <2>1, <2>3
  <2> QED
    BY <1>8, <2>2, <2>3
<1>11. \A i \in 1 .. n + 1 : i + 1 \in 1 .. n + 1 => p[i + 1].at = EndOf(p[i])
  <2> SUFFICES ASSUME NEW i \in 1 .. n, i + 1 \in 1 .. n + 1 PROVE p[i + 1].at = EndOf(p[i])
    BY <1>1
  <2>1. CASE i = n
    BY <1>1, <1>3, <1>4, <1>5, <2>1
  <2>2. CASE i # n
    <3>1. i + 1 \in 1 .. n
      BY <1>1, <2>2
    <3> QED
      BY <1>1, <1>3, <1>4, <3>1
  <2> QED
    BY <2>1, <2>2
<1>12. Chain(p, a, EndOf(r))
  BY <1>1, <1>7, <1>9, <1>10, <1>11 DEF Chain
<1> QED
  BY <1>5, <1>6, <1>12 DEF p

\* ... and is taken from where it begins.
LEMMA ChainPopped ==
  ASSUME NEW s \in Seq(Refs), NEW a \in Nat, NEW e \in Nat, Chain(s, a, e), s # <<>>
  PROVE  Head(s).at = a /\ Chain(Tail(s), EndOf(Head(s)), e) /\ a <= EndOf(Head(s)) /\ EndOf(Head(s)) <= e
<1> DEFINE p == Tail(s)
           n == Len(s)
           h == Head(s)
<1>1. /\ n \in Nat /\ n > 0 /\ p \in Seq(Refs) /\ Len(p) = n - 1 /\ DOMAIN p = 1 .. n - 1
      /\ h = s[1] /\ DOMAIN s = 1 .. n /\ h \in Refs
      /\ \A i \in 1 .. n - 1 : p[i] = s[i + 1]
  OBVIOUS
<1>2. p = <<>> <=> n = 1
  <2>1. p = <<>> <=> Len(p) = 0
    <3> HIDE DEF p
    <3> QED
      BY <1>1
  <2> QED
    BY <1>1, <2>1
<1>3. /\ s[1].at = a /\ EndOf(s[n]) = e
      /\ \A i \in 1 .. n : a <= s[i].at /\ EndOf(s[i]) <= e
      /\ \A i, j \in 1 .. n : i < j => EndOf(s[i]) <= s[j].at
      /\ \A i \in 1 .. n : i + 1 \in 1 .. n => s[i + 1].at = EndOf(s[i])
  BY <1>1 DEF Chain
<1>4. h.at \in Nat /\ EndOf(h) \in Nat /\ h.at <= EndOf(h)
  BY <1>1, LengthsAssumption DEF Refs, EndOf
<1> HIDE DEF p, n, h
<1>5. 1 \in 1 .. n /\ \A i \in 1 .. n - 1 : i + 1 \in 1 .. n /\ 1 < i + 1
  BY <1>1
<1>6. p = <<>> => e = EndOf(h)
  BY <1>1, <1>2, <1>3
<1>7. p # <<>> => p[1].at = EndOf(h) /\ EndOf(p[Len(p)]) = e
  <2> SUFFICES ASSUME n # 1 PROVE p[1].at = EndOf(h) /\ EndOf(p[Len(p)]) = e
    BY <1>2
  <2>1. 1 \in 1 .. n - 1 /\ n - 1 \in 1 .. n - 1 /\ (n - 1) + 1 = n /\ 1 + 1 \in 1 .. n
    BY <1>1
  <2>2. p[n - 1] = s[(n - 1) + 1] /\ p[1] = s[1 + 1]
    BY <1>1, <2>1
  <2>3. p[n - 1] = s[n] /\ p[1] = s[2]
    BY <2>1, <2>2
  <2>4. s[1 + 1].at = EndOf(s[1])
    BY <1>3, <1>5, <2>1
  <2> QED
    BY <1>1, <1>3, <2>2, <2>3, <2>4
<1>8. \A i \in 1 .. n - 1 : EndOf(h) <= p[i].at /\ EndOf(p[i]) <= e
  BY <1>1, <1>3, <1>5
<1>9. \A i, j \in 1 .. n - 1 : i < j => EndOf(p[i]) <= p[j].at
  <2> SUFFICES ASSUME NEW i \in 1 .. n - 1, NEW j \in 1 .. n - 1, i < j PROVE EndOf(p[i]) <= p[j].at
    OBVIOUS
  <2>1. i + 1 \in 1 .. n /\ j + 1 \in 1 .. n /\ i + 1 < j + 1
    BY <1>1
  <2> QED
    BY <1>1, <1>3, <2>1
<1>10. \A i \in 1 .. n - 1 : i + 1 \in 1 .. n - 1 => p[i + 1].at = EndOf(p[i])
  <2> SUFFICES ASSUME NEW i \in 1 .. n - 1, i + 1 \in 1 .. n - 1 PROVE p[i + 1].at = EndOf(p[i])
    OBVIOUS
  <2>1. i + 1 \in 1 .. n /\ (i + 1) + 1 \in 1 .. n
    BY <1>1
  <2>2. s[(i + 1) + 1].at = EndOf(s[i + 1])
    BY <1>3, <2>1
  <2> QED
    BY <1>1, <2>2
<1>11. Chain(p, EndOf(h), e)
  BY <1>1, <1>6, <1>7, <1>8, <1>9, <1>10 DEF Chain
<1>12. h.at = a /\ EndOf(h) <= e
  BY <1>1, <1>3, <1>5
<1> QED
  BY <1>4, <1>11, <1>12 DEF p, h

-----------------------------------------------------------------------------
(* new_buffer *)

\* NoBuffer is not a buffer, and buffers are numbers.
LEMMA BufferNumbers ==
  MaxLines \in Nat /\ NoBuffer \notin Buffers /\ \A b : b \in Buffers <=> b \in Nat /\ 1 <= b /\ b <= MaxLines + 3
BY LinesAssumption DEF Buffers, NoBuffer

\* Pointers, and the start of a buffer
LEMMA PointerTypes ==
  /\ Size \in Nat /\ \A b \in Buffers \cup {NoBuffer} : Start(b) \in Pointers
  /\ \A b : Start(b).buffer = b /\ Start(b).offset = 0
  /\ \A p \in Pointers : p.buffer \in Buffers \cup {NoBuffer} /\ p.offset \in 0 .. Size
<1>1. Size \in Nat /\ 0 \in 0 .. Size
  BY LengthsAssumption
<1> QED
  BY <1>1 DEF Pointers, Start

\* Where the queue ends
LEMMA QueueEnds ==
  ASSUME SinkType
  PROVE  QueueEnd \in Nat /\ ref.length \in 0 .. Size /\ ref.at \in Nat /\ Len(out) \in Nat /\ Len(logged) \in Nat
<1>1. \A r \in Refs : EndOf(r) \in Nat /\ r.length \in 0 .. Size /\ r.at \in Nat
  BY LengthsAssumption DEF Refs, EndOf
<1>2. NoRef.length \in 0 .. Size /\ NoRef.at \in Nat /\ Size \in Nat
  BY LengthsAssumption DEF NoRef
<1>3. ref.length \in 0 .. Size /\ ref.at \in Nat /\ Len(out) \in Nat /\ Len(logged) \in Nat
  BY <1>1, <1>2 DEF SinkType
<1>4. ref_list # <<>> => ref_list[Len(ref_list)] \in Refs
  <2>1. ref_list \in Seq(Refs)
    BY DEF SinkType
  <2> QED
    BY <2>1
<1> QED
  BY <1>1, <1>2, <1>3, <1>4 DEF QueueEnd

\* The reference to what is in the current buffer is pushed back.
LEMMA DataQueued ==
  ASSUME BufferInv
  PROVE  /\ ref_list \o DataRef \in Seq(Refs) /\ Tidy(ref_list \o DataRef, cur_buffer)
         /\ HasData => /\ cur_buffer \in Buffers /\ DataRef[1] \in Refs
                       /\ DataRef[1] = [ptr |-> cur_buffer, length |-> cur_ptr.offset, at |-> QueueEnd]
                       /\ ref_list \o DataRef = Append(ref_list, DataRef[1])
         /\ ~HasData => ref_list \o DataRef = ref_list
         /\ \A b \in Buffers : /\ Absent(Marks(ref_list), b) => Absent(Marks(ref_list \o DataRef), b)
                               /\ Once(Marks(ref_list), b) => Once(Marks(ref_list \o DataRef), b)
         /\ \A b : Behind(ref_list, 0, b) => Behind(ref_list \o DataRef, 0, b)
<1> DEFINE s == ref_list \o DataRef
<1>1. ref_list \in Seq(Refs) /\ Tidy(ref_list, cur_buffer) /\ QueueEnd \in Nat
  BY QueueEnds DEF BufferInv, SinkType, RefsTidy
<1>2. CASE HasData
  <2> DEFINE r == [ptr |-> cur_buffer, length |-> cur_ptr.offset, at |-> QueueEnd]
  <2>1. cur_buffer \in Buffers /\ cur_ptr.offset \in 0 .. Size /\ cur_ptr.offset > 0
    BY <1>2, PointerTypes DEF HasData, BufferInv, SinkType, Current
  <2>2. r \in Refs /\ r.ptr = cur_buffer /\ r.length > 0
    BY <1>1, <2>1 DEF Refs
  <2>3. DataRef = <<r>> /\ DataRef[1] = r
    BY <1>2 DEF DataRef
  <2> HIDE DEF r
  <2>4. s = Append(ref_list, r) /\ s \in Seq(Refs)
    BY <1>1, <2>2, <2>3, PushedBack
  <2>5. Tidy(s, cur_buffer)
    BY <1>1, <2>2, <2>4, TidyData
  <2>6. Marks(s) = Append(Marks(ref_list), Mark(r)) /\ Marks(ref_list) \in Seq(Buffers \cup {NoBuffer})
        /\ Mark(r) \in Buffers \cup {NoBuffer}
    BY <1>1, <2>2, <2>4, MarksOf
  <2>7. \A b \in Buffers : Mark(r) # b
    BY <2>2, MarkIs
  <2>8. \A b \in Buffers : /\ Absent(Marks(ref_list), b) => Absent(Marks(s), b)
                           /\ Once(Marks(ref_list), b) => Once(Marks(s), b)
    BY <2>6, <2>7, PushedOnce
  <2>9. \A b : Behind(ref_list, 0, b) => Behind(s, 0, b)
    <3> HIDE DEF s
    <3> QED
      BY <1>1, <2>2, <2>4, PushedBack DEF Behind
  <2>10. s = Append(ref_list, DataRef[1]) /\ DataRef[1] \in Refs
    BY <2>2, <2>3, <2>4
  <2> HIDE DEF s
  <2>11. DataRef[1] = [ptr |-> cur_buffer, length |-> cur_ptr.offset, at |-> QueueEnd]
    BY <2>3 DEF r
  <2> QED
    BY <1>2, <2>1, <2>4, <2>5, <2>8, <2>9, <2>10, <2>11 DEF s
<1>3. CASE ~HasData
  <2>1. s = ref_list
    BY <1>1, <1>3 DEF DataRef
  <2> HIDE DEF s
  <2> QED
    BY <1>1, <1>3, <2>1 DEF s
<1> QED
  BY <1>2, <1>3

\* The second half: another buffer becomes the current one.
LEMMA BufferTaken ==
  ASSUME SinkType, allocated + 1 <= MaxLines + 3, TakeBuffer, NEW marks,
         \A b \in Buffers : Placed(b, NoBuffer, marks, free_buffer_list, allocated)
  PROVE  /\ cur_buffer' \in Buffers /\ free_buffer_list' \in Seq(Buffers)
         /\ allocated' \in {allocated, allocated + 1}
         /\ \A b \in Buffers : Placed(b, cur_buffer', marks, free_buffer_list', allocated')
<1>1. allocated \in Nat /\ free_buffer_list \in Seq(Buffers)
  BY DEF SinkType, TakeBuffer
<1>2. CASE free_buffer_list = <<>>
  <2>1. allocated' = allocated + 1 /\ cur_buffer' = allocated + 1 /\ free_buffer_list' = free_buffer_list
    BY <1>2 DEF TakeBuffer
  <2>2. allocated + 1 \in Buffers
    BY <1>1, BufferNumbers
  <2>3. ASSUME NEW b \in Buffers
        PROVE  Placed(b, allocated + 1, marks, free_buffer_list, allocated + 1)
    <3>1. Placed(b, NoBuffer, marks, free_buffer_list, allocated) /\ b # NoBuffer /\ b \in Nat
      BY BufferNumbers
    <3>2. b <= allocated + 1 <=> b <= allocated \/ b = allocated + 1
      BY <1>1, <3>1
    <3>3. b <= allocated => b # allocated + 1
      BY <1>1, <3>1
    <3> QED
      BY <3>1, <3>2, <3>3 DEF Placed
  <2> QED
    BY <1>1, <2>1, <2>2, <2>3
<1>3. CASE free_buffer_list # <<>>
  <2> DEFINE x == Head(free_buffer_list)
  <2>1. allocated' = allocated /\ cur_buffer' = x /\ free_buffer_list' = Tail(free_buffer_list)
    BY <1>3 DEF TakeBuffer
  <2>2. x \in Buffers /\ Tail(free_buffer_list) \in Seq(Buffers)
    BY <1>1, <1>3, PoppedFront
  <2>3. ASSUME NEW b \in Buffers
        PROVE  Placed(b, x, marks, Tail(free_buffer_list), allocated)
    <3>1. Placed(b, NoBuffer, marks, free_buffer_list, allocated) /\ b # NoBuffer
      BY BufferNumbers
    <3>2. /\ x = b /\ Once(free_buffer_list, b) => Absent(Tail(free_buffer_list), b)
          /\ Absent(free_buffer_list, b) => Absent(Tail(free_buffer_list), b) /\ x # b
          /\ x # b /\ Once(free_buffer_list, b) => Once(Tail(free_buffer_list), b)
      BY <1>1, <1>3, PoppedOnce
    <3> HIDE DEF x
    <3> QED
      BY <3>1, <3>2 DEF Placed
  <2> QED
    BY <1>1, <2>1, <2>2, <2>3
<1> QED
  BY <1>2, <1>3

\* No bytes of it are still to be written.
LEMMA TakenIsWritten ==
  ASSUME BufferInv, allocated + 1 <= MaxLines + 3, TakeBuffer
  PROVE  ~Unwritten(cur_buffer') /\ cur_buffer' # cur_buffer
<1> DEFINE b == cur_buffer'
<1>1. allocated \in Nat /\ free_buffer_list \in Seq(Buffers) /\ ref_list \in Seq(Refs)
  BY DEF BufferInv, SinkType
<1>2. b \in Buffers /\ (b = allocated + 1 \/ (free_buffer_list # <<>> /\ b = Head(free_buffer_list)))
  BY <1>1, BufferNumbers, PoppedFront DEF TakeBuffer
<1>3. Placed(b, cur_buffer, Marks(ref_list), free_buffer_list, allocated)
  BY <1>2 DEF BufferInv, BuffersPlaced
<1>4. b # cur_buffer /\ Absent(Marks(ref_list), b)
  <2>1. CASE b = allocated + 1
    BY <1>1, <1>3, <2>1 DEF Placed
  <2>2. CASE free_buffer_list # <<>> /\ b = Head(free_buffer_list)
    <3>1. ~Absent(free_buffer_list, b)
      BY <1>1, <2>2, PoppedFront DEF Absent
    <3> QED
      BY <1>3, <3>1 DEF Placed
  <2> QED
    BY <1>2, <2>1, <2>2
<1> HIDE DEF b
<1>5. \A i : ~Behind(ref_list, i, b)
  <2>1. \A j \in DOMAIN ref_list : Mark(ref_list[j]) # b
    BY <1>4 DEF Absent, Marks
  <2> QED
    BY <2>1 DEF Behind
<1>6. \A i \in DOMAIN ref_list : ~Refers(ref_list[i], b)
  BY <1>4, <1>5 DEF BufferInv, RefsTidy, Tidy, Refers
<1>7. ~Refers(ref, b)
  BY <1>4, <1>5 DEF BufferInv, RefsTidy, Refers, NoRef
<1> QED
  BY <1>4, <1>6, <1>7 DEF Unwritten, b

\* A thread that may take a buffer has one left, and so has the sink thread.
LEMMA BufferLeft ==
  ASSUME SinkType, Budget, LastTaken = 0 \/ RoomDue = 1
  PROVE  allocated + 1 <= MaxLines + 3
<1>1. allocated \in Nat /\ lines \in Nat /\ MaxLines \in Nat
  BY LinesAssumption DEF SinkType
<1>2. FirstDue \in {0, 1} /\ RoomDue \in {0, 1} /\ LastTaken \in {0, 1} /\ SinkLine \in {0, 1}
  BY DEF FirstDue, RoomDue, LastTaken, SinkLine
<1>3. allocated + FirstDue + RoomDue <= 1 + lines + LastTaken /\ lines <= MaxLines + SinkLine
  BY DEF Budget
<1> QED
  BY <1>1, <1>2, <1>3

\* The current buffer is replaced, after the references to its bytes are queued.
LEMMA BufferReplaced ==
  ASSUME BufferInv, allocated + 1 <= MaxLines + 3, TakeBuffer,
         NEW s \in Seq(Refs), Tidy(s, cur_buffer), \A b : Behind(ref_list, 0, b) => Behind(s, 0, b),
         \A b \in Buffers : /\ Absent(Marks(ref_list), b) => Absent(Marks(s), b)
                            /\ Once(Marks(ref_list), b) => Once(Marks(s), b),
         NEW at \in Nat, ref_list' = s \o FreeRef(at), ref' = ref,
         spc' \in {"io", "lastio"} <=> spc \in {"io", "lastio"}
  PROVE  /\ cur_buffer' \in Buffers /\ free_buffer_list' \in Seq(Buffers)
         /\ allocated' \in {allocated, allocated + 1} /\ ref_list' \in Seq(Refs)
         /\ BuffersPlaced' /\ RefsTidy'
<1> DEFINE c == cur_buffer
           p == s \o FreeRef(at)
           f == FreeRefTo(c, at)
<1>1. SinkType /\ c \in Buffers \cup {NoBuffer}
  BY DEF BufferInv, SinkType
<1>2. /\ p \in Seq(Refs) /\ \A d : Tidy(p, d)
      /\ \A b \in Buffers : Placed(b, NoBuffer, Marks(p), free_buffer_list, allocated)
      /\ \A b : Behind(s, 0, b) \/ (b = c /\ b \in Buffers) => Behind(p, 0, b)
  <2>1. CASE c # NoBuffer
    <3>1. c \in Buffers /\ f \in Refs /\ Mark(f) = c /\ f.length = 0 /\ f.ptr = c
      <4>1. c \in Buffers
        BY <1>1, <2>1
      <4>2. f.length = 0 /\ f.ptr = c
        BY DEF FreeRefTo
      <4>3. f \in Refs
        BY <4>1, LengthsAssumption DEF FreeRefTo, Refs
      <4>4. Mark(f) = c
        BY <4>2 DEF Mark
      <4> QED
        BY <4>1, <4>2, <4>3, <4>4
    <3>2. p = Append(s, f) /\ p \in Seq(Refs)
      <4>1. FreeRef(at) = <<f>>
        BY <2>1 DEF FreeRef
      <4> HIDE DEF f
      <4> QED
        BY <3>1, <4>1, PushedBack
    <3> HIDE DEF f
    <3>3. \A d : Tidy(p, d)
      BY <3>1, <3>2, TidyFree
    <3>4. Marks(p) = Append(Marks(s), c) /\ Marks(s) \in Seq(Buffers \cup {NoBuffer})
      BY <3>1, <3>2, MarksOf
    <3>5. ASSUME NEW b \in Buffers
          PROVE  Placed(b, NoBuffer, Marks(p), free_buffer_list, allocated)
      <4>1. Placed(b, c, Marks(ref_list), free_buffer_list, allocated) /\ b # NoBuffer
        BY BufferNumbers DEF BufferInv, BuffersPlaced
      <4> DEFINE m == Marks(s)
                 q == Marks(p)
      <4>2. (Absent(Marks(ref_list), b) => Absent(m, b)) /\ (Once(Marks(ref_list), b) => Once(m, b))
        OBVIOUS
      <4>3. q = Append(m, c) /\ m \in Seq(Buffers \cup {NoBuffer})
        BY <3>4
      <4> HIDE DEF m, q
      <4>4. /\ c = b /\ Absent(m, b) => Once(q, b)
            /\ c # b /\ Absent(m, b) => Absent(q, b)
            /\ c # b /\ Once(m, b) => Once(q, b)
        BY <1>1, <4>3, PushedOnce
      <4>5. CASE b = c
        <5>1. b <= allocated /\ Absent(m, b) /\ Absent(free_buffer_list, b)
          BY <4>1, <4>2, <4>5 DEF Placed
        <5>2. Once(q, b)
          BY <4>4, <4>5, <5>1
        <5>3. Placed(b, NoBuffer, q, free_buffer_list, allocated)
          BY <4>1, <5>1, <5>2 DEF Placed
        <5> QED
          BY <5>3 DEF q
      <4>6. CASE b # c
        <5>1. Placed(b, NoBuffer, q, free_buffer_list, allocated)
          BY <4>1, <4>2, <4>4, <4>6 DEF Placed
        <5> QED
          BY <5>1 DEF q
      <4> QED
        BY <4>5, <4>6
    <3> HIDE DEF p
    <3>6. \A b : Behind(s, 0, b) => Behind(p, 0, b)
      BY <3>1, <3>2, PushedBack DEF Behind
    <3>7. Behind(p, 0, c)
      <4>1. Len(s) + 1 > 0
        OBVIOUS
      <4> QED
        BY <3>1, <3>2, <4>1, PushedBack DEF Behind
    <3> QED
      BY <3>2, <3>3, <3>5, <3>6, <3>7 DEF p
  <2>2. CASE c = NoBuffer
    <3>1. p = s
      BY <2>2 DEF FreeRef
    <3>2. \A i \in DOMAIN s : s[i].ptr # NoBuffer
      <4>1. \A i \in DOMAIN s : s[i] \in Refs
        OBVIOUS
      <4>2. \A r \in Refs : r.ptr \in Buffers
        BY DEF Refs
      <4> QED
        BY <4>1, <4>2, BufferNumbers
    <3>3. \A d : Tidy(s, d)
      BY <2>2, <3>2 DEF Tidy
    <3>4. ASSUME NEW b \in Buffers
          PROVE  Placed(b, NoBuffer, Marks(s), free_buffer_list, allocated)
      <4>1. Placed(b, NoBuffer, Marks(ref_list), free_buffer_list, allocated) /\ b # NoBuffer
        BY <2>2, BufferNumbers DEF BufferInv, BuffersPlaced
      <4> QED
        BY <4>1 DEF Placed
    <3> HIDE DEF p
    <3> QED
      BY <2>2, <3>1, <3>3, <3>4, BufferNumbers
  <2> QED
    BY <2>1, <2>2
<1> HIDE DEF p
<1>3. /\ cur_buffer' \in Buffers /\ free_buffer_list' \in Seq(Buffers)
      /\ allocated' \in {allocated, allocated + 1}
      /\ \A b \in Buffers : Placed(b, cur_buffer', Marks(p), free_buffer_list', allocated')
  BY <1>1, <1>2, BufferTaken
<1>4. ref_list' = p
  BY DEF p
<1>5. BuffersPlaced'
  BY <1>3, <1>4 DEF BuffersPlaced
<1>6. RefsTidy'
  <2>1. Tidy(ref_list', cur_buffer')
    BY <1>2, <1>4
  <2>2. CASE spc \in {"io", "lastio"}
    <3>1. ref.length > 0 /\ (ref.ptr = c \/ Behind(ref_list, 0, ref.ptr)) /\ ref.ptr \in Buffers
      BY <2>2 DEF BufferInv, RefsTidy, SinkType, Refs, NoRef
    <3>2. Behind(p, 0, ref.ptr)
      BY <1>2, <3>1
    <3> QED
      BY <1>4, <2>1, <2>2, <3>1, <3>2 DEF RefsTidy
  <2>3. CASE spc \notin {"io", "lastio"}
    BY <2>1, <2>3 DEF BufferInv, RefsTidy, NoRef
  <2> QED
    BY <2>2, <2>3
<1> QED
  BY <1>2, <1>3, <1>4, <1>5, <1>6

-----------------------------------------------------------------------------
(* The steps keep BufferInv *)

\* Only one thread is in append_buf, and the sink thread is one of the loggers.
LEMMA Alone ==
  ASSUME Locked, NEW t \in Loggers, pc[t] # "idle"
  PROVE  mutex_front = t /\ \A u \in Loggers \ {t} : pc[u] = "idle"
BY DEF Locked

\* sink is a logger, and nobody is not.
LEMMA Names == sink \in Loggers /\ nobody \notin Loggers /\ nobody # sink
BY SinkAssumption DEF Loggers

\* The locals at the start of append_buf ...
LEMMA LocalsOf ==
  ASSUME NEW x \in Nat, NEW n \in 0 .. Size
  PROVE  /\ [NoLocals EXCEPT !.line = x, !.length = n] = [line |-> x, length |-> n, ptr |-> Start(NoBuffer)]
         /\ [line |-> x, length |-> n, ptr |-> Start(NoBuffer)] \in Locals /\ NoLocals \in Locals
<1> DEFINE p == Start(NoBuffer)
<1>1. p \in Pointers /\ 0 \in 0 .. Size /\ NoLine \in Nat
  BY PointerTypes, LengthsAssumption DEF NoLine
<1>2. NoLocals = [line |-> NoLine, length |-> 0, ptr |-> p]
  BY DEF NoLocals
<1> HIDE DEF p
<1>3. [NoLocals EXCEPT !.line = x, !.length = n] = [line |-> x, length |-> n, ptr |-> p]
  <2>1. [NoLocals EXCEPT !.line = x] = [line |-> x, length |-> 0, ptr |-> p]
    BY <1>2
  <2>2. [[line |-> x, length |-> 0, ptr |-> p] EXCEPT !.length = n] = [line |-> x, length |-> n, ptr |-> p]
    OBVIOUS
  <2> QED
    BY <2>1, <2>2, Zenon
<1>4. [line |-> x, length |-> n, ptr |-> p] \in Locals /\ NoLocals \in Locals
  BY <1>1, <1>2 DEF Locals
<1> QED
  BY <1>3, <1>4 DEF p

\* ... and when cur_ptr_ is read
LEMMA LocalsRead ==
  ASSUME loc \in [Loggers -> Locals], NEW t \in Loggers, cur_ptr' \in Pointers, loc' = [loc EXCEPT ![t].ptr = cur_ptr']
  PROVE  /\ loc' \in [Loggers -> Locals]
         /\ loc'[t].ptr = cur_ptr' /\ loc'[t].length = loc[t].length /\ loc'[t].line = loc[t].line
         /\ \A u \in Loggers \ {t} : loc'[u] = loc[u]
<1> DEFINE p == cur_ptr'
<1>1. p \in Pointers /\ loc' = [loc EXCEPT ![t].ptr = p]
  OBVIOUS
<1> HIDE DEF p
<1>2. loc[t] \in Locals /\ [loc[t] EXCEPT !.ptr = p] = [line |-> loc[t].line, length |-> loc[t].length, ptr |-> p]
  BY <1>1 DEF Locals
<1>3. loc' = [loc EXCEPT ![t] = [line |-> loc[t].line, length |-> loc[t].length, ptr |-> p]]
  BY <1>1, <1>2
<1>4. [line |-> loc[t].line, length |-> loc[t].length, ptr |-> p] \in Locals
  BY <1>1, <1>2 DEF Locals
<1> QED
  BY <1>3, <1>4 DEF p

\* Nothing happens to the buffers.
LEMMA BuffersKept ==
  ASSUME BufferInv, UNCHANGED <<ref_list, free_buffer_list, cur_buffer, allocated, ref>>,
         spc' = spc \/ (spc \notin {"io", "lastio"} /\ spc' \notin {"io", "lastio"})
  PROVE  BuffersPlaced' /\ RefsTidy'
<1>1. BuffersPlaced'
  BY DEF BufferInv, BuffersPlaced
<1>2. RefsTidy'
  BY DEF BufferInv, RefsTidy
<1> QED
  BY <1>1, <1>2

\* Nothing happens to what a thread in append_buf has found out.
LEMMA CurrentKept ==
  ASSUME BufferInv, UNCHANGED <<cur_buffer, cur_ptr, pc, loc, wild>>, Ending => Ending',
         spc' = "retire" => spc = "retire", Ending' => spc = "retire" \/ Ending
  PROVE  Current'
<1>1. \A t \in Loggers : Using(t)' <=> Using(t)
  BY DEF Using
<1>2. \A t \in Loggers : InUse(t)'
  BY <1>1 DEF BufferInv, Current, InUse
<1> QED
  BY <1>2 DEF BufferInv, Current

\* The buffers that are left
LEMMA BudgetMoves ==
  ASSUME SinkType, Budget, allocated' \in Nat, lines' = lines,
         allocated' + FirstDue' + RoomDue' + LastTaken <= allocated + FirstDue + RoomDue + LastTaken',
         SinkLine <= SinkLine'
  PROVE  Budget'
<1>1. allocated \in Nat /\ allocated' \in Nat /\ lines \in Nat /\ MaxLines \in Nat
  BY LinesAssumption DEF SinkType
<1>2. /\ FirstDue \in {0, 1} /\ RoomDue \in {0, 1} /\ LastTaken \in {0, 1} /\ SinkLine \in {0, 1}
      /\ FirstDue' \in {0, 1} /\ RoomDue' \in {0, 1} /\ LastTaken' \in {0, 1} /\ SinkLine' \in {0, 1}
  BY DEF FirstDue, RoomDue, LastTaken, SinkLine
<1>3. allocated + FirstDue + RoomDue <= 1 + lines + LastTaken /\ lines <= MaxLines + SinkLine
  BY DEF Budget
<1> DEFINE a == allocated'
           f == FirstDue'
           r == RoomDue'
           e == LastTaken'
           k == SinkLine'
<1>4. /\ a \in Nat /\ f \in {0, 1} /\ r \in {0, 1} /\ e \in {0, 1} /\ k \in {0, 1} /\ SinkLine <= k
      /\ a + f + r + LastTaken <= allocated + FirstDue + RoomDue + e
  BY <1>1, <1>2
<1> HIDE DEF a, f, r, e, k
<1>5. a + f + r <= 1 + lines + e /\ lines <= MaxLines + k
  BY <1>1, <1>2, <1>3, <1>4
<1>6. allocated' + FirstDue' + RoomDue' <= 1 + lines + LastTaken' /\ lines <= MaxLines + SinkLine'
  BY <1>5 DEF a, f, r, e, k
<1> QED
  BY <1>6 DEF Budget

\* No buffer is taken, and no thread comes to need one.
LEMMA BudgetKept ==
  ASSUME SinkType, Budget, UNCHANGED <<allocated, lines, cur_buffer>>, RoomDue' = 0 \/ RoomDue' = RoomDue,
         LastTaken = 1 => LastTaken' = 1, SinkLine = 1 => SinkLine' = 1
  PROVE  Budget'
<1>1. /\ FirstDue \in {0, 1} /\ RoomDue \in {0, 1} /\ LastTaken \in {0, 1} /\ SinkLine \in {0, 1}
      /\ FirstDue' = FirstDue /\ RoomDue' \in {0, 1} /\ LastTaken' \in {0, 1} /\ SinkLine' \in {0, 1}
  BY DEF FirstDue, RoomDue, LastTaken, SinkLine
<1>2. allocated \in Nat /\ allocated' = allocated
  BY DEF SinkType
<1>3. allocated' + FirstDue' + RoomDue' + LastTaken <= allocated + FirstDue + RoomDue + LastTaken'
  <2> DEFINE r == RoomDue'
             e == LastTaken'
  <2>1. r \in {0, 1} /\ e \in {0, 1} /\ (r = 0 \/ r = RoomDue) /\ (LastTaken = 1 => e = 1)
    BY <1>1
  <2> HIDE DEF r, e
  <2>2. allocated + FirstDue + r + LastTaken <= allocated + FirstDue + RoomDue + e
    BY <1>1, <1>2, <2>1
  <2> QED
    BY <1>1, <1>2, <2>2 DEF r, e
<1>4. SinkLine <= SinkLine'
  BY <1>1
<1> QED
  BY <1>2, <1>3, <1>4, BudgetMoves

\* The sink thread goes on, and nothing else happens to it.
LEMMA SinkGoesOn ==
  ASSUME pc' = pc, spc = "retire" \/ Ending => spc' = "retire" \/ Ending', LastTaken = 1 => LastTaken' = 1,
         SinkType, Budget, UNCHANGED <<allocated, lines, cur_buffer>>
  PROVE  Budget'
<1>1. RoomDue' = RoomDue
  BY DEF RoomDue
<1>2. SinkLine = 1 => SinkLine' = 1
  BY DEF SinkLine
<1> QED
  BY <1>1, <1>2, BudgetKept

\* append_buf takes mutex_front_.
LEMMA StepAppendLock ==
  ASSUME BufferInv, ~wild, NEW t \in Loggers, NEW n \in Lengths, AppendLock(t, n)
  PROVE  BufferInv'
<1> USE DEF BufferInv
<1> DEFINE l == [line |-> lines + 1, length |-> n, ptr |-> Start(NoBuffer)]
<1>1. n \in 0 .. Size /\ lines + 1 \in Nat /\ lines \in Nat /\ MaxLines \in Nat
  BY LengthsAssumption, LinesAssumption DEF SinkType
<1>2. l \in Locals /\ [NoLocals EXCEPT !.line = lines + 1, !.length = n] = l
  BY <1>1, LocalsOf
<1>3. /\ pc[t] = "idle" /\ mutex_front = nobody /\ mutex_front' = t /\ lines' = lines + 1
      /\ (IF t = sink THEN spc = "fatal" ELSE lines < MaxLines)
      /\ loc' = [loc EXCEPT ![t] = l]
      /\ pc' = [pc EXCEPT ![t] = "first"]
      /\ UNCHANGED <<mutex_backend, ref_list, free_buffer_list, cur_buffer, cur_ptr, allocated>>
      /\ UNCHANGED <<mem, wild, finished, spc, ref, stopping, logged, synced, spoiled, out, promised>>
  <2> HIDE DEF l
  <2> QED
    BY <1>2 DEF AppendLock, Goto, buffers
<1> HIDE DEF l
<1>4. SinkType'
  BY <1>1, <1>2, <1>3 DEF SinkType
<1>5. Locked'
  BY <1>3, Names DEF SinkType, Locked
<1>6. \A u \in Loggers : pc[u] = "idle" /\ pc'[u] \in {"idle", "first"}
  BY <1>3, Names DEF Locked, SinkType
<1>7. Current'
  <2>1. \A u \in Loggers : InUse(u)'
    BY <1>6 DEF InUse, Using
  <2> QED
    BY <1>3, <2>1 DEF Current, Ending
<1>8. Budget'
  <2>1. RoomDue = 0 /\ RoomDue' \in {0, 1} /\ FirstDue' = FirstDue /\ LastTaken' = LastTaken
    BY <1>3, <1>6 DEF RoomDue, FirstDue, LastTaken
  <2>2. FirstDue \in {0, 1} /\ LastTaken \in {0, 1} /\ SinkLine \in {0, 1} /\ SinkLine' \in {0, 1}
    BY DEF FirstDue, LastTaken, SinkLine
  <2>3. allocated + FirstDue + RoomDue <= 1 + lines + LastTaken /\ lines <= MaxLines + SinkLine
        /\ allocated \in Nat /\ allocated' = allocated
    BY <1>3 DEF Budget, SinkType
  <2>4. allocated' + FirstDue' + RoomDue' <= 1 + lines' + LastTaken'
    <3>1. \A r \in {0, 1} : allocated + FirstDue + r <= 1 + (lines + 1) + LastTaken
      BY <1>1, <2>1, <2>2, <2>3
    <3> QED
      BY <1>3, <2>1, <2>3, <3>1
  <2>5. lines' <= MaxLines + SinkLine'
    <3>1. CASE t = sink
      <4>1. SinkLine = 0 /\ SinkLine' = 1
        BY <1>3, <3>1, Names DEF SinkLine, SinkType, Ending
      <4> QED
        BY <1>1, <1>3, <2>3, <4>1
    <3>2. CASE t # sink
      <4>1. \A k \in {0, 1} : lines + 1 <= MaxLines + k
        BY <1>1, <1>3, <3>2
      <4> QED
        BY <1>3, <2>2, <4>1
    <3> QED
      BY <3>1, <3>2
  <2> QED
    BY <2>4, <2>5 DEF Budget
<1>9. BuffersPlaced' /\ RefsTidy'
  BY <1>3, BuffersKept
<1> QED
  BY <1>4, <1>5, <1>7, <1>8, <1>9

\* The list, the buffers and cur_ptr_ when append_buf calls new_buffer
LEMMA NewBufferDone ==
  ASSUME BufferInv, NewBuffer, LastTaken = 0 \/ RoomDue = 1, ref' = ref, spc' = spc
  PROVE  /\ cur_buffer' \in Buffers /\ cur_buffer' # NoBuffer /\ free_buffer_list' \in Seq(Buffers)
         /\ cur_ptr' = Start(cur_buffer') /\ cur_ptr' \in Pointers
         /\ allocated' \in {allocated, allocated + 1} /\ ref_list' \in Seq(Refs)
         /\ BuffersPlaced' /\ RefsTidy' /\ ~Unwritten(cur_buffer')
<1>1. allocated + 1 <= MaxLines + 3
  BY BufferLeft DEF BufferInv
<1> DEFINE s == ref_list \o DataRef
<1>2. /\ s \in Seq(Refs) /\ Tidy(s, cur_buffer) /\ \A b : Behind(ref_list, 0, b) => Behind(s, 0, b)
      /\ \A b \in Buffers : /\ Absent(Marks(ref_list), b) => Absent(Marks(s), b)
                            /\ Once(Marks(ref_list), b) => Once(Marks(s), b)
  BY DataQueued
<1>3. DataEnd \in Nat
  <2>1. QueueEnd \in Nat /\ cur_ptr.offset \in Nat
    BY QueueEnds, PointerTypes DEF BufferInv, SinkType
  <2> QED
    BY <2>1 DEF DataEnd
<1>4. ref_list' = s \o FreeRef(DataEnd) /\ TakeBuffer /\ cur_ptr' = Start(cur_buffer')
  BY DEF NewBuffer, DataFirst
<1> HIDE DEF s
<1>5. spc' \in {"io", "lastio"} <=> spc \in {"io", "lastio"}
  OBVIOUS
<1>6. /\ cur_buffer' \in Buffers /\ free_buffer_list' \in Seq(Buffers)
      /\ allocated' \in {allocated, allocated + 1} /\ ref_list' \in Seq(Refs)
      /\ BuffersPlaced' /\ RefsTidy'
  BY <1>1, <1>2, <1>3, <1>4, <1>5, BufferReplaced
<1>7. ~Unwritten(cur_buffer')
  BY <1>1, <1>4, TakenIsWritten
<1> QED
  BY <1>4, <1>6, <1>7, PointerTypes, BufferNumbers

\* append_buf calls new_buffer, for the first line or for one that does not fit.
LEMMA StepNewBuffer ==
  ASSUME BufferInv, ~wild, NEW t \in Loggers, NewBuffer,
         \/ pc[t] = "first" /\ cur_buffer = NoBuffer /\ pc' = [pc EXCEPT ![t] = "room"]
         \/ pc[t] = "room" /\ pc' = [pc EXCEPT ![t] = "copy"],
         loc' = [loc EXCEPT ![t].ptr = cur_ptr'], wild' \in {FALSE, cur_ptr.buffer # cur_buffer},
         UNCHANGED <<mutex_front, mutex_backend, mem, finished, spc, ref, stopping, lines, logged>>,
         UNCHANGED <<synced, spoiled, out, promised>>
  PROVE  BufferInv'
<1> USE DEF BufferInv
<1>1. \A u \in Loggers \ {t} : pc[u] = "idle" /\ pc'[u] = "idle"
  BY Alone DEF SinkType
<1>2. pc \in [Loggers -> {"idle", "first", "room", "copy", "store"}]
  BY DEF SinkType
<1>3. RoomDue = 1
  BY DEF RoomDue
<1>4. /\ cur_buffer' \in Buffers /\ cur_buffer' # NoBuffer /\ free_buffer_list' \in Seq(Buffers)
      /\ cur_ptr' = Start(cur_buffer') /\ cur_ptr' \in Pointers
      /\ allocated' \in {allocated, allocated + 1} /\ ref_list' \in Seq(Refs)
      /\ BuffersPlaced' /\ RefsTidy'
  BY <1>3, NewBufferDone
<1>5. /\ loc' \in [Loggers -> Locals] /\ loc'[t].ptr = cur_ptr' /\ loc'[t].length = loc[t].length
      /\ loc[t].length \in 0 .. Size
  BY <1>4, LocalsRead DEF SinkType, Locals
<1>6. wild' \in BOOLEAN /\ (~Ending => ~wild') /\ (Ending' <=> Ending)
  BY DEF Current, Ending
<1>7. SinkType'
  <2>1. allocated' \in Nat
    BY <1>4 DEF SinkType
  <2>2. pc' \in [Loggers -> {"idle", "first", "room", "copy", "store"}]
    BY <1>2
  <2> QED
    BY <1>4, <1>5, <1>6, <2>1, <2>2 DEF SinkType
<1>8. Locked'
  <2>1. \A u \in Loggers : pc'[u] # "idle" <=> pc[u] # "idle"
    BY <1>1, <1>2
  <2> QED
    BY <2>1, Names DEF Locked
<1>9. Current'
  <2>1. cur_ptr'.buffer = cur_buffer' /\ cur_ptr'.offset = 0 /\ Size \in Nat
    BY <1>4, PointerTypes
  <2>2. pc'[t] \in {"room", "copy"}
    BY <1>2
  <2>3. InUse(t)'
    BY <1>4, <1>5, <2>1, <2>2 DEF InUse, Using
  <2>4. \A u \in Loggers \ {t} : InUse(u)'
    BY <1>1 DEF InUse, Using
  <2>5. \A u \in Loggers : InUse(u)'
    BY <2>3, <2>4
  <2> QED
    BY <1>4, <1>6, <2>1, <2>5 DEF Current
<1>10. Budget'
  <2>1. FirstDue' = 0 /\ LastTaken' = LastTaken /\ LastTaken \in {0, 1}
    BY <1>4 DEF FirstDue, LastTaken
  <2>2. FirstDue \in {0, 1} /\ RoomDue' \in {0, 1} /\ FirstDue + RoomDue >= 1 + RoomDue'
    <3>1. CASE pc[t] = "first" /\ cur_buffer = NoBuffer
      <4>1. FirstDue = 1
        BY <3>1 DEF FirstDue
      <4>2. RoomDue' \in {0, 1}
        BY DEF RoomDue
      <4> QED
        BY <1>3, <4>1, <4>2
    <3>2. CASE pc[t] = "room" /\ pc' = [pc EXCEPT ![t] = "copy"]
      <4>1. RoomDue' = 0
        BY <1>1, <1>2, <3>2 DEF RoomDue
      <4>2. FirstDue \in {0, 1}
        BY DEF FirstDue
      <4> QED
        BY <1>3, <4>1, <4>2
    <3> QED
      BY <3>1, <3>2
  <2>3. SinkLine' = SinkLine /\ SinkLine \in {0, 1}
    BY <1>2, <1>6, Names DEF SinkLine
  <2>4. allocated' + FirstDue' + RoomDue' + LastTaken <= allocated + FirstDue + RoomDue + LastTaken'
    <3>1. \A a \in {allocated, allocated + 1} : a + 0 + RoomDue' + LastTaken <= allocated + FirstDue + RoomDue + LastTaken
      <4>1. allocated \in Nat
        BY DEF SinkType
      <4> QED
        BY <1>3, <2>1, <2>2, <4>1
    <3> QED
      BY <1>4, <2>1, <3>1
  <2>5. allocated' \in Nat /\ SinkLine <= SinkLine'
    BY <1>7, <2>3 DEF SinkType
  <2> QED
    BY <2>4, <2>5, BudgetMoves
<1> QED
  BY <1>4, <1>7, <1>8, <1>9, <1>10

\* append_buf finds a buffer, or room in it.
LEMMA StepFound ==
  ASSUME BufferInv, ~wild, NEW t \in Loggers, UNCHANGED <<ref_list, free_buffer_list, cur_buffer, cur_ptr, allocated>>,
         \/ pc[t] = "first" /\ cur_buffer # NoBuffer /\ pc' = [pc EXCEPT ![t] = "room"] /\ loc' = [loc EXCEPT ![t].ptr = cur_ptr']
         \/ /\ pc[t] = "room" /\ pc' = [pc EXCEPT ![t] = "copy"] /\ loc' = loc
            /\ loc[t].ptr.buffer = cur_buffer => ~Overruns(loc[t].ptr, loc[t].length),
         UNCHANGED <<mutex_front, mutex_backend, mem, wild, finished, spc, ref, stopping, lines, logged>>,
         UNCHANGED <<synced, spoiled, out, promised>>
  PROVE  BufferInv'
<1> USE DEF BufferInv
<1>1. \A u \in Loggers \ {t} : pc[u] = "idle" /\ pc'[u] = "idle"
  BY Alone DEF SinkType
<1>2. pc \in [Loggers -> {"idle", "first", "room", "copy", "store"}] /\ cur_ptr' \in Pointers /\ loc \in [Loggers -> Locals]
  BY DEF SinkType
<1>3. /\ loc' \in [Loggers -> Locals] /\ loc'[t].length = loc[t].length
      /\ pc[t] = "first" => loc'[t].ptr = cur_ptr
      /\ pc[t] = "room" => loc'[t].ptr = loc[t].ptr
      /\ \A u \in Loggers \ {t} : loc'[u] = loc[u]
  BY <1>2, LocalsRead
<1>4. SinkType'
  BY <1>2, <1>3 DEF SinkType
<1>5. Locked'
  <2>1. \A u \in Loggers : pc'[u] # "idle" <=> pc[u] # "idle"
    BY <1>1, <1>2
  <2> QED
    BY <2>1, Names DEF Locked
<1>6. Current'
  <2>1. Ending' <=> Ending
    BY DEF Ending
  <2>2. InUse(t)'
    <3>1. CASE pc[t] = "first"
      <4>1. pc'[t] = "room" /\ cur_buffer # NoBuffer /\ cur_ptr.buffer # NoBuffer /\ loc'[t].ptr = cur_ptr
        BY <1>2, <1>3, <3>1 DEF Current
      <4> QED
        BY <4>1 DEF InUse, Using
    <3>2. CASE pc[t] = "room"
      <4>1. pc'[t] = "copy" /\ InUse(t) /\ Using(t)
        BY <1>2, <3>2 DEF Current, Using
      <4>2. ~Ending => loc[t].ptr = cur_ptr /\ cur_ptr.buffer = cur_buffer
        BY <4>1 DEF InUse, Current
      <4>3. ~Ending => loc[t].ptr.offset + loc[t].length <= Size
        <5>1. loc[t].ptr.offset \in Nat /\ loc[t].length \in Nat /\ Size \in Nat
          BY <1>2, LengthsAssumption DEF Locals, Pointers
        <5> QED
          BY <3>2, <4>2, <5>1 DEF Overruns
      <4> QED
        BY <1>3, <2>1, <3>2, <4>1, <4>3 DEF InUse, Using
    <3> QED
      BY <3>1, <3>2
  <2>3. \A u \in Loggers \ {t} : InUse(u)'
    BY <1>1 DEF InUse, Using
  <2>4. \A u \in Loggers : InUse(u)'
    BY <2>2, <2>3
  <2> QED
    BY <2>1, <2>4 DEF Current
<1>7. Budget'
  <2>1. RoomDue = 1 /\ RoomDue' \in {0, 1}
    BY DEF RoomDue
  <2>2. SinkLine' = SinkLine /\ LastTaken' = LastTaken
    BY <1>2, Names DEF SinkLine, LastTaken, Ending
  <2> QED
    BY <2>1, <2>2, BudgetKept
<1> QED
  BY <1>4, <1>5, <1>6, <1>7, BuffersKept

\* append_buf looks for the first buffer, ...
LEMMA StepAppendFirst ==
  ASSUME BufferInv, ~wild, NEW t \in Loggers, AppendFirst(t)
  PROVE  BufferInv'
<1>1. /\ pc[t] = "first" /\ pc' = [pc EXCEPT ![t] = "room"] /\ loc' = [loc EXCEPT ![t].ptr = cur_ptr'] /\ wild' = wild
      /\ UNCHANGED <<mutex_front, mutex_backend, mem, finished, spc, ref, stopping, lines, logged>>
      /\ UNCHANGED <<synced, spoiled, out, promised>>
      /\ \/ cur_buffer = NoBuffer /\ NewBuffer
         \/ cur_buffer # NoBuffer /\ UNCHANGED <<ref_list, free_buffer_list, cur_buffer, cur_ptr, allocated>>
  BY DEF AppendFirst, Goto, buffers, history
<1>2. wild' \in {FALSE, cur_ptr.buffer # cur_buffer}
  BY <1>1 DEF BufferInv, SinkType
<1> QED
  BY <1>1, <1>2, StepNewBuffer, StepFound

\* ... or for room.
LEMMA StepAppendRoom ==
  ASSUME BufferInv, ~wild, NEW t \in Loggers, AppendRoom(t)
  PROVE  BufferInv'
<1>1. /\ pc[t] = "room" /\ pc' = [pc EXCEPT ![t] = "copy"]
      /\ UNCHANGED <<mutex_front, mutex_backend, mem, finished, spc, ref, stopping, lines, logged>>
      /\ UNCHANGED <<synced, spoiled, out, promised>>
      /\ \/ /\ NewBuffer /\ loc' = [loc EXCEPT ![t].ptr = cur_ptr'] /\ wild' \in {FALSE, cur_ptr.buffer # cur_buffer}
         \/ /\ loc[t].ptr.buffer = cur_buffer => ~Overruns(loc[t].ptr, loc[t].length)
            /\ UNCHANGED <<ref_list, free_buffer_list, cur_buffer, cur_ptr, allocated, wild>> /\ loc' = loc
  BY DEF AppendRoom, Goto, buffers, history
<1> QED
  BY <1>1, StepNewBuffer, StepFound

\* cur_ptr_ is read again.
LEMMA StepReload ==
  ASSUME BufferInv, ~wild, NEW t \in Loggers, Reload(t)
  PROVE  BufferInv'
<1> USE DEF BufferInv
<1>1. /\ Using(t) /\ loc[t].ptr # cur_ptr /\ loc' = [loc EXCEPT ![t].ptr = cur_ptr'] /\ cur_ptr' = cur_ptr /\ pc' = pc
      /\ UNCHANGED <<mutex_front, mutex_backend, ref_list, free_buffer_list, cur_buffer, allocated, mem, wild>>
      /\ UNCHANGED <<finished, spc, ref, stopping, lines, logged, synced, spoiled, out, promised>>
  BY DEF Reload, Using, buffers, history
<1>2. cur_ptr \in Pointers /\ loc \in [Loggers -> Locals]
  BY DEF SinkType
<1>3. /\ loc' \in [Loggers -> Locals] /\ loc'[t].ptr = cur_ptr /\ loc'[t].length = loc[t].length
      /\ \A u \in Loggers \ {t} : loc'[u] = loc[u]
  BY <1>1, <1>2, LocalsRead
<1>4. SinkType' /\ Locked'
  BY <1>1, <1>3 DEF SinkType, Locked
<1>5. Current'
  <2>1. Ending /\ Ending' /\ cur_ptr.offset = 0 /\ cur_buffer # NoBuffer /\ cur_ptr.buffer # NoBuffer
    BY <1>1 DEF Current, InUse, Ending
  <2>2. loc[t].length \in 0 .. Size /\ Size \in Nat
    BY <1>2, LengthsAssumption DEF Locals
  <2>3. InUse(t)'
    BY <1>1, <1>3, <2>1, <2>2 DEF InUse, Using
  <2>4. \A u \in Loggers \ {t} : InUse(u)'
    <3>1. \A u \in Loggers \ {t} : pc'[u] = "idle"
      BY <1>1, Alone DEF Using
    <3> QED
      BY <3>1 DEF InUse, Using
  <2>5. \A u \in Loggers : InUse(u)'
    BY <2>3, <2>4
  <2> QED
    BY <1>1, <2>1, <2>5 DEF Current
<1>6. Budget'
  BY <1>1, SinkGoesOn DEF Ending, LastTaken
<1> QED
  BY <1>1, <1>4, <1>5, <1>6, BuffersKept

\* memcpy
LEMMA StepAppendCopy ==
  ASSUME BufferInv, ~wild, NEW t \in Loggers, AppendCopy(t)
  PROVE  BufferInv'
<1> USE DEF BufferInv
<1> DEFINE p == loc[t].ptr
           n == loc[t].length
<1>1. /\ pc[t] = "copy" /\ pc' = [pc EXCEPT ![t] = "store"]
      /\ UNCHANGED <<mutex_front, mutex_backend, ref_list, free_buffer_list, cur_buffer, cur_ptr, allocated>>
      /\ UNCHANGED <<finished, loc, spc, ref, stopping, lines, logged, synced, out, promised>>
      /\ \/ /\ p.offset + n <= Size /\ wild' = wild /\ spoiled' = spoiled \cup Overwritten(p, n)
            /\ mem' = [mem EXCEPT ![p.buffer] = [i \in 1 .. Size |-> IF i \in Span(p, n) THEN loc[t].line ELSE @[i]]]
         \/ p.offset + n > Size /\ wild' = TRUE /\ mem' = mem /\ spoiled' = spoiled
  BY DEF AppendCopy, Goto, buffers
<1>2. InUse(t) /\ Using(t) /\ pc \in [Loggers -> {"idle", "first", "room", "copy", "store"}]
  BY <1>1 DEF Current, Using, SinkType
<1>3. /\ p.buffer \in Buffers /\ p.offset \in 0 .. Size /\ n \in 0 .. Size /\ loc[t].line \in Nat
      /\ mem \in [Buffers -> [1 .. Size -> Nat]] /\ Size \in Nat
  <2>1. loc[t] \in Locals /\ p.buffer # NoBuffer /\ mem \in [Buffers -> [1 .. Size -> Nat]]
    BY <1>2 DEF InUse, SinkType
  <2> QED
    BY <2>1, LengthsAssumption DEF Locals, Pointers
<1> HIDE DEF p, n
<1>4. mem' \in [Buffers -> [1 .. Size -> Nat]]
  <2>1. [i \in 1 .. Size |-> IF i \in Span(p, n) THEN loc[t].line ELSE mem[p.buffer][i]] \in [1 .. Size -> Nat]
    BY <1>3
  <2> QED
    BY <1>1, <1>3, <2>1
<1>5. spoiled' \in SUBSET Nat /\ wild' \in BOOLEAN
  <2>1. synced.at \in Nat
    BY LengthsAssumption DEF SinkType, Refs, NoRef
  <2>2. Overwritten(p, n) \subseteq Nat
    <3>1. \A i \in 1 .. synced.length : i \in Nat /\ synced.at + i \in Nat
      BY <2>1
    <3> QED
      BY <3>1 DEF Overwritten
  <2> QED
    BY <1>1, <2>2 DEF SinkType
<1>6. SinkType'
  BY <1>1, <1>2, <1>4, <1>5 DEF SinkType
<1>7. Locked'
  BY <1>1, <1>2 DEF Locked
<1>8. Current'
  <2>1. (Ending' <=> Ending) /\ pc'[t] = "store"
    BY <1>1, <1>2 DEF Ending
  <2>2. ~Ending => ~wild' /\ p.offset + n <= Size
    <3>1. ~Ending => p.offset + n <= Size
      BY <1>1, <1>2 DEF InUse, p, n
    <3> QED
      BY <1>1, <1>3, <3>1
  <2>3. ~wild' => p.offset + n <= Size
    BY <1>1
  <2>4. InUse(t)'
    BY <1>1, <1>2, <2>1, <2>3 DEF InUse, Using, p, n
  <2>5. \A u \in Loggers \ {t} : pc'[u] = "idle"
    BY <1>1, <1>2, Alone
  <2>6. \A u \in Loggers : InUse(u)'
    BY <2>4, <2>5 DEF InUse, Using
  <2> QED
    BY <1>1, <2>1, <2>2, <2>6 DEF Current
<1>9. Budget'
  <2>1. RoomDue' = 0
    BY <1>1, <1>2, Alone DEF RoomDue
  <2>2. SinkLine' = SinkLine /\ LastTaken' = LastTaken
    BY <1>1, <1>2, Names DEF SinkLine, LastTaken, Ending
  <2> QED
    BY <1>1, <2>1, <2>2, BudgetKept
<1> QED
  BY <1>1, <1>6, <1>7, <1>8, <1>9, BuffersKept

\* The end of append_buf
LEMMA StepAppendStore ==
  ASSUME BufferInv, ~wild, NEW t \in Loggers, AppendStore(t)
  PROVE  BufferInv'
<1> USE DEF BufferInv
<1>1. /\ pc[t] = "store" /\ cur_ptr' = [loc[t].ptr EXCEPT !.offset = @ + loc[t].length] /\ mutex_front' = nobody
      /\ logged' = (IF Ending THEN logged ELSE logged \o [i \in 1 .. loc[t].length |-> loc[t].line])
      /\ loc' = [loc EXCEPT ![t] = NoLocals]
      /\ pc' = [pc EXCEPT ![t] = "idle"] /\ spc' = (IF t = sink THEN "retire" ELSE spc)
      /\ UNCHANGED <<mutex_backend, ref_list, free_buffer_list, cur_buffer, mem, wild, allocated>>
      /\ UNCHANGED <<finished, ref, stopping, lines, synced, spoiled, out, promised>>
  BY DEF AppendStore, Goto
<1>2. mutex_front = t /\ (\A u \in Loggers : pc'[u] = "idle") /\ (t = sink => spc = "fatal") /\ nobody # t
  BY <1>1, Alone, Names DEF SinkType, Locked
<1>3. /\ loc[t].length \in 0 .. Size /\ loc[t].line \in Nat /\ loc[t].ptr \in Pointers /\ Size \in Nat
      /\ loc[t].ptr.offset \in 0 .. Size
      /\ loc[t].ptr.offset + loc[t].length <= Size /\ cur_buffer # NoBuffer /\ loc[t].ptr.buffer # NoBuffer
      /\ ~Ending => loc[t].ptr = cur_ptr
  <2>1. loc[t] \in Locals /\ InUse(t) /\ Using(t)
    BY <1>1 DEF SinkType, Current, Using
  <2> QED
    BY <1>1, <2>1, LengthsAssumption DEF InUse, Locals, Pointers
<1>4. /\ cur_ptr' \in Pointers /\ cur_ptr'.buffer = loc[t].ptr.buffer
      /\ cur_ptr'.offset = loc[t].ptr.offset + loc[t].length
  BY <1>1, <1>3 DEF Pointers
<1>5. SinkType'
  <2>1. logged' \in Seq(Nat)
    <3>1. [i \in 1 .. loc[t].length |-> loc[t].line] \in Seq(Nat)
      BY <1>3
    <3> QED
      BY <1>1, <3>1 DEF SinkType
  <2>2. spc' \in Labels /\ NoLocals \in Locals
    <3>1. 0 \in Nat /\ 0 \in 0 .. Size
      BY <1>3
    <3> QED
      BY <1>1, <3>1, LocalsOf DEF SinkType, Labels
  <2> QED
    BY <1>1, <1>4, <2>1, <2>2, Names DEF SinkType
<1>6. Locked'
  BY <1>1, <1>2, Names DEF SinkType, Locked
<1>7. Ending' <=> Ending
  BY <1>1, <1>2 DEF Ending
<1>8. Current'
  <2>1. \A u \in Loggers : InUse(u)'
    BY <1>2 DEF InUse, Using
  <2>2. ~Ending' => ~wild' /\ cur_ptr'.buffer = cur_buffer'
    BY <1>1, <1>3, <1>4, <1>7 DEF Current
  <2> QED
    BY <1>1, <1>3, <1>4, <2>1, <2>2 DEF Current
<1>9. Budget'
  <2>1. RoomDue' = 0
    BY <1>2 DEF RoomDue
  <2>2. SinkLine = 1 => SinkLine' = 1
    <3>1. CASE t = sink
      BY <1>1, <3>1 DEF SinkLine
    <3>2. CASE t # sink
      BY <1>1, <1>2, <1>7, <3>2, Alone, Names DEF SinkLine
    <3> QED
      BY <3>1, <3>2
  <2>3. LastTaken' = LastTaken
    BY <1>1, <1>2 DEF LastTaken
  <2> QED
    BY <1>1, <2>1, <2>2, <2>3, BudgetKept
<1> QED
  BY <1>1, <1>2, <1>5, <1>6, <1>8, <1>9, BuffersKept

\* The loop of the sink thread, the wait, stop and its end
LEMMA StepControl ==
  ASSUME BufferInv, ~wild, Loop \/ WaitFor \/ StopStore \/ StopJoin
  PROVE  BufferInv'
<1> USE DEF BufferInv
<1>1. /\ UNCHANGED <<mutex_front, mutex_backend, ref_list, free_buffer_list, cur_buffer, cur_ptr, allocated>>
      /\ UNCHANGED <<mem, wild, pc, loc, ref, lines, logged, synced, spoiled, out>>
      /\ spc' = spc \/ (spc \in {"while", "wait"} /\ spc' \in {"fatal", "wait", "sync"})
      /\ finished' \in BOOLEAN /\ stopping' \in {"no", "join", "done"} /\ promised' \in Nat
  <2>1. finished \in BOOLEAN /\ stopping \in {"no", "join", "done"} /\ promised \in Nat /\ Len(logged) \in Nat
    BY DEF SinkType
  <2>2. CASE Loop \/ WaitFor
    BY <2>1, <2>2 DEF Loop, WaitFor, SGoto, buffers, history
  <2>3. CASE StopStore
    BY <2>1, <2>3 DEF StopStore, buffers
  <2>4. CASE StopJoin
    BY <2>1, <2>4 DEF StopJoin, buffers, history
  <2> QED
    BY <2>2, <2>3, <2>4
<1>2. SinkType'
  BY <1>1 DEF SinkType, Labels
<1>3. (Ending' <=> Ending) /\ (spc' = "retire" <=> spc = "retire")
  BY <1>1 DEF Ending
<1>4. Locked'
  BY <1>1, Names DEF Locked
<1>5. Current'
  BY <1>1, <1>3, CurrentKept
<1>6. Budget'
  <2>1. LastTaken = 1 => LastTaken' = 1
    BY <1>1 DEF LastTaken
  <2> QED
    BY <1>1, <1>3, <2>1, SinkGoesOn
<1> QED
  BY <1>1, <1>2, <1>4, <1>5, <1>6, BuffersKept

\* The bytes of the current buffer are queued, which stays the current one.
LEMMA DataKept ==
  ASSUME BufferInv, ref_list' = ref_list \o DataRef, UNCHANGED <<free_buffer_list, cur_buffer, allocated, ref>>,
         spc \notin {"io", "lastio"}, spc' \notin {"io", "lastio"}, synced' = IF HasData THEN DataRef[1] ELSE synced
  PROVE  BuffersPlaced' /\ RefsTidy' /\ ref_list' \in Seq(Refs) /\ synced' \in Refs \cup {NoRef}
<1>1. /\ ref_list' \in Seq(Refs) /\ Tidy(ref_list', cur_buffer)
      /\ HasData => DataRef[1] \in Refs
      /\ \A b \in Buffers : /\ Absent(Marks(ref_list), b) => Absent(Marks(ref_list'), b)
                            /\ Once(Marks(ref_list), b) => Once(Marks(ref_list'), b)
  BY DataQueued
<1>2. BuffersPlaced'
  <2> SUFFICES ASSUME NEW b \in Buffers
               PROVE  Placed(b, cur_buffer, Marks(ref_list'), free_buffer_list, allocated)
    BY DEF BuffersPlaced
  <2>1. Placed(b, cur_buffer, Marks(ref_list), free_buffer_list, allocated)
    BY DEF BufferInv, BuffersPlaced
  <2> QED
    BY <1>1, <2>1 DEF Placed
<1>3. RefsTidy'
  BY <1>1 DEF BufferInv, RefsTidy
<1> QED
  BY <1>1, <1>2, <1>3 DEF BufferInv, SinkType

\* sync_with_front
LEMMA StepSync ==
  ASSUME BufferInv, ~wild, SyncWithFront
  PROVE  BufferInv'
<1> USE DEF BufferInv
<1>1. /\ spc = "sync" /\ mutex_front = nobody /\ ref_list' = ref_list \o DataRef /\ cur_ptr' = Start(cur_buffer)
      /\ spc' = "flush" /\ synced' = (IF HasData THEN DataRef[1] ELSE synced)
      /\ UNCHANGED <<mutex_front, mutex_backend, free_buffer_list, cur_buffer, allocated, mem, wild, finished>>
      /\ UNCHANGED <<pc, loc, ref, stopping, lines, logged, spoiled, out, promised>>
  BY DEF SyncWithFront, SGoto, Rewind
<1>2. \A u \in Loggers : pc[u] = "idle"
  BY <1>1, Names DEF Locked
<1>3. /\ BuffersPlaced' /\ RefsTidy' /\ ref_list' \in Seq(Refs) /\ synced' \in Refs \cup {NoRef}
      /\ cur_ptr' \in Pointers /\ cur_ptr'.buffer = cur_buffer
  <2>1. cur_ptr' \in Pointers /\ cur_ptr'.buffer = cur_buffer
    BY <1>1, PointerTypes DEF SinkType
  <2> QED
    BY <1>1, <2>1, DataKept
<1>4. SinkType'
  BY <1>1, <1>3 DEF SinkType, Labels
<1>5. Locked'
  BY <1>1, <1>2, Names DEF Locked
<1>6. Current'
  <2>1. \A u \in Loggers : InUse(u)'
    BY <1>1, <1>2 DEF InUse, Using
  <2> QED
    BY <1>1, <1>3, <2>1 DEF Current, Ending
<1>7. Budget'
  BY <1>1, SinkGoesOn DEF Ending, LastTaken
<1> QED
  BY <1>3, <1>4, <1>5, <1>6, <1>7

\* flush looks at the head of ref_list_.
LEMMA StepFlushPop ==
  ASSUME BufferInv, ~wild, FlushPop
  PROVE  BufferInv'
<1> USE DEF BufferInv
<1>1. /\ spc \in {"flush", "lastflush"} /\ mutex_backend = nobody
      /\ UNCHANGED <<mutex_front, mutex_backend, cur_buffer, cur_ptr, allocated, mem, wild, finished>>
      /\ UNCHANGED <<pc, loc, stopping, lines, logged, synced, spoiled, out, promised>>
  BY DEF FlushPop, history
<1>2. /\ ref_list \in Seq(Refs) /\ free_buffer_list \in Seq(Buffers)
      /\ Tidy(ref_list, cur_buffer) /\ ref = NoRef
  BY <1>1 DEF SinkType, RefsTidy
<1>3. \/ spc' = spc
      \/ spc = "flush" /\ spc' \in {"io", "while"}
      \/ spc = "lastflush" /\ spc' \in {"lastio", "exit"}
  BY <1>1 DEF FlushPop, SGoto, IoLabel, ReturnLabel
<1>4. Locked' /\ spc' \in Labels
  BY <1>1, <1>3, Names DEF Locked, Labels
<1>5. Current' /\ Budget'
  <2>1. (Ending' <=> Ending) /\ spc' # "retire" /\ LastTaken' = LastTaken
    BY <1>1, <1>3 DEF Ending, LastTaken
  <2>2. spc # "retire"
    BY <1>1
  <2> QED
    BY <1>1, <2>1, <2>2, CurrentKept, SinkGoesOn
<1>6. CASE /\ ref_list # <<>> /\ Head(ref_list).length = 0
           /\ free_buffer_list' = Append(free_buffer_list, Head(ref_list).ptr)
           /\ ref_list' = Tail(ref_list) /\ UNCHANGED <<spc, ref>>
  <2> DEFINE h == Head(ref_list)
             c == h.ptr
             m == Marks(ref_list)
             q == Marks(Tail(ref_list))
  <2>1. h \in Refs /\ Tail(ref_list) \in Seq(Refs) /\ Tidy(Tail(ref_list), cur_buffer)
    BY <1>2, <1>6, PoppedFront, TidyTail
  <2>2. c \in Buffers /\ Mark(h) = c
    BY <1>6, <2>1 DEF Refs, Mark
  <2>3. free_buffer_list' \in Seq(Buffers)
    BY <1>2, <1>6, <2>2, PushedBack
  <2>4. SinkType'
    BY <1>1, <1>6, <2>1, <2>3 DEF SinkType
  <2>5. m \in Seq(Buffers \cup {NoBuffer}) /\ m # <<>> /\ q = Tail(m) /\ Head(m) = c
    BY <1>2, <1>6, <2>1, <2>2, MarksOf
  <2>6. ASSUME NEW b \in Buffers
        PROVE  Placed(b, cur_buffer, q, free_buffer_list', allocated)
    <3>1. Placed(b, cur_buffer, m, free_buffer_list, allocated)
      BY <1>2 DEF BuffersPlaced
    <3> HIDE DEF m, q
    <3>2. /\ c = b /\ Once(m, b) => Absent(q, b)
          /\ Absent(m, b) => Absent(q, b) /\ c # b
          /\ c # b /\ Once(m, b) => Once(q, b)
      BY <2>5, PoppedOnce
    <3>3. /\ b = c /\ Absent(free_buffer_list, b) => Once(free_buffer_list', b)
          /\ b # c /\ Absent(free_buffer_list, b) => Absent(free_buffer_list', b)
          /\ b # c /\ Once(free_buffer_list, b) => Once(free_buffer_list', b)
      BY <1>2, <1>6, <2>2, PushedOnce
    <3> HIDE DEF h, c
    <3>4. CASE b = c
      <4>1. Once(m, b) /\ ~Absent(m, b)
        BY <3>1, <3>2, <3>4 DEF Placed
      <4> QED
        BY <3>1, <3>2, <3>3, <3>4, <4>1 DEF Placed
    <3>5. CASE b # c
      BY <3>1, <3>2, <3>3, <3>5 DEF Placed
    <3> QED
      BY <3>4, <3>5
  <2>7. BuffersPlaced'
    BY <1>1, <1>6, <2>6 DEF BuffersPlaced
  <2>8. RefsTidy'
    BY <1>1, <1>2, <1>6, <2>1 DEF RefsTidy
  <2> QED
    BY <1>4, <1>5, <2>4, <2>7, <2>8
<1>7. CASE /\ ref_list # <<>> /\ Head(ref_list).length > 0
           /\ ref' = Head(ref_list) /\ ref_list' = Tail(ref_list) /\ spc' = IoLabel
           /\ free_buffer_list' = free_buffer_list
  <2> DEFINE h == Head(ref_list)
             m == Marks(ref_list)
             q == Marks(Tail(ref_list))
  <2>1. /\ h \in Refs /\ Tail(ref_list) \in Seq(Refs) /\ Tidy(Tail(ref_list), cur_buffer)
        /\ h.ptr = cur_buffer \/ Behind(Tail(ref_list), 0, h.ptr)
    BY <1>2, <1>7, PoppedFront, TidyTail
  <2>2. SinkType'
    BY <1>1, <1>4, <1>7, <2>1 DEF SinkType
  <2>3. m \in Seq(Buffers \cup {NoBuffer}) /\ m # <<>> /\ q = Tail(m) /\ \A b \in Buffers : Head(m) # b
    <3>1. m \in Seq(Buffers \cup {NoBuffer}) /\ m # <<>> /\ q = Tail(m) /\ Head(m) = Mark(h)
      BY <1>2, <1>7, <2>1, MarksOf
    <3>2. Mark(h) = NoBuffer
      BY <1>7 DEF Mark
    <3> QED
      BY <3>1, <3>2, BufferNumbers
  <2>4. ASSUME NEW b \in Buffers
        PROVE  Placed(b, cur_buffer, q, free_buffer_list, allocated)
    <3>1. Placed(b, cur_buffer, m, free_buffer_list, allocated)
      BY <1>2 DEF BuffersPlaced
    <3> HIDE DEF m, q
    <3>2. /\ Absent(m, b) => Absent(q, b)
          /\ Once(m, b) => Once(q, b)
      BY <2>3, PoppedOnce
    <3> QED
      BY <3>1, <3>2 DEF Placed
  <2>5. BuffersPlaced'
    BY <1>1, <1>7, <2>4 DEF BuffersPlaced
  <2>6. RefsTidy'
    BY <1>1, <1>7, <2>1 DEF RefsTidy, IoLabel
  <2> QED
    BY <1>4, <1>5, <2>2, <2>5, <2>6
<1>8. CASE spc' = ReturnLabel /\ UNCHANGED <<ref_list, free_buffer_list, ref>>
  <2>1. SinkType'
    BY <1>1, <1>4, <1>8 DEF SinkType
  <2>2. spc' \notin {"io", "lastio"}
    BY <1>8 DEF ReturnLabel
  <2> QED
    BY <1>1, <1>4, <1>5, <1>8, <2>1, <2>2, BuffersKept
<1> QED
  BY <1>6, <1>7, <1>8 DEF FlushPop, SGoto, Freed

\* g_output_func
LEMMA StepFlushIo ==
  ASSUME BufferInv, ~wild, FlushIo
  PROVE  /\ BufferInv' /\ ref' = NoRef /\ Len(out') = Len(out) + ref.length
         /\ \A i \in 1 .. Len(out) : out'[i] = out[i]
         /\ \A i \in 1 .. ref.length : out'[Len(out) + i] = mem[ref.ptr][i]
<1> USE DEF BufferInv
<1>1. /\ spc \in {"io", "lastio"} /\ out' = out \o SubSeq(mem[ref.ptr], 1, ref.length) /\ ref' = NoRef
      /\ spc' = (IF spc = "io" THEN "flush" ELSE "lastflush")
      /\ UNCHANGED <<mutex_front, mutex_backend, ref_list, free_buffer_list, cur_buffer, cur_ptr, allocated>>
      /\ UNCHANGED <<mem, wild, finished, pc, loc, stopping, lines, logged, synced, spoiled, promised>>
  BY DEF FlushIo, SGoto, FlushLabel, buffers
<1>2. ref.ptr \in Buffers /\ ref.length \in 0 .. Size /\ Size \in Nat
  <2>1. ref.length > 0 /\ ref \in Refs \cup {NoRef}
    BY <1>1 DEF RefsTidy, SinkType
  <2>2. ref # NoRef
    BY <2>1 DEF NoRef
  <2> QED
    BY <2>1, <2>2, LengthsAssumption DEF Refs
<1> DEFINE m == mem[ref.ptr]
           n == ref.length
           w == SubSeq(m, 1, n)
<1>3. w \in Seq(Nat) /\ Len(w) = n /\ \A i \in 1 .. n : w[i] = m[i]
  <2>1. m \in [1 .. Size -> Nat]
    BY <1>2 DEF SinkType
  <2>2. m \in Seq(Nat) /\ Len(m) = Size /\ n \in 0 .. Size
    BY <1>2, <2>1
  <2> HIDE DEF m, n
  <2> QED
    BY <1>2, <2>2
<1>4. out' = out \o w
  BY <1>1
<1>5. out \in Seq(Nat) /\ n \in Nat
  BY <1>2 DEF SinkType
<1> HIDE DEF w, m, n
<1>6. out' \in Seq(Nat) /\ Len(out') = Len(out) + n
  BY <1>3, <1>4, <1>5, ConcatProperties
<1>7. /\ \A i \in 1 .. Len(out) : out'[i] = out[i]
      /\ \A i \in 1 .. n : out'[Len(out) + i] = m[i]
  BY <1>3, <1>4, <1>5, ConcatProperties
<1>8. SinkType'
  BY <1>1, <1>6 DEF SinkType, Labels
<1>9. Locked'
  BY <1>1, Names DEF Locked
<1>10. Current' /\ Budget'
  <2>1. (Ending' <=> Ending) /\ spc' # "retire" /\ spc # "retire" /\ LastTaken' = LastTaken
    BY <1>1 DEF Ending, LastTaken
  <2> QED
    BY <1>1, <2>1, CurrentKept, SinkGoesOn
<1>11. BuffersPlaced' /\ RefsTidy'
  BY <1>1 DEF BuffersPlaced, RefsTidy
<1> QED
  BY <1>1, <1>6, <1>7, <1>8, <1>9, <1>10, <1>11 DEF m, n

\* The last new_buffer queues the current buffer, ...
LEMMA StepLastRead ==
  ASSUME BufferInv, ~wild, LastRead
  PROVE  BufferInv'
<1> USE DEF BufferInv
<1>1. /\ spc = "retire" /\ spc' \in {"rewind", "take"} /\ mutex_backend' = sink /\ ref_list' = ref_list \o DataRef
      /\ synced' = (IF HasData THEN DataRef[1] ELSE synced)
      /\ UNCHANGED <<mutex_front, free_buffer_list, cur_buffer, cur_ptr, allocated, mem, wild, finished>>
      /\ UNCHANGED <<pc, loc, ref, stopping, lines, logged, spoiled, out, promised>>
  BY DEF LastRead, SGoto, LastRefs
<1>2. BuffersPlaced' /\ RefsTidy' /\ ref_list' \in Seq(Refs) /\ synced' \in Refs \cup {NoRef}
  BY <1>1, DataKept
<1>3. SinkType'
  BY <1>1, <1>2 DEF SinkType, Labels
<1>4. Locked'
  BY <1>1, Names DEF Locked
<1>5. Current'
  BY <1>1, CurrentKept DEF Ending
<1>6. Budget'
  BY <1>1, SinkGoesOn DEF Ending, LastTaken
<1> QED
  BY <1>2, <1>3, <1>4, <1>5, <1>6

\* ... sets cur_ptr_ back, there and when all is done, ...
LEMMA StepLastRewind ==
  ASSUME BufferInv, ~wild, LastRewind \/ LastReset
  PROVE  BufferInv'
<1> USE DEF BufferInv
<1>1. /\ \/ spc = "rewind" /\ spc' = "take" /\ mutex_backend' = mutex_backend
         \/ spc = "reset" /\ spc' = "lastflush" /\ mutex_backend' = nobody
      /\ cur_ptr' = Start(cur_buffer)
      /\ UNCHANGED <<mutex_front, ref_list, free_buffer_list, cur_buffer, allocated, mem, wild, finished>>
      /\ UNCHANGED <<pc, loc, ref, stopping, lines, logged, synced, spoiled, out, promised>>
  BY DEF LastRewind, LastReset, SGoto, FreeAfterLast, history
<1>2. cur_ptr' \in Pointers /\ cur_ptr'.buffer = cur_buffer /\ cur_ptr'.offset = 0 /\ cur_buffer # NoBuffer
  BY <1>1, PointerTypes DEF SinkType, Current, Ending
<1>3. SinkType'
  BY <1>1, <1>2 DEF SinkType, Labels
<1>4. Locked'
  BY <1>1, Names DEF Locked
<1>5. Current'
  <2>1. Ending /\ Ending'
    BY <1>1 DEF Ending
  <2>2. \A u \in Loggers : InUse(u)'
    BY <1>1, <1>2, <2>1 DEF Current, InUse, Using
  <2> QED
    BY <1>1, <1>2, <2>1, <2>2 DEF Current
<1>6. Budget'
  BY <1>1, SinkGoesOn DEF Ending, LastTaken
<1> QED
  BY <1>1, <1>3, <1>4, <1>5, <1>6, BuffersKept

\* ... and replaces it.
LEMMA StepLastTake ==
  ASSUME BufferInv, ~wild, LastTake
  PROVE  BufferInv' /\ ~Unwritten(cur_buffer')
<1> USE DEF BufferInv
<1>1. /\ spc = "take" /\ spc' = "reset" /\ ref_list' = ref_list \o FreeRef(QueueEnd) /\ TakeBuffer
      /\ UNCHANGED <<mutex_front, mutex_backend, cur_ptr, mem, wild, finished, pc, loc, ref, stopping, lines>>
      /\ UNCHANGED <<logged, synced, spoiled, out, promised>>
  BY DEF LastTake, SGoto, history
<1>2. allocated + 1 <= MaxLines + 3
  <2>1. LastTaken = 0
    BY <1>1 DEF LastTaken
  <2> QED
    BY <2>1, BufferLeft
<1>3. /\ cur_buffer' \in Buffers /\ free_buffer_list' \in Seq(Buffers)
      /\ allocated' \in {allocated, allocated + 1} /\ ref_list' \in Seq(Refs)
      /\ BuffersPlaced' /\ RefsTidy'
  <2>1. QueueEnd \in Nat /\ ref_list \in Seq(Refs) /\ Tidy(ref_list, cur_buffer)
    BY QueueEnds DEF SinkType, RefsTidy
  <2>2. spc' \in {"io", "lastio"} <=> spc \in {"io", "lastio"}
    BY <1>1
  <2> QED
    BY <1>1, <1>2, <2>1, <2>2, BufferReplaced
<1>4. cur_buffer' # NoBuffer /\ cur_buffer # NoBuffer
  BY <1>1, <1>3, BufferNumbers DEF Current, Ending
<1>5. SinkType'
  <2>1. allocated' \in Nat
    BY <1>3 DEF SinkType
  <2> QED
    BY <1>1, <1>3, <2>1 DEF SinkType, Labels
<1>6. Locked'
  BY <1>1, Names DEF Locked
<1>7. Current'
  <2>1. Ending /\ Ending'
    BY <1>1 DEF Ending
  <2>2. \A u \in Loggers : InUse(u)'
    BY <1>1, <1>4, <2>1 DEF Current, InUse, Using
  <2> QED
    BY <1>1, <1>4, <2>1, <2>2 DEF Current
<1>8. Budget'
  <2>1. FirstDue = 0 /\ FirstDue' = 0 /\ RoomDue' = RoomDue /\ LastTaken = 0 /\ LastTaken' = 1 /\ SinkLine = 1 /\ SinkLine' = 1
    BY <1>1, <1>4 DEF FirstDue, RoomDue, LastTaken, SinkLine, Ending
  <2>2. RoomDue \in {0, 1}
    BY DEF RoomDue
  <2>3. \A a \in {allocated, allocated + 1} : a + 0 + RoomDue + 0 <= allocated + 0 + RoomDue + 1
    BY <2>2 DEF SinkType
  <2>4. allocated' + FirstDue' + RoomDue' + LastTaken <= allocated + FirstDue + RoomDue + LastTaken'
    BY <1>3, <2>1, <2>3
  <2>5. SinkLine <= SinkLine'
    BY <2>1
  <2> QED
    BY <1>1, <1>5, <2>4, <2>5, BudgetMoves DEF SinkType
<1>9. ~Unwritten(cur_buffer')
  BY <1>1, <1>2, TakenIsWritten
<1> QED
  BY <1>3, <1>5, <1>6, <1>7, <1>8, <1>9

\* Nothing is allocated at the start.
LEMMA BufferInvInit == Init => BufferInv
<1> SUFFICES ASSUME Init PROVE BufferInv
  OBVIOUS
<1>1. SinkType
  <2>1. 0 \in 0 .. Size /\ [i \in 1 .. Size |-> NoLine] \in [1 .. Size -> Nat] /\ NoLine \in Nat /\ 0 \in Nat
    BY LengthsAssumption DEF NoLine
  <2>2. loc \in [Loggers -> Locals]
    BY <2>1, LocalsOf DEF Init
  <2>3. mem \in [Buffers -> [1 .. Size -> Nat]] /\ cur_ptr \in Pointers
    BY <2>1, PointerTypes DEF Init
  <2>4. pc \in [Loggers -> {"idle", "first", "room", "copy", "store"}] /\ spc \in Labels
    BY DEF Init, Labels
  <2>5. ref_list \in Seq(Refs) /\ free_buffer_list \in Seq(Buffers) /\ logged \in Seq(Nat) /\ out \in Seq(Nat)
    BY DEF Init
  <2>6. ref \in Refs \cup {NoRef} /\ synced \in Refs \cup {NoRef} /\ cur_buffer \in Buffers \cup {NoBuffer}
        /\ finished \in BOOLEAN /\ wild \in BOOLEAN /\ spoiled \in SUBSET Nat
    BY DEF Init
  <2> QED
    BY <2>2, <2>3, <2>4, <2>5, <2>6 DEF Init, SinkType
<1>2. Locked
  BY Names DEF Init, Locked
<1>3. Current
  <2>1. \A t \in Loggers : InUse(t)
    BY DEF Init, InUse, Using
  <2> QED
    BY <2>1, PointerTypes DEF Init, Current, Ending
<1>4. Budget
  <2>1. RoomDue = 0 /\ FirstDue = 1 /\ LastTaken = 0 /\ SinkLine = 0
    BY Names DEF Init, RoomDue, FirstDue, LastTaken, SinkLine, Ending
  <2> QED
    BY <2>1, LinesAssumption DEF Init, Budget
<1>5. BuffersPlaced
  BY BufferNumbers DEF Init, BuffersPlaced, Placed, Absent, Marks
<1>6. RefsTidy
  BY DEF Init, RefsTidy, Tidy
<1> QED
  BY <1>1, <1>2, <1>3, <1>4, <1>5, <1>6 DEF BufferInv

\* Every step keeps the invariant of the buffers.
LEMMA BufferInvNext == BufferInv /\ [Next]_vars => BufferInv'
<1> SUFFICES ASSUME BufferInv, [Next]_vars PROVE BufferInv'
  OBVIOUS
<1>1. CASE Next
  <2>1. ASSUME NEW t \in Loggers, (\E n \in Lengths : AppendLock(t, n)) \/ AppendStep(t) \/ Reload(t)
        PROVE  BufferInv'
    BY <1>1, <2>1, StepAppendLock, StepAppendFirst, StepAppendRoom, StepAppendCopy, StepAppendStore, StepReload
       DEF Next, AppendStep
  <2>2. ASSUME Work \/ StopStore \/ StopJoin PROVE BufferInv'
    BY <1>1, <2>2, StepControl, StepSync, StepFlushPop, StepFlushIo, StepLastRead, StepLastRewind, StepLastTake
       DEF Next, Work
  <2> QED
    BY <1>1, <2>1, <2>2 DEF Next
<1>2. CASE UNCHANGED vars
  <2>1. /\ UNCHANGED <<mutex_front, mutex_backend, ref_list, free_buffer_list, cur_buffer, cur_ptr, allocated>>
        /\ UNCHANGED <<mem, wild, finished, pc, loc, spc, ref, stopping, lines, logged, synced, spoiled, out, promised>>
    BY <1>2 DEF vars, buffers, history
  <2>2. SinkType'
    BY <2>1 DEF BufferInv, SinkType
  <2>3. Locked'
    BY <2>1 DEF BufferInv, Locked
  <2>4. Current' /\ Budget'
    BY <2>1, CurrentKept, SinkGoesOn DEF BufferInv, Ending, LastTaken
  <2> QED
    BY <2>1, <2>2, <2>3, <2>4, BuffersKept DEF BufferInv
<1> QED
  BY <1>1, <1>2

\* BufferInv holds in every reachable state.
THEOREM BufferInvariant == Spec => []BufferInv
BY BufferInvInit, BufferInvNext, PTL DEF Spec

\* How often something is in a list
LEMMA Times ==
  ASSUME NEW s, NEW x
  PROVE  (Absent(s, x) => Count(s, x) = 0) /\ (Once(s, x) => Count(s, x) = 1)
<1> DEFINE P == {i \in DOMAIN s : s[i] = x}
<1>1. Absent(s, x) => P = {}
  BY DEF Absent
<1>2. Once(s, x) => \E i : P = {i}
  BY DEF Once
<1> QED
  BY <1>1, <1>2, FS_EmptySet, FS_Singleton DEF Count

\* A buffer is the current one, is referred to as to be freed once, or is on
\* free_buffer_list_ once, and only one of these: new_buffer and flush neither
\* leak a buffer nor free one that is being filled, nor does the last
\* new_buffer, which the threads do not wait for.
THEOREM BuffersInOnePlace == Spec => []BufferInOnePlace
<1>1. ASSUME BufferInv PROVE BufferInOnePlace
  <2> SUFFICES ASSUME NEW b \in Buffers
               PROVE  (IF b = cur_buffer THEN 1 ELSE 0) + Count(ToFree, b) + Count(free_buffer_list, b)
                      = IF b <= allocated THEN 1 ELSE 0
    BY DEF BufferInOnePlace
  <2>1. Placed(b, cur_buffer, ToFree, free_buffer_list, allocated)
    <3>1. ToFree = Marks(ref_list)
      BY DEF ToFree, Marks, Mark
    <3> QED
      BY <1>1, <3>1 DEF BufferInv, BuffersPlaced
  <2> QED
    BY <2>1, Times DEF Placed
<1> QED
  BY <1>1, BufferInvariant, PTL

\* While the service runs, no thread copies a line into a buffer other than the
\* current one, so what sync_with_front and new_buffer refer to stays as it is
\* until g_output_func has written it; and a buffer becomes the current one only
\* when none of its bytes is still to be written.
THEOREM FullStaysIntact == Spec => FullIsIntact
<1> DEFINE A == /\ \A b \in Buffers : Unwritten(b) /\ b # cur_buffer /\ ~Ending => mem'[b] = mem[b]
                /\ cur_buffer' # cur_buffer => ~Unwritten(cur_buffer')
<1>1. BufferInv /\ [Next]_vars => [A]_vars
  <2> SUFFICES ASSUME BufferInv, Next PROVE A
    OBVIOUS
  <2>1. ASSUME NEW t \in Loggers, AppendFirst(t) \/ AppendRoom(t)
        PROVE  A
    <3>1. mem' = mem /\ pc[t] \in {"first", "room"} /\ ref' = ref /\ spc' = spc /\ (NewBuffer \/ cur_buffer' = cur_buffer)
      BY <2>1 DEF AppendFirst, AppendRoom, buffers
    <3>2. RoomDue = 1
      BY <3>1 DEF RoomDue
    <3>3. NewBuffer => ~Unwritten(cur_buffer')
      BY <3>1, <3>2, NewBufferDone
    <3> QED
      BY <3>1, <3>3
  <2>2. ASSUME NEW t \in Loggers, AppendCopy(t)
        PROVE  A
    <3>1. cur_buffer' = cur_buffer /\ (~Ending => loc[t].ptr.buffer = cur_buffer)
      BY <2>2 DEF AppendCopy, buffers, BufferInv, Current, InUse, Using
    <3>2. mem \in [Buffers -> [1 .. Size -> Nat]]
      BY DEF BufferInv, SinkType
    <3>3. \/ mem' = mem
          \/ mem' = [mem EXCEPT ![loc[t].ptr.buffer] =
                        [i \in 1 .. Size |-> IF i \in Span(loc[t].ptr, loc[t].length) THEN loc[t].line ELSE @[i]]]
      BY <2>2 DEF AppendCopy
    <3>4. \A b \in Buffers : b # loc[t].ptr.buffer => mem'[b] = mem[b]
      BY <3>2, <3>3
    <3> QED
      BY <3>1, <3>4
  <2>3. CASE LastTake
    <3>1. mem' = mem /\ ~wild
      BY <2>3 DEF LastTake, Next
    <3> QED
      BY <2>3, <3>1, StepLastTake
  <2>4. ASSUME UNCHANGED <<mem, cur_buffer>> PROVE A
    BY <2>4
  <2>5. ASSUME NEW t \in Loggers, (\E n \in Lengths : AppendLock(t, n)) \/ AppendStore(t) \/ Reload(t)
        PROVE  UNCHANGED <<mem, cur_buffer>>
    BY <2>5 DEF AppendLock, AppendStore, Reload, buffers
  <2>6. ASSUME \/ Loop \/ WaitFor \/ SyncWithFront \/ FlushPop \/ FlushIo \/ LastRead
               \/ LastRewind \/ LastReset \/ StopStore \/ StopJoin
        PROVE  UNCHANGED <<mem, cur_buffer>>
    BY <2>6 DEF Loop, WaitFor, SyncWithFront, FlushPop, FlushIo, LastRead, LastRewind, LastReset, StopStore, StopJoin, buffers
  <2> QED
    BY <2>1, <2>2, <2>3, <2>4, <2>5, <2>6 DEF Next, AppendStep, Work
<1> QED
  BY <1>1, BufferInvariant, PTL DEF Spec, FullIsIntact

-----------------------------------------------------------------------------
(* The queue *)

\* The numbers that the invariant of the bytes is about
LEMMA Numbers ==
  ASSUME SinkType
  PROVE  /\ Len(logged) \in Nat /\ Len(out) \in Nat /\ QueueEnd \in Nat /\ Written \in Nat
         /\ ref.length \in 0 .. Size /\ Size \in Nat /\ ref.at \in Nat /\ lines \in Nat /\ promised \in Nat
         /\ cur_ptr.offset \in 0 .. Size /\ cur_ptr.buffer \in Buffers \cup {NoBuffer}
         /\ synced.at \in Nat /\ synced.length \in Nat /\ EndOf(synced) \in Nat
         /\ \A r \in Refs : /\ r.at \in Nat /\ r.length \in 0 .. Size /\ EndOf(r) \in Nat
                            /\ EndOf(r) = r.at + r.length /\ r.ptr \in Buffers
<1>1. \A r \in Refs : /\ r.at \in Nat /\ r.length \in 0 .. Size /\ EndOf(r) \in Nat
                      /\ EndOf(r) = r.at + r.length /\ r.ptr \in Buffers
  BY LengthsAssumption DEF Refs, EndOf
<1>2. NoRef.at \in Nat /\ NoRef.length \in Nat /\ EndOf(NoRef) \in Nat /\ Size \in Nat
  BY LengthsAssumption DEF NoRef, EndOf
<1>3. synced.at \in Nat /\ synced.length \in Nat /\ EndOf(synced) \in Nat
  BY <1>1, <1>2 DEF SinkType
<1>4. cur_ptr.offset \in 0 .. Size /\ cur_ptr.buffer \in Buffers \cup {NoBuffer} /\ lines \in Nat /\ promised \in Nat
  BY PointerTypes DEF SinkType
<1>5. /\ Len(logged) \in Nat /\ Len(out) \in Nat /\ QueueEnd \in Nat /\ Written \in Nat
      /\ ref.length \in 0 .. Size /\ ref.at \in Nat
  BY <1>2, QueueEnds DEF Written
<1> QED
  BY <1>1, <1>2, <1>3, <1>4, <1>5

\* What is in a list after push_back and pop_front
LEMMA ListedAre ==
  ASSUME NEW s \in Seq(Refs), NEW x \in Refs
  PROVE  /\ \A r : Listed(Append(s, x), r) <=> Listed(s, r) \/ r = x
         /\ s # <<>> => \A r : Listed(s, r) <=> r = Head(s) \/ Listed(Tail(s), r)
<1>1. ASSUME NEW r
      PROVE  Listed(Append(s, x), r) <=> Listed(s, r) \/ r = x
  BY PushedBack DEF Listed
<1>2. ASSUME s # <<>>, NEW r
      PROVE  Listed(s, r) <=> r = Head(s) \/ Listed(Tail(s), r)
  <2>1. Listed(s, r) => r = Head(s) \/ Listed(Tail(s), r)
    <3> SUFFICES ASSUME NEW i \in DOMAIN s, s[i] = r, r # Head(s) PROVE Listed(Tail(s), r)
      BY DEF Listed
    <3>1. i # 1
      BY <1>2, PoppedFront
    <3>2. i - 1 \in DOMAIN Tail(s) /\ Tail(s)[i - 1] = r
      BY <1>2, <3>1, PoppedFront
    <3> QED
      BY <3>2 DEF Listed
  <2>2. r = Head(s) \/ Listed(Tail(s), r) => Listed(s, r)
    BY <1>2, PoppedFront DEF Listed
  <2> QED
    BY <2>1, <2>2
<1> QED
  BY <1>1, <1>2

\* Where the queue begins and ends
LEMMA QueueOrder ==
  ASSUME SinkType, Queue
  PROVE  Len(out) <= Written /\ Written <= QueueEnd /\ (ref.length > 0 => EndOf(ref) = Written)
<1>1. /\ Len(out) \in Nat /\ QueueEnd \in Nat /\ Written = Len(out) + ref.length /\ ref.length \in Nat
      /\ \A r \in Refs : r.at \in Nat /\ EndOf(r) \in Nat /\ r.at <= EndOf(r)
  <2>1. \A r \in Refs : r.at \in Nat /\ EndOf(r) \in Nat /\ r.at <= EndOf(r)
    BY LengthsAssumption DEF Refs, EndOf
  <2> QED
    BY <2>1, Numbers DEF Written
<1>2. Chain(ref_list, Written, QueueEnd) /\ ref_list \in Seq(Refs)
  BY DEF Queue, SinkType
<1>3. Written <= QueueEnd
  <2>1. CASE ref_list = <<>>
    BY <1>1, <1>2, <2>1 DEF Chain
  <2>2. CASE ref_list # <<>>
    <3>1. Head(ref_list).at = Written /\ Written <= EndOf(Head(ref_list)) /\ EndOf(Head(ref_list)) <= QueueEnd
      BY <1>2, <2>2, Numbers, ChainPopped
    <3>2. Head(ref_list) \in Refs
      BY <1>2, <2>2, PoppedFront
    <3> QED
      BY <1>1, <3>1, <3>2
  <2> QED
    BY <2>1, <2>2
<1> QED
  BY <1>1, <1>3 DEF Queue, EndOf

\* Where the queue ends is where its last reference ends.
LEMMA EndIs ==
  ASSUME NEW e, Chain(ref_list', Written', e)
  PROVE  QueueEnd' = e
BY DEF Chain, QueueEnd, Written

\* What is due is not written yet, ...
LEMMA Dues ==
  ASSUME SinkType, Queue, NEW r \in Refs, Due(r)
  PROVE  Len(out) <= r.at /\ EndOf(r) <= QueueEnd /\ r.length > 0
<1>1. /\ Len(out) <= Written /\ Written <= QueueEnd /\ (ref.length > 0 => EndOf(ref) = Written)
      /\ Len(out) \in Nat /\ Written \in Nat /\ QueueEnd \in Nat /\ r.at \in Nat
  BY QueueOrder, Numbers
<1>2. CASE r = ref
  <2>1. r.at = Len(out) /\ EndOf(r) = Written
    BY <1>1, <1>2 DEF Due, Queue
  <2> QED
    BY <1>1, <2>1 DEF Due
<1>3. CASE Listed(ref_list, r)
  <2>1. Written <= r.at /\ EndOf(r) <= QueueEnd
    BY <1>3 DEF Listed, Queue, Chain
  <2> QED
    BY <1>1, <2>1 DEF Due
<1> QED
  BY <1>2, <1>3 DEF Due

\* ... and in different places of the output.
LEMMA DuesApart ==
  ASSUME SinkType, Queue, NEW r \in Refs, Due(r), NEW q \in Refs, Due(q), r # q
  PROVE  EndOf(r) <= q.at \/ EndOf(q) <= r.at
<1>1. ref.length > 0 => EndOf(ref) = Written
  BY QueueOrder
<1>2. \A x : Listed(ref_list, x) => Written <= x.at
  BY DEF Listed, Queue, Chain
<1>3. CASE r = ref \/ q = ref
  BY <1>1, <1>2, <1>3 DEF Due
<1>4. CASE Listed(ref_list, r) /\ Listed(ref_list, q)
  <2>1. PICK i \in DOMAIN ref_list : ref_list[i] = r
    BY <1>4 DEF Listed
  <2>2. PICK j \in DOMAIN ref_list : ref_list[j] = q
    BY <1>4 DEF Listed
  <2>3. i < j \/ j < i
    <3>1. i \in Nat /\ j \in Nat /\ i # j
      BY <2>1, <2>2 DEF SinkType
    <3> QED
      BY <3>1
  <2> QED
    BY <2>1, <2>2, <2>3 DEF Queue, Chain
<1> QED
  BY <1>3, <1>4 DEF Due

\* The queue goes on after the bytes of the current buffer are pushed back ...
LEMMA ChainData ==
  ASSUME BufferInv, Queue
  PROVE  /\ Chain(ref_list \o DataRef, Written, DataEnd) /\ DataEnd \in Nat /\ QueueEnd <= DataEnd
         /\ HasData => EndOf(DataRef[1]) = DataEnd
         /\ ~Ending => DataEnd = QueueEnd + cur_ptr.offset
<1>1. QueueEnd \in Nat /\ Written \in Nat /\ cur_ptr.offset \in Nat /\ ref_list \in Seq(Refs)
  BY Numbers DEF BufferInv, SinkType
<1>2. CASE HasData
  <2>1. /\ DataRef[1] \in Refs /\ ref_list \o DataRef = Append(ref_list, DataRef[1])
        /\ DataRef[1] = [ptr |-> cur_buffer, length |-> cur_ptr.offset, at |-> QueueEnd]
    BY <1>2, DataQueued
  <2>2. DataRef[1].at = QueueEnd /\ EndOf(DataRef[1]) = QueueEnd + cur_ptr.offset /\ DataEnd = QueueEnd + cur_ptr.offset
    BY <1>2, <2>1 DEF EndOf, DataEnd
  <2>3. Chain(Append(ref_list, DataRef[1]), Written, EndOf(DataRef[1]))
    BY <1>1, <2>1, <2>2, ChainPushed DEF Queue
  <2> QED
    BY <1>1, <1>2, <2>1, <2>2, <2>3
<1>3. CASE ~HasData
  <2>1. ref_list \o DataRef = ref_list /\ DataEnd = QueueEnd
    BY <1>3, DataQueued DEF DataEnd
  <2>2. ~Ending => cur_ptr.offset = 0
    BY <1>1, <1>3 DEF BufferInv, Current, HasData
  <2> QED
    BY <1>1, <1>3, <2>1, <2>2 DEF Queue
<1> QED
  BY <1>2, <1>3

\* ... and after the reference that frees the buffer is.
LEMMA ChainFree ==
  ASSUME SinkType, NEW s \in Seq(Refs), NEW a \in Nat, NEW e \in Nat, Chain(s, a, e)
  PROVE  /\ Chain(s \o FreeRef(e), a, e) /\ s \o FreeRef(e) \in Seq(Refs)
         /\ \A r : r.length > 0 => (Listed(s \o FreeRef(e), r) <=> Listed(s, r))
<1>1. CASE cur_buffer # NoBuffer
  <2> DEFINE f == FreeRefTo(cur_buffer, e)
  <2>1. f \in Refs /\ f.at = e /\ EndOf(f) = e /\ f.length = 0
    <3>1. f.at = e /\ f.length = 0 /\ f.ptr = cur_buffer
      BY DEF FreeRefTo
    <3>2. cur_buffer \in Buffers
      BY <1>1 DEF SinkType
    <3>3. f \in Refs
      BY <3>2, LengthsAssumption DEF FreeRefTo, Refs
    <3> QED
      BY <3>1, <3>3 DEF EndOf
  <2>2. FreeRef(e) = <<f>>
    BY <1>1 DEF FreeRef
  <2> HIDE DEF f
  <2>3. s \o FreeRef(e) = Append(s, f) /\ Append(s, f) \in Seq(Refs)
    BY <2>1, <2>2, PushedBack
  <2>4. Chain(Append(s, f), a, e)
    BY <2>1, ChainPushed
  <2>5. \A r : r.length > 0 => (Listed(Append(s, f), r) <=> Listed(s, r))
    <3>1. \A r : Listed(Append(s, f), r) <=> Listed(s, r) \/ r = f
      BY <2>1, ListedAre
    <3> QED
      BY <2>1, <3>1
  <2> QED
    BY <2>3, <2>4, <2>5
<1>2. CASE cur_buffer = NoBuffer
  BY <1>2 DEF FreeRef
<1> QED
  BY <1>1, <1>2

\* What is due when the bytes of the current buffer are pushed back
LEMMA DueData ==
  ASSUME BufferInv, NEW r
  PROVE  Listed(ref_list \o DataRef, r) <=> Listed(ref_list, r) \/ (HasData /\ r = DataRef[1])
<1>1. ref_list \in Seq(Refs)
  BY DEF BufferInv, SinkType
<1>2. CASE HasData
  <2> DEFINE x == DataRef[1]
             s == ref_list \o DataRef
  <2>1. x \in Refs /\ s = Append(ref_list, x)
    BY <1>2, DataQueued
  <2> HIDE DEF x, s
  <2>2. Listed(s, r) <=> Listed(ref_list, r) \/ r = x
    BY <1>1, <2>1, ListedAre
  <2> QED
    BY <1>2, <2>2 DEF x, s
<1>3. CASE ~HasData
  BY <1>3, DataQueued
<1> QED
  BY <1>2, <1>3

\* These bytes are as they were appended.
LEMMA DataIsKept ==
  ASSUME BufferInv, BytesInv, HasData
  PROVE  RefKept(DataRef[1])
<1>1. DataRef[1].ptr = cur_buffer /\ DataRef[1].length = cur_ptr.offset /\ DataRef[1].at = QueueEnd
  <2>1. DataRef[1] = [ptr |-> cur_buffer, length |-> cur_ptr.offset, at |-> QueueEnd]
    BY DataQueued DEF BytesInv
  <2> QED
    BY <2>1
<1>2. /\ QueueEnd \in Nat /\ Len(logged) \in Nat /\ cur_ptr.offset \in Nat /\ EndOf(synced) \in Nat
      /\ EndOf(synced) <= QueueEnd /\ spoiled \subseteq 0 .. EndOf(synced)
  BY Numbers DEF BufferInv, BytesInv, Overwritable
<1> SUFFICES ASSUME NEW i \in 1 .. cur_ptr.offset, QueueEnd + i <= Len(logged)
             PROVE  Kept(QueueEnd + i, mem[cur_buffer][i])
  <2> DEFINE x == DataRef[1]
  <2> HIDE DEF x
  <2>1. x.ptr = cur_buffer /\ x.length = cur_ptr.offset /\ x.at = QueueEnd
    BY <1>1 DEF x
  <2>2. RefKept(x)
    BY <2>1 DEF RefKept
  <2> QED
    BY <2>2 DEF x
<1>3. ~Ending
  <2>1. Ending => QueueEnd >= Len(logged)
    BY DEF BytesInv, FrontKept
  <2> QED
    BY <1>2, <2>1
<1>4. mem[cur_buffer][i] = logged[QueueEnd + i]
  BY <1>3 DEF BytesInv, FrontKept
<1>5. QueueEnd + i \notin spoiled
  <2>1. QueueEnd + i \notin 0 .. EndOf(synced)
    BY <1>2
  <2> QED
    BY <1>2, <2>1
<1> QED
  BY <1>4, <1>5 DEF Kept

-----------------------------------------------------------------------------
(* The steps keep BytesInv *)

\* What is due is not in a buffer of which nothing is still to be written.
LEMMA NotDue ==
  ASSUME NEW b, ~Unwritten(b), NEW r, Due(r)
  PROVE  r.ptr # b
BY DEF Unwritten, Refers, Due, Listed

\* Nothing happens to the queue or to the bytes.
LEMMA BytesQuiet ==
  ASSUME BytesInv, UNCHANGED <<ref_list, ref, out, logged, mem, synced, spoiled, cur_buffer>>,
         \A b : Writable(b)' => Writable(b), spc' \in AllFlushed => spc \in AllFlushed,
         Ending' <=> Ending, ~Ending => cur_ptr' = cur_ptr /\ ~wild'
  PROVE  Queue' /\ Overwritable' /\ OutKept' /\ RefsKept' /\ FrontKept'
<1>1. Written' = Written /\ QueueEnd' = QueueEnd /\ \A r : Due(r)' <=> Due(r)
  BY DEF Written, QueueEnd, Due, Listed
<1>2. Queue'
  BY <1>1 DEF BytesInv, Queue
<1>3. Overwritable'
  BY <1>1 DEF BytesInv, Overwritable
<1>4. OutKept'
  BY DEF BytesInv, OutKept, Kept
<1>5. RefsKept'
  BY <1>1 DEF BytesInv, RefsKept, RefKept, Kept
<1>6. FrontKept'
  BY <1>1 DEF BytesInv, FrontKept
<1> QED
  BY <1>2, <1>3, <1>4, <1>5, <1>6

\* Bytes are referred to, or buffers; what was referred to is as it was.
LEMMA BytesQueued ==
  ASSUME BufferInv, BytesInv, UNCHANGED <<ref, out, logged, mem, spoiled>>,
         NEW e \in Nat, Chain(ref_list', Written, e),
         \A r : r.length > 0 /\ Listed(ref_list', r) => Listed(ref_list, r) \/ (HasData /\ r = DataRef[1])
  PROVE  /\ Queue' /\ QueueEnd' = e /\ OutKept' /\ RefsKept'
         /\ \A r : Due(r)' => Due(r) \/ (HasData /\ r = DataRef[1])
<1>1. Written' = Written
  BY DEF Written
<1>2. QueueEnd' = e
  BY <1>1, EndIs
<1>3. Queue'
  BY <1>1, <1>2 DEF BytesInv, Queue
<1>4. OutKept'
  BY DEF BytesInv, OutKept, Kept
<1>5. \A r : Due(r)' => Due(r) \/ (HasData /\ r = DataRef[1])
  BY DEF Due
<1>6. RefsKept'
  <2> SUFFICES ASSUME NEW r \in Refs, Due(r)' PROVE RefKept(r)'
    BY DEF RefsKept
  <2>1. RefKept(r)
    <3>1. CASE Due(r)
      BY <3>1 DEF BytesInv, RefsKept
    <3>2. CASE HasData /\ r = DataRef[1]
      BY <3>2, DataIsKept
    <3> QED
      BY <1>5, <3>1, <3>2
  <2> QED
    BY <2>1 DEF RefKept, Kept
<1> QED
  BY <1>2, <1>3, <1>4, <1>5, <1>6

\* append_buf takes mutex_front_.
LEMMA BytesAppendLock ==
  ASSUME BufferInv, BytesInv, NEW t \in Loggers, NEW n \in Lengths, AppendLock(t, n)
  PROVE  BytesInv'
<1>1. /\ pc[t] = "idle" /\ mutex_front = nobody /\ lines' = lines + 1
      /\ loc' = [loc EXCEPT ![t] = [NoLocals EXCEPT !.line = lines + 1, !.length = n]] /\ pc' = [pc EXCEPT ![t] = "first"]
      /\ UNCHANGED <<ref_list, cur_buffer, cur_ptr, mem, wild, finished, spc, ref, stopping, logged, synced, spoiled>>
      /\ UNCHANGED <<out, promised>>
  BY DEF AppendLock, Goto, buffers
<1>2. \A u \in Loggers : pc[u] = "idle" /\ (u # t => pc'[u] = "idle") /\ ~Using(u)'
  BY <1>1, Names DEF BufferInv, Locked, SinkType, Using
<1>3. (Ending' <=> Ending) /\ \A b : Writable(b)' => Writable(b)
  BY <1>1, <1>2 DEF Ending, Writable
<1>4. Queue' /\ Overwritable' /\ OutKept' /\ RefsKept' /\ FrontKept'
  <2>1. ~Ending => ~wild'
    BY <1>1 DEF BytesInv, FrontKept
  <2> QED
    BY <1>1, <1>3, <2>1, BytesQuiet
<1>5. Stopped'
  BY <1>1, <1>3 DEF BytesInv, Stopped
<1>6. Numbered'
  <2>1. lines \in Nat /\ n \in 0 .. Size /\ \A i \in DOMAIN logged : logged[i] \in Nat /\ logged[i] <= lines
    BY LengthsAssumption DEF BufferInv, SinkType, BytesInv, Numbered
  <2>2. loc'[t].line = lines + 1
    <3>1. [NoLocals EXCEPT !.line = lines + 1, !.length = n].line = lines + 1
      <4>1. lines + 1 \in Nat
        BY <2>1
      <4>2. [NoLocals EXCEPT !.line = lines + 1, !.length = n] = [line |-> lines + 1, length |-> n, ptr |-> Start(NoBuffer)]
        BY <2>1, <4>1, LocalsOf
      <4> QED
        BY <4>2
    <3> QED
      BY <1>1, <3>1 DEF BufferInv, SinkType
  <2>3. \A i \in DOMAIN logged' : logged'[i] <= lines' /\ logged'[i] < lines'
    BY <1>1, <2>1
  <2>4. \A u \in Loggers : pc'[u] # "idle" => loc'[u].line = lines'
    BY <1>1, <1>2, <2>2
  <2>5. \A u \in Loggers : pc'[u] # "store"
    BY <1>2 DEF Using
  <2> QED
    BY <2>3, <2>4, <2>5 DEF Numbered
<1> QED
  BY <1>4, <1>5, <1>6 DEF BytesInv

\* append_buf calls new_buffer.
LEMMA BytesNewBuffer ==
  ASSUME BufferInv, BytesInv, NEW t \in Loggers, pc[t] \in {"first", "room"}, NewBuffer,
         pc' = [pc EXCEPT ![t] = IF pc[t] = "first" THEN "room" ELSE "copy"],
         loc' = [loc EXCEPT ![t].ptr = cur_ptr'], ~Ending => ~wild',
         UNCHANGED <<mem, finished, spc, ref, stopping, lines, logged, synced, spoiled, out, promised>>
  PROVE  BytesInv'
<1>1. RoomDue = 1
  BY DEF RoomDue
<1>2. /\ cur_buffer' \in Buffers /\ cur_ptr' = Start(cur_buffer') /\ cur_ptr' \in Pointers
      /\ ~Unwritten(cur_buffer') /\ cur_buffer' # cur_buffer
  <2>1. allocated + 1 <= MaxLines + 3 /\ TakeBuffer
    BY <1>1, BufferLeft DEF BufferInv, NewBuffer
  <2> QED
    BY <1>1, <2>1, NewBufferDone, TakenIsWritten
<1>3. cur_ptr'.buffer = cur_buffer' /\ cur_ptr'.offset = 0
  BY <1>2, PointerTypes
<1>4. /\ \A u \in Loggers \ {t} : pc'[u] = "idle"
      /\ pc'[t] \in {"room", "copy"}
      /\ loc'[t].ptr = cur_ptr' /\ loc'[t].line = loc[t].line
  <2>1. \A u \in Loggers \ {t} : pc[u] = "idle"
    BY Alone DEF BufferInv
  <2>2. loc'[t].ptr = cur_ptr' /\ loc'[t].line = loc[t].line
    BY <1>2, LocalsRead DEF BufferInv, SinkType
  <2> QED
    BY <2>1, <2>2 DEF BufferInv, SinkType
<1>5. \A b : Writable(b)' <=> b = cur_buffer'
  BY <1>3, <1>4 DEF Writable, Using
<1>6. /\ Chain(ref_list', Written, DataEnd) /\ DataEnd \in Nat /\ QueueEnd <= DataEnd
      /\ ~Ending => DataEnd = QueueEnd + cur_ptr.offset
      /\ \A r : r.length > 0 => (Listed(ref_list', r) <=> Listed(ref_list, r) \/ (HasData /\ r = DataRef[1]))
  <2>1. /\ Chain(ref_list \o DataRef, Written, DataEnd) /\ DataEnd \in Nat /\ QueueEnd <= DataEnd
        /\ ~Ending => DataEnd = QueueEnd + cur_ptr.offset
    BY ChainData DEF BytesInv
  <2> DEFINE s == ref_list \o DataRef
  <2>2. s \in Seq(Refs) /\ SinkType /\ Written \in Nat /\ ref_list' = s \o FreeRef(DataEnd)
    BY DataQueued, Numbers DEF BufferInv, NewBuffer, DataFirst
  <2>3. \A r : Listed(s, r) <=> Listed(ref_list, r) \/ (HasData /\ r = DataRef[1])
    BY DueData
  <2>4. Chain(s, Written, DataEnd)
    BY <2>1
  <2> HIDE DEF s
  <2>5. /\ Chain(s \o FreeRef(DataEnd), Written, DataEnd)
        /\ \A r : r.length > 0 => (Listed(s \o FreeRef(DataEnd), r) <=> Listed(s, r))
    BY <2>1, <2>2, <2>4, ChainFree
  <2> QED
    BY <2>1, <2>2, <2>3, <2>5
<1>7. /\ Queue' /\ QueueEnd' = DataEnd /\ OutKept' /\ RefsKept'
      /\ \A r : Due(r)' => Due(r) \/ (HasData /\ r = DataRef[1])
  BY <1>6, BytesQueued
<1>8. Ending' <=> Ending
  BY DEF Ending
<1>9. FrontKept'
  <2>1. Len(logged) \in Nat /\ QueueEnd \in Nat
    BY Numbers DEF BufferInv
  <2>2. CASE Ending
    <3>1. QueueEnd >= Len(logged)
      BY <2>2 DEF BytesInv, FrontKept
    <3> QED
      BY <1>6, <1>7, <1>8, <2>1, <2>2, <3>1 DEF FrontKept
  <2>3. CASE ~Ending
    <3>1. Len(logged) = DataEnd /\ ~wild'
      BY <1>6, <2>3 DEF BytesInv, FrontKept
    <3>2. Len(logged') = QueueEnd' + cur_ptr'.offset
      BY <1>3, <1>6, <1>7, <3>1
    <3>3. \A i : i \notin 1 .. cur_ptr'.offset
      BY <1>3
    <3> QED
      BY <1>8, <2>3, <3>1, <3>2, <3>3 DEF FrontKept
  <2> QED
    BY <2>2, <2>3
<1>10. Overwritable'
  <2>1. \A r \in Refs : Due(r)' => r.ptr # cur_buffer'
    <3>1. \A r : Due(r) => r.ptr # cur_buffer'
      BY <1>2, NotDue
    <3>2. HasData => DataRef[1].ptr = cur_buffer
      BY DEF DataRef
    <3> QED
      BY <1>2, <1>7, <3>1, <3>2
  <2>2. \A r \in Refs : Due(r)' /\ Writable(r.ptr)' => r = synced'
    BY <1>5, <2>1
  <2>3. Due(synced) => Due(synced)'
    BY <1>6 DEF Due
  <2>4. EndOf(synced) <= QueueEnd'
    <3>1. EndOf(synced) \in Nat /\ QueueEnd \in Nat /\ EndOf(synced) <= QueueEnd
      BY Numbers DEF BufferInv, BytesInv, Overwritable
    <3> QED
      BY <1>6, <1>7, <3>1
  <2> QED
    BY <2>1, <2>2, <2>3, <2>4 DEF BytesInv, Overwritable
<1>11. Stopped'
  BY <1>8 DEF BytesInv, Stopped
<1>12. Numbered'
  <2>1. loc[t].line = lines /\ \A i \in DOMAIN logged : logged[i] < lines
    BY DEF BytesInv, Numbered
  <2>2. \A u \in Loggers : pc'[u] # "idle" => loc'[u].line = lines /\ \A i \in DOMAIN logged : logged[i] < lines
    BY <1>4, <2>1
  <2>3. \A u \in Loggers : pc'[u] # "store"
    BY <1>4
  <2> QED
    BY <2>2, <2>3 DEF BytesInv, Numbered
<1> QED
  BY <1>7, <1>9, <1>10, <1>11, <1>12 DEF BytesInv

\* append_buf finds a buffer or room in it, or reads cur_ptr_ again.
LEMMA BytesFound ==
  ASSUME BufferInv, BytesInv, NEW t \in Loggers, pc[t] # "idle",
         UNCHANGED <<ref_list, cur_buffer, cur_ptr, mem, wild, finished, spc, ref, stopping, lines, logged, synced>>,
         UNCHANGED <<spoiled, out, promised>>,
         \A u \in Loggers \ {t} : pc'[u] = pc[u],
         pc'[t] = "store" => Ending,
         loc' = [loc EXCEPT ![t].ptr = cur_ptr'] \/ (loc' = loc /\ pc[t] # "first")
  PROVE  BytesInv'
<1>1. /\ \A u \in Loggers \ {t} : pc[u] = "idle" /\ pc'[u] = "idle"
      /\ pc[t] \in {"first", "room", "copy", "store"}
  BY Alone DEF BufferInv, SinkType
<1>2. /\ loc'[t].line = loc[t].line
      /\ loc'[t].ptr = cur_ptr \/ (loc'[t].ptr = loc[t].ptr /\ Using(t))
  <2>1. cur_ptr' \in Pointers /\ loc \in [Loggers -> Locals]
    BY DEF BufferInv, SinkType
  <2> QED
    BY <1>1, <2>1, LocalsRead DEF Using
<1>3. (Ending' <=> Ending) /\ \A b : Writable(b)' => Writable(b)
  BY <1>1, <1>2 DEF Ending, Writable, Using
<1>4. Queue' /\ Overwritable' /\ OutKept' /\ RefsKept' /\ FrontKept'
  <2>1. ~Ending => ~wild'
    BY DEF BytesInv, FrontKept
  <2> QED
    BY <1>3, <2>1, BytesQuiet
<1>5. Stopped'
  BY <1>3 DEF BytesInv, Stopped
<1>6. Numbered'
  <2>1. loc[t].line = lines /\ \A i \in DOMAIN logged : logged[i] < lines
    BY DEF BytesInv, Numbered
  <2>2. \A u \in Loggers : pc'[u] # "idle" => loc'[u].line = lines /\ \A i \in DOMAIN logged : logged[i] < lines
    BY <1>1, <1>2, <2>1
  <2>3. \A u \in Loggers : pc'[u] = "store" => Ending
    BY <1>1
  <2> QED
    BY <1>3, <2>2, <2>3 DEF BytesInv, Numbered
<1> QED
  BY <1>4, <1>5, <1>6 DEF BytesInv

\* append_buf, before it copies the line
LEMMA BytesAppendTake ==
  ASSUME BufferInv, BytesInv, ~wild, NEW t \in Loggers, AppendFirst(t) \/ AppendRoom(t) \/ Reload(t)
  PROVE  BytesInv'
<1>1. pc \in [Loggers -> {"idle", "first", "room", "copy", "store"}]
  BY DEF BufferInv, SinkType
<1>2. CASE AppendFirst(t) \/ AppendRoom(t)
  <2>1. /\ pc[t] \in {"first", "room"} /\ pc' = [pc EXCEPT ![t] = IF pc[t] = "first" THEN "room" ELSE "copy"]
        /\ UNCHANGED <<mem, finished, spc, ref, stopping, lines, logged, synced, spoiled, out, promised>>
        /\ \/ NewBuffer /\ loc' = [loc EXCEPT ![t].ptr = cur_ptr'] /\ wild' \in {wild, FALSE, cur_ptr.buffer # cur_buffer}
           \/ /\ UNCHANGED <<ref_list, cur_buffer, cur_ptr, wild>>
              /\ loc' = [loc EXCEPT ![t].ptr = cur_ptr'] \/ (loc' = loc /\ pc[t] # "first")
    BY <1>2 DEF AppendFirst, AppendRoom, Goto, buffers, history
  <2>2. CASE NewBuffer /\ loc' = [loc EXCEPT ![t].ptr = cur_ptr'] /\ wild' \in {wild, FALSE, cur_ptr.buffer # cur_buffer}
    <3>1. ~Ending => ~wild'
      BY <2>2 DEF BufferInv, Current
    <3> QED
      BY <2>1, <2>2, <3>1, BytesNewBuffer
  <2>3. CASE /\ UNCHANGED <<ref_list, cur_buffer, cur_ptr, wild>>
             /\ loc' = [loc EXCEPT ![t].ptr = cur_ptr'] \/ (loc' = loc /\ pc[t] # "first")
    <3>1. pc[t] # "idle" /\ pc'[t] # "store" /\ \A u \in Loggers \ {t} : pc'[u] = pc[u]
      BY <1>1, <2>1
    <3> QED
      BY <2>1, <2>3, <3>1, BytesFound
  <2> QED
    BY <2>1, <2>2, <2>3
<1>3. CASE Reload(t)
  <2>1. /\ pc[t] \in {"room", "copy", "store"} /\ loc[t].ptr # cur_ptr /\ loc' = [loc EXCEPT ![t].ptr = cur_ptr'] /\ pc' = pc
        /\ UNCHANGED <<ref_list, cur_buffer, cur_ptr, mem, wild, finished, spc, ref, stopping, lines, logged, synced>>
        /\ UNCHANGED <<spoiled, out, promised>>
    BY <1>3 DEF Reload, buffers, history
  <2>2. Ending /\ pc[t] # "idle"
    BY <2>1 DEF BufferInv, Current, InUse, Using
  <2> QED
    BY <2>1, <2>2, BytesFound
<1> QED
  BY <1>2, <1>3


\* The loop of the sink thread, the wait, stop and its end
LEMMA BytesControl ==
  ASSUME BufferInv, BytesInv, ~wild, Loop \/ WaitFor \/ StopStore \/ StopJoin
  PROVE  BytesInv'
<1>1. /\ UNCHANGED <<ref_list, cur_buffer, cur_ptr, mem, wild, pc, loc, ref, lines, logged, synced, spoiled, out>>
      /\ \/ spc = "while" /\ spc' = (IF finished THEN "fatal" ELSE "wait") /\ UNCHANGED <<finished, stopping, promised>>
         \/ spc = "wait" /\ spc' = "sync" /\ UNCHANGED <<finished, stopping, promised>>
         \/ spc' = spc /\ finished' = TRUE /\ stopping = "no" /\ stopping' = "join" /\ promised' = Len(logged)
         \/ spc = "exit" /\ spc' = spc /\ stopping = "join" /\ stopping' = "done" /\ UNCHANGED <<finished, promised>>
  BY DEF Loop, WaitFor, StopStore, StopJoin, SGoto, buffers, history
<1>2. (Ending' <=> Ending) /\ (spc' \in AllFlushed => spc \in AllFlushed) /\ \A b : Writable(b)' <=> Writable(b)
  BY <1>1 DEF Ending, AllFlushed, Writable, Using
<1>3. Queue' /\ Overwritable' /\ OutKept' /\ RefsKept' /\ FrontKept'
  <2>1. ~Ending => cur_ptr' = cur_ptr /\ ~wild'
    BY <1>1
  <2> QED
    BY <1>1, <1>2, <2>1, BytesQuiet
<1>4. Stopped'
  <2>1. Len(logged) \in Nat /\ promised <= Len(logged) /\ Len(logged) <= Len(logged)
    BY Numbers DEF BufferInv, BytesInv, Stopped
  <2>2. /\ finished <=> stopping # "no"
        /\ spc \in {"fatal", "retire"} \/ Ending => finished
        /\ stopping = "done" => spc = "exit"
        /\ spc = "exit" => Len(logged) <= Len(out)
    BY DEF BytesInv, Stopped
  <2> QED
    BY <1>1, <1>2, <2>1, <2>2 DEF Stopped
<1>5. Numbered'
  BY <1>1, <1>2 DEF BytesInv, Numbered
<1> QED
  BY <1>3, <1>4, <1>5 DEF BytesInv

\* sync_with_front and the last new_buffer refer to the bytes of the current
\* buffer when nothing else of it is still to be written.
LEMMA BytesReferred ==
  ASSUME BufferInv, BytesInv, spc \in {"sync", "retire"}, ref_list' = ref_list \o DataRef,
         synced' = IF HasData THEN DataRef[1] ELSE synced,
         spc' \notin AllFlushed, spc' # "exit",
         UNCHANGED <<cur_buffer, mem, wild, finished, loc, ref, stopping, lines, logged, spoiled, out, promised, pc>>,
         \A b : Writable(b)' => Writable(b),
         IF Ending' THEN finished ELSE cur_ptr' = Start(cur_buffer) /\ (\A u \in Loggers : pc[u] = "idle")
  PROVE  BytesInv'
<1>1. ~Ending /\ spc \in AllFlushed /\ finished \in BOOLEAN
  BY DEF Ending, AllFlushed, BufferInv, SinkType
<1>2. \A b : Writable(b) => b = cur_buffer
  BY <1>1 DEF Writable, BufferInv, Current, InUse
<1>3. /\ Chain(ref_list', Written, DataEnd) /\ DataEnd \in Nat /\ QueueEnd <= DataEnd
      /\ HasData => EndOf(DataRef[1]) = DataEnd
      /\ DataEnd = Len(logged) /\ DataEnd = QueueEnd + cur_ptr.offset
  <2>1. /\ Chain(ref_list', Written, DataEnd) /\ DataEnd \in Nat /\ QueueEnd <= DataEnd
        /\ HasData => EndOf(DataRef[1]) = DataEnd
        /\ DataEnd = QueueEnd + cur_ptr.offset
    BY <1>1, ChainData DEF BytesInv
  <2>2. Len(logged) = QueueEnd + cur_ptr.offset
    BY <1>1 DEF BytesInv, FrontKept
  <2> QED
    BY <2>1, <2>2
<1>4. \A r : Listed(ref_list', r) <=> Listed(ref_list, r) \/ (HasData /\ r = DataRef[1])
  BY DueData
<1>5. /\ Queue' /\ QueueEnd' = DataEnd /\ OutKept' /\ RefsKept'
      /\ \A r : Due(r)' => Due(r) \/ (HasData /\ r = DataRef[1])
  BY <1>3, <1>4, BytesQueued
<1>6. Overwritable'
  <2>1. \A r \in Refs : Due(r)' /\ Writable(r.ptr)' => r = synced'
    <3> SUFFICES ASSUME NEW r \in Refs, Due(r)', Writable(r.ptr)' PROVE r = synced'
      OBVIOUS
    <3>1. r.ptr = cur_buffer
      BY <1>2
    <3>2. ~Due(r)
      BY <1>1, <3>1 DEF BytesInv, Overwritable
    <3> QED
      BY <1>5, <3>2
  <2>2. /\ EndOf(synced') <= Len(out) \/ Due(synced)'
        /\ EndOf(synced') <= DataEnd /\ EndOf(synced) <= EndOf(synced')
    <3>1. EndOf(synced) \in Nat /\ QueueEnd \in Nat /\ EndOf(synced) <= QueueEnd /\ DataEnd \in Nat
      BY <1>3, Numbers DEF BufferInv, BytesInv, Overwritable
    <3>2. CASE HasData
      <4> DEFINE x == DataRef[1]
      <4>1. synced' = x /\ x.length > 0 /\ EndOf(x) = DataEnd
        <5>1. DataRef[1] = [ptr |-> cur_buffer, length |-> cur_ptr.offset, at |-> QueueEnd]
          BY <3>2, DataQueued DEF BytesInv
        <5>2. cur_ptr.offset > 0
          BY <3>2 DEF HasData
        <5> QED
          BY <1>3, <3>2, <5>1, <5>2
      <4>2. Listed(ref_list', x)
        BY <1>4, <3>2
      <4> HIDE DEF x
      <4>3. Due(synced)'
        BY <4>1, <4>2 DEF Due
      <4> QED
        BY <1>3, <3>1, <4>1, <4>3
    <3>3. CASE ~HasData
      <4>1. synced' = synced
        BY <3>3
      <4>2. Due(synced) => Due(synced)'
        BY <1>4, <4>1 DEF Due
      <4>3. EndOf(synced) <= Len(out) \/ Due(synced)
        BY DEF BytesInv, Overwritable
      <4> QED
        BY <1>3, <3>1, <4>1, <4>2, <4>3
    <3> QED
      BY <3>2, <3>3
  <2>3. spoiled' \subseteq 0 .. EndOf(synced')
    <3>1. EndOf(synced) \in Nat /\ spoiled \subseteq 0 .. EndOf(synced)
      BY Numbers DEF BufferInv, BytesInv, Overwritable
    <3>2. EndOf(synced') \in Nat
      BY <1>3, <3>1
    <3> DEFINE a == EndOf(synced)
               b == EndOf(synced')
    <3>3. a \in Nat /\ b \in Nat /\ a <= b /\ spoiled \subseteq 0 .. a
      BY <2>2, <3>1, <3>2
    <3> HIDE DEF a, b
    <3>4. spoiled \subseteq 0 .. b
      BY <3>3
    <3> QED
      BY <3>4 DEF b
  <2> QED
    BY <1>3, <1>5, <2>1, <2>2, <2>3 DEF Overwritable, EndOf
<1>7. FrontKept'
  <2>1. CASE Ending'
    BY <1>3, <1>5, <2>1 DEF FrontKept
  <2>2. CASE ~Ending'
    <3>1. cur_ptr'.offset = 0 /\ ~wild
      BY <1>1, <2>2, PointerTypes DEF BytesInv, FrontKept, Start
    <3>2. \A i : i \notin 1 .. cur_ptr'.offset
      BY <3>1
    <3>3. Len(logged') = QueueEnd' + cur_ptr'.offset
      BY <1>3, <1>5, <3>1
    <3> QED
      BY <2>2, <3>1, <3>2, <3>3 DEF FrontKept
  <2> QED
    BY <2>1, <2>2
<1>8. Stopped'
  <2>1. spc' \notin {"fatal", "retire"} /\ spc # "exit"
    BY <1>1 DEF AllFlushed, Ending
  <2> QED
    BY <2>1 DEF BytesInv, Stopped
<1>9. Numbered'
  BY <1>1 DEF BytesInv, Numbered
<1> QED
  BY <1>5, <1>6, <1>7, <1>8, <1>9 DEF BytesInv

LEMMA BytesSync ==
  ASSUME BufferInv, BytesInv, ~wild, SyncWithFront
  PROVE  BytesInv'
<1>1. /\ spc = "sync" /\ mutex_front = nobody /\ ref_list' = ref_list \o DataRef /\ cur_ptr' = Start(cur_buffer)
      /\ spc' = "flush" /\ synced' = (IF HasData THEN DataRef[1] ELSE synced)
      /\ UNCHANGED <<cur_buffer, mem, wild, finished, loc, ref, stopping, lines, logged, spoiled, out, promised, pc>>
  BY DEF SyncWithFront, SGoto, Rewind
<1>2. \A u \in Loggers : pc[u] = "idle"
  BY <1>1, Names DEF BufferInv, Locked
<1>3. \A b : Writable(b)' => Writable(b)
  <2>1. cur_ptr'.buffer = cur_buffer
    BY <1>1, PointerTypes DEF Start
  <2> QED
    BY <1>1, <1>2, <2>1 DEF Writable, Using
<1>4. ~Ending' /\ spc' \notin AllFlushed /\ spc' # "exit"
  BY <1>1 DEF Ending, AllFlushed
<1> QED
  BY <1>1, <1>2, <1>3, <1>4, BytesReferred

LEMMA BytesLastRead ==
  ASSUME BufferInv, BytesInv, ~wild, LastRead
  PROVE  BytesInv'
<1>1. /\ spc = "retire" /\ spc' \in {"rewind", "take"} /\ ref_list' = ref_list \o DataRef
      /\ synced' = (IF HasData THEN DataRef[1] ELSE synced) /\ cur_ptr' = cur_ptr
      /\ UNCHANGED <<cur_buffer, mem, wild, finished, loc, ref, stopping, lines, logged, spoiled, out, promised, pc>>
  BY DEF LastRead, SGoto, LastRefs
<1>2. \A b : Writable(b)' => Writable(b)
  BY <1>1 DEF Writable, Using
<1>3. Ending' /\ spc' \notin AllFlushed /\ spc' # "exit" /\ finished
  BY <1>1 DEF Ending, AllFlushed, BytesInv, Stopped
<1> QED
  BY <1>1, <1>2, <1>3, BytesReferred

\* The last new_buffer changes cur_ptr_, ...
LEMMA BytesLastRewind ==
  ASSUME BufferInv, BytesInv, ~wild, LastRewind \/ LastReset
  PROVE  BytesInv'
<1>1. /\ spc \in {"rewind", "reset"} /\ spc' \in {"take", "lastflush"} /\ cur_ptr' = Start(cur_buffer)
      /\ UNCHANGED <<ref_list, cur_buffer, mem, wild, finished, pc, loc, ref, stopping, lines, logged, synced>>
      /\ UNCHANGED <<spoiled, out, promised>>
  BY DEF LastRewind, LastReset, SGoto, history
<1>2. Ending /\ Ending' /\ spc' \notin AllFlushed
  BY <1>1 DEF Ending, AllFlushed
<1>3. \A b : Writable(b)' => Writable(b)
  <2>1. cur_ptr'.buffer = cur_buffer
    BY <1>1, PointerTypes DEF Start
  <2> QED
    BY <1>1, <2>1 DEF Writable, Using
<1>4. Queue' /\ Overwritable' /\ OutKept' /\ RefsKept' /\ FrontKept'
  BY <1>1, <1>2, <1>3, BytesQuiet
<1>5. Stopped'
  BY <1>1, <1>2 DEF BytesInv, Stopped
<1>6. Numbered'
  BY <1>1, <1>2 DEF BytesInv, Numbered
<1> QED
  BY <1>4, <1>5, <1>6 DEF BytesInv

\* ... and the buffer.
LEMMA BytesLastTake ==
  ASSUME BufferInv, BytesInv, ~wild, LastTake
  PROVE  BytesInv'
<1>1. /\ spc = "take" /\ spc' = "reset" /\ ref_list' = ref_list \o FreeRef(QueueEnd)
      /\ UNCHANGED <<cur_ptr, mem, wild, finished, pc, loc, ref, stopping, lines, logged, synced, spoiled, out, promised>>
  BY DEF LastTake, SGoto, history
<1>2. Ending /\ Ending' /\ spc' \notin AllFlushed
  BY <1>1 DEF Ending, AllFlushed
<1>3. ~Unwritten(cur_buffer')
  BY StepLastTake
<1>4. \A b : Writable(b)' => b = cur_buffer' \/ Writable(b)
  BY <1>1 DEF Writable, Using
<1>5. /\ Chain(ref_list', Written, QueueEnd) /\ QueueEnd \in Nat
      /\ \A r : r.length > 0 => (Listed(ref_list', r) <=> Listed(ref_list, r))
  <2>1. SinkType /\ ref_list \in Seq(Refs) /\ Written \in Nat /\ QueueEnd \in Nat /\ Chain(ref_list, Written, QueueEnd)
    BY Numbers DEF BufferInv, SinkType, BytesInv, Queue
  <2> QED
    BY <1>1, <2>1, ChainFree
<1>6. Queue' /\ QueueEnd' = QueueEnd /\ OutKept' /\ RefsKept'
  BY <1>1, <1>5, BytesQueued
<1>7. \A r : Due(r)' <=> Due(r)
  BY <1>1, <1>5 DEF Due
<1>8. Overwritable'
  <2>1. \A r \in Refs : Due(r)' /\ Writable(r.ptr)' => r = synced
    <3> SUFFICES ASSUME NEW r \in Refs, Due(r), Writable(r.ptr)' PROVE r = synced
      BY <1>7
    <3>1. r.ptr # cur_buffer'
      BY <1>3, NotDue
    <3> QED
      BY <1>4, <3>1 DEF BytesInv, Overwritable
  <2> QED
    BY <1>1, <1>2, <1>6, <1>7, <2>1 DEF BytesInv, Overwritable
<1>9. FrontKept'
  BY <1>1, <1>2, <1>6 DEF BytesInv, FrontKept
<1>10. Stopped'
  BY <1>1, <1>2 DEF BytesInv, Stopped
<1>11. Numbered'
  BY <1>1, <1>2 DEF BytesInv, Numbered
<1> QED
  BY <1>6, <1>8, <1>9, <1>10, <1>11 DEF BytesInv

\* memcpy
LEMMA BytesAppendCopy ==
  ASSUME BufferInv, BytesInv, ~wild, NEW t \in Loggers, AppendCopy(t)
  PROVE  BytesInv'
<1> DEFINE p == loc[t].ptr
           n == loc[t].length
           line == loc[t].line
<1>1. /\ pc[t] = "copy" /\ pc' = [pc EXCEPT ![t] = "store"]
      /\ UNCHANGED <<ref_list, cur_buffer, cur_ptr, finished, loc, spc, ref, stopping, lines, logged, synced, out, promised>>
      /\ \/ /\ p.offset + n <= Size /\ wild' = wild /\ spoiled' = spoiled \cup Overwritten(p, n)
            /\ mem' = [mem EXCEPT ![p.buffer] = [i \in 1 .. Size |-> IF i \in Span(p, n) THEN line ELSE @[i]]]
         \/ p.offset + n > Size /\ wild' = TRUE /\ mem' = mem /\ spoiled' = spoiled
  BY DEF AppendCopy, Goto, buffers
<1>2. /\ \A u \in Loggers \ {t} : pc'[u] = "idle"
      /\ pc'[t] = "store" /\ Using(t) /\ InUse(t)
  BY <1>1, Alone DEF BufferInv, SinkType, Current, Using
<1>3. /\ p.buffer \in Buffers /\ p.offset \in 0 .. Size /\ n \in 0 .. Size /\ Size \in Nat /\ line \in Nat
      /\ mem \in [Buffers -> [1 .. Size -> Nat]]
  <2>1. loc[t] \in Locals /\ p.buffer # NoBuffer /\ mem \in [Buffers -> [1 .. Size -> Nat]]
    BY <1>2 DEF InUse, BufferInv, SinkType
  <2> QED
    BY <2>1, LengthsAssumption DEF Locals, Pointers
<1>4. line = lines /\ \A i \in DOMAIN logged : logged[i] < line
  BY <1>1 DEF BytesInv, Numbered
<1>5. ~Ending => p = cur_ptr /\ p.offset + n <= Size /\ p.buffer = cur_buffer
  BY <1>1, <1>2 DEF InUse, BufferInv, Current
<1>6. /\ Ending' <=> Ending
      /\ spc' \in AllFlushed <=> spc \in AllFlushed
      /\ \A b : Writable(b)' <=> Writable(b)
      /\ Writable(p.buffer)
  <2>1. \A u \in Loggers : Using(u)' <=> Using(u)
    BY <1>1, <1>2, Alone DEF Using
  <2> QED
    BY <1>1, <1>2, <2>1 DEF Ending, AllFlushed, Writable
<1>7. Stopped'
  BY <1>1, <1>6 DEF BytesInv, Stopped
<1>8. (\A i \in DOMAIN logged : logged[i] <= lines) /\ \A u \in Loggers : pc'[u] # "idle" => u = t
  BY <1>2 DEF BytesInv, Numbered
<1> HIDE DEF p, n, line
<1>9. CASE p.offset + n > Size /\ wild' = TRUE /\ mem' = mem /\ spoiled' = spoiled
  <2>1. Ending
    BY <1>3, <1>5, <1>9
  <2>2. Queue' /\ Overwritable' /\ OutKept' /\ RefsKept' /\ FrontKept'
    BY <1>1, <1>6, <1>9, <2>1, BytesQuiet
  <2>3. Numbered'
    BY <1>1, <1>4, <1>6, <1>8, <2>1 DEF Numbered, line
  <2> QED
    BY <1>7, <2>2, <2>3 DEF BytesInv
<1>10. CASE /\ p.offset + n <= Size /\ wild' = wild /\ spoiled' = spoiled \cup Overwritten(p, n)
            /\ mem' = [mem EXCEPT ![p.buffer] = [i \in 1 .. Size |-> IF i \in Span(p, n) THEN line ELSE @[i]]]
  <2>1. /\ \A b \in Buffers : b # p.buffer => mem'[b] = mem[b]
        /\ \A i \in 1 .. Size : mem'[p.buffer][i] = IF i \in Span(p, n) THEN line ELSE mem[p.buffer][i]
    BY <1>3, <1>10
  <2>2. Written' = Written /\ QueueEnd' = QueueEnd /\ \A r : Due(r)' <=> Due(r)
    BY <1>1 DEF Written, QueueEnd, Due, Listed
  <2>3. Queue'
    BY <1>1, <2>2 DEF BytesInv, Queue
  <2>4. /\ Len(out) \in Nat /\ Len(logged) \in Nat /\ synced.at \in Nat /\ synced.length \in Nat
        /\ EndOf(synced) = synced.at + synced.length /\ (synced.length > 0 => synced \in Refs)
    BY Numbers DEF BufferInv, SinkType, EndOf, NoRef
  <2>5. \A at \in Overwritten(p, n) :
           /\ at > Len(out) /\ p.buffer = synced.ptr /\ at \in Nat
           /\ \E i \in Span(p, n) : i \in 1 .. synced.length /\ at = synced.at + i
    BY <2>4 DEF Overwritten
  <2>6. \A i \in Span(p, n) : i \in 1 .. synced.length /\ p.buffer = synced.ptr /\ synced.at + i > Len(out)
                                => synced.at + i \in Overwritten(p, n)
    BY DEF Overwritten
  <2>7. Overwritable'
    <3>1. spoiled' \subseteq 0 .. EndOf(synced)
      <4>1. Overwritten(p, n) \subseteq 0 .. EndOf(synced)
        <5> SUFFICES ASSUME NEW at \in Overwritten(p, n) PROVE at \in 0 .. EndOf(synced)
          OBVIOUS
        <5>1. at \in Nat /\ \E i \in 1 .. synced.length : at = synced.at + i
          BY <2>5
        <5>2. PICK i \in 1 .. synced.length : at = synced.at + i
          BY <5>1
        <5> QED
          BY <2>4, <5>1, <5>2
      <4> QED
        BY <1>10, <4>1 DEF BytesInv, Overwritable
    <3> QED
      BY <1>1, <1>6, <2>2, <3>1 DEF BytesInv, Overwritable
  <2>8. OutKept'
    <3>1. \A i \in DOMAIN out : i \notin Overwritten(p, n)
      <4>1. \A i \in DOMAIN out : i \in Nat /\ i <= Len(out)
        BY DEF BufferInv, SinkType
      <4> QED
        BY <2>4, <2>5, <4>1
    <3> QED
      BY <1>1, <1>10, <3>1 DEF BytesInv, OutKept, Kept
  <2>9. RefsKept'
    <3> SUFFICES ASSUME NEW r \in Refs, Due(r), NEW i \in 1 .. r.length, r.at + i <= Len(logged)
                 PROVE  Kept(r.at + i, mem[r.ptr][i])'
      BY <1>1, <2>2 DEF RefsKept, RefKept
    <3>1. /\ r.at \in Nat /\ EndOf(r) = r.at + r.length /\ r.ptr \in Buffers
          /\ Len(out) <= r.at /\ i \in 1 .. Size /\ i \in Nat /\ i > 0 /\ r.length \in Nat /\ i <= r.length
      <4>1. r.at \in Nat /\ r.length \in 0 .. Size /\ EndOf(r) = r.at + r.length /\ r.ptr \in Buffers
        BY Numbers DEF BufferInv
      <4>2. Len(out) <= r.at
        BY Dues DEF BufferInv, BytesInv
      <4> QED
        BY <1>3, <4>1, <4>2
    <3>2. r.ptr = p.buffer => r = synced
      BY <1>6 DEF BytesInv, Overwritable
    <3>3. Kept(r.at + i, mem[r.ptr][i])
      BY DEF BytesInv, RefsKept, RefKept
    <3>4. CASE r.ptr = p.buffer /\ i \in Span(p, n)
      <4>1. r.at + i \in Overwritten(p, n)
        BY <2>4, <2>6, <3>1, <3>2, <3>4
      <4>2. mem'[r.ptr][i] = line
        BY <2>1, <3>1, <3>4
      <4>3. r.at + i \in DOMAIN logged
        BY <2>4, <3>1 DEF BufferInv, SinkType
      <4> QED
        BY <1>1, <1>3, <1>4, <1>10, <4>1, <4>2, <4>3 DEF Kept, BufferInv, SinkType
    <3>5. CASE ~(r.ptr = p.buffer /\ i \in Span(p, n))
      <4>1. mem'[r.ptr][i] = mem[r.ptr][i]
        BY <2>1, <3>1, <3>5
      <4>2. r.at + i \notin Overwritten(p, n)
        <5> SUFFICES ASSUME r.at + i \in Overwritten(p, n) PROVE FALSE
          OBVIOUS
        <5>1. PICK j \in Span(p, n) : j \in 1 .. synced.length /\ r.at + i = synced.at + j
          BY <2>5
        <5>2. p.buffer = synced.ptr /\ r.at + i > Len(out)
          BY <2>5
        <5> DEFINE sa == synced.at
                   sl == synced.length
                   se == EndOf(synced)
        <5>6. sa \in Nat /\ sl \in Nat /\ se = sa + sl /\ j \in 1 .. sl /\ r.at + i = sa + j
          BY <2>4, <5>1
        <5> HIDE DEF sa, sl, se
        <5>3. r # synced
          <6>1. r = synced => i = j
            BY <2>4, <3>1, <5>1
          <6> QED
            BY <3>5, <5>1, <5>2, <6>1
        <5>4. synced \in Refs /\ Due(synced)
          <6>1. sl > 0 /\ se > Len(out) /\ ~(se <= Len(out))
            BY <2>4, <3>1, <5>2, <5>6
          <6>2. EndOf(synced) <= Len(out) \/ Due(synced)
            BY DEF BytesInv, Overwritable
          <6> QED
            BY <2>4, <6>1, <6>2 DEF sl, se
        <5>5. EndOf(r) <= synced.at \/ EndOf(synced) <= r.at
          BY <5>3, <5>4, DuesApart DEF BufferInv, BytesInv
        <5>7. EndOf(r) <= sa \/ se <= r.at
          BY <5>5 DEF sa, se
        <5> QED
          BY <3>1, <5>6, <5>7
      <4> QED
        BY <1>1, <1>10, <3>3, <4>1, <4>2 DEF Kept
    <3> QED
      BY <3>4, <3>5
  <2>10. FrontKept'
    <3>1. CASE Ending
      BY <1>1, <1>6, <2>2, <3>1 DEF BytesInv, FrontKept
    <3>2. CASE ~Ending
      <4>1. \A i \in 1 .. cur_ptr.offset : mem'[cur_buffer][i] = mem[cur_buffer][i]
        <5>1. \A i \in 1 .. p.offset : i \notin Span(p, n) /\ i \in 1 .. Size
          BY <1>3 DEF Span
        <5> QED
          BY <1>5, <2>1, <3>2, <5>1
      <4> QED
        BY <1>1, <1>6, <1>10, <2>2, <3>2, <4>1 DEF BytesInv, FrontKept
    <3> QED
      BY <3>1, <3>2
  <2>11. Numbered'
    <3>1. ~Ending => \A i \in Span(p, n) : mem'[cur_buffer][i] = line
      <4>1. \A i \in Span(p, n) : i \in 1 .. Size
        BY <1>3, <1>10 DEF Span
      <4> QED
        BY <1>5, <2>1, <4>1
    <3> QED
      BY <1>1, <1>4, <1>6, <1>8, <3>1 DEF Numbered, line, p, n
  <2> QED
    BY <1>7, <2>3, <2>7, <2>8, <2>9, <2>10, <2>11 DEF BytesInv
<1> QED
  BY <1>1, <1>9, <1>10 DEF p, n, line

\* The end of append_buf
LEMMA BytesAppendStore ==
  ASSUME BufferInv, BytesInv, ~wild, NEW t \in Loggers, AppendStore(t)
  PROVE  BytesInv'
<1> DEFINE p == loc[t].ptr
           n == loc[t].length
           line == loc[t].line
           w == [i \in 1 .. n |-> line]
<1>1. /\ pc[t] = "store" /\ cur_ptr' = [p EXCEPT !.offset = @ + n] /\ pc' = [pc EXCEPT ![t] = "idle"]
      /\ logged' = (IF Ending THEN logged ELSE logged \o w) /\ spc' = (IF t = sink THEN "retire" ELSE spc)
      /\ UNCHANGED <<ref_list, cur_buffer, mem, wild, finished, ref, stopping, lines, synced, spoiled, out, promised>>
  BY DEF AppendStore, Goto
<1>2. (\A u \in Loggers : pc'[u] = "idle") /\ (t = sink => spc = "fatal") /\ Using(t) /\ InUse(t)
  BY <1>1, Alone DEF BufferInv, SinkType, Current, Using, Locked
<1>3. p \in Pointers /\ p.offset \in 0 .. Size /\ n \in 0 .. Size /\ Size \in Nat /\ line \in Nat
  <2>1. loc[t] \in Locals
    BY DEF BufferInv, SinkType
  <2> QED
    BY <2>1, LengthsAssumption DEF Locals, Pointers
<1>4. cur_ptr'.buffer = p.buffer /\ cur_ptr'.offset = p.offset + n
  BY <1>1, <1>3 DEF Pointers
<1>5. /\ Ending' <=> Ending
      /\ spc' \in AllFlushed <=> spc \in AllFlushed
      /\ \A b : Writable(b)' => Writable(b)
  BY <1>1, <1>2, <1>4 DEF Ending, AllFlushed, Writable, Using
<1>6. line = lines /\ (\A i \in DOMAIN logged : logged[i] <= lines)
  BY <1>1 DEF BytesInv, Numbered
<1>7. /\ finished <=> stopping # "no"
      /\ spc' \in {"fatal", "retire"} \/ Ending' => finished
      /\ stopping = "done" => spc' = "exit"
      /\ spc' = "exit" => spc = "exit"
  BY <1>1, <1>2, <1>5 DEF BytesInv, Stopped
<1>8. logged \in Seq(Nat) /\ Len(logged) \in Nat /\ w \in Seq(Nat) /\ Len(w) = n /\ \A i \in 1 .. n : w[i] = line
  BY <1>3 DEF BufferInv, SinkType
<1> HIDE DEF p, n, line, w
<1>9. CASE Ending
  <2>1. logged' = logged
    BY <1>1, <1>9
  <2>2. Queue' /\ Overwritable' /\ OutKept' /\ RefsKept' /\ FrontKept'
    BY <1>1, <1>5, <1>9, <2>1, BytesQuiet
  <2>3. Numbered' /\ Stopped'
    BY <1>1, <1>2, <1>6, <1>7, <2>1 DEF BytesInv, Numbered, Stopped
  <2> QED
    BY <2>2, <2>3 DEF BytesInv
<1>10. CASE ~Ending
  <2>1. logged' = logged \o w
    BY <1>1, <1>10
  <2>2. /\ Len(logged') = Len(logged) + n
        /\ \A i \in 1 .. Len(logged) : logged'[i] = logged[i]
        /\ \A i \in 1 .. n : logged'[Len(logged) + i] = line
    <3>1. /\ Len(logged') = Len(logged) + n
          /\ \A i \in 1 .. Len(logged) + n : logged'[i] = IF i <= Len(logged) THEN logged[i] ELSE w[i - Len(logged)]
      BY <1>8, <2>1, ConcatProperties
    <3>2. ASSUME NEW i \in 1 .. n PROVE logged'[Len(logged) + i] = line
      <4>1. /\ Len(logged) + i \in 1 .. Len(logged) + n /\ ~(Len(logged) + i <= Len(logged))
            /\ (Len(logged) + i) - Len(logged) = i
        BY <1>3, <1>8
      <4>2. logged'[Len(logged) + i] = w[i]
        BY <3>1, <4>1
      <4> QED
        BY <1>8, <4>2
    <3>3. ASSUME NEW i \in 1 .. Len(logged) PROVE logged'[i] = logged[i]
      <4>1. i \in 1 .. Len(logged) + n /\ i <= Len(logged)
        BY <1>3, <1>8
      <4> QED
        BY <3>1, <4>1
    <3> QED
      BY <3>1, <3>2, <3>3
  <2>3. Written' = Written /\ QueueEnd' = QueueEnd /\ \A r : Due(r)' <=> Due(r)
    BY <1>1 DEF Written, QueueEnd, Due, Listed
  <2>4. Queue'
    BY <1>1, <2>3 DEF BytesInv, Queue
  <2>5. /\ p = cur_ptr /\ Len(logged) = QueueEnd + p.offset /\ ~wild /\ QueueEnd \in Nat /\ Len(out) \in Nat
        /\ Len(out) <= QueueEnd /\ EndOf(synced) \in Nat /\ EndOf(synced) <= QueueEnd
    <3>1. p = cur_ptr
      BY <1>2, <1>10 DEF InUse, p
    <3>2. Len(logged) = QueueEnd + cur_ptr.offset /\ ~wild
      BY <1>10 DEF BytesInv, FrontKept
    <3>3. Len(out) <= Written /\ Written <= QueueEnd /\ Written \in Nat /\ QueueEnd \in Nat /\ Len(out) \in Nat
      BY QueueOrder, Numbers DEF BufferInv, BytesInv
    <3>4. EndOf(synced) \in Nat /\ EndOf(synced) <= QueueEnd
      BY Numbers DEF BufferInv, BytesInv, Overwritable
    <3> QED
      BY <3>1, <3>2, <3>3, <3>4
  <2>6. Overwritable'
    <3>1. EndOf(synced) <= Len(logged')
      BY <1>3, <1>8, <2>2, <2>5
    <3> QED
      BY <1>1, <1>5, <2>3, <3>1 DEF BytesInv, Overwritable
  <2>7. OutKept'
    <3>1. \A i \in DOMAIN out : i \in 1 .. Len(logged) /\ i <= Len(logged)
      <4>1. \A i \in DOMAIN out : i \in Nat /\ 1 <= i /\ i <= Len(out)
        BY DEF BufferInv, SinkType
      <4> QED
        BY <1>3, <1>8, <2>5, <4>1
    <3> QED
      BY <1>1, <2>2, <3>1 DEF BytesInv, OutKept, Kept
  <2>8. RefsKept'
    <3> SUFFICES ASSUME NEW r \in Refs, Due(r), NEW i \in 1 .. r.length
                 PROVE  Kept(r.at + i, mem[r.ptr][i])'
      BY <2>3 DEF RefsKept, RefKept
    <3>1. r.at + i \in 1 .. Len(logged) /\ r.at + i <= Len(logged)
      <4> DEFINE ra == r.at
                 rl == r.length
                 L == Len(logged)
                 q == QueueEnd
                 o == p.offset
      <4>1. ra \in Nat /\ rl \in 0 .. Size /\ EndOf(r) = ra + rl
        BY Numbers DEF BufferInv
      <4>2. EndOf(r) <= q
        BY Dues DEF BufferInv, BytesInv
      <4>3. L = q + o /\ q \in Nat /\ o \in 0 .. Size /\ L \in Nat /\ i \in 1 .. rl
        BY <1>3, <1>8, <2>5
      <4> HIDE DEF ra, rl, L, q, o
      <4>4. ra + i \in 1 .. L
        BY <1>3, <4>1, <4>2, <4>3
      <4> QED
        BY <4>3, <4>4 DEF ra, L
    <3>2. Kept(r.at + i, mem[r.ptr][i])
      BY <3>1 DEF BytesInv, RefsKept, RefKept
    <3> QED
      BY <1>1, <2>2, <3>1, <3>2 DEF Kept
  <2>9. FrontKept'
    <3>1. Len(logged') = QueueEnd' + cur_ptr'.offset
      BY <1>3, <1>4, <1>8, <2>2, <2>3, <2>5
    <3>2. ASSUME NEW i \in 1 .. cur_ptr'.offset
          PROVE  mem'[cur_buffer'][i] = logged'[QueueEnd' + i]
      <4>1. i \in 1 .. p.offset + n
        BY <1>4
      <4>2. CASE i <= p.offset
        <5>1. mem[cur_buffer][i] = logged[QueueEnd + i]
          <6>1. i \in 1 .. cur_ptr.offset
            BY <1>3, <2>5, <4>1, <4>2
          <6> QED
            BY <1>10, <6>1 DEF BytesInv, FrontKept
        <5>2. QueueEnd + i \in 1 .. Len(logged)
          BY <1>3, <2>5, <4>1, <4>2
        <5> QED
          BY <1>1, <2>2, <2>3, <5>1, <5>2
      <4>3. CASE i > p.offset
        <5>1. i \in Span(p, n)
          BY <1>3, <4>1, <4>3 DEF Span
        <5>2. mem[cur_buffer][i] = line
          BY <1>1, <1>10, <5>1 DEF BytesInv, Numbered, p, n, line
        <5>3. i - p.offset \in 1 .. n /\ QueueEnd + i = Len(logged) + (i - p.offset)
          BY <1>3, <2>5, <4>1, <4>3
        <5> QED
          BY <1>1, <2>2, <2>3, <5>2, <5>3
      <4> QED
        BY <1>3, <4>1, <4>2, <4>3
    <3> QED
      BY <1>1, <1>5, <1>10, <2>5, <3>1, <3>2 DEF FrontKept
  <2>10. Stopped'
    <3>1. promised \in Nat /\ promised <= Len(logged) /\ spc # "exit"
      BY <1>10, Numbers DEF BufferInv, BytesInv, Stopped, Ending
    <3>2. promised <= Len(logged')
      BY <1>3, <1>8, <2>2, <3>1
    <3> QED
      BY <1>1, <1>7, <3>1, <3>2 DEF Stopped
  <2>11. Numbered'
    <3>1. ASSUME NEW i \in DOMAIN logged' PROVE logged'[i] <= lines
      <4>1. i \in 1 .. Len(logged) + n /\ lines \in Nat
        <5>1. DOMAIN (logged \o w) = 1 .. Len(logged \o w) /\ lines \in Nat
          BY <1>8 DEF BufferInv, SinkType
        <5> QED
          BY <2>1, <2>2, <5>1
      <4>2. CASE i <= Len(logged)
        BY <1>6, <1>8, <2>2, <4>1, <4>2
      <4>3. CASE i > Len(logged)
        <5>1. i - Len(logged) \in 1 .. n /\ i = Len(logged) + (i - Len(logged))
          BY <1>3, <1>8, <4>1, <4>3
        <5> QED
          BY <1>6, <2>2, <4>1, <5>1
      <4> QED
        BY <1>8, <4>1, <4>2, <4>3
    <3> QED
      BY <1>1, <1>2, <3>1 DEF Numbered
  <2> QED
    BY <2>4, <2>6, <2>7, <2>8, <2>9, <2>10, <2>11 DEF BytesInv
<1> QED
  BY <1>9, <1>10

\* flush looks at the head of ref_list_: nothing changes but where what is
\* still to be written is.
LEMMA BytesPopped ==
  ASSUME BufferInv, BytesInv, Chain(ref_list', Written', QueueEnd),
         \A r : Due(r)' <=> Due(r), ref'.length > 0 => ref'.at = Len(out),
         UNCHANGED <<cur_buffer, cur_ptr, mem, wild, pc, loc, finished, stopping, lines, logged, synced>>,
         UNCHANGED <<spoiled, out, promised>>,
         Ending' <=> Ending, spc' \in AllFlushed => \A r : ~Due(r), spc' # "retire", spc' # "fatal", spc # "exit",
         spc' = "exit" => Len(logged) <= Len(out)
  PROVE  BytesInv'
<1>1. QueueEnd' = QueueEnd
  BY EndIs
<1>2. Queue'
  BY <1>1 DEF Queue
<1>3. \A b : Writable(b)' <=> Writable(b)
  BY DEF Writable, Using
<1>4. Overwritable'
  BY <1>1, <1>3 DEF BytesInv, Overwritable
<1>5. OutKept' /\ RefsKept' /\ FrontKept'
  BY <1>1 DEF BytesInv, OutKept, RefsKept, RefKept, Kept, FrontKept
<1>6. Stopped' /\ Numbered'
  BY DEF BytesInv, Stopped, Numbered
<1> QED
  BY <1>2, <1>4, <1>5, <1>6 DEF BytesInv

LEMMA BytesFlushPop ==
  ASSUME BufferInv, BytesInv, ~wild, FlushPop
  PROVE  BytesInv'
<1>1. /\ spc \in {"flush", "lastflush"} /\ ref = NoRef
      /\ UNCHANGED <<cur_buffer, cur_ptr, mem, wild, pc, loc, finished, stopping, lines, logged, synced>>
      /\ UNCHANGED <<spoiled, out, promised>>
  <2>1. spc \in {"flush", "lastflush"}
    BY DEF FlushPop
  <2> QED
    BY <2>1 DEF FlushPop, history, BufferInv, RefsTidy
<1>2. ref.length = 0 /\ ref_list \in Seq(Refs) /\ Written = Len(out) /\ Len(out) \in Nat /\ QueueEnd \in Nat
  BY <1>1, Numbers DEF BufferInv, SinkType, NoRef, Written
<1>3. \/ spc' = spc
      \/ spc = "flush" /\ spc' \in {"io", "while"}
      \/ spc = "lastflush" /\ spc' \in {"lastio", "exit"}
  BY <1>1 DEF FlushPop, SGoto, IoLabel, ReturnLabel
<1>4. (Ending' <=> Ending) /\ spc' # "retire" /\ spc' # "fatal" /\ spc # "exit"
  BY <1>1, <1>3 DEF Ending
<1> DEFINE h == Head(ref_list)
<1>5. ref_list # <<>> =>
        /\ h \in Refs /\ h.at = Len(out) /\ Chain(Tail(ref_list), EndOf(h), QueueEnd)
        /\ EndOf(h) = Len(out) + h.length /\ h.length \in Nat
        /\ \A r : Listed(ref_list, r) <=> r = h \/ Listed(Tail(ref_list), r)
  <2> SUFFICES ASSUME ref_list # <<>>
               PROVE  /\ h \in Refs /\ h.at = Len(out) /\ Chain(Tail(ref_list), EndOf(h), QueueEnd)
                      /\ EndOf(h) = Len(out) + h.length /\ h.length \in Nat
                      /\ \A r : Listed(ref_list, r) <=> r = h \/ Listed(Tail(ref_list), r)
    OBVIOUS
  <2>1. h \in Refs
    BY <1>2, PoppedFront
  <2>2. h.at = Len(out) /\ Chain(Tail(ref_list), EndOf(h), QueueEnd)
    BY <1>2, ChainPopped DEF BytesInv, Queue
  <2>3. \A r : Listed(ref_list, r) <=> r = h \/ Listed(Tail(ref_list), r)
    BY <1>2, <2>1, ListedAre
  <2>4. EndOf(h) = h.at + h.length /\ h.length \in Nat
    <3>1. h.length \in 0 .. Size /\ Size \in Nat /\ EndOf(h) = h.at + h.length
      BY <2>1, Numbers DEF BufferInv
    <3> QED
      BY <3>1
  <2> HIDE DEF h
  <2> QED
    BY <2>1, <2>2, <2>3, <2>4
<1> HIDE DEF h
<1>6. CASE ref_list # <<>> /\ h.length = 0 /\ ref_list' = Tail(ref_list) /\ UNCHANGED <<spc, ref>>
  <2>1. Chain(ref_list', Written', QueueEnd)
    BY <1>1, <1>2, <1>5, <1>6 DEF Written
  <2>2. \A r : Due(r)' <=> Due(r)
    BY <1>5, <1>6 DEF Due
  <2>3. spc' \notin AllFlushed /\ spc' # "exit" /\ ref'.length = 0
    BY <1>1, <1>2, <1>6 DEF AllFlushed
  <2> QED
    BY <1>1, <1>4, <2>1, <2>2, <2>3, BytesPopped
<1>7. CASE ref_list # <<>> /\ h.length > 0 /\ ref_list' = Tail(ref_list) /\ ref' = h /\ spc' = IoLabel
  <2>1. Chain(ref_list', Written', QueueEnd)
    BY <1>1, <1>5, <1>7 DEF Written
  <2>2. \A r : Due(r)' <=> Due(r)
    BY <1>2, <1>5, <1>7 DEF Due
  <2>3. spc' \notin AllFlushed /\ spc' # "exit" /\ ref'.at = Len(out)
    BY <1>5, <1>7 DEF AllFlushed, IoLabel
  <2> QED
    BY <1>1, <1>4, <2>1, <2>2, <2>3, BytesPopped
<1>8. CASE ref_list = <<>> /\ spc' = ReturnLabel /\ UNCHANGED <<ref_list, ref>>
  <2>1. Chain(ref_list', Written', QueueEnd)
    BY <1>1, <1>8 DEF Written, BytesInv, Queue
  <2>2. \A r : (Due(r)' <=> Due(r)) /\ ~Due(r)
    BY <1>2, <1>8 DEF Due, Listed
  <2>3. ref'.length = 0
    BY <1>2, <1>8
  <2>4. spc' = "exit" => Len(logged) <= Len(out)
    <3>1. QueueEnd = Len(out)
      BY <1>2, <1>8 DEF QueueEnd
    <3>2. spc' = "exit" => Ending
      BY <1>3, <1>4 DEF Ending
    <3>3. Ending => QueueEnd >= Len(logged)
      BY DEF BytesInv, FrontKept
    <3>4. Len(logged) \in Nat
      BY Numbers DEF BufferInv
    <3> QED
      BY <1>2, <3>1, <3>2, <3>3, <3>4
  <2> QED
    BY <1>1, <1>4, <2>1, <2>2, <2>3, <2>4, BytesPopped
<1> QED
  BY <1>6, <1>7, <1>8 DEF FlushPop, SGoto, h

\* g_output_func
LEMMA BytesFlushIo ==
  ASSUME BufferInv, BytesInv, ~wild, FlushIo
  PROVE  BytesInv'
<1>1. /\ spc \in {"io", "lastio"} /\ spc' = (IF spc = "io" THEN "flush" ELSE "lastflush")
      /\ UNCHANGED <<ref_list, cur_buffer, cur_ptr, mem, wild, finished, pc, loc, stopping, lines, logged>>
      /\ UNCHANGED <<synced, spoiled, promised>>
  BY DEF FlushIo, SGoto, FlushLabel, buffers
<1>2. /\ ref \in Refs /\ ref.length > 0 /\ ref.at = Len(out) /\ Due(ref)
      /\ EndOf(ref) = Written /\ Written = Len(out) + ref.length /\ Len(out) \in Nat /\ ref.length \in Nat
  <2>1. ref.length > 0 /\ ref \in Refs \cup {NoRef} /\ ref # NoRef
    BY <1>1 DEF BufferInv, RefsTidy, SinkType, NoRef
  <2>2. EndOf(ref) = Written /\ ref.at = Len(out)
    BY <2>1, QueueOrder DEF BufferInv, BytesInv, Queue
  <2>3. Len(out) \in Nat /\ ref.length \in Nat
    BY Numbers DEF BufferInv
  <2> QED
    BY <2>1, <2>2, <2>3 DEF Due, Written
<1>3. /\ SinkType' /\ ref' = NoRef /\ ref'.length = 0 /\ Len(out') = Written
      /\ \A i \in 1 .. Len(out) : out'[i] = out[i]
      /\ \A i \in 1 .. ref.length : out'[Len(out) + i] = mem[ref.ptr][i]
  <2>1. /\ BufferInv' /\ ref' = NoRef /\ Len(out') = Len(out) + ref.length
        /\ \A i \in 1 .. Len(out) : out'[i] = out[i]
        /\ \A i \in 1 .. ref.length : out'[Len(out) + i] = mem[ref.ptr][i]
    BY StepFlushIo
  <2>2. ref'.length = 0
    BY <2>1 DEF NoRef
  <2> QED
    BY <1>2, <2>1, <2>2 DEF BufferInv
<1>4. Written' = Written /\ QueueEnd' = QueueEnd
  <2>1. Written' = Written
    BY <1>2, <1>3 DEF Written
  <2>2. Chain(ref_list', Written', QueueEnd)
    BY <1>1, <2>1 DEF BytesInv, Queue
  <2> QED
    BY <2>1, <2>2, EndIs
<1>5. Queue'
  BY <1>1, <1>3, <1>4 DEF BytesInv, Queue
<1>6. /\ \A r : Due(r)' => Due(r)
      /\ \A r : Due(r) => Due(r)' \/ r = ref
  BY <1>1, <1>3 DEF Due
<1>7. (Ending' <=> Ending) /\ spc' \notin AllFlushed /\ spc' # "exit" /\ \A b : Writable(b)' <=> Writable(b)
  BY <1>1 DEF Ending, AllFlushed, Writable, Using
<1>8. Overwritable'
  <2>1. EndOf(synced') <= Len(out') \/ Due(synced)'
    <3>1. EndOf(synced) \in Nat /\ Written \in Nat
      BY Numbers DEF BufferInv
    <3>2. CASE EndOf(synced) <= Len(out)
      BY <1>1, <1>2, <1>3, <3>1, <3>2
    <3>3. CASE Due(synced)
      <4>1. Due(synced)' \/ synced = ref
        BY <1>1, <1>6, <3>3
      <4>2. synced = ref => EndOf(synced) <= Len(out')
        BY <1>2, <1>3, <3>1
      <4> QED
        BY <1>1, <4>1, <4>2
    <3> QED
      BY <3>2, <3>3 DEF BytesInv, Overwritable
  <2> QED
    BY <1>1, <1>4, <1>6, <1>7, <2>1 DEF BytesInv, Overwritable
<1>9. OutKept'
  <2> SUFFICES ASSUME NEW i \in DOMAIN out', i <= Len(logged) PROVE Kept(i, out'[i])
    BY <1>1 DEF OutKept, Kept
  <2>1. i \in 1 .. Len(out) + ref.length
    <3>1. out' \in Seq(Nat)
      BY <1>3 DEF SinkType
    <3>2. i \in 1 .. Len(out')
      BY <3>1
    <3> QED
      BY <1>2, <1>3, <3>2
  <2>2. CASE i <= Len(out)
    <3>1. i \in 1 .. Len(out) /\ i \in DOMAIN out
      BY <1>2, <2>1, <2>2 DEF BufferInv, SinkType
    <3> QED
      BY <1>3, <3>1 DEF BytesInv, OutKept
  <2>3. CASE i > Len(out)
    <3>1. i - Len(out) \in 1 .. ref.length /\ i = Len(out) + (i - Len(out)) /\ i = ref.at + (i - Len(out))
      BY <1>2, <2>1, <2>3
    <3>2. RefKept(ref)
      BY <1>2 DEF BytesInv, RefsKept
    <3>3. Kept(i, mem[ref.ptr][i - Len(out)])
      BY <3>1, <3>2 DEF RefKept
    <3> QED
      BY <1>3, <3>1, <3>3
  <2> QED
    BY <1>2, <2>1, <2>2, <2>3
<1>10. RefsKept' /\ FrontKept'
  BY <1>1, <1>4, <1>6, <1>7 DEF BytesInv, RefsKept, RefKept, Kept, FrontKept
<1>11. Stopped' /\ Numbered'
  <2>1. spc \notin {"exit", "fatal", "retire"} /\ spc' \notin {"exit", "fatal", "retire"}
    BY <1>1
  <2> QED
    BY <1>1, <1>7, <2>1 DEF BytesInv, Stopped, Numbered
<1> QED
  BY <1>5, <1>8, <1>9, <1>10, <1>11 DEF BytesInv

-----------------------------------------------------------------------------
(* What is appended is written *)

LEMMA BytesInvInit == Init => BytesInv
<1> SUFFICES ASSUME Init PROVE BytesInv
  OBVIOUS
<1>1. /\ ref_list = <<>> /\ ref = NoRef /\ out = <<>> /\ logged = <<>> /\ synced = NoRef /\ spoiled = {}
      /\ spc = "while" /\ cur_ptr = Start(NoBuffer) /\ wild = FALSE /\ lines = 0 /\ promised = 0
      /\ finished = FALSE /\ stopping = "no" /\ \A t \in Loggers : pc[t] = "idle"
  BY DEF Init
<1>2. ref.length = 0 /\ ref.at = 0 /\ EndOf(synced) = 0 /\ synced.length = 0 /\ cur_ptr.offset = 0 /\ cur_ptr.buffer = NoBuffer
  BY <1>1 DEF NoRef, EndOf, Start
<1>3. Len(out) = 0 /\ Len(logged) = 0 /\ Written = 0 /\ QueueEnd = 0 /\ ~Ending
  BY <1>1, <1>2 DEF Written, QueueEnd, Ending
<1>4. \A r : ~Due(r)
  BY <1>1, <1>2 DEF Due, Listed
<1>5. Stopped
  BY <1>1, <1>3 DEF Stopped
<1>6. Queue
  BY <1>1, <1>2, <1>3 DEF Queue, Chain
<1>7. Overwritable
  BY <1>1, <1>2, <1>3, <1>4 DEF Overwritable
<1>8. Numbered
  BY <1>1 DEF Numbered
<1>9. OutKept /\ RefsKept
  BY <1>1, <1>4 DEF OutKept, RefsKept
<1>10. FrontKept
  BY <1>1, <1>2, <1>3 DEF FrontKept
<1> QED
  BY <1>5, <1>6, <1>7, <1>8, <1>9, <1>10 DEF BytesInv

LEMMA BytesInvNext == BufferInv /\ BytesInv /\ [Next]_vars => BytesInv'
<1> SUFFICES ASSUME BufferInv, BytesInv, [Next]_vars PROVE BytesInv'
  OBVIOUS
<1>1. ASSUME ~wild, NEW t \in Loggers, (\E n \in Lengths : AppendLock(t, n)) \/ AppendStep(t) \/ Reload(t)
      PROVE  BytesInv'
  BY <1>1, BytesAppendLock, BytesAppendTake, BytesAppendCopy, BytesAppendStore DEF AppendStep
<1>2. CASE ~wild /\ Work
  BY <1>2, BytesControl, BytesSync, BytesFlushPop, BytesFlushIo, BytesLastRead, BytesLastRewind, BytesLastTake DEF Work
<1>3. CASE ~wild /\ (StopStore \/ StopJoin)
  BY <1>3, BytesControl
<1>4. CASE UNCHANGED vars
  <2>1. /\ UNCHANGED <<ref_list, cur_buffer, cur_ptr, mem, wild, finished, pc, loc, spc, ref, stopping, lines, logged>>
        /\ UNCHANGED <<synced, spoiled, out, promised>>
    BY <1>4 DEF vars, buffers, history
  <2>2. (Ending' <=> Ending) /\ \A b : Writable(b)' <=> Writable(b)
    BY <2>1 DEF Ending, Writable, Using
  <2>3. Queue' /\ Overwritable' /\ OutKept' /\ RefsKept' /\ FrontKept'
    <3>1. ~Ending => cur_ptr' = cur_ptr /\ ~wild'
      BY <2>1 DEF BytesInv, FrontKept
    <3> QED
      BY <2>1, <2>2, <3>1, BytesQuiet
  <2>4. Stopped' /\ Numbered'
    BY <2>1, <2>2 DEF BytesInv, Stopped, Numbered
  <2> QED
    BY <2>3, <2>4 DEF BytesInv
<1> QED
  BY <1>1, <1>2, <1>3, <1>4 DEF Next

\* Whatever is appended, queued, overwritten and written: each reference says
\* which bytes of the output it stands for, only the last one to bytes of the
\* current buffer, or of one that a thread still writes to when the service
\* stops, can be overwritten, and a byte is appended as memcpy has left it.
\* So it is for every interleaving of the threads with flush and with the last
\* new_buffer, which changes cur_ptr_ between the load and the store of
\* append_buf's cur_ptr_ += length.
THEOREM BytesInvariant == Spec => [](BufferInv /\ BytesInv)
<1>1. Init => BufferInv /\ BytesInv
  BY BufferInvInit, BytesInvInit
<1>2. BufferInv /\ BytesInv /\ [Next]_vars => BufferInv' /\ BytesInv'
  BY BufferInvNext, BytesInvNext
<1> QED
  BY <1>1, <1>2, PTL DEF Spec

\* Every byte that append_buf has appended is in the output, being written,
\* referred to or in the current buffer, in its place, unless a later line has
\* overwritten it there after sync_with_front or the last new_buffer referred
\* to it; nothing else is in the output before the bytes appended.
THEOREM BytesAreKept == Spec => []BytesKept
<1>1. ASSUME BufferInv, BytesInv PROVE BytesKept
  <2>1. ASSUME NEW r \in Refs \cup {NoRef}, r.length > 0 => Due(r)
        PROVE  RefKept(r)
    <3>1. CASE r.length > 0
      <4>1. r \in Refs
        BY <3>1 DEF NoRef
      <4> QED
        BY <1>1, <2>1, <3>1, <4>1 DEF BytesInv, RefsKept
    <3>2. CASE ~(r.length > 0)
      <4>1. r.length \in Nat
        BY LengthsAssumption DEF Refs, NoRef
      <4>2. \A i : i \notin 1 .. r.length
        BY <3>2, <4>1
      <4> QED
        BY <4>2 DEF RefKept
    <3> QED
      BY <3>1, <3>2
  <2>2. RefKept(ref)
    BY <1>1, <2>1 DEF BufferInv, SinkType, Due
  <2>3. \A i \in DOMAIN ref_list : RefKept(ref_list[i])
    <3> SUFFICES ASSUME NEW i \in DOMAIN ref_list PROVE RefKept(ref_list[i])
      OBVIOUS
    <3>1. ref_list[i] \in Refs /\ Listed(ref_list, ref_list[i])
      BY <1>1 DEF BufferInv, SinkType, Listed
    <3> QED
      BY <2>1, <3>1 DEF Due
  <2> QED
    BY <1>1, <2>2, <2>3 DEF BytesKept, BytesInv, OutKept, FrontKept
<1> QED
  BY <1>1, BytesInvariant, PTL

\* When stop has joined the sink thread, every byte that was appended before
\* finished_ was set is in the output in its place, or a byte of a later line
\* that had overwritten it, though other threads may be logging: the last
\* new_buffer refers to what is in the current buffer and flush runs after it.
THEOREM StopHasFlushed == Spec => []StopFlushes
<1>1. ASSUME BufferInv, BytesInv PROVE StopFlushes
  <2> SUFFICES ASSUME stopping = "done"
               PROVE  Len(out) >= promised /\ \A i \in 1 .. promised : Kept(i, out[i])
    BY DEF StopFlushes
  <2>1. Len(logged) <= Len(out) /\ promised <= Len(logged)
    BY <1>1 DEF BytesInv, Stopped
  <2>2. Len(logged) \in Nat /\ Len(out) \in Nat /\ promised \in Nat
    BY <1>1, Numbers DEF BufferInv
  <2>3. \A i \in 1 .. promised : i \in DOMAIN out /\ i <= Len(logged)
    BY <1>1, <2>1, <2>2 DEF BufferInv, SinkType
  <2> QED
    BY <1>1, <2>1, <2>2, <2>3 DEF BytesInv, OutKept
<1> QED
  BY <1>1, BytesInvariant, PTL

=============================================================================
