------------------------------ MODULE LogStream ------------------------------
(***************************************************************************)
(* The line that a thread is logging (LogStream and LogMessage in          *)
(* src/include/p/base/logger.h and src/src/logger.cpp, the settings of     *)
(* class Log).  A statement LOG_X << a << b begins with log_stream, appends*)
(* its operands and ends with ~LogMessage, which hands the line over.  An  *)
(* operand may log itself while it is computed, and noflush leaves the line*)
(* open: statements nest and join on the same thread-local buffer.         *)
(*                                                                         *)
(* The text is a sequence of parts with a length each; which characters    *)
(* they have is left out.                                                  *)
(***************************************************************************)
EXTENDS Naturals, Sequences, SequencesExt

CONSTANTS
    LogLevels,     \* the levels that are tried, numbered as in LogLevel
    MaxLengths,    \* lengths that set_max_length_per_log accepts
    HeadLen,       \* date, thread name and level
    NumericSize,   \* kMaxNumericSize
    PointerSize,   \* kMaxPointerSize
    TailRoom,      \* length of the name of a source file, plus 32
    TailLen,       \* length of " - " name ":" line
    PartLengths,   \* lengths of the operands
    MaxStatements, \* bound: statements of a run
    MaxDepth,      \* bound: statements inside one another
    MaxParts       \* bound: operands of a run

\* The head fits into the smallest buffer and the tail into TailRoom.
ASSUME LineAssumption ==
    /\ MaxLengths \subseteq Nat /\ MaxLengths # {} /\ HeadLen \in Nat \ {0}
    /\ \A n \in MaxLengths : HeadLen <= n
    /\ NumericSize \in Nat /\ PointerSize \in Nat /\ PartLengths \subseteq Nat
    /\ TailRoom \in Nat \ {0} /\ TailLen \in 0 .. TailRoom

VARIABLES
    setting,  \* g_log_level, g_ef_log_level, g_max_length_per_log
    stream,   \* tls_log_stream; size is 0 before the buffer is allocated
    open,     \* the statements under way, the innermost one last
    lines,    \* what append_buf got
    errors,   \* how many of them g_ef_output_func got
    said,     \* history: the operands that were appended, at least in part
    begun,    \* history: number of statements so far
    torn,     \* history: the statements during which another one ended a line
    high      \* history: how much of the buffer was ever written to

streamVars == <<setting, stream, open, lines, errors, said, begun, torn, high>>

KInfo == 2
LogLevelCount == 6

TextLen(parts) ==
    LET len == [i \in DOMAIN parts |-> parts[i].len]
        sum[i \in 0 .. Len(parts)] == IF i = 0 THEN 0 ELSE sum[i - 1] + len[i]
    IN sum[Len(parts)]
Part(kind, from, len, cut) == [kind |-> kind, from |-> from, len |-> len, cut |-> cut]

StreamInit ==
    /\ setting = [level |-> KInfo, ef |-> 4, max |-> CHOOSE n \in MaxLengths : TRUE]
    /\ stream = [size |-> 0, text |-> <<>>, auto_flush |-> TRUE, level |-> 0, source |-> 0]
    /\ open = <<>> /\ lines = <<>> /\ errors = 0
    /\ said = <<>> /\ begun = 0 /\ torn = {} /\ high = 0

Avail == stream.size - TextLen(stream.text)
Larger(a, b) == IF a < b THEN b ELSE a
Smaller(a, b) == IF a < b THEN a ELSE b

SetLogLevel(l) ==
    /\ l <= LogLevelCount /\ setting' = [setting EXCEPT !.level = l]
    /\ UNCHANGED <<stream, open, lines, errors, said, begun, torn, high>>
SetEfLogLevel(l) ==
    /\ l <= LogLevelCount /\ setting' = [setting EXCEPT !.ef = l]
    /\ UNCHANGED <<stream, open, lines, errors, said, begun, torn, high>>
SetMaxLength(n) ==
    /\ setting' = [setting EXCEPT !.max = n]
    /\ UNCHANGED <<stream, open, lines, errors, said, begun, torn, high>>

\* LOG_TRACE, LOG_DEBUG and LOG_INFO look at the level, the others do not.
Enabled(l) == l <= KInfo => setting.level <= l

\* check_buffer: the size is the setting at the first line of the thread
CheckBufferAlways(s) == TRUE
CheckBuffer(s) == s.text = <<>>

\* LogMessage::log_stream: a head only if the buffer is empty
BeginStatement(l) ==
    LET s == [stream EXCEPT !.level = l, !.size = IF @ = 0 THEN setting.max ELSE @]
        id == begun + 1
    IN
    /\ l < LogLevelCount /\ Enabled(l) /\ begun < MaxStatements /\ Len(open) < MaxDepth
    /\ stream' = IF CheckBuffer(s)
                 THEN [s EXCEPT !.text = Append(@, Part("head", id, HeadLen, FALSE)),
                                !.source = id]
                 ELSE s
    /\ high' = Larger(high, TextLen(stream'.text))
    /\ open' = Append(open, id) /\ begun' = id
    /\ UNCHANGED <<setting, lines, errors, said, torn>>

\* Len bytes of an operand are appended, and reach bytes are written.
Put(len, reach, cut) ==
    LET p == Part("item", Last(open), len, cut) IN
    /\ open # <<>> /\ Len(said) < MaxParts /\ len > 0
    /\ stream' = [stream EXCEPT !.text = Append(@, p)]
    /\ said' = Append(said, p)
    /\ high' = Larger(high, TextLen(stream.text) + reach)
    /\ UNCHANGED <<setting, open, lines, errors, begun, torn>>

\* append(buf, len) and append(ch): as much as there is room for
AppendText(n) == Put(Smaller(n, Avail), Smaller(n, Avail), n > Avail)

\* appendf: vsnprintf ends what it writes with a NUL.
Appendf(n) == Put(Smaller(n, Avail), Smaller(n, Avail) + 1, n > Avail)

\* Numbers and pointers are written whole, with a NUL behind them, or not at all.
NumberFitsAnyhow(n) == n < NumericSize /\ open # <<>>
NumberFits(n) == n < NumericSize /\ Avail >= NumericSize
AppendInteger(n) == NumberFits(n) /\ Put(n, n + 1, FALSE)
AppendPointer(n) == n <= PointerSize /\ Avail >= PointerSize /\ Put(n, n + 1, FALSE)

DoNoflush ==
    /\ open # <<>>
    /\ stream' = [stream EXCEPT !.auto_flush = FALSE]
    /\ UNCHANGED <<setting, open, lines, errors, said, begun, torn, high>>

\* What Sink appends: the source if there is room for it, and the newline
\* whether there is room or not
Closing(s) ==
    (IF s.size - TextLen(s.text) >= TailRoom
     THEN <<Part("tail", s.source, TailLen, FALSE)>> ELSE <<>>)
    \o <<Part("newline", s.source, 1, FALSE)>>

SunkKept(s) == [s EXCEPT !.auto_flush = TRUE]
Sunk(s) == [s EXCEPT !.auto_flush = TRUE, !.text = IF s.auto_flush THEN <<>> ELSE @]

\* ~LogMessage, that is Sink
EndStatement ==
    LET line == stream.text \o Closing(stream) IN
    /\ open # <<>>
    /\ open' = Front(open)
    /\ stream' = Sunk(stream)
    /\ \/ /\ stream.auto_flush
          /\ lines' = Append(lines, line)
          /\ errors' = IF stream.level >= setting.ef THEN errors + 1 ELSE errors
          /\ high' = Larger(high, TextLen(line))
          /\ torn' = torn \cup ToSet(Front(open))
       \/ ~stream.auto_flush /\ UNCHANGED <<lines, errors, high, torn>>
    /\ UNCHANGED <<setting, said, begun>>

StreamNext ==
    \/ \E l \in LogLevels : SetLogLevel(l) \/ SetEfLogLevel(l) \/ BeginStatement(l)
    \/ \E n \in MaxLengths : SetMaxLength(n)
    \/ \E n \in PartLengths : AppendText(n) \/ Appendf(n) \/ AppendInteger(n) \/ AppendPointer(n)
    \/ DoNoflush \/ EndStatement

StreamSpec == StreamInit /\ [][StreamNext]_streamVars

-----------------------------------------------------------------------------
(* Properties *)

\* The members of seqs, one behind the other
Joined(seqs) ==
    LET join[i \in 0 .. Len(seqs)] == IF i = 0 THEN <<>> ELSE join[i - 1] \o seqs[i]
    IN join[Len(seqs)]

Items(parts) == Joined([i \in DOMAIN parts |-> IF parts[i].kind = "item" THEN <<parts[i]>> ELSE <<>>])

\* Every operand is in one line, or in the one that is open, in the order in
\* which the statements were written, however they nest and join; a text that
\* was cut has nothing but the newline after it.
OperandsKept ==
    /\ Joined([k \in DOMAIN lines |-> Items(lines[k])]) \o Items(stream.text) = said
    /\ \A k \in 1 .. Len(lines) : \A i \in 1 .. Len(lines[k]) - 2 : ~lines[k][i].cut

\* A line has one head, in front, and names the source of the statement whose
\* head it is.  Only what a statement still says after another one, logged by
\* one of its operands, has ended its line comes without a head.
LinesWhole ==
    \A k \in 1 .. Len(lines) :
        LET line == lines[k] IN
        /\ \A i \in 2 .. Len(line) : line[i].kind # "head"
        /\ line[1].kind = "head"
              => \A i \in 2 .. Len(line) : line[i].kind = "tail" => line[i].from = line[1].from
        /\ line[1].kind = "item" => line[1].from \in torn

\* A line may be one byte longer than the buffer, never more: the newline, or
\* the NUL that vsnprintf and ConvertPointer write, comes behind the last byte
\* that the capacity tests allow.  The size is the one the buffer was made with,
\* whatever set_max_length_per_log says since.
OneByteOver ==
    high <= stream.size + 1 /\ \A k \in 1 .. Len(lines) : TextLen(lines[k]) <= stream.size + 1
=============================================================================
