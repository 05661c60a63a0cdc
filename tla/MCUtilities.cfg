\* The stack: two threads, two stacks, two nodes pushed up to twice each.
\* The log line: a buffer of 8 or 11 bytes.
\* The date: minutes of 12 microseconds, hours of 2 and days of 4 minutes, so
\* that a number of minutes is a time of day 0.
\* Sockets: two, and a guard.
CONSTANTS
    Threads = {t1, t2}
    Ids = {i1, i2}
    NoId = NoId
    Stacks = {full, empty}
    MaxVersion = 2
    LogLevels = {1, 4}
    MaxLengths = {8, 11}
    HeadLen = 2
    NumericSize = 3
    PointerSize = 2
    TailRoom = 5
    TailLen = 3
    PartLengths = {1, 5}
    MaxStatements = 3
    MaxDepth = 2
    MaxParts = 3
    UsOneMin = 12
    MinOneHour = 2
    MinOneDay = 4
    Zones = {0, 12}
    Times <- MCTimes
    Sockets = {s1, s2}
    Guards = {g1}
    MaxFd = 3
    BlockSize = 8
    AlignTo = 4
    PointerLen = 1
    Requests = {1, 2, 3, 9}
    MaxArena = 5
    Roots = {r1, r2}
    LinkNodes = {n1, n2, n3}
    nonode = nonode
SPECIFICATION Spec
CHECK_DEADLOCK FALSE
INVARIANTS StackInv OperandsKept LinesWhole OneByteOver DateTold OneOwner MemoryApart BothWays
PROPERTIES Atomic
