\* A thread overwrites what sync_with_front has taken.
CONSTANTS
    Threads = {t1}
    sink = sink
    nobody = nobody
    Size = 2
    Lengths = {1, 2}
    MaxLines = 2
SPECIFICATION Spec
CHECK_DEADLOCK FALSE
INVARIANT LinesKept
