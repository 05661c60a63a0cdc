\* Two threads log three lines of one or two bytes and the sink one more, into buffers of two.
CONSTANTS
    Threads = {t1, t2}
    sink = sink
    nobody = nobody
    Size = 2
    Lengths = {1, 2}
    MaxLines = 3
SPECIFICATION FairSpec
CHECK_DEADLOCK FALSE
INVARIANTS BufferInOnePlace BytesKept StopFlushes
PROPERTIES FullIsIntact LinesComeOut SinkStops
