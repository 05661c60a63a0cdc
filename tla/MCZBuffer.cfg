\* Two threads, two buffers, blocks of four bytes: a ring of two references takes
\* half a block, one of four a whole one.
CONSTANTS
    t1 = t1
    t2 = t2
    x = x
    y = y
    Threads = {t1, t2}
    Buffers = {x, y}
    nobuffer = nobuffer
    Cap = 4
    Align = 2
    RefBytes = 1
    ArrayHead = 0
    Limit = 2
    MaxBlocks = 3
    InitSize = 2
    RingSizes = {2, 4, 8}
    BeginRange = 8
    MaxIov = 2
    Counts = {1, 3, 5}
    Programs <- MCPrograms
SPECIFICATION FairSpec
CHECK_DEADLOCK FALSE
INVARIANTS RefsCounted BytesKept CachesApart
PROPERTIES ExitEmptiesCache
