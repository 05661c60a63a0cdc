\* Three threads, two groups of two blocks of two items: the fifth block is one too many.
CONSTANTS
    Threads = {t1, t2, t3}
    BASE = 1
    BITS = 4
    MaxBlocks = 5
SPECIFICATION FairSpec
CHECK_DEADLOCK FALSE
INVARIANTS FindInverts SlotsApart NoWaste
PROPERTIES CallsReturn
