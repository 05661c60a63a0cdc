\* Two threads, groups of two; five objects are one more than Economy allows.
CONSTANTS
    Threads = {t1, t2}
    K = 2
    N = 2
    MaxWanted = 2
    MaxObjects = 5
    MaxGroups = 4
SPECIFICATION PoolSpec
SYMMETRY ThreadSymmetry
INVARIANTS InOnePlace GroupSizes PoolEconomy
