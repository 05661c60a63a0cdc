\* Two clients add and cancel two timers, in two buckets; asserts on.
CONSTANTS
    Callers = {c1, c2}
    TimerTid = tt
    Owner = c1
    Timers = {t1, t2}
    NoTimer = NoTimer
    BucketNumber = 2
    BucketOf <- MCBucketOf
    MaxUse = 1
    Horizon = 1
    MaxStamp = 100
    UsPerSec = 2
    Garbage = {7}
    Asserts = TRUE
    Calls = {"add", "cancel", "stop"}
SPECIFICATION Spec
SYMMETRY TimerSymmetry
CHECK_DEADLOCK FALSE
INVARIANTS WakeInv NoOversleep AssertsHold
