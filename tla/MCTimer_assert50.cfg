\* The assert of run_and_delete.
CONSTANTS
    Callers = {c1, c2}
    TimerTid = tt
    Owner = c1
    Timers = {t1}
    NoTimer = NoTimer
    BucketNumber = 1
    BucketOf <- MCBucketOf
    MaxUse = 1
    Horizon = 1
    MaxStamp = 100
    UsPerSec = 2
    Garbage = {7}
    Asserts = TRUE
    Calls = {"add", "cancel", "stop"}
SPECIFICATION Spec
CHECK_DEADLOCK FALSE
INVARIANTS RunAssertHolds
