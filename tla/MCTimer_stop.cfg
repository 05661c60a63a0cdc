\* stop_and_join under fair scheduling.
CONSTANTS
    Callers = {c1, c2}
    TimerTid = tt
    Owner = c1
    Timers = {t1}
    NoTimer = NoTimer
    BucketNumber = 1
    BucketOf <- MCBucketOf
    MaxUse = 1
    Horizon = 1
    MaxStamp = 100
    UsPerSec = 2
    Garbage = {7}
    Asserts = FALSE
    Calls = {"add", "cancel", "stop"}
SPECIFICATION FairSpec
CHECK_DEADLOCK FALSE
PROPERTIES StopReturns
