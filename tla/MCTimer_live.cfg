\* Fair scheduling: a client and callbacks add two timers, and the client stops the thread; NDEBUG build.
CONSTANTS
    Callers = {c1, tt}
    TimerTid = tt
    Owner = c1
    Timers = {t1, t2}
    NoTimer = NoTimer
    BucketNumber = 1
    BucketOf <- MCBucketOf
    MaxUse = 1
    Horizon = 1
    MaxStamp = 100
    UsPerSec = 2
    Garbage = {7}
    Asserts = FALSE
    Calls = {"add", "stop"}
SPECIFICATION FairSpec
CHECK_DEADLOCK FALSE
PROPERTIES EveryTimerSettles CallsReturn LateStopReturns
