\* Two clients and callbacks reuse one timer object; NDEBUG build.
CONSTANTS
    Callers = {c1, c2, tt}
    TimerTid = tt
    Owner = c1
    Timers = {t1}
    NoTimer = NoTimer
    BucketNumber = 1
    BucketOf <- MCBucketOf
    MaxUse = 2
    Horizon = 1
    MaxStamp = 100
    UsPerSec = 2
    Garbage = {7}
    Asserts = FALSE
    Calls = {"add", "cancel", "stop"}
SPECIFICATION Spec
CHECK_DEADLOCK FALSE
INVARIANTS OnePlace ReleasedIsSettled CancelVerdict
PROPERTIES FateForward
