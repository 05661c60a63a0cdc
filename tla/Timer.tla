------------------------------- MODULE Timer -------------------------------
(***************************************************************************)
(* p::base::TimerControl (src/src/timer.cpp): any number of threads add    *)
(* and cancel timers; one timer thread pulls them out of the buckets,      *)
(* keeps them in a heap, runs the ones that are due and sleeps on a futex  *)
(* until the earliest one.  Every access to an atomic, and every critical  *)
(* section of a bucket's mutex, is a step of its own.                      *)
(*                                                                         *)
(* The timer pool (ArenaObjectPool) is seen here through its contract: a   *)
(* released timer may be handed out again, to anyone, with the id it was   *)
(* released with.                                                          *)
(***************************************************************************)
EXTENDS Integers, FiniteSets

CONSTANTS
    Callers,       \* threads that call the TimerControl
    TimerTid,      \* the timer thread: a caller while a callback runs
    Owner,         \* the caller that stops and destroys the TimerControl
    Timers,        \* timer objects of the arena
    NoTimer,       \* nullptr
    BucketNumber,  \* bucket_number_ (0 is turned into 1 by the constructor)
    BucketOf,      \* ThisThread::thread_id() % bucket_number_
    MaxUse,        \* bound: how often one timer object is acquired
    Horizon,       \* bound: the last instant of the clock, in microseconds
    MaxStamp,      \* std::numeric_limits<int64_t>::max()
    UsPerSec,      \* 1000000 of lines 176 and 177
    Garbage,       \* values signal_pending_ may start with: it is never initialised
    Asserts,       \* FALSE in a build with NDEBUG
    Calls          \* bound: the calls that are made, among AllCalls

Buckets == 0 .. BucketNumber - 1
Times == 0 .. Horizon
Stamps == Times \cup {MaxStamp}
\* timer_id >> 32 of the successive uses of a timer: it grows by 3
Versions == {3 * k : k \in 1 .. MaxUse}

ASSUME CallersAssumption == Owner \in Callers /\ Owner # TimerTid
ASSUME TimersAssumption == NoTimer \notin Timers
ASSUME BucketAssumption ==
    BucketNumber \in Nat \ {0} /\ BucketOf \in [Callers -> Buckets]
ASSUME BoundsAssumption == MaxUse \in Nat /\ Horizon \in Nat /\ UsPerSec \in Nat \ {0}
ASSUME StampAssumption == MaxStamp \in Nat /\ MaxStamp > 2 * Horizon + UsPerSec
ASSUME GarbageAssumption == Garbage \subseteq Int
ASSUME AssertsAssumption == Asserts \in BOOLEAN

AllCalls == {"add", "cancel", "stop"}
ASSUME CallsAssumption == Calls \subseteq AllCalls

VARIABLES
    timer_id, version, run_time,  \* fields of struct Timer (timer_id >> 32)
    free,                         \* timers in the pool TimerFactory
    head, bucket_min,             \* head_ and min_timestamp_ of every bucket
    min_timestamp,                \* TimerThread::min_timestamp_
    signal_pending,               \* TimerThread::signal_pending_, the futex word
    stop,                         \* TimerThread::stop_
    thread,                       \* TimerThread::thread_, or the whole object gone
    tpc,                          \* the timer thread, in Run()
    bi, tm_list, tm_heap, tmp,    \* its locals: bucket index, list, heap, timer
    sig, sleep_point, abs_time, expiry,  \* and those of its sleep
    pc, loc,                      \* the callers, and the locals of their calls
    now,                          \* gettimeofday_us()
    fate,                         \* history: what became of every id
    failed                        \* the assertion that aborted the process

timers == <<timer_id, version, run_time>>
store == <<timers, free, fate>>
buckets == <<head, bucket_min>>
waking == <<min_timestamp, signal_pending>>
life == <<stop, thread>>
pulls == <<bi, tm_list, tm_heap, tmp>>
sleeps == <<sig, sleep_point, abs_time, expiry>>
run == <<tpc, pulls, sleeps>>
calls == <<pc, loc>>
world == <<now, failed>>
vars == <<store, buckets, waking, life, run, calls, world>>

Fates == {"none", "pending", "running", "finished", "cancelled", "dropped"}
TimerPCs == {"check", "setmax", "reset", "pull", "heap", "due", "run", "func",
             "loadsig", "loadmin", "clock", "wait", "asleep", "exit", "done"}
CallerPCs == {"idle", "version", "bucket", "load", "cas", "inc", "wake",
              "ccas", "cload", "ret", "sinc", "swake", "join"}

\* Locals of add_timer and cancel_timer.  "seen" is min_timestamp or
\* base_version, as last overwritten by a failed compare_exchange; "was" is
\* history: the fate of the id when cancel_timer was called.
Locals == [tm : Timers \cup {NoTimer}, id : Versions \cup {0}, rt : Times,
           seen : Nat, was : Fates, ret : {-1, 0, 1}]
NoLocals == [tm |-> NoTimer, id |-> 0, rt |-> 0, seen |-> 0, was |-> "none", ret |-> 0]

\* ArenaObjectPool ids start with version 0; the constructor stores the rest,
\* except signal_pending_.
Init ==
    /\ timer_id = [t \in Timers |-> 0]
    /\ version = [t \in Timers |-> 0]
    /\ run_time = [t \in Timers |-> 0]
    /\ free = Timers
    /\ head = [b \in Buckets |-> {}]
    /\ bucket_min = [b \in Buckets |-> MaxStamp]
    /\ min_timestamp = MaxStamp
    /\ signal_pending \in Garbage
    /\ stop = 0
    /\ thread = "running"
    /\ tpc = "check" /\ bi = 0 /\ tm_list = {} /\ tm_heap = {} /\ tmp = NoTimer
    /\ sig = 0 /\ sleep_point = 0 /\ abs_time = 0 /\ expiry = 0
    /\ pc = [c \in Callers |-> "idle"]
    /\ loc = [c \in Callers |-> NoLocals]
    /\ now = 0
    /\ fate = [t \in Timers |-> [v \in Versions |-> "none"]]
    /\ failed = "none"

-----------------------------------------------------------------------------
(* Steps shared by several operations *)

\* TimerFactory::release: the timers go back to the pool with the id they have.
Release(ts) == free' = free \cup ts

\* assert(cond): outside an NDEBUG build a false condition aborts the process.
Check(where, cond) == failed' = IF Asserts /\ ~cond THEN where ELSE failed

\* The fate of the current id of timer t changes.
Becomes(t, f) == fate' = [fate EXCEPT ![t][timer_id[t]] = f]

\* The condition of try_delete: somebody cancelled the timer.
TryDeleteInverted(t) == version[t] = timer_id[t]
TryDelete(t) == version[t] # timer_id[t]

\* timer_compare orders the heap: tm_heap[0] is one with the least run_time.
HeapTop(t) == t \in tm_heap /\ \A u \in tm_heap : run_time[t] <= run_time[u]

\* min_sleep_point: the announced minimum or the top of the heap, the earlier.
SleepPoint(s) ==
    /\ s \in {min_timestamp} \cup {run_time[t] : t \in tm_heap}
    /\ s <= min_timestamp
    /\ \A t \in tm_heap : s <= run_time[t]

\* The timespec made of d microseconds: the remainder below a second is stored
\* as nanoseconds, a thousandth of what was meant.
Timespec(d) == (d \div UsPerSec) * UsPerSec + (d % UsPerSec) \div 1000

\* A caller can make or continue a call; the timer thread only in a callback.
Active(c) == c = TimerTid => tpc = "func"

Goto(c, label) == pc' = [pc EXCEPT ![c] = label]
Return(c) == Goto(c, "idle") /\ loc' = [loc EXCEPT ![c] = NoLocals]

-----------------------------------------------------------------------------
(* TimerControl::add_timer *)

\* A timer of the pool gets its new id, run_time, func and arg.
AddAcquire(c, t, rt) ==
    /\ Active(c) /\ pc[c] = "idle" /\ thread # "destroyed"
    /\ t \in free /\ timer_id[t] + 3 \in Versions
    /\ free' = free \ {t}
    /\ timer_id' = [timer_id EXCEPT ![t] = @ + 3]
    /\ run_time' = [run_time EXCEPT ![t] = rt]
    /\ fate' = [fate EXCEPT ![t][timer_id[t] + 3] = "pending"]
    /\ loc' = [loc EXCEPT ![c] = [NoLocals EXCEPT !.tm = t, !.id = timer_id[t] + 3, !.rt = rt]]
    /\ Goto(c, "version")
    /\ UNCHANGED <<version, buckets, waking, life, run, world>>

\* version.store(timer_id >> 32): from here on the timer can be cancelled.
AddVersion(c) ==
    /\ pc[c] = "version"
    /\ version' = [version EXCEPT ![loc[c].tm] = loc[c].id]
    /\ Goto(c, "bucket")
    /\ UNCHANGED <<timer_id, run_time, free, fate, buckets, waking, life, run, loc, world>>

\* TimerBucket::add_timer under the bucket's mutex.  Only the timer that
\* lowers the bucket's minimum goes on to announce it.
AddBucket(c) ==
    /\ pc[c] = "bucket"
    /\ LET b == BucketOf[c] IN
       /\ head' = [head EXCEPT ![b] = @ \cup {loc[c].tm}]
       /\ \/ /\ loc[c].rt < bucket_min[b]
             /\ bucket_min' = [bucket_min EXCEPT ![b] = loc[c].rt]
             /\ Goto(c, "load") /\ loc' = loc
          \/ /\ loc[c].rt >= bucket_min[b]
             /\ bucket_min' = bucket_min
             /\ Return(c)
    /\ UNCHANGED <<store, waking, life, run, world>>

\* TimerThread::add_timer: the timer's time is compared with min_timestamp_ ...
AddLoad(c) ==
    /\ pc[c] = "load"
    /\ \/ /\ min_timestamp <= loc[c].rt
          /\ Return(c)
       \/ /\ min_timestamp > loc[c].rt
          /\ loc' = [loc EXCEPT ![c].seen = min_timestamp]
          /\ Goto(c, "cas")
    /\ UNCHANGED <<store, buckets, waking, life, run, world>>

\* ... and stored in it by compare_exchange_weak, ...
AddCasOk(c) ==
    /\ pc[c] = "cas" /\ min_timestamp = loc[c].seen
    /\ min_timestamp' = loc[c].rt
    /\ Goto(c, "inc")
    /\ UNCHANGED <<store, buckets, signal_pending, life, run, loc, world>>

\* ... which may also fail, spuriously or not, and is then tried again.
AddCasFailNoReload(c) ==
    /\ pc[c] = "cas"
    /\ UNCHANGED vars
AddCasFail(c) ==
    /\ pc[c] = "cas"
    /\ Goto(c, "load")
    /\ UNCHANGED <<store, buckets, waking, life, run, loc, world>>

-----------------------------------------------------------------------------
(* futex_wake, called by add_timer and by stop_and_join *)

\* signal_pending_.fetch_add(1)
SignalUnchanged == signal_pending
Signalled == signal_pending + 1
WakeInc(c) ==
    /\ pc[c] \in {"inc", "sinc"}
    /\ signal_pending' = Signalled
    /\ Goto(c, IF pc[c] = "inc" THEN "wake" ELSE "swake")
    /\ UNCHANGED <<store, buckets, min_timestamp, life, run, loc, world>>

\* FUTEX_WAKE: the timer thread, if it sleeps, returns from futex_wait.
WakeFutex(c) ==
    /\ pc[c] \in {"wake", "swake"}
    /\ tpc' = IF tpc = "asleep" THEN "check" ELSE tpc
    /\ IF pc[c] = "wake" THEN Return(c) ELSE Goto(c, "join") /\ loc' = loc
    /\ UNCHANGED <<store, buckets, waking, life, pulls, sleeps, world>>

-----------------------------------------------------------------------------
(* TimerControl::cancel_timer *)

Adding(c) == pc[c] \in {"version", "bucket", "load", "cas", "inc", "wake"}

\* add_timer has returned the id of the use v of timer t.
Issued(t, v) ==
    /\ fate[t][v] # "none"
    /\ \A c \in Callers : ~(Adding(c) /\ loc[c].tm = t /\ loc[c].id = v)

\* The id is compared with the timer's: another one means "already finished".
CancelCheck(c, t, v) ==
    /\ Active(c) /\ pc[c] = "idle" /\ thread # "destroyed" /\ Issued(t, v)
    /\ loc' = [loc EXCEPT ![c] = [NoLocals EXCEPT !.tm = t, !.id = v, !.seen = v,
                                  !.was = fate[t][v], !.ret = -1]]
    /\ Goto(c, IF timer_id[t] = v THEN "ccas" ELSE "ret")
    /\ UNCHANGED <<store, buckets, waking, life, run, world>>

\* version.compare_exchange_strong(base_version, base_version + 2); its failure
\* overwrites base_version with the version found.
CancelWinsById(c) == timer_id[loc[c].tm] = loc[c].id
CancelWins(c) == version[loc[c].tm] = loc[c].seen
CancelledAsRunning(base_version) == base_version + 1
Cancelled(base_version) == base_version + 2
CancelCas(c) ==
    /\ pc[c] = "ccas"
    /\ LET t == loc[c].tm IN
       \/ /\ CancelWins(c)
          /\ version' = [version EXCEPT ![t] = Cancelled(loc[c].seen)]
          /\ fate' = [fate EXCEPT ![t][loc[c].id] = "cancelled"]
          /\ loc' = [loc EXCEPT ![c].ret = 0]
          /\ Goto(c, "ret")
       \/ /\ ~CancelWins(c)
          /\ loc' = [loc EXCEPT ![c].seen = version[t]]
          /\ Goto(c, "cload")
          /\ UNCHANGED <<version, fate>>
    /\ UNCHANGED <<timer_id, run_time, free, buckets, waking, life, run, world>>

\* version.load() == base_version + 1 is taken for "the timer is running".
CancelLoad(c) ==
    /\ pc[c] = "cload"
    /\ loc' = [loc EXCEPT ![c].ret = IF version[loc[c].tm] = loc[c].seen + 1 THEN 1 ELSE -1]
    /\ Goto(c, "ret")
    /\ UNCHANGED <<store, buckets, waking, life, run, world>>

\* cancel_timer returns loc[c].ret to its caller.
CancelReturn(c) ==
    /\ pc[c] = "ret"
    /\ Return(c)
    /\ UNCHANGED <<store, buckets, waking, life, run, world>>

-----------------------------------------------------------------------------
(* stop_and_join and the destructor, called by the owner *)

\* Timers that are released without being run.
Drop(ts) ==
    /\ Release(ts)
    /\ fate' = [t \in Timers |->
                  IF t \in ts /\ timer_id[t] \in Versions /\ fate[t][timer_id[t]] = "pending"
                  THEN [fate[t] EXCEPT ![timer_id[t]] = "dropped"] ELSE fate[t]]

\* stop_.store(1), then futex_wake(1)
StopStore(c) ==
    /\ c = Owner /\ pc[c] = "idle" /\ thread = "running"
    /\ stop' = 1
    /\ Goto(c, "sinc")
    /\ UNCHANGED <<store, buckets, waking, thread, run, loc, world>>

\* thread_.join()
Join(c) ==
    /\ pc[c] = "join" /\ tpc = "done"
    /\ thread' = "joined"
    /\ Goto(c, "idle")
    /\ UNCHANGED <<store, buckets, waking, stop, run, loc, world>>

\* ~TimerThread after its stop_and_join: what is left in the buckets is
\* released.  Nobody may be using the object any more.
Destroy(c) ==
    /\ c = Owner /\ thread = "joined" /\ \A d \in Callers : pc[d] = "idle"
    /\ Drop(UNION {head[b] : b \in Buckets})
    /\ head' = [b \in Buckets |-> {}]
    /\ bucket_min' = [b \in Buckets |-> MaxStamp]
    /\ thread' = "destroyed"
    /\ UNCHANGED <<timers, waking, stop, run, calls, world>>

-----------------------------------------------------------------------------
(* TimerThread::Run *)

\* while (stop_.load() == 0).  The locals of the last round go out of scope.
RunCheck ==
    /\ tpc = "check"
    /\ tpc' = IF stop = 0 THEN "setmax" ELSE "exit"
    /\ tmp' = NoTimer /\ sig' = 0 /\ sleep_point' = 0 /\ abs_time' = 0 /\ expiry' = 0
    /\ UNCHANGED <<store, buckets, waking, life, bi, tm_list, tm_heap, calls, world>>

\* min_timestamp_.store(max)
RunSetMax ==
    /\ tpc = "setmax"
    /\ min_timestamp' = MaxStamp
    /\ bi' = 0
    /\ tpc' = "reset"
    /\ UNCHANGED <<store, buckets, signal_pending, life, tm_list, tm_heap, tmp, sleeps, calls, world>>

\* TimerBucket::reset of the next bucket, under its mutex
KeptMin(b) == bucket_min[b]
ResetMin(b) == MaxStamp
RunReset ==
    /\ tpc = "reset"
    /\ \/ /\ bi < BucketNumber
          /\ tm_list' = head[bi]
          /\ head' = [head EXCEPT ![bi] = {}]
          /\ bucket_min' = [bucket_min EXCEPT ![bi] = ResetMin(bi)]
          /\ bi' = bi + 1
          /\ tpc' = "pull"
       \/ /\ bi = BucketNumber
          /\ tpc' = "heap"
          /\ UNCHANGED <<tm_list, buckets, bi>>
    /\ UNCHANGED <<store, waking, life, tm_heap, tmp, sleeps, calls, world>>

\* One timer of the list: released if it is cancelled, else pushed on the heap.
RunPull ==
    /\ tpc = "pull"
    /\ \/ /\ tm_list = {}
          /\ tpc' = "reset"
          /\ UNCHANGED <<tm_list, tm_heap, free, failed>>
       \/ \E t \in tm_list :
          /\ tm_list' = tm_list \ {t}
          /\ IF TryDelete(t)
             THEN /\ Check("try_delete", version[t] = timer_id[t] + 2)
                  /\ Release({t}) /\ UNCHANGED tm_heap
             ELSE tm_heap' = tm_heap \cup {t} /\ UNCHANGED <<free, failed>>
          /\ tpc' = tpc
    /\ UNCHANGED <<timers, fate, buckets, waking, life, bi, tmp, sleeps, calls, now>>

\* The top of the heap is released if it is cancelled, else looked at.
RunHeap ==
    /\ tpc = "heap"
    /\ \/ /\ tm_heap = {}
          /\ tpc' = "loadsig"
          /\ UNCHANGED <<tm_heap, tmp, free, failed>>
       \/ \E t \in tm_heap :
          /\ HeapTop(t)
          /\ IF TryDelete(t)
             THEN /\ Check("try_delete", version[t] = timer_id[t] + 2)
                  /\ Release({t}) /\ tm_heap' = tm_heap \ {t}
                  /\ UNCHANGED <<tmp, tpc>>
             ELSE tmp' = t /\ tpc' = "due" /\ UNCHANGED <<tm_heap, free, failed>>
    /\ UNCHANGED <<timers, fate, buckets, waking, life, bi, tm_list, sleeps, calls, now>>

\* Is it due?  A due timer is taken off the heap.
NotPopped(t) == tm_heap
Popped(t) == tm_heap \ {t}
RunDue ==
    /\ tpc = "due"
    /\ \/ /\ run_time[tmp] > now
          /\ tpc' = "loadsig" /\ tmp' = NoTimer /\ tm_heap' = tm_heap
       \/ /\ run_time[tmp] <= now
          /\ tpc' = "run" /\ tmp' = tmp /\ tm_heap' = Popped(tmp)
    /\ UNCHANGED <<store, buckets, waking, life, bi, tm_list, sleeps, calls, world>>

\* run_and_delete: compare_exchange_strong(base_version, base_version + 1).
\* If it fails, base_version is the version found when the assert reads it.
RunWinsAlways == TRUE
RunWins == version[tmp] = timer_id[tmp]
RunCas ==
    /\ tpc = "run"
    /\ \/ /\ RunWins
          /\ version' = [version EXCEPT ![tmp] = timer_id[tmp] + 1]
          /\ Becomes(tmp, "running")
          /\ tpc' = "func" /\ UNCHANGED <<tmp, free, failed>>
       \/ /\ ~RunWins
          /\ LET base_version == version[tmp] IN
                Check("run_and_delete", version[tmp] = base_version + 2)
          /\ Release({tmp}) /\ tmp' = NoTimer
          /\ tpc' = "heap" /\ UNCHANGED <<version, fate>>
    /\ UNCHANGED <<timer_id, run_time, buckets, waking, life, bi, tm_list, tm_heap, sleeps, calls, now>>

\* func(arg) returns: version.store(base_version + 2), then release.
RunFinish ==
    /\ tpc = "func"
    /\ TimerTid \in Callers => pc[TimerTid] = "idle"
    /\ version' = [version EXCEPT ![tmp] = timer_id[tmp] + 2]
    /\ Becomes(tmp, "finished")
    /\ Release({tmp}) /\ tmp' = NoTimer
    /\ tpc' = "heap"
    /\ UNCHANGED <<timer_id, run_time, buckets, waking, life, bi, tm_list, tm_heap, sleeps, calls, world>>

\* signal_pending_.load()
RunLoadSignal ==
    /\ tpc = "loadsig"
    /\ sig' = signal_pending
    /\ tpc' = "loadmin"
    /\ UNCHANGED <<store, buckets, waking, life, pulls, sleep_point, abs_time, expiry, calls, world>>

\* min_timestamp_.load(), lowered to the top of the heap
RunLoadMin ==
    /\ tpc = "loadmin"
    /\ \E s \in Stamps : SleepPoint(s) /\ sleep_point' = s
    /\ tpc' = "clock"
    /\ UNCHANGED <<store, buckets, waking, life, pulls, sig, abs_time, expiry, calls, world>>

\* The clock is read; only a sleep point in the future is slept for.
MustSleep == sleep_point > now
RunClock ==
    /\ tpc = "clock"
    /\ \/ /\ MustSleep
          /\ abs_time' = Timespec(sleep_point - now)
          /\ tpc' = "wait"
       \/ /\ ~MustSleep
          /\ tpc' = "check" /\ abs_time' = abs_time
    /\ UNCHANGED <<store, buckets, waking, life, pulls, sig, sleep_point, expiry, calls, world>>

\* FUTEX_WAIT: sleeps, for the time given, only if the word is the one read.
WaitAnyway == TRUE
WordUnchanged == signal_pending = sig
RunWait ==
    /\ tpc = "wait"
    /\ \/ /\ WordUnchanged
          /\ expiry' = now + abs_time
          /\ tpc' = "asleep"
       \/ /\ ~WordUnchanged
          /\ tpc' = "check" /\ expiry' = expiry
    /\ UNCHANGED <<store, buckets, waking, life, pulls, sig, sleep_point, abs_time, calls, world>>

Awaken ==
    /\ tpc = "asleep"
    /\ tpc' = "check"
    /\ UNCHANGED <<store, buckets, waking, life, pulls, sleeps, calls, world>>

\* FUTEX_WAIT times out ...
RunTimeout == now >= expiry /\ Awaken

\* ... or is interrupted by a signal.
RunInterrupted == Awaken

\* The thread ends: the timers left in the heap are released.
RunExit ==
    /\ tpc = "exit"
    /\ Drop(tm_heap)
    /\ tm_heap' = {}
    /\ Check("Run", stop # 0)
    /\ tpc' = "done"
    /\ UNCHANGED <<timers, buckets, waking, life, bi, tm_list, tmp, sleeps, calls, now>>

\* The clock never goes back.
Tick ==
    /\ now < Horizon
    /\ now' = now + 1
    /\ UNCHANGED <<store, buckets, waking, life, run, calls, failed>>

-----------------------------------------------------------------------------
\* A new call, at the caller's pleasure
Call(c) ==
    \/ "add" \in Calls /\ \E t \in Timers, rt \in Times : AddAcquire(c, t, rt)
    \/ "cancel" \in Calls /\ \E t \in Timers, v \in Versions : CancelCheck(c, t, v)
    \/ "stop" \in Calls /\ (StopStore(c) \/ Destroy(c))

\* The next step of a call
Continue(c) ==
    \/ AddVersion(c) \/ AddBucket(c) \/ AddLoad(c) \/ AddCasOk(c) \/ AddCasFail(c)
    \/ WakeInc(c) \/ WakeFutex(c)
    \/ CancelCas(c) \/ CancelLoad(c) \/ CancelReturn(c) \/ Join(c)

RunStep ==
    \/ RunCheck \/ RunSetMax \/ RunReset \/ RunPull \/ RunHeap \/ RunDue \/ RunCas
    \/ RunFinish \/ RunLoadSignal \/ RunLoadMin \/ RunClock \/ RunWait
    \/ RunTimeout \/ RunExit

Next ==
    /\ failed = "none"
    /\ \/ \E c \in Callers : Call(c) \/ Continue(c)
       \/ RunStep \/ RunInterrupted \/ Tick

Spec == Init /\ [][Next]_vars

\* Threads are scheduled, time passes, a compare_exchange_weak that may
\* succeed again and again does not fail for ever.  No call has to be made and
\* no signal has to interrupt the sleep.
Fairness ==
    /\ WF_vars(failed = "none" /\ RunStep)
    /\ WF_vars(failed = "none" /\ Tick)
    /\ \A c \in Callers :
        /\ WF_vars(failed = "none" /\ Continue(c))
        /\ SF_vars(failed = "none" /\ AddCasOk(c))

FairSpec == Spec /\ Fairness

-----------------------------------------------------------------------------
(* Properties *)

\* Every variable keeps its type; times handed to the kernel are not negative.
TypeOK ==
    /\ timer_id \in [Timers -> Versions \cup {0}]
    /\ version \in [Timers -> Nat] /\ run_time \in [Timers -> Times]
    /\ free \subseteq Timers
    /\ fate \in [Timers -> [Versions -> Fates]]
    /\ head \in [Buckets -> SUBSET Timers] /\ bucket_min \in [Buckets -> Stamps]
    /\ min_timestamp \in Stamps /\ signal_pending \in Int
    /\ stop \in {0, 1} /\ thread \in {"running", "joined", "destroyed"}
    /\ tpc \in TimerPCs /\ bi \in 0 .. BucketNumber
    /\ tm_list \subseteq Timers /\ tm_heap \subseteq Timers
    /\ tmp \in Timers \cup {NoTimer}
    /\ sig \in Int /\ sleep_point \in Stamps /\ abs_time \in Nat /\ expiry \in Nat
    /\ pc \in [Callers -> CallerPCs] /\ loc \in [Callers -> Locals]
    /\ now \in Times /\ failed \in {"none", "try_delete", "run_and_delete", "Run"}

\* Who may hold a timer: the pool, an add_timer that has not queued it yet, a
\* bucket, the list just pulled, the heap, run_and_delete.
Holders ==
    {<<"pool", 0>>, <<"list", 0>>, <<"heap", 0>>, <<"run", 0>>}
        \cup {<<"call", c>> : c \in Callers} \cup {<<"bucket", b>> : b \in Buckets}
Holds(h, t) ==
    CASE h[1] = "pool" -> t \in free
      [] h[1] = "list" -> t \in tm_list
      [] h[1] = "heap" -> t \in tm_heap
      [] h[1] = "run" -> t = tmp /\ tpc \in {"run", "func"}
      [] h[1] = "call" -> pc[h[2]] \in {"version", "bucket"} /\ loc[h[2]].tm = t
      [] h[1] = "bucket" -> t \in head[h[2]]

\* A timer is in exactly one place: none is lost on the way from add_timer to
\* the pool, released twice, or handed out while a list or the heap holds it.
OnePlace ==
    \A t \in Timers : \E h \in Holders : \A g \in Holders : Holds(g, t) <=> g = h

\* A timer goes back to the pool only when the use it was acquired for is
\* settled; it is given up unrun only by a timer thread that was stopped.
ReleasedIsSettled ==
    \A t \in free : timer_id[t] \in Versions =>
        \/ fate[t][timer_id[t]] \in {"finished", "cancelled"}
        \/ fate[t][timer_id[t]] = "dropped" /\ tpc = "done"

\* What cancel_timer answers is true of the id it was given, however many
\* times the timer object was reused meanwhile: 0 means that it will never
\* run, for one caller only, and another answer that it had been run,
\* cancelled or given up before.
CancelVerdict ==
    \A c \in Callers : pc[c] = "ret" =>
        /\ fate[loc[c].tm][loc[c].id] # "pending"
        /\ loc[c].ret = 0 =>
              /\ fate[loc[c].tm][loc[c].id] = "cancelled" /\ loc[c].was # "cancelled"
              /\ \A d \in Callers \ {c} : pc[d] = "ret" /\ loc[d].ret = 0 =>
                    <<loc[d].tm, loc[d].id>> # <<loc[c].tm, loc[c].id>>

\* An id is run at most once, not before its time, never after it was
\* cancelled or given up.
FateForward ==
    [][\A t \in Timers, v \in Versions : fate'[t][v] # fate[t][v] =>
         /\ <<fate[t][v], fate'[t][v]>> \in
               {<<"none", "pending">>, <<"pending", "running">>, <<"running", "finished">>,
                <<"pending", "cancelled">>, <<"pending", "dropped">>, <<"dropped", "cancelled">>}
         /\ fate'[t][v] = "running" => run_time[t] <= now]_vars

\* The timer thread never sleeps past a timer: while it sleeps, a timer that is
\* due before its sleep point is one whose add_timer is still about to
\* wake it.
NoOversleep ==
    tpc = "asleep" =>
        /\ \A t \in tm_heap : run_time[t] >= sleep_point
        /\ \A b \in Buckets : \A t \in head[b] :
              \/ run_time[t] >= sleep_point
              \/ \E c \in Callers : pc[c] \in {"load", "cas", "inc", "wake"}

\* The asserts of try_delete and of the end of Run never fail.
AssertsHold == failed \notin {"try_delete", "Run"}

\* Every timer is eventually run, cancelled or given up at a stop.
EveryTimerSettles ==
    \A t \in Timers, v \in Versions :
        fate[t][v] = "pending" ~> (fate[t][v] # "pending" \/ stop = 1)

\* Every add_timer and cancel_timer returns.
CallsReturn ==
    \A c \in Callers : pc[c] \notin {"idle", "sinc", "swake", "join"} ~> pc[c] = "idle"

\* A stop_and_join that signals the timer thread after it has read
\* signal_pending_ ends it.
LateStopReturns ==
    (pc[Owner] = "sinc" /\ tpc \in {"loadmin", "clock", "wait", "asleep"}) ~> tpc = "done"

\* run_and_delete's assert that a timer it may not run has version
\* base_version + 2 (timer.cpp:50).
RunAssertHolds == failed # "run_and_delete"

\* stop_and_join returns.
StopReturns == pc[Owner] = "sinc" ~> pc[Owner] = "idle"
=============================================================================
