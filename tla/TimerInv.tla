------------------------------ MODULE TimerInv ------------------------------
(***************************************************************************)
(* The inductive invariants behind Timer's safety properties, in parts: who*)
(* holds which timer, what the wake-up protocol between add_timer and      *)
(* TimerThread::Run keeps true (WakeInv), and what became of every id      *)
(* (FateInv).  MCTimer checks them, TimerProofs proves them.               *)
(***************************************************************************)
EXTENDS Timer

Cancelling(c) == pc[c] \in {"ccas", "cload", "ret"}
Hands(c, t) == pc[c] \in {"version", "bucket"} /\ loc[c].tm = t
Runs(t) == tpc \in {"run", "func"} /\ tmp = t

\* The locals that a step of a call or of Run dereferences are set; the timer
\* looked at by "due" is still in the heap; a list is pulled to its end.
Dereferenced ==
    /\ \A c \in Callers : Adding(c) \/ Cancelling(c) =>
          loc[c].tm \in Timers /\ loc[c].id \in Versions
    /\ tpc \in {"due", "run", "func"} => tmp \in Timers
    /\ tpc = "due" => tmp \in tm_heap
    /\ tpc # "pull" => tm_list = {}

\* No timer is in two places ...
Apart ==
    \A t \in Timers :
        /\ t \in free => t \notin tm_list /\ t \notin tm_heap /\ ~Runs(t)
        /\ t \in tm_list => t \notin tm_heap /\ ~Runs(t)
        /\ t \in tm_heap => ~Runs(t)
        /\ \A b \in Buckets : t \in head[b] =>
              /\ t \notin free /\ t \notin tm_list /\ t \notin tm_heap /\ ~Runs(t)
              /\ \A a \in Buckets : t \in head[a] => a = b
              /\ \A c \in Callers : ~Hands(c, t)
        /\ \A c \in Callers : Hands(c, t) =>
              /\ t \notin free /\ t \notin tm_list /\ t \notin tm_heap /\ ~Runs(t)
              /\ \A d \in Callers : Hands(d, t) => c = d

\* ... and none is nowhere.
Somewhere ==
    \A t \in Timers :
        \/ t \in free \/ t \in tm_list \/ t \in tm_heap \/ Runs(t)
        \/ \E b \in Buckets : t \in head[b]
        \/ \E c \in Callers : Hands(c, t)

\* A timer in someone's hand has the run_time its add_timer was given, a
\* bucket's minimum bounds the timers in it, and min_timestamp_ is only lowered.
RunTimes ==
    /\ \A c \in Callers : pc[c] \in {"version", "bucket"} => loc[c].rt = run_time[loc[c].tm]
    /\ \A b \in Buckets : \A t \in head[b] : bucket_min[b] <= run_time[t]
    /\ \A c \in Callers : pc[c] = "cas" => loc[c].rt < loc[c].seen

\* The minimum of a bucket that was emptied in this round is announced in
\* min_timestamp_, or its add_timer is about to announce it.
Announced ==
    \A b \in Buckets : b < bi =>
        \/ min_timestamp <= bucket_min[b]
        \/ \E c \in Callers : pc[c] \in {"load", "cas"} /\ loc[c].rt = bucket_min[b]

\* Once Run has read the futex word and then min_timestamp_, whoever lowers
\* min_timestamp_ below what it read has changed the word, or is about to; once
\* it sleeps, whoever lowers it is about to wake it.
Watched ==
    /\ tpc \in {"heap", "due", "run", "func", "loadsig", "loadmin", "clock", "wait", "asleep"} =>
          bi = BucketNumber
    /\ tpc \in {"loadmin", "clock", "wait"} => sig <= signal_pending
    /\ tpc \in {"clock", "wait", "asleep"} => \A t \in tm_heap : sleep_point <= run_time[t]
    /\ tpc \in {"clock", "wait"} =>
          \/ sleep_point <= min_timestamp
          \/ sig # signal_pending
          \/ \E c \in Callers : pc[c] = "inc"
    /\ tpc = "asleep" =>
          \/ sleep_point <= min_timestamp
          \/ \E c \in Callers : pc[c] \in {"inc", "wake"}

\* The inductive invariant of the sleep and of the ownership of timers.
WakeInv ==
    TypeOK /\ Dereferenced /\ Apart /\ Somewhere /\ RunTimes /\ Announced /\ Watched

-----------------------------------------------------------------------------
(* The fate of ids: what version and timer_id say of it *)

\* add_timer has given t its new id and not stored the version yet.
Unversioned(t) == \E c \in Callers : pc[c] = "version" /\ loc[c].tm = t

Settled == {"finished", "cancelled", "dropped"}

CurrentFate(t) == fate[t][timer_id[t]]

\* The three values of version between the store of add_timer and the release
VersionTells(t) ==
    \/ version[t] = timer_id[t] /\ CurrentFate(t) \in {"pending", "dropped"}
    \/ version[t] = timer_id[t] + 1 /\ CurrentFate(t) = "running" /\ tpc = "func" /\ tmp = t
    \/ version[t] = timer_id[t] + 2 /\ CurrentFate(t) \in {"finished", "cancelled"}

\* Later ids of a timer are unused, earlier ones settled.  An old id that is
\* still the version was dropped, so a late cancel of it can do no harm.
IdsInOrder ==
    \A t \in Timers, v \in Versions :
        /\ v > timer_id[t] => fate[t][v] = "none"
        /\ v < timer_id[t] => fate[t][v] \in Settled
        /\ v < timer_id[t] /\ version[t] = v => fate[t][v] = "dropped"

\* The current id: what its version says, and where it may be.
IdsCurrent ==
    \A t \in Timers :
        /\ timer_id[t] = 0 => version[t] = 0 /\ t \in free
        /\ Unversioned(t) => version[t] < timer_id[t] /\ CurrentFate(t) = "pending"
        /\ timer_id[t] \in Versions /\ ~Unversioned(t) => VersionTells(t)
        /\ timer_id[t] \in Versions /\ t \in free => CurrentFate(t) \in Settled
        /\ timer_id[t] \in Versions /\ CurrentFate(t) = "dropped" => t \in free /\ tpc = "done"

\* Where Run is with the timer that it runs, and at its end
RunKnows ==
    /\ tpc = "run" => run_time[tmp] <= now
    /\ tpc = "func" => CurrentFate(tmp) = "running"
    /\ tpc \in {"exit", "done"} => stop = 1
    /\ thread # "running" => tpc = "done"

\* Where a caller is with the id that it adds or cancels
CallersKnow ==
    \A c \in Callers :
        /\ pc[c] = "version" => loc[c].id = timer_id[loc[c].tm]
        /\ Cancelling(c) =>
              /\ fate[loc[c].tm][loc[c].id] # "none"
              /\ \A d \in Callers : pc[d] = "version" /\ loc[d].tm = loc[c].tm => loc[d].id # loc[c].id
        /\ pc[c] = "ccas" =>
              /\ loc[c].seen = loc[c].id
              /\ loc[c].was = "cancelled" => fate[loc[c].tm][loc[c].id] = "cancelled"
        /\ pc[c] = "cload" => fate[loc[c].tm][loc[c].id] # "pending"

\* The inductive invariant of fates, on top of WakeInv.
FateInv == IdsInOrder /\ IdsCurrent /\ RunKnows /\ CallersKnow /\ CancelVerdict /\ AssertsHold
=============================================================================
