---------------------------- MODULE TimerProofs ----------------------------
(* Proofs about Timer, for every value of its constants. *)
EXTENDS TimerInv, TLAPS

\* A timespec made of a natural number of microseconds is one (RunClock).
LEMMA TimespecNat ==
  ASSUME NEW d \in Nat
  PROVE  Timespec(d) \in Nat
<1>1. d \div UsPerSec \in Nat /\ d % UsPerSec \in Nat
  BY BoundsAssumption
<1>2. (d \div UsPerSec) * UsPerSec \in Nat
  BY <1>1, BoundsAssumption
<1>3. (d % UsPerSec) \div 1000 \in Nat
  BY <1>1
<1> QED
  BY <1>2, <1>3 DEF Timespec

\* Versions, times, stamps and bucket indices are natural numbers.
LEMMA NumberSets ==
  /\ Versions \subseteq Nat
  /\ Times \subseteq Nat /\ Stamps \subseteq Nat /\ 0 \in Times /\ MaxStamp \in Stamps
  /\ Buckets \subseteq Nat
BY BoundsAssumption, StampAssumption, BucketAssumption DEF Versions, Times, Stamps, Buckets

\* The locals of a caller that makes no call are well typed.
LEMMA NoLocalsType == NoLocals \in Locals
BY NumberSets DEF NoLocals, Locals, Fates

\* fate stays a function when the entry of one id changes.
LEMMA FateType ==
  ASSUME TypeOK, NEW t \in Timers, NEW v \in Versions \cup {0}, NEW f \in Fates
  PROVE  [fate EXCEPT ![t][v] = f] \in [Timers -> [Versions -> Fates]]
<1>1. fate[t] \in [Versions -> Fates]
  BY DEF TypeOK
<1>2. [fate[t] EXCEPT ![v] = f] \in [Versions -> Fates]
  BY <1>1
<1> QED
  BY <1>2 DEF TypeOK

\* The state the constructor leaves is well typed.
LEMMA TypeInit == Init => TypeOK
<1> SUFFICES ASSUME Init PROVE TypeOK
  OBVIOUS
<1> USE NumberSets DEF Init
<1>1. fate \in [Timers -> [Versions -> Fates]]
  BY DEF Fates
<1>2. loc \in [Callers -> Locals] /\ pc \in [Callers -> CallerPCs]
  BY NoLocalsType DEF CallerPCs
<1>3. bi \in 0 .. BucketNumber /\ tpc \in TimerPCs /\ sleep_point \in Stamps
  BY BucketAssumption DEF TimerPCs, Stamps
<1> QED
  BY <1>1, <1>2, <1>3, GarbageAssumption DEF TypeOK

\* The first step of add_timer keeps the types.
LEMMA TypeAdd ==
  ASSUME TypeOK, NEW c \in Callers, NEW t \in Timers, NEW rt \in Times, AddAcquire(c, t, rt)
  PROVE  TypeOK'
<1> USE NumberSets
<1>1. loc' \in [Callers -> Locals]
  BY NoLocalsType DEF TypeOK, AddAcquire, NoLocals, Locals
<1>2. fate' \in [Timers -> [Versions -> Fates]]
  BY DEF TypeOK, AddAcquire, Fates
<1>3. timer_id' \in [Timers -> Versions \cup {0}] /\ run_time' \in [Timers -> Times]
  BY DEF TypeOK, AddAcquire
<1>4. pc' \in [Callers -> CallerPCs]
  BY DEF TypeOK, AddAcquire, Goto, CallerPCs
<1> QED
  BY <1>1, <1>2, <1>3, <1>4
  DEF TypeOK, AddAcquire, buckets, waking, life, run, pulls, sleeps, world

\* So does the first step of every call, ...
LEMMA TypeCall ==
  ASSUME TypeOK, NEW c \in Callers, Call(c)
  PROVE  TypeOK'
<1> USE NumberSets
<1>1. ASSUME NEW t \in Timers, NEW rt \in Times, AddAcquire(c, t, rt) PROVE TypeOK'
  BY <1>1, TypeAdd
<1>2. ASSUME NEW t \in Timers, NEW v \in Versions, CancelCheck(c, t, v) PROVE TypeOK'
  <2>1. loc' \in [Callers -> Locals]
    <3>1. fate[t][v] \in Fates
      BY DEF TypeOK
    <3>2. [NoLocals EXCEPT !.tm = t, !.id = v, !.seen = v, !.was = fate[t][v], !.ret = -1] \in Locals
      BY <3>1 DEF NoLocals, Locals
    <3> QED
      BY <1>2, <3>2 DEF TypeOK, CancelCheck
  <2>2. pc' \in [Callers -> CallerPCs]
    BY <1>2 DEF TypeOK, CancelCheck, Goto, CallerPCs
  <2> QED
    BY <1>2, <2>1, <2>2
    DEF TypeOK, CancelCheck, store, timers, buckets, waking, life, run, pulls, sleeps, world
<1>3. CASE StopStore(c)
  <2>1. pc' \in [Callers -> CallerPCs]
    BY <1>3 DEF TypeOK, StopStore, Goto, CallerPCs
  <2> QED
    BY <1>3, <2>1
    DEF TypeOK, StopStore, store, timers, buckets, waking, run, pulls, sleeps, world
<1>4. CASE Destroy(c)
  <2>1. fate' \in [Timers -> [Versions -> Fates]]
    BY <1>4 DEF TypeOK, Destroy, Drop, Fates
  <2>2. free' \subseteq Timers /\ head' \in [Buckets -> SUBSET Timers] /\ bucket_min' \in [Buckets -> Stamps]
    BY <1>4 DEF TypeOK, Destroy, Drop, Release
  <2> QED
    BY <1>4, <2>1, <2>2
    DEF TypeOK, Destroy, timers, waking, run, pulls, sleeps, calls, world
<1> QED
  BY <1>1, <1>2, <1>3, <1>4 DEF Call

\* ... every later step of a call, ...
LEMMA TypeContinue ==
  ASSUME TypeOK, Dereferenced, NEW c \in Callers, Continue(c)
  PROVE  TypeOK'
<1> USE NumberSets
<1> USE DEF store, timers, buckets, waking, life, run, pulls, sleeps, calls, world
<1>0. loc[c] \in Locals /\ \A k \in CallerPCs : [pc EXCEPT ![c] = k] \in [Callers -> CallerPCs]
  BY DEF TypeOK
<1>1. CASE AddVersion(c)
  <2>1. version' \in [Timers -> Nat]
    BY <1>1, <1>0 DEF TypeOK, AddVersion, Locals
  <2> QED
    BY <1>0, <1>1, <2>1 DEF TypeOK, AddVersion, Goto, CallerPCs
<1>2. CASE AddBucket(c)
  <2>1. head' \in [Buckets -> SUBSET Timers]
    BY <1>2 DEF TypeOK, AddBucket, Dereferenced, Adding
  <2> QED
    <3>1. bucket_min' \in [Buckets -> Stamps]
      BY <1>0, <1>2 DEF TypeOK, AddBucket, Locals, Stamps
    <3>2. loc' \in [Callers -> Locals] /\ pc' \in [Callers -> CallerPCs]
      BY <1>0, <1>2, NoLocalsType DEF TypeOK, AddBucket, Return, Goto, CallerPCs
    <3> QED
      BY <1>2, <2>1, <3>1, <3>2 DEF TypeOK, AddBucket
<1>3. CASE AddLoad(c)
  <2>1. [loc[c] EXCEPT !.seen = min_timestamp] \in Locals
    BY <1>0 DEF Locals, TypeOK
  <2>2. loc' \in [Callers -> Locals]
    BY <1>3, <2>1, NoLocalsType DEF TypeOK, AddLoad, Return
  <2> QED
    BY <1>0, <1>3, <2>2 DEF TypeOK, AddLoad, Return, Goto, CallerPCs
<1>4. CASE AddCasOk(c)
  BY <1>0, <1>4 DEF TypeOK, AddCasOk, Goto, CallerPCs, Locals, Stamps
<1>5. CASE AddCasFail(c)
  BY <1>0, <1>5 DEF TypeOK, AddCasFail, Goto, CallerPCs
<1>6. CASE WakeInc(c)
  BY <1>0, <1>6 DEF TypeOK, WakeInc, Signalled, Goto, CallerPCs
<1>7. CASE WakeFutex(c)
  BY <1>0, <1>7, NoLocalsType DEF TypeOK, WakeFutex, Return, Goto, CallerPCs, TimerPCs
<1>8. CASE CancelCas(c)
  <2>1. loc[c].tm \in Timers /\ loc[c].seen \in Nat
    BY <1>0, <1>8 DEF CancelCas, Dereferenced, Cancelling, Locals
  <2>2. [loc[c] EXCEPT !.seen = version[loc[c].tm]] \in Locals /\ [loc[c] EXCEPT !.ret = 0] \in Locals
    BY <1>0, <2>1 DEF Locals, TypeOK
  <2>3. loc' \in [Callers -> Locals] /\ pc' \in [Callers -> CallerPCs]
    <3>1. \/ loc' = [loc EXCEPT ![c] = [loc[c] EXCEPT !.ret = 0]]
          \/ loc' = [loc EXCEPT ![c] = [loc[c] EXCEPT !.seen = version[loc[c].tm]]]
      BY <1>8 DEF CancelCas
    <3>2. loc' \in [Callers -> Locals]
      BY <2>2, <3>1 DEF TypeOK
    <3> QED
      BY <1>0, <1>8, <3>2 DEF CancelCas, Goto, CallerPCs
  <2>4. version' \in [Timers -> Nat]
    BY <1>8, <2>1 DEF TypeOK, CancelCas, Cancelled
  <2>5. fate' \in [Timers -> [Versions -> Fates]]
    <3>1. loc[c].id \in Versions \cup {0}
      BY <1>0 DEF Locals
    <3>2. [fate EXCEPT ![loc[c].tm][loc[c].id] = "cancelled"] \in [Timers -> [Versions -> Fates]]
      BY <2>1, <3>1, FateType DEF Fates
    <3>3. fate' = [fate EXCEPT ![loc[c].tm][loc[c].id] = "cancelled"] \/ fate' = fate
      BY <1>8 DEF CancelCas
    <3> QED
      BY <3>2, <3>3 DEF TypeOK
  <2> QED
    BY <1>8, <2>3, <2>4, <2>5 DEF TypeOK, CancelCas
<1>9. CASE CancelLoad(c)
  <2>1. \A r \in {-1, 0, 1} : [loc[c] EXCEPT !.ret = r] \in Locals
    BY <1>0 DEF Locals
  <2>2. loc' \in [Callers -> Locals]
    BY <1>9, <2>1 DEF TypeOK, CancelLoad
  <2> QED
    BY <1>0, <1>9, <2>2 DEF TypeOK, CancelLoad, Goto, CallerPCs
<1>10. CASE CancelReturn(c)
  BY <1>0, <1>10, NoLocalsType DEF TypeOK, CancelReturn, Return, Goto, CallerPCs
<1>11. CASE Join(c)
  BY <1>0, <1>11 DEF TypeOK, Join, Goto, CallerPCs
<1> QED
  BY <1>1, <1>2, <1>3, <1>4, <1>5, <1>6, <1>7, <1>8, <1>9, <1>10, <1>11 DEF Continue

\* ... and every step of the timer thread and of the clock.
LEMMA TypeRun ==
  ASSUME TypeOK, Dereferenced, RunStep \/ RunInterrupted \/ Tick
  PROVE  TypeOK'
<1> USE NumberSets
<1> USE DEF store, timers, buckets, waking, life, run, pulls, sleeps, calls, world, TimerPCs
<1>1. CASE RunCheck
  BY <1>1 DEF TypeOK, RunCheck, Stamps
<1>2. CASE RunSetMax
  BY <1>2, BucketAssumption DEF TypeOK, RunSetMax
<1>3. CASE RunReset
  <2>1. bi < BucketNumber => bi \in Buckets /\ bi + 1 \in 0 .. BucketNumber
    BY BucketAssumption DEF TypeOK, Buckets
  <2> QED
    BY <1>3, <2>1 DEF TypeOK, RunReset, ResetMin
<1>4. CASE RunPull
  BY <1>4 DEF TypeOK, RunPull, Check, Release
<1>5. CASE RunHeap
  BY <1>5 DEF TypeOK, RunHeap, Check, Release
<1>6. CASE RunDue
  BY <1>6 DEF TypeOK, RunDue, Popped
<1>7. CASE RunCas
  <2>1. tmp \in Timers /\ timer_id[tmp] \in Nat
    BY <1>7 DEF TypeOK, Dereferenced, RunCas
  <2>2. version' \in [Timers -> Nat]
    BY <1>7, <2>1 DEF TypeOK, RunCas
  <2>3. fate' \in [Timers -> [Versions -> Fates]]
    <3>1. timer_id[tmp] \in Versions \cup {0}
      BY <2>1 DEF TypeOK
    <3>2. [fate EXCEPT ![tmp][timer_id[tmp]] = "running"] \in [Timers -> [Versions -> Fates]]
      BY <2>1, <3>1, FateType DEF Fates
    <3>3. fate' = [fate EXCEPT ![tmp][timer_id[tmp]] = "running"] \/ fate' = fate
      BY <1>7 DEF RunCas, Becomes
    <3> QED
      BY <3>2, <3>3 DEF TypeOK
  <2> QED
    BY <1>7, <2>1, <2>2, <2>3 DEF TypeOK, RunCas, Check, Release
<1>8. CASE RunFinish
  <2>1. tmp \in Timers /\ timer_id[tmp] \in Nat
    BY <1>8 DEF TypeOK, Dereferenced, RunFinish
  <2>2. version' \in [Timers -> Nat]
    BY <1>8, <2>1 DEF TypeOK, RunFinish
  <2>3. fate' \in [Timers -> [Versions -> Fates]]
    <3>1. timer_id[tmp] \in Versions \cup {0}
      BY <2>1 DEF TypeOK
    <3> QED
      BY <1>8, <2>1, <3>1, FateType DEF TypeOK, RunFinish, Becomes, Fates
  <2> QED
    BY <1>8, <2>1, <2>2, <2>3 DEF TypeOK, RunFinish, Release
<1>9. CASE RunLoadSignal
  BY <1>9 DEF TypeOK, RunLoadSignal
<1>10. CASE RunLoadMin
  BY <1>10 DEF TypeOK, RunLoadMin
<1>11. CASE RunClock
  <2>1. MustSleep => sleep_point - now \in Nat
    BY DEF TypeOK, MustSleep
  <2>2. abs_time' \in Nat
    BY <1>11, <2>1, TimespecNat DEF TypeOK, RunClock
  <2> QED
    BY <1>11, <2>2 DEF TypeOK, RunClock
<1>12. CASE RunWait
  BY <1>12 DEF TypeOK, RunWait
<1>13. CASE Awaken
  BY <1>13 DEF TypeOK, Awaken
<1>14. CASE RunExit
  <2>1. fate' \in [Timers -> [Versions -> Fates]]
    BY <1>14 DEF TypeOK, RunExit, Drop, Fates
  <2> QED
    BY <1>14, <2>1 DEF TypeOK, RunExit, Drop, Release, Check
<1>15. CASE Tick
  BY <1>15, BoundsAssumption DEF TypeOK, Tick, Times
<1> QED
  BY <1>1, <1>2, <1>3, <1>4, <1>5, <1>6, <1>7, <1>8, <1>9, <1>10, <1>11, <1>12, <1>13, <1>14, <1>15
  DEF RunStep, RunTimeout, RunInterrupted

\* A step leaves the types as they are.
LEMMA TypeNext ==
  TypeOK /\ Dereferenced /\ [Next]_vars => TypeOK'
<1> SUFFICES ASSUME TypeOK, Dereferenced, [Next]_vars PROVE TypeOK'
  OBVIOUS
<1>1. CASE UNCHANGED vars
  BY <1>1 DEF TypeOK, vars, store, timers, buckets, waking, life, run, pulls, sleeps, calls, world
<1>2. CASE Next
  BY <1>2, TypeCall, TypeContinue, TypeRun DEF Next
<1> QED
  BY <1>1, <1>2

\* Only "seen" and "ret" change during a call: the timer, the id and the time
\* it was made for stay.
LEMMA LocalsFields ==
  ASSUME TypeOK, NEW c \in Callers,
         (pc'[c] = "cas" /\ AddLoad(c)) \/ CancelCas(c) \/ CancelLoad(c)
  PROVE  /\ loc'[c].tm = loc[c].tm /\ loc'[c].id = loc[c].id /\ loc'[c].rt = loc[c].rt
         /\ \A d \in Callers \ {c} : loc'[d] = loc[d]
<1>0. loc \in [Callers -> Locals] /\ loc[c] \in Locals /\ pc \in [Callers -> CallerPCs]
  BY DEF TypeOK
<1>1. \/ \E x : loc' = [loc EXCEPT ![c].seen = x]
      \/ \E x : loc' = [loc EXCEPT ![c].ret = x]
  BY <1>0 DEF AddLoad, CancelCas, CancelLoad, Return, Goto
<1>2. ASSUME NEW x PROVE /\ [loc[c] EXCEPT !.seen = x].tm = loc[c].tm
                         /\ [loc[c] EXCEPT !.seen = x].id = loc[c].id
                         /\ [loc[c] EXCEPT !.seen = x].rt = loc[c].rt
                         /\ [loc[c] EXCEPT !.ret = x].tm = loc[c].tm
                         /\ [loc[c] EXCEPT !.ret = x].id = loc[c].id
                         /\ [loc[c] EXCEPT !.ret = x].rt = loc[c].rt
  BY <1>0 DEF Locals
<1>3. ASSUME NEW x, loc' = [loc EXCEPT ![c] = [loc[c] EXCEPT !.seen = x]] 
      PROVE  /\ loc'[c].tm = loc[c].tm /\ loc'[c].id = loc[c].id /\ loc'[c].rt = loc[c].rt
             /\ \A d \in Callers \ {c} : loc'[d] = loc[d]
  <2>1. loc'[c] = [loc[c] EXCEPT !.seen = x] /\ \A d \in Callers \ {c} : loc'[d] = loc[d]
    BY <1>0, <1>3
  <2> QED
    BY <1>2, <2>1
<1>4. ASSUME NEW x, loc' = [loc EXCEPT ![c] = [loc[c] EXCEPT !.ret = x]] 
      PROVE  /\ loc'[c].tm = loc[c].tm /\ loc'[c].id = loc[c].id /\ loc'[c].rt = loc[c].rt
             /\ \A d \in Callers \ {c} : loc'[d] = loc[d]
  <2>1. loc'[c] = [loc[c] EXCEPT !.ret = x] /\ \A d \in Callers \ {c} : loc'[d] = loc[d]
    BY <1>0, <1>4
  <2> QED
    BY <1>2, <2>1
<1> QED
  BY <1>1, <1>3, <1>4

\* The locals a step dereferences are set.
LEMMA DerefNext ==
  ASSUME TypeOK, TypeOK', Dereferenced, [Next]_vars
  PROVE  Dereferenced'
<1> USE DEF TypeOK, Dereferenced, Adding, Cancelling
<1> USE DEF store, timers, buckets, waking, life, run, pulls, sleeps, calls, world
<1>1. ASSUME NEW c \in Callers, Call(c) PROVE Dereferenced'
  <2>1. ASSUME NEW t \in Timers, NEW rt \in Times, AddAcquire(c, t, rt) PROVE Dereferenced'
    BY <2>1 DEF AddAcquire, Goto, NoLocals
  <2>2. ASSUME NEW t \in Timers, NEW v \in Versions, CancelCheck(c, t, v) PROVE Dereferenced'
    BY <2>2 DEF CancelCheck, Goto, NoLocals
  <2>3. CASE StopStore(c)
    BY <2>3 DEF StopStore, Goto
  <2>4. CASE Destroy(c)
    BY <2>4 DEF Destroy
  <2> QED
    BY <1>1, <2>1, <2>2, <2>3, <2>4 DEF Call
<1>2. ASSUME NEW c \in Callers, Continue(c) PROVE Dereferenced'
  <2>1. CASE AddVersion(c)
    BY <2>1 DEF AddVersion, Goto
  <2>2. CASE AddBucket(c)
    BY <2>2 DEF AddBucket, Return, Goto
  <2>3. CASE AddLoad(c)
    BY <2>3, LocalsFields DEF AddLoad, Return, Goto, CallerPCs
  <2>4. CASE AddCasOk(c)
    BY <2>4 DEF AddCasOk, Goto
  <2>5. CASE AddCasFail(c)
    BY <2>5 DEF AddCasFail, Goto
  <2>6. CASE WakeInc(c)
    BY <2>6 DEF WakeInc, Goto, Signalled
  <2>7. CASE WakeFutex(c)
    BY <2>7 DEF WakeFutex, Return, Goto
  <2>8. CASE CancelCas(c)
    <3>1. /\ loc'[c].tm = loc[c].tm /\ loc'[c].id = loc[c].id
          /\ \A d \in Callers \ {c} : loc'[d] = loc[d] /\ pc'[d] = pc[d]
      BY <2>8, LocalsFields DEF CancelCas, Goto
    <3>2. pc[c] = "ccas"
      BY <2>8 DEF CancelCas
    <3> QED
      BY <2>8, <3>1, <3>2 DEF CancelCas
  <2>9. CASE CancelLoad(c)
    BY <2>9 DEF CancelLoad, Goto
  <2>10. CASE CancelReturn(c)
    BY <2>10 DEF CancelReturn, Return, Goto
  <2>11. CASE Join(c)
    BY <2>11 DEF Join, Goto
  <2> QED
    BY <1>2, <2>1, <2>2, <2>3, <2>4, <2>5, <2>6, <2>7, <2>8, <2>9, <2>10, <2>11 DEF Continue
<1>3. CASE RunStep \/ RunInterrupted \/ Tick
  <2>1. CASE RunCheck
    BY <2>1 DEF RunCheck
  <2>2. CASE RunSetMax
    BY <2>2 DEF RunSetMax
  <2>3. CASE RunReset
    BY <2>3 DEF RunReset
  <2>4. CASE RunPull
    BY <2>4 DEF RunPull, Release
  <2>5. CASE RunHeap
    BY <2>5 DEF RunHeap, Release, HeapTop
  <2>6. CASE RunDue
    BY <2>6 DEF RunDue, Popped
  <2>7. CASE RunCas
    BY <2>7 DEF RunCas, Release
  <2>8. CASE RunFinish
    BY <2>8 DEF RunFinish, Release
  <2>9. CASE RunLoadSignal
    BY <2>9 DEF RunLoadSignal
  <2>10. CASE RunLoadMin
    BY <2>10 DEF RunLoadMin
  <2>11. CASE RunClock
    BY <2>11 DEF RunClock
  <2>12. CASE RunWait
    BY <2>12 DEF RunWait
  <2>13. CASE Awaken
    BY <2>13 DEF Awaken
  <2>14. CASE RunExit
    BY <2>14 DEF RunExit, Drop, Release
  <2>15. CASE Tick
    BY <2>15 DEF Tick
  <2> QED
    BY <1>3, <2>1, <2>2, <2>3, <2>4, <2>5, <2>6, <2>7, <2>8, <2>9, <2>10, <2>11, <2>12, <2>13, <2>14, <2>15
    DEF RunStep, RunTimeout, RunInterrupted
<1>4. CASE UNCHANGED vars
  BY <1>4 DEF vars
<1> QED
  BY <1>1, <1>2, <1>3, <1>4 DEF Next

\* Loading min_timestamp_, or trying to cancel, hands no timer on.
LEMMA HandsKept ==
  ASSUME TypeOK, NEW c \in Callers, AddLoad(c) \/ CancelCas(c)
  PROVE  /\ \A d \in Callers, t \in Timers : Hands(d, t)' <=> Hands(d, t)
         /\ UNCHANGED <<free, tm_list, tm_heap, head, tpc, tmp>>
<1>1. /\ pc[c] \in {"load", "ccas"} /\ pc'[c] \in {"idle", "cas", "ret", "cload"}
      /\ \A d \in Callers \ {c} : pc'[d] = pc[d] /\ loc'[d] = loc[d]
  BY DEF TypeOK, AddLoad, CancelCas, Return, Goto
<1>2. \A d \in Callers, t \in Timers : Hands(d, t)' <=> Hands(d, t)
  BY <1>1 DEF Hands
<1> QED
  BY <1>2 DEF AddLoad, CancelCas, store, buckets, run, pulls

\* TimerBucket::add_timer moves a timer from the caller's hand to its bucket.
LEMMA BucketMove ==
  ASSUME TypeOK, Dereferenced, NEW c \in Callers, AddBucket(c)
  PROVE  /\ BucketOf[c] \in Buckets /\ loc[c].tm \in Timers
         /\ \A t \in Timers : (Hands(c, t) <=> t = loc[c].tm) /\ ~Hands(c, t)'
         /\ \A d \in Callers \ {c}, t \in Timers : Hands(d, t)' <=> Hands(d, t)
         /\ \A b \in Buckets, t \in Timers :
               t \in head'[b] <=> t \in head[b] \/ (b = BucketOf[c] /\ t = loc[c].tm)
         /\ UNCHANGED <<free, tm_list, tm_heap, tpc, tmp>>
<1>1. BucketOf[c] \in Buckets /\ loc[c].tm \in Timers /\ pc[c] = "bucket"
  BY BucketAssumption DEF AddBucket, Dereferenced, Adding
<1>2. head' = [head EXCEPT ![BucketOf[c]] = head[BucketOf[c]] \cup {loc[c].tm}]
  BY DEF AddBucket
<1>3. /\ pc'[c] \in {"load", "idle"}
      /\ \A d \in Callers \ {c} : pc'[d] = pc[d] /\ loc'[d] = loc[d]
  BY DEF TypeOK, AddBucket, Return, Goto
<1>4. \A b \in Buckets, t \in Timers :
         t \in head'[b] <=> t \in head[b] \/ (b = BucketOf[c] /\ t = loc[c].tm)
  BY <1>1, <1>2 DEF TypeOK
<1> QED
  BY <1>1, <1>3, <1>4 DEF Hands, AddBucket, store, run, pulls

\* TimerBucket::reset moves the timers of a bucket into the list.
LEMMA ResetMove ==
  ASSUME TypeOK, RunReset, bi < BucketNumber
  PROVE  /\ bi \in Buckets /\ bi' = bi + 1 /\ tm_list' = head[bi]
         /\ \A b \in Buckets, t \in Timers : t \in head'[b] <=> t \in head[b] /\ b # bi
         /\ \A b \in Buckets : bucket_min'[b] = IF b = bi THEN MaxStamp ELSE bucket_min[b]
         /\ tpc = "reset" /\ tpc' = "pull"
         /\ UNCHANGED <<free, run_time, min_timestamp, signal_pending, tm_heap, tmp, pc, loc>>
BY BucketAssumption
DEF TypeOK, RunReset, ResetMin, Buckets, store, timers, waking, calls

\* A step moves a timer from one place to one other.
LEMMA ApartNext ==
  ASSUME TypeOK, TypeOK', Dereferenced, Apart, [Next]_vars
  PROVE  Apart'
<1> USE DEF TypeOK, Dereferenced, Adding, Apart, Hands, Runs
<1> USE DEF store, timers, buckets, waking, life, run, pulls, sleeps, calls, world
<1>1. ASSUME NEW c \in Callers, Call(c) PROVE Apart'
  <2>1. ASSUME NEW t \in Timers, NEW rt \in Times, AddAcquire(c, t, rt) PROVE Apart'
    BY <2>1 DEF AddAcquire, Goto, NoLocals
  <2>2. ASSUME NEW t \in Timers, NEW v \in Versions, CancelCheck(c, t, v) PROVE Apart'
    BY <2>2 DEF CancelCheck, Goto, NoLocals
  <2>3. CASE StopStore(c)
    BY <2>3 DEF StopStore, Goto
  <2>4. CASE Destroy(c)
    BY <2>4 DEF Destroy, Drop, Release
  <2> QED
    BY <1>1, <2>1, <2>2, <2>3, <2>4 DEF Call
<1>2. ASSUME NEW c \in Callers, Continue(c) PROVE Apart'
  <2>1. CASE AddVersion(c)
    BY <2>1 DEF AddVersion, Goto
  <2>2. CASE AddBucket(c)
    <3> HIDE DEF TypeOK, Dereferenced, Adding, Hands, Runs
    <3>1. \A t \in Timers : Runs(t)' <=> Runs(t)
      BY <2>2, BucketMove DEF Runs
    <3>2. ASSUME NEW t \in Timers, t = loc[c].tm
          PROVE  /\ t \notin free' /\ t \notin tm_list' /\ t \notin tm_heap' /\ ~Runs(t)'
                 /\ \A b \in Buckets : t \in head'[b] => b = BucketOf[c]
                 /\ \A d \in Callers : ~Hands(d, t)'
      BY <2>2, <3>1, <3>2, BucketMove DEF Apart
    <3>3. ASSUME NEW t \in Timers, t # loc[c].tm
          PROVE  /\ \A b \in Buckets : t \in head'[b] <=> t \in head[b]
                 /\ \A d \in Callers : Hands(d, t)' <=> Hands(d, t)
      BY <2>2, <3>3, BucketMove
    <3>4. free' = free /\ tm_list' = tm_list /\ tm_heap' = tm_heap
      BY <2>2, BucketMove
    <3> QED
      BY <3>1, <3>2, <3>3, <3>4 DEF Apart
  <2>3. CASE AddLoad(c)
    BY <2>3, HandsKept
  <2>4. CASE AddCasOk(c)
    BY <2>4 DEF AddCasOk, Goto
  <2>5. CASE AddCasFail(c)
    BY <2>5 DEF AddCasFail, Goto
  <2>6. CASE WakeInc(c)
    BY <2>6 DEF WakeInc, Goto, Signalled
  <2>7. CASE WakeFutex(c)
    <3>1. \A d \in Callers, t \in Timers : Hands(d, t)' <=> Hands(d, t)
      BY <2>7 DEF WakeFutex, Return, Goto
    <3> QED
      BY <2>7, <3>1 DEF WakeFutex
  <2>8. CASE CancelCas(c)
    BY <2>8, HandsKept
  <2>9. CASE CancelLoad(c)
    BY <2>9 DEF CancelLoad, Goto
  <2>10. CASE CancelReturn(c)
    BY <2>10 DEF CancelReturn, Return, Goto
  <2>11. CASE Join(c)
    BY <2>11 DEF Join, Goto
  <2> QED
    BY <1>2, <2>1, <2>2, <2>3, <2>4, <2>5, <2>6, <2>7, <2>8, <2>9, <2>10, <2>11 DEF Continue
<1>3. CASE RunStep \/ RunInterrupted \/ Tick
  <2>1. CASE RunCheck
    BY <2>1 DEF RunCheck
  <2>2. CASE RunSetMax
    BY <2>2 DEF RunSetMax
  <2>3. CASE RunReset
    <3>1. CASE bi < BucketNumber
      BY <2>3, <3>1, ResetMove
    <3>2. CASE bi = BucketNumber
      BY <2>3, <3>2, BucketAssumption DEF RunReset
    <3> QED
      BY <2>3, <3>1, <3>2 DEF RunReset
  <2>4. CASE RunPull
    BY <2>4 DEF RunPull, Release
  <2>5. CASE RunHeap
    BY <2>5 DEF RunHeap, Release, HeapTop
  <2>6. CASE RunDue
    BY <2>6 DEF RunDue, Popped
  <2>7. CASE RunCas
    BY <2>7 DEF RunCas, Release
  <2>8. CASE RunFinish
    BY <2>8 DEF RunFinish, Release
  <2>9. CASE RunLoadSignal
    BY <2>9 DEF RunLoadSignal
  <2>10. CASE RunLoadMin
    BY <2>10 DEF RunLoadMin
  <2>11. CASE RunClock
    BY <2>11 DEF RunClock
  <2>12. CASE RunWait
    BY <2>12 DEF RunWait
  <2>13. CASE Awaken
    BY <2>13 DEF Awaken
  <2>14. CASE RunExit
    BY <2>14 DEF RunExit, Drop, Release
  <2>15. CASE Tick
    BY <2>15 DEF Tick
  <2> QED
    BY <1>3, <2>1, <2>2, <2>3, <2>4, <2>5, <2>6, <2>7, <2>8, <2>9, <2>10, <2>11, <2>12, <2>13, <2>14, <2>15
    DEF RunStep, RunTimeout, RunInterrupted
<1>4. CASE UNCHANGED vars
  BY <1>4 DEF vars
<1> QED
  BY <1>1, <1>2, <1>3, <1>4 DEF Next

\* A step loses no timer.
LEMMA SomewhereNext ==
  ASSUME TypeOK, TypeOK', Dereferenced, Somewhere, [Next]_vars
  PROVE  Somewhere'
<1> USE DEF TypeOK, Dereferenced, Adding, Somewhere, Hands, Runs
<1> USE DEF store, timers, buckets, waking, life, run, pulls, sleeps, calls, world
<1>1. ASSUME NEW c \in Callers, Call(c) PROVE Somewhere'
  <2>1. ASSUME NEW t \in Timers, NEW rt \in Times, AddAcquire(c, t, rt) PROVE Somewhere'
    BY <2>1 DEF AddAcquire, Goto, NoLocals
  <2>2. ASSUME NEW t \in Timers, NEW v \in Versions, CancelCheck(c, t, v) PROVE Somewhere'
    BY <2>2 DEF CancelCheck, Goto, NoLocals
  <2>3. CASE StopStore(c)
    BY <2>3 DEF StopStore, Goto
  <2>4. CASE Destroy(c)
    <3>1. /\ \A b \in Buckets, t \in Timers : t \in head[b] => t \in free'
          /\ \A t \in Timers : t \in free => t \in free'
          /\ UNCHANGED <<tm_list, tm_heap, tmp, tpc, pc, loc>>
      BY <2>4 DEF Destroy, Drop, Release
    <3> HIDE DEF TypeOK, Dereferenced
    <3> QED
      BY <3>1
  <2> QED
    BY <1>1, <2>1, <2>2, <2>3, <2>4 DEF Call
<1>2. ASSUME NEW c \in Callers, Continue(c) PROVE Somewhere'
  <2>1. CASE AddVersion(c)
    BY <2>1 DEF AddVersion, Goto
  <2>2. CASE AddBucket(c)
    <3> HIDE DEF TypeOK, Dereferenced, Hands
    <3> QED
      BY <2>2, BucketMove
  <2>3. CASE AddLoad(c)
    <3> HIDE DEF TypeOK, Hands
    <3> QED
      BY <2>3, HandsKept
  <2>4. CASE AddCasOk(c)
    BY <2>4 DEF AddCasOk, Goto
  <2>5. CASE AddCasFail(c)
    BY <2>5 DEF AddCasFail, Goto
  <2>6. CASE WakeInc(c)
    BY <2>6 DEF WakeInc, Goto, Signalled
  <2>7. CASE WakeFutex(c)
    BY <2>7 DEF WakeFutex, Return, Goto
  <2>8. CASE CancelCas(c)
    <3> HIDE DEF TypeOK, Hands
    <3> QED
      BY <2>8, HandsKept
  <2>9. CASE CancelLoad(c)
    BY <2>9 DEF CancelLoad, Goto
  <2>10. CASE CancelReturn(c)
    BY <2>10 DEF CancelReturn, Return, Goto
  <2>11. CASE Join(c)
    BY <2>11 DEF Join, Goto
  <2> QED
    BY <1>2, <2>1, <2>2, <2>3, <2>4, <2>5, <2>6, <2>7, <2>8, <2>9, <2>10, <2>11 DEF Continue
<1>3. CASE RunStep \/ RunInterrupted \/ Tick
  <2>1. CASE RunCheck
    BY <2>1 DEF RunCheck
  <2>2. CASE RunSetMax
    BY <2>2 DEF RunSetMax
  <2>3. CASE RunReset
    <3>1. CASE bi < BucketNumber
      <4>1. \A d \in Callers, t \in Timers : (Hands(d, t)' <=> Hands(d, t)) /\ (Runs(t)' <=> Runs(t))
        BY <2>3, <3>1, ResetMove
      <4>2. tm_list = {}
        BY <2>3 DEF RunReset
      <4> HIDE DEF TypeOK, Dereferenced, Hands, Runs
      <4> QED
        BY <2>3, <3>1, <4>1, <4>2, ResetMove, CallersAssumption
    <3>2. CASE bi = BucketNumber
      BY <2>3, <3>2, BucketAssumption DEF RunReset
    <3> QED
      BY <2>3, <3>1, <3>2 DEF RunReset
  <2>4. CASE RunPull
    BY <2>4 DEF RunPull, Release
  <2>5. CASE RunHeap
    BY <2>5 DEF RunHeap, Release, HeapTop
  <2>6. CASE RunDue
    BY <2>6 DEF RunDue, Popped
  <2>7. CASE RunCas
    BY <2>7 DEF RunCas, Release
  <2>8. CASE RunFinish
    BY <2>8 DEF RunFinish, Release
  <2>9. CASE RunLoadSignal
    BY <2>9 DEF RunLoadSignal
  <2>10. CASE RunLoadMin
    BY <2>10 DEF RunLoadMin
  <2>11. CASE RunClock
    BY <2>11 DEF RunClock
  <2>12. CASE RunWait
    BY <2>12 DEF RunWait
  <2>13. CASE Awaken
    BY <2>13 DEF Awaken
  <2>14. CASE RunExit
    BY <2>14 DEF RunExit, Drop, Release
  <2>15. CASE Tick
    BY <2>15 DEF Tick
  <2> QED
    BY <1>3, <2>1, <2>2, <2>3, <2>4, <2>5, <2>6, <2>7, <2>8, <2>9, <2>10, <2>11, <2>12, <2>13, <2>14, <2>15
    DEF RunStep, RunTimeout, RunInterrupted
<1>4. CASE UNCHANGED vars
  BY <1>4 DEF vars
<1> QED
  BY <1>1, <1>2, <1>3, <1>4 DEF Next

\* No stamp is later than the one that stands for "no timer".
LEMMA StampsBound == \A s \in Stamps : s \in Nat /\ s <= MaxStamp
BY BoundsAssumption, StampAssumption DEF Stamps, Times

\* A bucket's minimum keeps bounding what is in it.
LEMMA RunTimesNext ==
  ASSUME TypeOK, TypeOK', Dereferenced, Apart, RunTimes, [Next]_vars
  PROVE  RunTimes'
<1> USE DEF TypeOK, Dereferenced, Adding, Apart, RunTimes, Hands
<1> USE DEF store, timers, buckets, waking, life, run, pulls, sleeps, calls, world
<1>1. ASSUME NEW c \in Callers, Call(c) PROVE RunTimes'
  <2>1. ASSUME NEW t \in Timers, NEW rt \in Times, AddAcquire(c, t, rt) PROVE RunTimes'
    BY <2>1 DEF AddAcquire, Goto, NoLocals
  <2>2. ASSUME NEW t \in Timers, NEW v \in Versions, CancelCheck(c, t, v) PROVE RunTimes'
    BY <2>2 DEF CancelCheck, Goto, NoLocals
  <2>3. CASE StopStore(c)
    BY <2>3 DEF StopStore, Goto
  <2>4. CASE Destroy(c)
    BY <2>4 DEF Destroy, Drop, Release
  <2> QED
    BY <1>1, <2>1, <2>2, <2>3, <2>4 DEF Call
<1>2. ASSUME NEW c \in Callers, Continue(c) PROVE RunTimes'
  <2>1. CASE AddVersion(c)
    BY <2>1 DEF AddVersion, Goto
  <2>2. CASE AddBucket(c)
    <3>1. /\ loc[c].rt = run_time[loc[c].tm] /\ loc[c].rt \in Nat /\ BucketOf[c] \in Buckets
          /\ run_time' = run_time
      BY <2>2, BucketMove, NumberSets DEF AddBucket, Locals
    <3>2. \A b \in Buckets : /\ bucket_min'[b] <= bucket_min[b]
                             /\ b = BucketOf[c] => bucket_min'[b] <= loc[c].rt
      BY <2>2, <3>1, StampsBound DEF AddBucket
    <3>3. \A b \in Buckets : \A t \in head'[b] : bucket_min'[b] <= run_time'[t]
      <4> SUFFICES ASSUME NEW b \in Buckets, NEW t \in head'[b]
                   PROVE  bucket_min'[b] <= run_time'[t]
        OBVIOUS
      <4>0. t \in Timers
        OBVIOUS
      <4>1. t \in Timers /\ (t \in head[b] \/ (b = BucketOf[c] /\ t = loc[c].tm))
        BY <2>2, <4>0, BucketMove
      <4>2. bucket_min'[b] \in Nat /\ bucket_min[b] \in Nat /\ run_time[t] \in Nat
        BY <4>1, StampsBound, NumberSets
      <4> QED
        BY <3>1, <3>2, <4>1, <4>2
    <3>4. /\ pc'[c] \in {"load", "idle"}
          /\ \A d \in Callers \ {c} : pc'[d] = pc[d] /\ loc'[d] = loc[d]
      BY <2>2 DEF AddBucket, Return, Goto
    <3> QED
      BY <3>1, <3>3, <3>4
  <2>3. CASE AddLoad(c)
    <3>1. \A d \in Callers \ {c} : pc'[d] = pc[d] /\ loc'[d] = loc[d]
      BY <2>3 DEF AddLoad, Return, Goto
    <3>2. pc'[c] = "idle" \/ (pc'[c] = "cas" /\ min_timestamp > loc[c].rt
                              /\ loc'[c] = [loc[c] EXCEPT !.seen = min_timestamp])
      BY <2>3 DEF AddLoad, Return, Goto
    <3>3. pc'[c] = "cas" => loc'[c].rt < loc'[c].seen
      <4>1. loc[c] \in Locals /\ loc[c].rt \in Nat /\ min_timestamp \in Nat
        BY NumberSets DEF Locals
      <4> QED
        BY <3>2, <4>1 DEF Locals
    <3>4. UNCHANGED <<run_time, head, bucket_min>>
      BY <2>3 DEF AddLoad
    <3> QED
      BY <3>1, <3>2, <3>3, <3>4
  <2>4. CASE AddCasOk(c)
    BY <2>4 DEF AddCasOk, Goto
  <2>5. CASE AddCasFail(c)
    BY <2>5 DEF AddCasFail, Goto
  <2>6. CASE WakeInc(c)
    BY <2>6 DEF WakeInc, Goto, Signalled
  <2>7. CASE WakeFutex(c)
    <3>1. \A d \in Callers \ {c} : pc'[d] = pc[d] /\ loc'[d] = loc[d]
      BY <2>7 DEF WakeFutex, Return, Goto
    <3>2. pc'[c] \in {"idle", "join"} /\ UNCHANGED <<run_time, head, bucket_min>>
      BY <2>7 DEF WakeFutex, Return, Goto
    <3> QED
      BY <3>1, <3>2
  <2>8. CASE CancelCas(c)
    <3>1. \A d \in Callers \ {c} : pc'[d] = pc[d] /\ loc'[d] = loc[d]
      BY <2>8, LocalsFields DEF CancelCas, Goto
    <3>2. pc'[c] \in {"ret", "cload"} /\ UNCHANGED <<run_time, head, bucket_min>>
      BY <2>8 DEF CancelCas, Goto
    <3> QED
      BY <3>1, <3>2
  <2>9. CASE CancelLoad(c)
    BY <2>9 DEF CancelLoad, Goto
  <2>10. CASE CancelReturn(c)
    BY <2>10 DEF CancelReturn, Return, Goto
  <2>11. CASE Join(c)
    BY <2>11 DEF Join, Goto
  <2> QED
    BY <1>2, <2>1, <2>2, <2>3, <2>4, <2>5, <2>6, <2>7, <2>8, <2>9, <2>10, <2>11 DEF Continue
<1>3. CASE RunStep \/ RunInterrupted \/ Tick
  <2>1. CASE RunCheck
    BY <2>1 DEF RunCheck
  <2>2. CASE RunSetMax
    BY <2>2 DEF RunSetMax
  <2>3. CASE RunReset
    BY <2>3 DEF RunReset
  <2>4. CASE RunPull
    BY <2>4 DEF RunPull, Release
  <2>5. CASE RunHeap
    BY <2>5 DEF RunHeap, Release, HeapTop
  <2>6. CASE RunDue
    BY <2>6 DEF RunDue, Popped
  <2>7. CASE RunCas
    BY <2>7 DEF RunCas, Release
  <2>8. CASE RunFinish
    BY <2>8 DEF RunFinish, Release
  <2>9. CASE RunLoadSignal
    BY <2>9 DEF RunLoadSignal
  <2>10. CASE RunLoadMin
    BY <2>10 DEF RunLoadMin
  <2>11. CASE RunClock
    BY <2>11 DEF RunClock
  <2>12. CASE RunWait
    BY <2>12 DEF RunWait
  <2>13. CASE Awaken
    BY <2>13 DEF Awaken
  <2>14. CASE RunExit
    BY <2>14 DEF RunExit, Drop, Release
  <2>15. CASE Tick
    BY <2>15 DEF Tick
  <2> QED
    BY <1>3, <2>1, <2>2, <2>3, <2>4, <2>5, <2>6, <2>7, <2>8, <2>9, <2>10, <2>11, <2>12, <2>13, <2>14, <2>15
    DEF RunStep, RunTimeout, RunInterrupted
<1>4. CASE UNCHANGED vars
  BY <1>4 DEF vars
<1> QED
  BY <1>1, <1>2, <1>3, <1>4 DEF Next

\* A bucket's minimum stays announced.
LEMMA AnnouncedNext ==
  ASSUME TypeOK, TypeOK', Dereferenced, RunTimes, Announced, [Next]_vars
  PROVE  Announced'
<1> USE DEF TypeOK, Dereferenced, Adding, Announced
<1> USE DEF store, timers, buckets, waking, life, run, pulls, sleeps, calls, world
<1>1. ASSUME NEW c \in Callers, Call(c) PROVE Announced'
  <2>1. ASSUME NEW t \in Timers, NEW rt \in Times, AddAcquire(c, t, rt) PROVE Announced'
    BY <2>1 DEF AddAcquire, Goto, NoLocals
  <2>2. ASSUME NEW t \in Timers, NEW v \in Versions, CancelCheck(c, t, v) PROVE Announced'
    BY <2>2 DEF CancelCheck, Goto, NoLocals
  <2>3. CASE StopStore(c)
    BY <2>3 DEF StopStore, Goto
  <2>4. CASE Destroy(c)
    BY <2>4, StampsBound DEF Destroy
  <2> QED
    BY <1>1, <2>1, <2>2, <2>3, <2>4 DEF Call
<1>2. ASSUME NEW c \in Callers, Continue(c) PROVE Announced'
  <2>1. CASE AddVersion(c)
    BY <2>1 DEF AddVersion, Goto
  <2>2. CASE AddBucket(c)
    BY <2>2 DEF AddBucket, Return, Goto
  <2>3. CASE AddLoad(c)
    <3>1. CASE min_timestamp <= loc[c].rt
      BY <2>3, <3>1, NumberSets DEF AddLoad, Return, Goto, Locals
    <3>2. CASE pc'[c] = "cas"
      BY <2>3, <3>2, LocalsFields DEF AddLoad, Return, Goto
    <3> QED
      BY <2>3, <3>1, <3>2 DEF AddLoad, Goto
  <2>4. CASE AddCasOk(c)
    <3>1. /\ loc[c].rt \in Nat /\ min_timestamp' = loc[c].rt /\ loc[c].rt < min_timestamp
          /\ UNCHANGED <<bi, bucket_min, loc>>
          /\ \A d \in Callers \ {c} : pc'[d] = pc[d]
      BY <2>4, NumberSets DEF AddCasOk, Goto, RunTimes, Locals
    <3>2. \A b \in Buckets : bucket_min[b] \in Nat /\ min_timestamp \in Nat
      BY StampsBound
    <3>3. ASSUME NEW b \in Buckets, b < bi
          PROVE  \/ min_timestamp' <= bucket_min[b]
                 \/ \E d \in Callers \ {c} : pc[d] \in {"load", "cas"} /\ loc[d].rt = bucket_min[b]
      <4> HIDE DEF TypeOK, Dereferenced
      <4>1. CASE min_timestamp <= bucket_min[b]
        BY <3>1, <3>2, <4>1
      <4>2. CASE \E d \in Callers : pc[d] \in {"load", "cas"} /\ loc[d].rt = bucket_min[b]
        BY <3>1, <3>2, <4>2
      <4> QED
        BY <3>3, <4>1, <4>2
    <3> QED
      <4> HIDE DEF TypeOK, Dereferenced
      <4> QED
        BY <3>1, <3>3
  <2>5. CASE AddCasFail(c)
    BY <2>5 DEF AddCasFail, Goto
  <2>6. CASE WakeInc(c)
    BY <2>6 DEF WakeInc, Goto, Signalled
  <2>7. CASE WakeFutex(c)
    BY <2>7 DEF WakeFutex, Return, Goto
  <2>8. CASE CancelCas(c)
    BY <2>8 DEF CancelCas, Goto, CancelWins
  <2>9. CASE CancelLoad(c)
    BY <2>9 DEF CancelLoad, Goto
  <2>10. CASE CancelReturn(c)
    BY <2>10 DEF CancelReturn, Return, Goto
  <2>11. CASE Join(c)
    BY <2>11 DEF Join, Goto
  <2> QED
    BY <1>2, <2>1, <2>2, <2>3, <2>4, <2>5, <2>6, <2>7, <2>8, <2>9, <2>10, <2>11 DEF Continue
<1>3. CASE RunStep \/ RunInterrupted \/ Tick
  <2>1. CASE RunCheck
    BY <2>1 DEF RunCheck
  <2>2. CASE RunSetMax
    BY <2>2, NumberSets DEF RunSetMax
  <2>3. CASE RunReset
    <3>1. CASE bi < BucketNumber
      BY <2>3, <3>1, ResetMove, StampsBound, NumberSets
    <3>2. CASE bi = BucketNumber
      BY <2>3, <3>2, BucketAssumption DEF RunReset
    <3> QED
      BY <2>3, <3>1, <3>2 DEF RunReset
  <2>4. CASE RunPull
    BY <2>4 DEF RunPull, Release
  <2>5. CASE RunHeap
    BY <2>5 DEF RunHeap, Release, HeapTop
  <2>6. CASE RunDue
    BY <2>6 DEF RunDue, Popped
  <2>7. CASE RunCas
    BY <2>7 DEF RunCas, Release
  <2>8. CASE RunFinish
    BY <2>8 DEF RunFinish, Release
  <2>9. CASE RunLoadSignal
    BY <2>9 DEF RunLoadSignal
  <2>10. CASE RunLoadMin
    BY <2>10 DEF RunLoadMin
  <2>11. CASE RunClock
    BY <2>11 DEF RunClock
  <2>12. CASE RunWait
    BY <2>12 DEF RunWait
  <2>13. CASE Awaken
    BY <2>13 DEF Awaken
  <2>14. CASE RunExit
    BY <2>14 DEF RunExit, Drop, Release
  <2>15. CASE Tick
    BY <2>15 DEF Tick
  <2> QED
    BY <1>3, <2>1, <2>2, <2>3, <2>4, <2>5, <2>6, <2>7, <2>8, <2>9, <2>10, <2>11, <2>12, <2>13, <2>14, <2>15
    DEF RunStep, RunTimeout, RunInterrupted
<1>4. CASE UNCHANGED vars
  BY <1>4 DEF vars
<1> QED
  BY <1>1, <1>2, <1>3, <1>4 DEF Next

\* The timer thread goes on watching min_timestamp_.
LEMMA WatchedNext ==
  ASSUME TypeOK, TypeOK', Dereferenced, Apart, Watched, [Next]_vars
  PROVE  Watched'
<1> USE DEF TypeOK, Dereferenced, Apart, Watched
<1> USE DEF store, timers, buckets, waking, life, run, pulls, sleeps, calls, world
<1>1. ASSUME NEW c \in Callers, Call(c) PROVE Watched'
  <2>1. ASSUME NEW t \in Timers, NEW rt \in Times, AddAcquire(c, t, rt) PROVE Watched'
    BY <2>1 DEF AddAcquire, Goto, NoLocals
  <2>2. ASSUME NEW t \in Timers, NEW v \in Versions, CancelCheck(c, t, v) PROVE Watched'
    BY <2>2 DEF CancelCheck, Goto, NoLocals
  <2>3. CASE StopStore(c)
    BY <2>3 DEF StopStore, Goto
  <2>4. CASE Destroy(c)
    BY <2>4 DEF Destroy, Drop, Release
  <2> QED
    BY <1>1, <2>1, <2>2, <2>3, <2>4 DEF Call
<1>2. ASSUME NEW c \in Callers, Continue(c) PROVE Watched'
  <2>1. CASE AddVersion(c)
    BY <2>1 DEF AddVersion, Goto
  <2>2. CASE AddBucket(c)
    BY <2>2 DEF AddBucket, Return, Goto
  <2>3. CASE AddLoad(c)
    BY <2>3 DEF AddLoad, Return, Goto
  <2>4. CASE AddCasOk(c)
    BY <2>4 DEF AddCasOk, Goto
  <2>5. CASE AddCasFail(c)
    BY <2>5 DEF AddCasFail, Goto
  <2>6. CASE WakeInc(c)
    BY <2>6 DEF WakeInc, Goto, Signalled
  <2>7. CASE WakeFutex(c)
    BY <2>7 DEF WakeFutex, Return, Goto
  <2>8. CASE CancelCas(c)
    BY <2>8 DEF CancelCas, Goto, CancelWins
  <2>9. CASE CancelLoad(c)
    BY <2>9 DEF CancelLoad, Goto
  <2>10. CASE CancelReturn(c)
    BY <2>10 DEF CancelReturn, Return, Goto
  <2>11. CASE Join(c)
    BY <2>11 DEF Join, Goto
  <2> QED
    BY <1>2, <2>1, <2>2, <2>3, <2>4, <2>5, <2>6, <2>7, <2>8, <2>9, <2>10, <2>11 DEF Continue
<1>3. CASE RunStep \/ RunInterrupted \/ Tick
  <2>1. CASE RunCheck
    BY <2>1 DEF RunCheck
  <2>2. CASE RunSetMax
    BY <2>2 DEF RunSetMax
  <2>3. CASE RunReset
    BY <2>3 DEF RunReset
  <2>4. CASE RunPull
    BY <2>4 DEF RunPull, Release
  <2>5. CASE RunHeap
    BY <2>5 DEF RunHeap, Release, HeapTop
  <2>6. CASE RunDue
    BY <2>6 DEF RunDue, Popped
  <2>7. CASE RunCas
    BY <2>7 DEF RunCas, Release
  <2>8. CASE RunFinish
    BY <2>8 DEF RunFinish, Release
  <2>9. CASE RunLoadSignal
    BY <2>9 DEF RunLoadSignal
  <2>10. CASE RunLoadMin
    BY <2>10, NumberSets DEF RunLoadMin, SleepPoint
  <2>11. CASE RunClock
    BY <2>11 DEF RunClock
  <2>12. CASE RunWait
    BY <2>12 DEF RunWait, WordUnchanged
  <2>13. CASE Awaken
    BY <2>13 DEF Awaken
  <2>14. CASE RunExit
    BY <2>14 DEF RunExit, Drop, Release
  <2>15. CASE Tick
    BY <2>15 DEF Tick
  <2> QED
    BY <1>3, <2>1, <2>2, <2>3, <2>4, <2>5, <2>6, <2>7, <2>8, <2>9, <2>10, <2>11, <2>12, <2>13, <2>14, <2>15
    DEF RunStep, RunTimeout, RunInterrupted
<1>4. CASE UNCHANGED vars
  BY <1>4 DEF vars
<1> QED
  BY <1>1, <1>2, <1>3, <1>4 DEF Next

\* The invariant holds initially: every timer is in the pool, no call is on.
LEMMA WakeInit == Init => WakeInv
<1> SUFFICES ASSUME Init PROVE WakeInv
  OBVIOUS
<1>1. TypeOK
  BY TypeInit
<1>2. Dereferenced
  BY DEF Init, Dereferenced, Adding, Cancelling
<1>3. Apart /\ Somewhere
  BY DEF Init, Apart, Somewhere, Hands, Runs
<1>4. RunTimes
  BY DEF Init, RunTimes
<1>5. Announced /\ Watched
  BY NumberSets DEF Init, Announced, Watched
<1> QED
  BY <1>1, <1>2, <1>3, <1>4, <1>5 DEF WakeInv

\* Who holds which timer, and the wake-up protocol between add_timer and the
\* timer thread, for any number of callers, timers, buckets and instants.
THEOREM WakeInvariant == Spec => []WakeInv
<1>1. WakeInv /\ [Next]_vars => WakeInv'
  <2> SUFFICES ASSUME WakeInv, [Next]_vars PROVE WakeInv'
    OBVIOUS
  <2> USE DEF WakeInv
  <2>1. TypeOK'
    BY TypeNext
  <2>2. Dereferenced'
    BY <2>1, DerefNext
  <2>3. Apart' /\ Somewhere'
    BY <2>1, ApartNext, SomewhereNext
  <2>4. RunTimes' /\ Announced' /\ Watched'
    BY <2>1, RunTimesNext, AnnouncedNext, WatchedNext
  <2> QED
    BY <2>1, <2>2, <2>3, <2>4
<1> QED
  BY <1>1, WakeInit, PTL DEF Spec

\* Every variable of the timer keeps its type; in particular no negative time
\* is ever handed to futex_wait.
THEOREM TypeCorrect == Spec => []TypeOK
<1>1. WakeInv => TypeOK
  BY DEF WakeInv
<1> QED
  BY <1>1, WakeInvariant, PTL

\* TimerThread::Run never sleeps past a timer that no add_timer is about to
\* wake it for.
THEOREM NeverOversleeps == Spec => []NoOversleep
<1>1. WakeInv => NoOversleep
  <2> SUFFICES ASSUME WakeInv, tpc = "asleep" PROVE NoOversleep
    BY DEF NoOversleep
  <2>1. /\ \A t \in tm_heap : sleep_point <= run_time[t]
        /\ sleep_point <= min_timestamp \/ \E c \in Callers : pc[c] \in {"inc", "wake"}
        /\ \A b \in Buckets : b < bi
    BY DEF WakeInv, TypeOK, Watched, Buckets
  <2>2. sleep_point \in Nat /\ min_timestamp \in Nat
    BY NumberSets DEF WakeInv, TypeOK
  <2>3. \A t \in tm_heap : run_time[t] >= sleep_point
    BY <2>1, <2>2, NumberSets DEF WakeInv, TypeOK
  <2>4. ASSUME NEW b \in Buckets, NEW t \in head[b], ~(run_time[t] >= sleep_point)
        PROVE  \E c \in Callers : pc[c] \in {"load", "cas", "inc", "wake"}
    <3>1. run_time[t] \in Nat /\ bucket_min[b] \in Nat /\ bucket_min[b] <= run_time[t]
      BY NumberSets DEF WakeInv, TypeOK, RunTimes
    <3>2. CASE min_timestamp <= bucket_min[b]
      BY <2>1, <2>2, <2>4, <3>1, <3>2
    <3>3. CASE \E c \in Callers : pc[c] \in {"load", "cas"}
      BY <3>3
    <3> QED
      BY <2>1, <3>2, <3>3 DEF WakeInv, Announced
  <2> QED
    BY <2>3, <2>4 DEF NoOversleep
<1> QED
  BY <1>1, WakeInvariant, PTL

\* A timer is in exactly one place, from the pool through add_timer, a bucket,
\* the list and the heap to run_and_delete and back.
THEOREM TimerInOnePlace == Spec => []OnePlace
<1>1. WakeInv => OnePlace
  <2> SUFFICES ASSUME WakeInv, NEW t \in Timers
               PROVE  \E h \in Holders : \A g \in Holders : Holds(g, t) <=> g = h
    BY DEF OnePlace
  <2>1. /\ Holds(<<"pool", 0>>, t) <=> t \in free
        /\ Holds(<<"list", 0>>, t) <=> t \in tm_list
        /\ Holds(<<"heap", 0>>, t) <=> t \in tm_heap
        /\ Holds(<<"run", 0>>, t) <=> Runs(t)
        /\ \A c \in Callers : Holds(<<"call", c>>, t) <=> Hands(c, t)
        /\ \A b \in Buckets : Holds(<<"bucket", b>>, t) <=> t \in head[b]
    BY DEF Holds, Hands, Runs
  <2>2. /\ <<"pool", 0>> \in Holders /\ <<"list", 0>> \in Holders
        /\ <<"heap", 0>> \in Holders /\ <<"run", 0>> \in Holders
        /\ \A c \in Callers : <<"call", c>> \in Holders
        /\ \A b \in Buckets : <<"bucket", b>> \in Holders
    BY DEF Holders
  <2>3. \A h \in Holders :
          \/ h = <<"pool", 0>> \/ h = <<"list", 0>> \/ h = <<"heap", 0>> \/ h = <<"run", 0>>
          \/ \E c \in Callers : h = <<"call", c>>
          \/ \E b \in Buckets : h = <<"bucket", b>>
    BY DEF Holders
  <2>4. \E h \in Holders : Holds(h, t)
    BY <2>1, <2>2 DEF WakeInv, Somewhere
  <2>5. ASSUME NEW h \in Holders, NEW g \in Holders, Holds(h, t), Holds(g, t) PROVE g = h
    <3>1. CASE h = <<"pool", 0>>
      BY <2>1, <2>3, <2>5, <3>1 DEF WakeInv, Apart
    <3>2. CASE h = <<"list", 0>>
      BY <2>1, <2>3, <2>5, <3>2 DEF WakeInv, Apart
    <3>3. CASE h = <<"heap", 0>>
      BY <2>1, <2>3, <2>5, <3>3 DEF WakeInv, Apart
    <3>4. CASE h = <<"run", 0>>
      BY <2>1, <2>3, <2>5, <3>4 DEF WakeInv, Apart
    <3>5. ASSUME NEW c \in Callers, h = <<"call", c>> PROVE g = h
      BY <2>1, <2>3, <2>5, <3>5 DEF WakeInv, Apart
    <3>6. ASSUME NEW b \in Buckets, h = <<"bucket", b>> PROVE g = h
      BY <2>1, <2>3, <2>5, <3>6 DEF WakeInv, Apart
    <3> QED
      BY <2>3, <3>1, <3>2, <3>3, <3>4, <3>5, <3>6
  <2> QED
    BY <2>4, <2>5
<1> QED
  BY <1>1, WakeInvariant, PTL

-----------------------------------------------------------------------------
(***************************************************************************)
(* What becomes of an id, for every value of the constants: FateInv is an  *)
(* invariant, so cancel_timer tells the truth, an id is run at most once   *)
(* and not after a cancel, and the asserts of try_delete and Run hold.     *)
(***************************************************************************)

\* Two ids of a timer are three apart: a version that stands for one of them
\* (up to 2 above it) never equals another one.
LEMMA VersionGap ==
  /\ 0 \notin Versions
  /\ \A v, w \in Versions \cup {0} : v < w => v + 3 <= w
BY BoundsAssumption DEF Versions

\* A step that changes no id, version or fate: callers leave the labels that
\* FateInv speaks of and do not enter them, timers are released only when they
\* are settled, and Run does not enter or leave a callback.
Quiet ==
    /\ UNCHANGED <<timer_id, version, fate>>
    /\ free \subseteq free'
    /\ \A t \in free' \ free : timer_id[t] \in Versions => CurrentFate(t) \in Settled
    /\ failed' \notin {"try_delete", "Run"}
    /\ \A c \in Callers :
          /\ pc'[c] \in {"version", "ccas", "cload", "ret"} => pc'[c] = pc[c] /\ loc'[c] = loc[c]
          /\ pc[c] = "version" => pc'[c] = "version"
    /\ tpc' = "run" => run_time'[tmp'] <= now'
    /\ tpc' = "func" <=> tpc = "func"
    /\ tpc = "func" => tmp' = tmp
    /\ tpc' = "done" <=> tpc = "done"
    /\ tpc' \in {"exit", "done"} => stop' = 1
    /\ thread' # "running" => tpc' = "done"

\* A quiet step keeps everything that FateInv says.
LEMMA QuietStep ==
  ASSUME WakeInv, TypeOK', FateInv, Quiet
  PROVE  FateInv'
<1> USE DEF FateInv
<1>1. \A t \in Timers : Unversioned(t)' <=> Unversioned(t)
  BY DEF Quiet, Unversioned
<1>2. \A t \in Timers : CurrentFate(t)' = CurrentFate(t)
  BY DEF Quiet, CurrentFate
<1>3. IdsInOrder'
  BY DEF Quiet, IdsInOrder
<1>4. \A t \in Timers : VersionTells(t) => VersionTells(t)'
  BY <1>2 DEF Quiet, VersionTells
<1>5. IdsCurrent'
  BY <1>1, <1>2, <1>4 DEF Quiet, IdsCurrent, WakeInv, TypeOK
<1>6. RunKnows'
  <2>1. tpc = "func" => tmp \in Timers
    BY DEF WakeInv, Dereferenced
  <2> QED
    BY <1>2, <2>1 DEF Quiet, RunKnows
<1>7. CallersKnow'
  <2>1. \A c \in Callers : Cancelling(c)' => Cancelling(c) /\ loc'[c] = loc[c] /\ loc[c].tm \in Timers
    BY DEF Quiet, Cancelling, WakeInv, Dereferenced
  <2> QED
    BY <2>1 DEF Quiet, CallersKnow, Cancelling
<1>8. CancelVerdict'
  BY DEF Quiet, CancelVerdict
<1>9. AssertsHold'
  BY DEF Quiet, AssertsHold
<1> QED
  BY <1>3, <1>5, <1>6, <1>7, <1>8, <1>9

\* A timer that try_delete gives up was cancelled: its assert holds.
LEMMA TryDeleteSettled ==
  ASSUME WakeInv, FateInv, NEW t \in tm_list \cup tm_heap, TryDelete(t)
  PROVE  /\ version[t] = timer_id[t] + 2
         /\ timer_id[t] \in Versions => CurrentFate(t) \in Settled
<1>1. t \in Timers /\ timer_id[t] \in Versions \cup {0} /\ version[t] \in Nat
  BY DEF WakeInv, TypeOK
<1>2. ~Unversioned(t)
  BY <1>1 DEF WakeInv, Apart, Hands, Unversioned
<1>3. ~(tpc = "func" /\ tmp = t)
  BY <1>1 DEF WakeInv, Apart, Runs
<1>4. timer_id[t] # 0
  BY <1>1, <1>2 DEF FateInv, IdsCurrent, TryDelete
<1> QED
  BY <1>1, <1>2, <1>3, <1>4 DEF FateInv, IdsCurrent, VersionTells, TryDelete, Settled

\* The steps of a call that only queue, announce, wake, stop or return are
\* quiet, ...
LEMMA QuietContinue ==
  ASSUME WakeInv, FateInv, NEW c \in Callers,
         \/ AddBucket(c) \/ AddLoad(c) \/ AddCasOk(c) \/ AddCasFail(c) \/ WakeInc(c)
         \/ WakeFutex(c) \/ CancelReturn(c) \/ Join(c) \/ StopStore(c)
  PROVE  Quiet
<1> USE DEF WakeInv, FateInv, TypeOK, RunKnows, AssertsHold, Quiet
<1> USE DEF store, timers, buckets, waking, life, run, pulls, sleeps, calls, world, Goto, Return
<1>1. CASE AddBucket(c)
  BY <1>1 DEF AddBucket
<1>2. CASE AddLoad(c)
  BY <1>2 DEF AddLoad
<1>3. CASE AddCasOk(c)
  BY <1>3 DEF AddCasOk
<1>4. CASE AddCasFail(c)
  BY <1>4 DEF AddCasFail
<1>5. CASE WakeInc(c)
  BY <1>5 DEF WakeInc
<1>6. CASE WakeFutex(c)
  BY <1>6 DEF WakeFutex
<1>7. CASE CancelReturn(c)
  BY <1>7 DEF CancelReturn
<1>8. CASE Join(c)
  BY <1>8 DEF Join
<1>9. CASE StopStore(c)
  BY <1>9 DEF StopStore
<1> QED
  BY <1>1, <1>2, <1>3, <1>4, <1>5, <1>6, <1>7, <1>8, <1>9

\* ... and so are the steps of Run that do not begin or end a callback or the
\* thread, and the clock.
LEMMA QuietRun ==
  ASSUME WakeInv, FateInv,
         \/ RunCheck \/ RunSetMax \/ RunReset \/ RunPull \/ RunHeap \/ RunDue
         \/ (RunCas /\ ~RunWins) \/ RunLoadSignal \/ RunLoadMin \/ RunClock \/ RunWait
         \/ Awaken \/ Tick \/ UNCHANGED vars
  PROVE  Quiet
<1> USE DEF WakeInv, FateInv, TypeOK, RunKnows, AssertsHold, Quiet
<1> USE DEF store, timers, buckets, waking, life, run, pulls, sleeps, calls, world
<1>1. CASE RunCheck
  BY <1>1 DEF RunCheck
<1>2. CASE RunSetMax
  BY <1>2 DEF RunSetMax
<1>3. CASE RunReset
  BY <1>3 DEF RunReset
<1>4. CASE RunPull
  <2>1. \A t \in tm_list : TryDelete(t) =>
           version[t] = timer_id[t] + 2 /\ (timer_id[t] \in Versions => CurrentFate(t) \in Settled)
    BY TryDeleteSettled
  <2> QED
    BY <1>4, <2>1 DEF RunPull, Release, Check
<1>5. CASE RunHeap
  <2>1. \A t \in tm_heap : TryDelete(t) =>
           version[t] = timer_id[t] + 2 /\ (timer_id[t] \in Versions => CurrentFate(t) \in Settled)
    BY TryDeleteSettled
  <2> QED
    BY <1>5, <2>1 DEF RunHeap, Release, Check
<1>6. CASE RunDue
  BY <1>6 DEF RunDue
<1>7. CASE RunCas /\ ~RunWins
  <2>1. tmp \in Timers /\ timer_id[tmp] \in Versions \cup {0} /\ version[tmp] \in Nat /\ tpc = "run"
    BY <1>7 DEF RunCas, Dereferenced
  <2>2. ~Unversioned(tmp) /\ tmp \notin free
    BY <2>1 DEF Apart, Hands, Runs, Unversioned
  <2>3. timer_id[tmp] \in Versions => CurrentFate(tmp) \in Settled
    BY <1>7, <2>1, <2>2 DEF RunWins, IdsCurrent, VersionTells, Settled
  <2> QED
    BY <1>7, <2>1, <2>3 DEF RunCas, Release, Check
<1>8. CASE RunLoadSignal
  BY <1>8 DEF RunLoadSignal
<1>9. CASE RunLoadMin
  BY <1>9 DEF RunLoadMin
<1>10. CASE RunClock
  BY <1>10 DEF RunClock
<1>11. CASE RunWait
  BY <1>11 DEF RunWait
<1>12. CASE Awaken
  BY <1>12 DEF Awaken
<1>13. CASE Tick
  <2>1. tpc = "run" => run_time[tmp] \in Nat /\ now \in Nat
    BY NumberSets DEF Dereferenced
  <2> QED
    BY <1>13, <2>1 DEF Tick
<1>14. CASE UNCHANGED vars
  BY <1>14 DEF vars
<1> QED
  BY <1>1, <1>2, <1>3, <1>4, <1>5, <1>6, <1>7, <1>8, <1>9, <1>10, <1>11, <1>12, <1>13, <1>14

\* add_timer takes a timer whose last id is settled; its new id was never used.
LEMMA FateAcquire ==
  ASSUME WakeInv, TypeOK', FateInv, NEW c \in Callers, NEW t \in Timers, NEW rt \in Times,
         AddAcquire(c, t, rt)
  PROVE  /\ FateInv'
         /\ \A u \in Timers, v \in Versions : fate'[u][v] # fate[u][v] =>
               fate[u][v] = "none" /\ fate'[u][v] = "pending"
<1> USE DEF WakeInv, FateInv
<1> DEFINE old == timer_id[t]
           new == timer_id[t] + 3
<1>1. /\ t \in free /\ free' = free \ {t} /\ new \in Versions /\ old \in Versions \cup {0}
      /\ pc[c] = "idle" /\ pc'[c] = "version" /\ loc'[c].tm = t /\ loc'[c].id = new
      /\ \A d \in Callers \ {c} : pc'[d] = pc[d] /\ loc'[d] = loc[d]
      /\ timer_id'[t] = new /\ \A u \in Timers \ {t} : timer_id'[u] = timer_id[u]
      /\ \A u \in Timers \ {t} : run_time'[u] = run_time[u]
      /\ UNCHANGED <<version, tpc, tmp, stop, thread, now, failed>>
  BY DEF AddAcquire, TypeOK, Goto, NoLocals, life, run, pulls, world
<1>2. \A u \in Timers, v \in Versions :
         fate'[u][v] = IF u = t /\ v = new THEN "pending" ELSE fate[u][v]
  BY <1>1 DEF AddAcquire, TypeOK
<1>3. Versions \subseteq Nat /\ old \in Nat /\ \A u \in Timers : version[u] \in Nat /\ timer_id[u] \in Nat
  BY <1>1, NumberSets DEF TypeOK
<1>4. fate[t][new] = "none"
  BY <1>1, <1>3 DEF IdsInOrder
<1>5. ~Unversioned(t) /\ ~Runs(t)
  BY <1>1 DEF Apart, Unversioned, Hands
<1>6. Unversioned(t)' /\ \A u \in Timers \ {t} : Unversioned(u)' <=> Unversioned(u)
  BY <1>1 DEF Unversioned
<1>7. version[t] < new /\ (version[t] = old /\ old \in Versions => fate[t][old] = "dropped")
  BY <1>1, <1>3, <1>5 DEF IdsCurrent, VersionTells, CurrentFate, Settled
<1>8. \A u \in Timers \ {t} : CurrentFate(u)' = CurrentFate(u)
  BY <1>1, <1>2, VersionGap DEF CurrentFate, AddAcquire, TypeOK
<1>9. CurrentFate(t)' = "pending"
  BY <1>1, <1>2 DEF CurrentFate
<1>10. IdsInOrder'
  <2> SUFFICES ASSUME NEW u \in Timers, NEW v \in Versions
               PROVE  /\ v > timer_id'[u] => fate'[u][v] = "none"
                      /\ v < timer_id'[u] => fate'[u][v] \in Settled
                      /\ v < timer_id'[u] /\ version'[u] = v => fate'[u][v] = "dropped"
    BY DEF IdsInOrder
  <2>1. CASE u # t
    BY <1>1, <1>2, <2>1 DEF IdsInOrder
  <2>2. CASE u = t
    <3>1. v > new => fate'[t][v] = "none"
      BY <1>1, <1>2, <1>3 DEF IdsInOrder
    <3>2. v < new => v <= old
      BY <1>1, <1>3, VersionGap
    <3>3. v = old => fate[t][v] \in Settled
      BY <1>1 DEF IdsCurrent, CurrentFate
    <3> QED
      BY <1>1, <1>2, <1>3, <1>7, <2>2, <3>1, <3>2, <3>3 DEF IdsInOrder
  <2> QED
    BY <2>1, <2>2
<1>11. IdsCurrent'
  <2> SUFFICES ASSUME NEW u \in Timers
               PROVE  /\ timer_id'[u] = 0 => version'[u] = 0 /\ u \in free'
                      /\ Unversioned(u)' => version'[u] < timer_id'[u] /\ CurrentFate(u)' = "pending"
                      /\ timer_id'[u] \in Versions /\ ~Unversioned(u)' => VersionTells(u)'
                      /\ timer_id'[u] \in Versions /\ u \in free' => CurrentFate(u)' \in Settled
                      /\ timer_id'[u] \in Versions /\ CurrentFate(u)' = "dropped"
                            => u \in free' /\ tpc' = "done"
    BY DEF IdsCurrent
  <2>1. CASE u = t
    BY <1>1, <1>3, <1>6, <1>7, <1>9, <2>1
  <2>2. CASE u # t
    BY <1>1, <1>6, <1>8, <2>2 DEF IdsCurrent, VersionTells
  <2> QED
    BY <2>1, <2>2
<1>12. RunKnows'
  BY <1>1, <1>5, <1>8 DEF RunKnows, Runs, Dereferenced
<1>13. ASSUME NEW d \in Callers, Cancelling(d)'
       PROVE  /\ d # c /\ loc'[d] = loc[d] /\ pc'[d] = pc[d] /\ Cancelling(d)
              /\ loc[d].tm \in Timers /\ loc[d].id \in Versions
              /\ ~(loc[d].tm = t /\ loc[d].id = new)
              /\ fate'[loc[d].tm][loc[d].id] = fate[loc[d].tm][loc[d].id]
  <2>1. d # c /\ loc'[d] = loc[d] /\ pc'[d] = pc[d] /\ Cancelling(d)
    BY <1>1, <1>13 DEF Cancelling
  <2>2. loc[d].tm \in Timers /\ loc[d].id \in Versions /\ fate[loc[d].tm][loc[d].id] # "none"
    BY <2>1 DEF Dereferenced, CallersKnow
  <2> QED
    BY <1>2, <1>4, <2>1, <2>2
<1>14. CallersKnow'
  <2>1. ASSUME NEW d \in Callers, pc'[d] = "version" PROVE loc'[d].id = timer_id'[loc'[d].tm]
    <3>1. CASE d = c
      BY <1>1, <3>1
    <3>2. CASE d # c
      <4>1. pc[d] = "version" /\ loc'[d] = loc[d] /\ loc[d].tm \in Timers /\ loc[d].tm # t
        BY <1>1, <1>5, <2>1, <3>2 DEF Dereferenced, Adding, Unversioned
      <4> QED
        BY <1>1, <4>1 DEF CallersKnow
    <3> QED
      BY <3>1, <3>2
  <2>2. ASSUME NEW d \in Callers, Cancelling(d)'
        PROVE  /\ fate'[loc'[d].tm][loc'[d].id] # "none"
               /\ \A e \in Callers :
                     pc'[e] = "version" /\ loc'[e].tm = loc'[d].tm => loc'[e].id # loc'[d].id
               /\ pc'[d] = "ccas" =>
                     /\ loc'[d].seen = loc'[d].id
                     /\ loc'[d].was = "cancelled" => fate'[loc'[d].tm][loc'[d].id] = "cancelled"
               /\ pc'[d] = "cload" => fate'[loc'[d].tm][loc'[d].id] # "pending"
    BY <1>1, <1>13, <2>2 DEF CallersKnow
  <2> QED
    BY <2>1, <2>2 DEF CallersKnow, Cancelling
<1>15. CancelVerdict'
  <2>1. \A d \in Callers : pc'[d] = "ret" =>
           /\ pc[d] = "ret" /\ loc'[d] = loc[d]
           /\ fate'[loc[d].tm][loc[d].id] = fate[loc[d].tm][loc[d].id]
    BY <1>13 DEF Cancelling
  <2> QED
    BY <2>1 DEF CancelVerdict
<1>16. AssertsHold'
  BY <1>1 DEF AssertsHold
<1> QED
  BY <1>2, <1>4, <1>10, <1>11, <1>12, <1>14, <1>15, <1>16

\* add_timer stores the version of the id that it has given.
LEMMA FateVersion ==
  ASSUME WakeInv, TypeOK', FateInv, NEW c \in Callers, AddVersion(c)
  PROVE  FateInv' /\ fate' = fate
<1> USE DEF WakeInv, FateInv
<1> DEFINE t == loc[c].tm
<1>1. /\ pc[c] = "version" /\ pc'[c] = "bucket" /\ t \in Timers /\ loc[c].id = timer_id[t]
      /\ \A d \in Callers \ {c} : pc'[d] = pc[d]
      /\ version'[t] = timer_id[t] /\ \A u \in Timers \ {t} : version'[u] = version[u]
      /\ UNCHANGED <<timer_id, run_time, free, fate, loc, tpc, tmp, stop, thread, now, failed>>
  BY DEF AddVersion, TypeOK, Goto, Dereferenced, Adding, CallersKnow, life, run, pulls, world
<1>2. Unversioned(t) /\ t \notin free /\ ~Runs(t) /\ timer_id[t] \in Versions
  BY <1>1 DEF Unversioned, Apart, Hands, Dereferenced, Adding
<1>3. ~Unversioned(t)' /\ \A u \in Timers \ {t} : Unversioned(u)' <=> Unversioned(u)
  <2>1. \A d \in Callers : pc[d] = "version" /\ loc[d].tm = t => d = c
    BY <1>1 DEF Apart, Hands
  <2> QED
    BY <1>1, <2>1 DEF Unversioned
<1>4. \A u \in Timers : CurrentFate(u)' = CurrentFate(u)
  BY <1>1 DEF CurrentFate
<1>5. IdsInOrder'
  BY <1>1, NumberSets DEF IdsInOrder, TypeOK
<1>6. IdsCurrent'
  <2> SUFFICES ASSUME NEW u \in Timers
               PROVE  /\ timer_id'[u] = 0 => version'[u] = 0 /\ u \in free'
                      /\ Unversioned(u)' => version'[u] < timer_id'[u] /\ CurrentFate(u)' = "pending"
                      /\ timer_id'[u] \in Versions /\ ~Unversioned(u)' => VersionTells(u)'
                      /\ timer_id'[u] \in Versions /\ u \in free' => CurrentFate(u)' \in Settled
                      /\ timer_id'[u] \in Versions /\ CurrentFate(u)' = "dropped"
                            => u \in free' /\ tpc' = "done"
    BY DEF IdsCurrent
  <2>1. CASE u = t
    BY <1>1, <1>2, <1>3, <1>4, <2>1, VersionGap DEF IdsCurrent, VersionTells
  <2>2. CASE u # t
    BY <1>1, <1>3, <1>4, <2>2 DEF IdsCurrent, VersionTells
  <2> QED
    BY <2>1, <2>2
<1>7. RunKnows'
  BY <1>1, <1>4 DEF RunKnows, Dereferenced
<1>8. \A d \in Callers : Cancelling(d)' => Cancelling(d) /\ pc'[d] = pc[d]
  BY <1>1 DEF Cancelling
<1>9. CallersKnow'
  BY <1>1, <1>8 DEF CallersKnow, Cancelling
<1>10. CancelVerdict' /\ AssertsHold'
  BY <1>1, <1>8 DEF CancelVerdict, AssertsHold, Cancelling
<1> QED
  BY <1>1, <1>5, <1>6, <1>7, <1>9, <1>10

\* The steps of cancel_timer that change no version: they leave everything but
\* the label and the locals of their caller.
LEMMA FateLook ==
  ASSUME WakeInv, TypeOK', FateInv, NEW c \in Callers,
         UNCHANGED <<timer_id, version, fate, free, run_time, tpc, tmp, stop, thread, now, failed>>,
         pc[c] # "version", pc'[c] \in {"ccas", "cload", "ret"},
         \A d \in Callers \ {c} : pc'[d] = pc[d] /\ loc'[d] = loc[d],
         fate[loc'[c].tm][loc'[c].id] # "none",
         \A d \in Callers \ {c} :
            pc[d] = "version" /\ loc[d].tm = loc'[c].tm => loc[d].id # loc'[c].id,
         pc'[c] = "ccas" => /\ loc'[c].seen = loc'[c].id
                            /\ loc'[c].was = "cancelled" => fate[loc'[c].tm][loc'[c].id] = "cancelled",
         pc'[c] # "ccas" => fate[loc'[c].tm][loc'[c].id] # "pending",
         pc'[c] = "ret" => loc'[c].ret # 0
  PROVE  FateInv'
<1> USE DEF FateInv
<1>1. \A t \in Timers : Unversioned(t)' <=> Unversioned(t)
  BY DEF Unversioned
<1>2. \A t \in Timers : CurrentFate(t)' = CurrentFate(t)
  BY DEF CurrentFate
<1>3. IdsInOrder' /\ AssertsHold'
  BY DEF IdsInOrder, AssertsHold
<1>4. IdsCurrent'
  BY <1>1, <1>2 DEF IdsCurrent, VersionTells
<1>5. RunKnows'
  BY <1>2 DEF RunKnows, WakeInv, Dereferenced
<1>6. CallersKnow'
  BY DEF CallersKnow, Cancelling
<1>7. CancelVerdict'
  BY DEF CancelVerdict
<1> QED
  BY <1>3, <1>4, <1>5, <1>6, <1>7

\* cancel_timer is called: an id that is not the timer's is settled.
LEMMA FateCheck ==
  ASSUME WakeInv, TypeOK', FateInv, NEW c \in Callers, NEW t \in Timers, NEW v \in Versions,
         CancelCheck(c, t, v)
  PROVE  FateInv' /\ fate' = fate
<1>1. /\ pc[c] = "idle" /\ pc'[c] = IF timer_id[t] = v THEN "ccas" ELSE "ret"
      /\ loc'[c].tm = t /\ loc'[c].id = v /\ loc'[c].seen = v /\ loc'[c].was = fate[t][v]
      /\ loc'[c].ret = -1
      /\ \A d \in Callers \ {c} : pc'[d] = pc[d] /\ loc'[d] = loc[d]
      /\ fate[t][v] # "none"
      /\ \A d \in Callers : pc[d] = "version" /\ loc[d].tm = t => loc[d].id # v
      /\ UNCHANGED <<timer_id, version, fate, free, run_time, tpc, tmp, stop, thread, now, failed>>
  BY DEF CancelCheck, WakeInv, TypeOK, Goto, NoLocals, Issued, Adding, store, timers, life, run, pulls, world
<1>2. timer_id[t] # v => fate[t][v] \in Settled
  <2>1. timer_id[t] \in Nat /\ v \in Nat
    BY NumberSets DEF WakeInv, TypeOK
  <2> QED
    BY <1>1, <2>1 DEF FateInv, IdsInOrder
<1> QED
  BY <1>1, <1>2, FateLook DEF Settled

\* The version of a timer when one of its ids is being cancelled
LEMMA CancelSees ==
  ASSUME WakeInv, FateInv, NEW c \in Callers, Cancelling(c)
  PROVE  LET t == loc[c].tm
             id == loc[c].id
         IN /\ t \in Timers /\ id \in Versions /\ timer_id[t] \in Versions /\ id <= timer_id[t]
            /\ version[t] = id => fate[t][id] \in {"pending", "dropped"}
            /\ version[t] # id => fate[t][id] # "pending"
            /\ version[t] = id /\ id # timer_id[t] => Unversioned(t)
<1> DEFINE t == loc[c].tm
           id == loc[c].id
<1>1. t \in Timers /\ id \in Versions /\ fate[t][id] # "none"
  BY DEF WakeInv, FateInv, Dereferenced, CallersKnow
<1>2. id \in Nat \ {0} /\ timer_id[t] \in Nat /\ timer_id[t] \in Versions \cup {0} /\ version[t] \in Nat
  BY <1>1, NumberSets, VersionGap DEF WakeInv, TypeOK
<1>3. id <= timer_id[t] /\ timer_id[t] \in Versions
  <2>1. ~(id > timer_id[t])
    BY <1>1 DEF FateInv, IdsInOrder
  <2> QED
    BY <1>2, <2>1
<1>4. Unversioned(t) => id # timer_id[t]
  BY <1>1 DEF FateInv, CallersKnow, Unversioned
<1>5. id < timer_id[t] => fate[t][id] \in Settled /\ (version[t] = id => fate[t][id] = "dropped")
  BY <1>1 DEF FateInv, IdsInOrder
<1>6. ~Unversioned(t) => VersionTells(t)
  BY <1>1, <1>3 DEF FateInv, IdsCurrent
<1>7. version[t] = id /\ id # timer_id[t] => Unversioned(t)
  <2>1. VersionTells(t) => version[t] >= timer_id[t]
    BY <1>2 DEF VersionTells
  <2> QED
    BY <1>2, <1>3, <1>6, <2>1
<1>8. id < timer_id[t] \/ (id = timer_id[t] /\ VersionTells(t))
  <2>1. id < timer_id[t] \/ id = timer_id[t]
    BY <1>2, <1>3
  <2>2. CASE id = timer_id[t]
    BY <1>4, <1>6, <2>2, Zenon
  <2> QED
    BY <2>1, <2>2
<1>9. /\ version[t] = id => fate[t][id] \in {"pending", "dropped"}
      /\ version[t] # id => fate[t][id] # "pending"
  BY <1>1, <1>2, <1>5, <1>6, <1>8 DEF VersionTells, CurrentFate, Settled
<1> QED
  BY <1>1, <1>3, <1>7, <1>9

\* cancel_timer comes too late, ...
LEMMA FateTooLate ==
  ASSUME WakeInv, TypeOK', FateInv, NEW c \in Callers,
         (CancelCas(c) /\ ~CancelWins(c)) \/ CancelLoad(c)
  PROVE  FateInv' /\ fate' = fate
<1>1. /\ pc[c] \in {"ccas", "cload"} /\ pc'[c] \in {"cload", "ret"}
      /\ loc'[c].tm = loc[c].tm /\ loc'[c].id = loc[c].id
      /\ pc'[c] = "ret" => loc'[c].ret # 0
      /\ \A d \in Callers \ {c} : pc'[d] = pc[d] /\ loc'[d] = loc[d]
      /\ UNCHANGED <<timer_id, version, fate, free, run_time, tpc, tmp, stop, thread, now, failed>>
  <2>1. loc[c] \in Locals
    BY DEF WakeInv, TypeOK
  <2>2. CASE CancelCas(c) /\ ~CancelWins(c)
    BY <2>1, <2>2 DEF CancelCas, WakeInv, TypeOK, Goto, Locals, store, timers, life, run, pulls, world
  <2>3. CASE CancelLoad(c)
    BY <2>1, <2>3 DEF CancelLoad, WakeInv, TypeOK, Goto, Locals, store, timers, life, run, pulls, world
  <2> QED
    BY <2>2, <2>3
<1>2. fate[loc[c].tm][loc[c].id] # "pending"
  <2>1. CASE pc[c] = "ccas"
    BY <1>1, <2>1, CancelSees DEF CancelCas, CancelLoad, CancelWins, FateInv, CallersKnow, Cancelling
  <2>2. CASE pc[c] = "cload"
    BY <2>2 DEF FateInv, CallersKnow
  <2> QED
    BY <1>1, <2>1, <2>2
<1>3. /\ fate[loc[c].tm][loc[c].id] # "none"
      /\ \A d \in Callers : pc[d] = "version" /\ loc[d].tm = loc[c].tm => loc[d].id # loc[c].id
  BY <1>1 DEF FateInv, CallersKnow, Cancelling
<1> QED
  BY <1>1, <1>2, <1>3, FateLook

\* ... or in time: the id, pending or given up, is cancelled, for one caller.
LEMMA FateCancel ==
  ASSUME WakeInv, TypeOK', FateInv, NEW c \in Callers, CancelCas(c), CancelWins(c)
  PROVE  /\ FateInv'
         /\ \A u \in Timers, v \in Versions : fate'[u][v] # fate[u][v] =>
               fate[u][v] \in {"pending", "dropped"} /\ fate'[u][v] = "cancelled"
<1> USE DEF WakeInv, FateInv
<1> DEFINE t == loc[c].tm
           id == loc[c].id
<1>1. /\ pc[c] = "ccas" /\ pc'[c] = "ret" /\ version[t] = loc[c].seen
      /\ loc'[c].tm = t /\ loc'[c].id = id /\ loc'[c].ret = 0 /\ loc'[c].was = loc[c].was
      /\ \A d \in Callers \ {c} : pc'[d] = pc[d] /\ loc'[d] = loc[d]
      /\ version' = [version EXCEPT ![t] = loc[c].seen + 2]
      /\ fate' = [fate EXCEPT ![t][id] = "cancelled"]
      /\ UNCHANGED <<timer_id, run_time, free, tpc, tmp, stop, thread, now, failed>>
  <2>1. loc[c] \in Locals
    BY DEF TypeOK
  <2> QED
    BY <2>1 DEF CancelCas, CancelWins, Cancelled, TypeOK, Goto, Locals, life, run, pulls, world
<1>2. /\ t \in Timers /\ id \in Versions /\ timer_id[t] \in Versions /\ id <= timer_id[t]
      /\ version[t] = id => fate[t][id] \in {"pending", "dropped"}
      /\ version[t] = id /\ id # timer_id[t] => Unversioned(t)
  BY <1>1, CancelSees DEF Cancelling
<1>3. loc[c].seen = id /\ (loc[c].was = "cancelled" => fate[t][id] = "cancelled")
  BY <1>1 DEF CallersKnow
<1>4. /\ version'[t] = id + 2 /\ \A u \in Timers \ {t} : version'[u] = version[u]
      /\ fate[t][id] \in {"pending", "dropped"}
      /\ id # timer_id[t] => Unversioned(t)
      /\ version[t] = id
  BY <1>1, <1>2, <1>3 DEF TypeOK
<1>5. \A u \in Timers, v \in Versions :
         fate'[u][v] = IF u = t /\ v = id THEN "cancelled" ELSE fate[u][v]
  BY <1>1, <1>2 DEF TypeOK
<1>6. \A u \in Timers : Unversioned(u)' <=> Unversioned(u)
  BY <1>1 DEF Unversioned
<1>7. Unversioned(t) => id # timer_id[t]
  BY <1>1, <1>2 DEF CallersKnow, Unversioned, Cancelling
<1>8. \A u \in Timers : timer_id[u] \in Versions =>
         CurrentFate(u)' = IF u = t /\ id = timer_id[t] THEN "cancelled" ELSE CurrentFate(u)
  BY <1>1, <1>5 DEF CurrentFate
<1>9. id \in Nat /\ timer_id[t] \in Nat
  BY <1>2, NumberSets
<1>10. IdsInOrder'
  <2> SUFFICES ASSUME NEW u \in Timers, NEW v \in Versions
               PROVE  /\ v > timer_id'[u] => fate'[u][v] = "none"
                      /\ v < timer_id'[u] => fate'[u][v] \in Settled
                      /\ v < timer_id'[u] /\ version'[u] = v => fate'[u][v] = "dropped"
    BY DEF IdsInOrder
  <2>1. CASE u # t
    BY <1>1, <1>4, <1>5, <2>1 DEF IdsInOrder
  <2>2. CASE u = t
    <3>1. version'[t] # v
      <4>1. id < v => id + 3 <= v
        BY <1>2, VersionGap
      <4>2. v \in Nat
        BY NumberSets
      <4> QED
        BY <1>4, <1>9, <4>1, <4>2
    <3>2. v = id => ~(v > timer_id[t])
      BY <1>2, <1>9
    <3> QED
      BY <1>1, <1>5, <2>2, <3>1, <3>2 DEF IdsInOrder, Settled
  <2> QED
    BY <2>1, <2>2
<1>11. IdsCurrent'
  <2> SUFFICES ASSUME NEW u \in Timers
               PROVE  /\ timer_id'[u] = 0 => version'[u] = 0 /\ u \in free'
                      /\ Unversioned(u)' => version'[u] < timer_id'[u] /\ CurrentFate(u)' = "pending"
                      /\ timer_id'[u] \in Versions /\ ~Unversioned(u)' => VersionTells(u)'
                      /\ timer_id'[u] \in Versions /\ u \in free' => CurrentFate(u)' \in Settled
                      /\ timer_id'[u] \in Versions /\ CurrentFate(u)' = "dropped"
                            => u \in free' /\ tpc' = "done"
    BY DEF IdsCurrent
  <2>1. CASE u # t
    <3>1. u \in Timers \ {t}
      BY <2>1
    <3>2. CASE timer_id[u] = 0
      <4>1. ~Unversioned(u)
        BY <3>2, VersionGap DEF Dereferenced, Unversioned, CallersKnow, Adding
      <4> QED
        BY <1>1, <1>4, <1>6, <3>1, <3>2, <4>1, VersionGap DEF IdsCurrent
    <3>3. CASE timer_id[u] \in Versions
      BY <1>1, <1>4, <1>6, <1>8, <3>1, <3>3 DEF IdsCurrent, VersionTells
    <3> QED
      BY <3>2, <3>3 DEF TypeOK
  <2>2. CASE u = t
    <3>1. timer_id[t] # 0
      BY <1>2, VersionGap
    <3>2. CASE id = timer_id[t]
      <4>1. ~Unversioned(u)' /\ CurrentFate(u)' = "cancelled"
        BY <1>2, <1>6, <1>7, <1>8, <2>2, <3>2
      <4> QED
        BY <1>1, <1>4, <2>2, <3>1, <3>2, <4>1 DEF VersionTells, Settled
    <3>3. CASE id # timer_id[t]
      <4>1. id + 2 < timer_id[t]
        <5>1. id < timer_id[t] => id + 3 <= timer_id[t]
          BY <1>2, VersionGap
        <5> QED
          BY <1>2, <1>9, <3>3, <5>1
      <4>2. Unversioned(u) /\ Unversioned(u)' /\ CurrentFate(u)' = CurrentFate(u)
        BY <1>2, <1>4, <1>6, <1>8, <2>2, <3>3
      <4> QED
        BY <1>1, <1>4, <2>2, <3>1, <4>1, <4>2 DEF IdsCurrent
    <3> QED
      BY <3>2, <3>3
  <2> QED
    BY <2>1, <2>2
<1>12. RunKnows'
  <2>1. tpc = "func" => CurrentFate(tmp)' = "running"
    <3>1. CASE tpc = "func" /\ timer_id[tmp] \in Versions
      <4>1. tmp \in Timers /\ CurrentFate(tmp) = "running"
        BY <3>1 DEF RunKnows, Dereferenced
      <4>2. ~(tmp = t /\ id = timer_id[t])
        BY <1>4, <4>1 DEF CurrentFate
      <4> QED
        BY <1>1, <1>5, <3>1, <4>1, <4>2 DEF CurrentFate
    <3>2. CASE tpc = "func" /\ timer_id[tmp] = 0
      <4>1. tmp \in Timers /\ tmp # t
        BY <1>2, <3>2, VersionGap DEF Dereferenced
      <4>2. CurrentFate(tmp)' = CurrentFate(tmp)
        BY <1>1, <4>1 DEF CurrentFate, TypeOK
      <4> QED
        BY <3>2, <4>2 DEF RunKnows
    <3> QED
      BY <3>1, <3>2 DEF TypeOK, Dereferenced
  <2> QED
    BY <1>1, <2>1 DEF RunKnows, Dereferenced
<1>13. ASSUME NEW d \in Callers, Cancelling(d)'
       PROVE  /\ Cancelling(d) /\ loc'[d].tm = loc[d].tm /\ loc'[d].id = loc[d].id
              /\ d # c => loc'[d] = loc[d] /\ pc'[d] = pc[d]
              /\ loc[d].tm \in Timers /\ loc[d].id \in Versions
  BY <1>1, <1>13 DEF Cancelling, Dereferenced
<1>14. CallersKnow'
  <2>1. ASSUME NEW d \in Callers, pc'[d] = "version" PROVE loc'[d].id = timer_id'[loc'[d].tm]
    BY <1>1, <2>1 DEF CallersKnow
  <2>2. ASSUME NEW d \in Callers, Cancelling(d)'
        PROVE  /\ fate'[loc'[d].tm][loc'[d].id] # "none"
               /\ \A e \in Callers :
                     pc'[e] = "version" /\ loc'[e].tm = loc'[d].tm => loc'[e].id # loc'[d].id
               /\ pc'[d] = "ccas" =>
                     /\ loc'[d].seen = loc'[d].id
                     /\ loc'[d].was = "cancelled" => fate'[loc'[d].tm][loc'[d].id] = "cancelled"
               /\ pc'[d] = "cload" => fate'[loc'[d].tm][loc'[d].id] # "pending"
    <3>1. /\ fate'[loc[d].tm][loc[d].id] \in {"cancelled", fate[loc[d].tm][loc[d].id]}
      BY <1>5, <1>13, <2>2
    <3> QED
      BY <1>1, <1>13, <2>2, <3>1 DEF CallersKnow
  <2> QED
    BY <2>1, <2>2 DEF CallersKnow, Cancelling
<1>15. CancelVerdict'
  <2> SUFFICES ASSUME NEW d \in Callers, pc'[d] = "ret"
               PROVE  /\ fate'[loc'[d].tm][loc'[d].id] # "pending"
                      /\ loc'[d].ret = 0 =>
                           /\ fate'[loc'[d].tm][loc'[d].id] = "cancelled" /\ loc'[d].was # "cancelled"
                           /\ \A e \in Callers \ {d} : pc'[e] = "ret" /\ loc'[e].ret = 0 =>
                                 <<loc'[e].tm, loc'[e].id>> # <<loc'[d].tm, loc'[d].id>>
    BY DEF CancelVerdict
  <2>1. \A e \in Callers \ {c} : pc'[e] = "ret" =>
           /\ pc[e] = "ret" /\ loc'[e] = loc[e] /\ loc[e].tm \in Timers /\ loc[e].id \in Versions
           /\ fate'[loc[e].tm][loc[e].id] \in {"cancelled", fate[loc[e].tm][loc[e].id]}
           /\ loc[e].ret = 0 => ~(loc[e].tm = t /\ loc[e].id = id)
    BY <1>1, <1>4, <1>5, <1>13 DEF CancelVerdict, Cancelling
  <2>2. fate'[t][id] = "cancelled" /\ loc[c].was # "cancelled"
    BY <1>2, <1>3, <1>4, <1>5
  <2>3. CASE d = c
    BY <1>1, <2>1, <2>2, <2>3
  <2>4. CASE d # c
    BY <1>1, <2>1, <2>4 DEF CancelVerdict
  <2> QED
    BY <2>3, <2>4
<1>16. AssertsHold'
  BY <1>1 DEF AssertsHold
<1> QED
  BY <1>4, <1>5, <1>10, <1>11, <1>12, <1>14, <1>15, <1>16

\* run_and_delete moves the id of its timer one step forward: version + 1 when
\* it begins to run, version + 2 when it is finished.
LEMMA FateOfRun ==
  ASSUME WakeInv, TypeOK', FateInv, NEW f \in {"running", "finished"},
         tpc = (IF f = "running" THEN "run" ELSE "func"),
         tpc' = (IF f = "running" THEN "func" ELSE "heap"),
         tmp' = (IF f = "running" THEN tmp ELSE NoTimer),
         free' = (IF f = "running" THEN free ELSE free \cup {tmp}),
         timer_id[tmp] \in Versions,
         CurrentFate(tmp) = (IF f = "running" THEN "pending" ELSE "running"),
         version' = [version EXCEPT ![tmp] = timer_id[tmp] + (IF f = "running" THEN 1 ELSE 2)],
         Becomes(tmp, f),
         UNCHANGED <<timer_id, run_time, pc, loc, stop, thread, now, failed>>
  PROVE  /\ FateInv'
         /\ \A u \in Timers, v \in Versions : fate'[u][v] # fate[u][v] =>
               u = tmp /\ fate[u][v] = CurrentFate(tmp) /\ fate'[u][v] = f
<1> USE DEF WakeInv, FateInv
<1>1. /\ tmp \in Timers /\ Runs(tmp) /\ ~Unversioned(tmp) /\ tmp \notin free
      /\ timer_id[tmp] \in Nat /\ timer_id[tmp] # 0
  BY NumberSets, VersionGap DEF Dereferenced, Runs, Apart, Hands, Unversioned
<1> DEFINE id == timer_id[tmp]
<1>2. /\ version'[tmp] = id + (IF f = "running" THEN 1 ELSE 2)
      /\ \A u \in Timers \ {tmp} : version'[u] = version[u]
  BY <1>1 DEF TypeOK
<1>3. \A u \in Timers, v \in Versions :
         fate'[u][v] = IF u = tmp /\ v = id THEN f ELSE fate[u][v]
  BY <1>1 DEF TypeOK, Becomes
<1>4. fate[tmp][id] = IF f = "running" THEN "pending" ELSE "running"
  BY DEF CurrentFate
<1>5. \A u \in Timers : Unversioned(u)' <=> Unversioned(u)
  BY DEF Unversioned
<1>6. \A u \in Timers \ {tmp} : CurrentFate(u)' = CurrentFate(u)
  BY <1>1 DEF CurrentFate, TypeOK, Becomes
<1>7. \A u \in Timers : u = tmp => CurrentFate(u)' = f
  BY <1>1, <1>3 DEF CurrentFate
<1>8. IdsInOrder'
  <2> SUFFICES ASSUME NEW u \in Timers, NEW v \in Versions
               PROVE  /\ v > timer_id'[u] => fate'[u][v] = "none"
                      /\ v < timer_id'[u] => fate'[u][v] \in Settled
                      /\ v < timer_id'[u] /\ version'[u] = v => fate'[u][v] = "dropped"
    BY DEF IdsInOrder
  <2>1. CASE u # tmp
    BY <1>2, <1>3, <2>1 DEF IdsInOrder
  <2>2. CASE u = tmp
    <3>1. v \in Nat
      BY NumberSets
    <3>2. v < id => version'[tmp] # v
      BY <1>1, <1>2, <3>1
    <3>3. v = id => ~(v > id) /\ ~(v < id)
      BY <1>1
    <3> QED
      BY <1>1, <1>3, <2>2, <3>2, <3>3 DEF IdsInOrder
  <2> QED
    BY <2>1, <2>2
<1>9. IdsCurrent'
  <2> SUFFICES ASSUME NEW u \in Timers
               PROVE  /\ timer_id'[u] = 0 => version'[u] = 0 /\ u \in free'
                      /\ Unversioned(u)' => version'[u] < timer_id'[u] /\ CurrentFate(u)' = "pending"
                      /\ timer_id'[u] \in Versions /\ ~Unversioned(u)' => VersionTells(u)'
                      /\ timer_id'[u] \in Versions /\ u \in free' => CurrentFate(u)' \in Settled
                      /\ timer_id'[u] \in Versions /\ CurrentFate(u)' = "dropped"
                            => u \in free' /\ tpc' = "done"
    BY DEF IdsCurrent
  <2>1. CASE u # tmp
    BY <1>2, <1>5, <1>6, <2>1 DEF IdsCurrent, VersionTells
  <2>2. CASE u = tmp
    <3>1. CurrentFate(u)' = f /\ ~Unversioned(u)'
      BY <1>1, <1>5, <1>7, <2>2
    <3> QED
      BY <1>1, <1>2, <2>2, <3>1 DEF VersionTells, Settled
  <2> QED
    BY <2>1, <2>2
<1>10. RunKnows'
  <2>1. tpc' = "func" => CurrentFate(tmp)' = "running"
    BY <1>1, <1>3 DEF CurrentFate
  <2> QED
    BY <2>1 DEF RunKnows
<1>11. \A c \in Callers : Cancelling(c) =>
          fate'[loc[c].tm][loc[c].id] =
             IF loc[c].tm = tmp /\ loc[c].id = id THEN f ELSE fate[loc[c].tm][loc[c].id]
  BY <1>3 DEF Dereferenced
<1>12. CallersKnow'
  BY <1>4, <1>11 DEF CallersKnow, Cancelling
<1>13. CancelVerdict'
  BY <1>4, <1>11 DEF CancelVerdict, Cancelling
<1>14. AssertsHold'
  BY DEF AssertsHold
<1> QED
  BY <1>3, <1>4, <1>8, <1>9, <1>10, <1>12, <1>13, <1>14

\* A timer is run whose id is pending, at its time or later, ...
LEMMA FateRun ==
  ASSUME WakeInv, TypeOK', FateInv, RunCas, RunWins
  PROVE  /\ FateInv'
         /\ \A u \in Timers, v \in Versions : fate'[u][v] # fate[u][v] =>
               /\ fate[u][v] = "pending" /\ fate'[u][v] = "running"
               /\ run_time[u] <= now
<1>1. /\ tpc = "run" /\ tpc' = "func" /\ tmp' = tmp /\ free' = free /\ Becomes(tmp, "running")
      /\ version' = [version EXCEPT ![tmp] = timer_id[tmp] + 1] /\ version[tmp] = timer_id[tmp]
      /\ UNCHANGED <<timer_id, run_time, pc, loc, stop, thread, now, failed>>
  BY DEF RunCas, RunWins, calls, life
<1>2. /\ tmp \in Timers /\ tmp \notin free /\ ~Unversioned(tmp)
      /\ timer_id[tmp] \in Versions \cup {0} /\ timer_id[tmp] \in Nat
  BY <1>1, NumberSets DEF WakeInv, TypeOK, Dereferenced, Apart, Runs, Hands, Unversioned
<1>3. timer_id[tmp] \in Versions
  BY <1>2 DEF FateInv, IdsCurrent
<1>4. CurrentFate(tmp) = "pending"
  BY <1>1, <1>2, <1>3 DEF FateInv, IdsCurrent, VersionTells
<1>5. run_time[tmp] <= now
  BY <1>1 DEF FateInv, RunKnows
<1> QED
  BY <1>1, <1>3, <1>4, <1>5, FateOfRun

\* ... and its callback returns once.
LEMMA FateFinish ==
  ASSUME WakeInv, TypeOK', FateInv, RunFinish
  PROVE  /\ FateInv'
         /\ \A u \in Timers, v \in Versions : fate'[u][v] # fate[u][v] =>
               fate[u][v] = "running" /\ fate'[u][v] = "finished"
<1>1. /\ tpc = "func" /\ tpc' = "heap" /\ tmp' = NoTimer /\ free' = free \cup {tmp}
      /\ Becomes(tmp, "finished")
      /\ version' = [version EXCEPT ![tmp] = timer_id[tmp] + 2]
      /\ UNCHANGED <<timer_id, run_time, pc, loc, stop, thread, now, failed>>
  BY DEF RunFinish, Release, calls, life, world
<1>2. CurrentFate(tmp) = "running"
  BY <1>1 DEF FateInv, RunKnows
<1>3. timer_id[tmp] \in Versions
  <2>1. tmp \in Timers /\ tmp \notin free /\ timer_id[tmp] \in Versions \cup {0}
    BY <1>1 DEF WakeInv, TypeOK, Dereferenced, Apart, Runs
  <2> QED
    BY <2>1 DEF FateInv, IdsCurrent
<1> QED
  BY <1>1, <1>2, <1>3, FateOfRun

\* Timers that a stopped timer thread gives up: an id is dropped only if it was
\* pending, and only after the thread has ended.
LEMMA FateDrop ==
  ASSUME WakeInv, TypeOK', FateInv, NEW ts \in SUBSET Timers, Drop(ts),
         \A t \in ts : t \notin free /\ ~Unversioned(t) /\ ~Runs(t),
         tpc \in {"exit", "done"}, tpc' = "done", stop' = stop,
         UNCHANGED <<timer_id, version, run_time, pc, loc, failed>>
  PROVE  /\ FateInv'
         /\ \A u \in Timers, v \in Versions : fate'[u][v] # fate[u][v] =>
               fate[u][v] = "pending" /\ fate'[u][v] = "dropped"
<1> USE DEF WakeInv, FateInv
<1> DEFINE given(u) == u \in ts /\ timer_id[u] \in Versions /\ CurrentFate(u) = "pending"
<1>1. \A u \in Timers, v \in Versions :
         fate'[u][v] = IF given(u) /\ v = timer_id[u] THEN "dropped" ELSE fate[u][v]
  BY DEF Drop, TypeOK, CurrentFate
<1>2. free' = free \cup ts
  BY DEF Drop, Release
<1>3. \A u \in Timers : Unversioned(u)' <=> Unversioned(u)
  BY DEF Unversioned
<1>4. \A u \in Timers : timer_id[u] \in Versions =>
         CurrentFate(u)' = IF given(u) THEN "dropped" ELSE CurrentFate(u)
  BY <1>1 DEF CurrentFate
<1>5. \A u \in Timers : timer_id[u] \in Versions \cup {0} /\ timer_id[u] \in Nat
  BY NumberSets DEF TypeOK
<1>6. IdsInOrder'
  <2> SUFFICES ASSUME NEW u \in Timers, NEW v \in Versions
               PROVE  /\ v > timer_id'[u] => fate'[u][v] = "none"
                      /\ v < timer_id'[u] => fate'[u][v] \in Settled
                      /\ v < timer_id'[u] /\ version'[u] = v => fate'[u][v] = "dropped"
    BY DEF IdsInOrder
  <2>1. v = timer_id[u] => ~(v > timer_id[u]) /\ ~(v < timer_id[u])
    BY <1>5
  <2> QED
    BY <1>1, <2>1 DEF IdsInOrder
<1>7. IdsCurrent'
  <2> SUFFICES ASSUME NEW u \in Timers
               PROVE  /\ timer_id'[u] = 0 => version'[u] = 0 /\ u \in free'
                      /\ Unversioned(u)' => version'[u] < timer_id'[u] /\ CurrentFate(u)' = "pending"
                      /\ timer_id'[u] \in Versions /\ ~Unversioned(u)' => VersionTells(u)'
                      /\ timer_id'[u] \in Versions /\ u \in free' => CurrentFate(u)' \in Settled
                      /\ timer_id'[u] \in Versions /\ CurrentFate(u)' = "dropped"
                            => u \in free' /\ tpc' = "done"
    BY DEF IdsCurrent
  <2>1. timer_id[u] = 0 => ~Unversioned(u)
    BY VersionGap DEF Unversioned, CallersKnow, Dereferenced, Adding
  <2>2. CASE timer_id[u] = 0
    BY <1>2, <1>3, <2>1, <2>2, VersionGap DEF IdsCurrent
  <2>3. CASE timer_id[u] \in Versions /\ given(u)
    <3>1. CurrentFate(u)' = "dropped" /\ u \in free' /\ ~Unversioned(u)' /\ ~Unversioned(u)
      BY <1>2, <1>3, <1>4, <2>3
    <3>2. version[u] = timer_id[u]
      BY <2>3, <3>1 DEF IdsCurrent, VersionTells
    <3>3. timer_id[u] # 0
      BY <2>3, VersionGap
    <3> QED
      BY <3>1, <3>2, <3>3 DEF VersionTells, Settled
  <2>4. CASE timer_id[u] \in Versions /\ ~given(u)
    <3>1. CurrentFate(u)' = CurrentFate(u) /\ timer_id[u] # 0
      BY <1>4, <2>4, VersionGap
    <3>2. ~Unversioned(u) => VersionTells(u)
      BY <2>4 DEF IdsCurrent
    <3>3. VersionTells(u) => VersionTells(u)'
      BY <3>1 DEF VersionTells
    <3>4. u \in ts => CurrentFate(u) \in Settled
      <4>1. u \in ts => VersionTells(u) /\ CurrentFate(u) # "pending"
        BY <2>4, <3>2
      <4> QED
        BY <4>1 DEF VersionTells, Settled
    <3> QED
      BY <1>2, <1>3, <2>4, <3>1, <3>2, <3>3, <3>4 DEF IdsCurrent
  <2> QED
    BY <1>5, <2>2, <2>3, <2>4
<1>8. RunKnows'
  BY DEF RunKnows
<1>9. \A u \in Timers, v \in Versions : fate'[u][v] # fate[u][v] =>
         fate[u][v] = "pending" /\ fate'[u][v] = "dropped"
  BY <1>1 DEF CurrentFate
<1>10. \A c \in Callers :
          Cancelling(c) /\ fate'[loc[c].tm][loc[c].id] # fate[loc[c].tm][loc[c].id] =>
             fate[loc[c].tm][loc[c].id] = "pending" /\ fate'[loc[c].tm][loc[c].id] = "dropped"
  BY <1>9 DEF Dereferenced
<1>11. CallersKnow'
  BY <1>10 DEF CallersKnow, Cancelling
<1>12. CancelVerdict'
  BY <1>10 DEF CancelVerdict, Cancelling
<1>13. AssertsHold'
  BY DEF AssertsHold
<1> QED
  BY <1>6, <1>7, <1>8, <1>9, <1>11, <1>12, <1>13

\* The timer thread ends, or the TimerControl is destroyed after it has ended.
LEMMA FateEnd ==
  ASSUME WakeInv, TypeOK', FateInv, NEW c \in Callers, RunExit \/ Destroy(c)
  PROVE  /\ FateInv'
         /\ \A u \in Timers, v \in Versions : fate'[u][v] # fate[u][v] =>
               fate[u][v] = "pending" /\ fate'[u][v] = "dropped"
<1>1. CASE RunExit
  <2>1. /\ tpc = "exit" /\ tpc' = "done" /\ Drop(tm_heap) /\ tm_heap \in SUBSET Timers
        /\ UNCHANGED <<timer_id, version, run_time, pc, loc, stop>>
    BY <1>1 DEF RunExit, WakeInv, TypeOK, timers, calls, life
  <2>2. failed' = failed
    BY <1>1, <2>1 DEF RunExit, Check, FateInv, RunKnows
  <2>3. \A t \in tm_heap : t \notin free /\ ~Unversioned(t) /\ ~Runs(t)
    BY <2>1 DEF WakeInv, Apart, Unversioned, Hands
  <2> QED
    BY <2>1, <2>2, <2>3, FateDrop
<1>2. CASE Destroy(c)
  <2> DEFINE left == UNION {head[b] : b \in Buckets}
  <2>1. /\ thread = "joined" /\ tpc' = tpc /\ Drop(left) /\ left \in SUBSET Timers
        /\ UNCHANGED <<timer_id, version, run_time, pc, loc, stop, failed>>
    BY <1>2 DEF Destroy, WakeInv, TypeOK, timers, calls, run, world
  <2>2. tpc = "done"
    BY <2>1 DEF FateInv, RunKnows
  <2>3. \A t \in left : t \notin free /\ ~Unversioned(t) /\ ~Runs(t)
    BY <2>1 DEF WakeInv, Apart, Unversioned, Hands
  <2> HIDE DEF left
  <2> QED
    BY <2>1, <2>2, <2>3, FateDrop
<1> QED
  BY <1>1, <1>2

\* Every step keeps FateInv, and moves a fate only forward.
LEMMA FateNext ==
  ASSUME WakeInv, FateInv, [Next]_vars
  PROVE  /\ FateInv'
         /\ \A t \in Timers, v \in Versions : fate'[t][v] # fate[t][v] =>
               /\ <<fate[t][v], fate'[t][v]>> \in
                     {<<"none", "pending">>, <<"pending", "running">>, <<"running", "finished">>,
                      <<"pending", "cancelled">>, <<"pending", "dropped">>, <<"dropped", "cancelled">>}
               /\ fate'[t][v] = "running" => run_time[t] <= now
<1>1. TypeOK'
  BY TypeNext DEF WakeInv
<1>2. CASE \/ RunCheck \/ RunSetMax \/ RunReset \/ RunPull \/ RunHeap \/ RunDue
           \/ (RunCas /\ ~RunWins) \/ RunLoadSignal \/ RunLoadMin \/ RunClock \/ RunWait
           \/ Awaken \/ Tick \/ UNCHANGED vars
  BY <1>1, <1>2, QuietRun, QuietStep DEF Quiet
<1>3. ASSUME NEW c \in Callers,
             \/ AddBucket(c) \/ AddLoad(c) \/ AddCasOk(c) \/ AddCasFail(c) \/ WakeInc(c)
             \/ WakeFutex(c) \/ CancelReturn(c) \/ Join(c) \/ StopStore(c)
      PROVE  FateInv' /\ fate' = fate
  BY <1>1, <1>3, QuietContinue, QuietStep DEF Quiet
<1>4. ASSUME NEW c \in Callers, NEW t \in Timers, NEW rt \in Times, AddAcquire(c, t, rt)
      PROVE  /\ FateInv'
             /\ \A u \in Timers, v \in Versions : fate'[u][v] # fate[u][v] =>
                  fate[u][v] = "none" /\ fate'[u][v] = "pending"
  BY <1>1, <1>4, FateAcquire
<1>5. ASSUME NEW c \in Callers, AddVersion(c) PROVE FateInv' /\ fate' = fate
  BY <1>1, <1>5, FateVersion
<1>6. ASSUME NEW c \in Callers, NEW t \in Timers, NEW v \in Versions, CancelCheck(c, t, v)
      PROVE  FateInv' /\ fate' = fate
  BY <1>1, <1>6, FateCheck
<1>7. ASSUME NEW c \in Callers, (CancelCas(c) /\ ~CancelWins(c)) \/ CancelLoad(c)
      PROVE  FateInv' /\ fate' = fate
  BY <1>1, <1>7, FateTooLate
<1>8. ASSUME NEW c \in Callers, CancelCas(c) /\ CancelWins(c)
      PROVE  /\ FateInv'
             /\ \A u \in Timers, v \in Versions : fate'[u][v] # fate[u][v] =>
                  fate[u][v] \in {"pending", "dropped"} /\ fate'[u][v] = "cancelled"
  BY <1>1, <1>8, FateCancel
<1>9. ASSUME NEW c \in Callers, RunExit \/ Destroy(c)
      PROVE  /\ FateInv'
             /\ \A u \in Timers, v \in Versions : fate'[u][v] # fate[u][v] =>
                  fate[u][v] = "pending" /\ fate'[u][v] = "dropped"
  BY <1>1, <1>9, FateEnd
<1>10. CASE RunCas /\ RunWins
  BY <1>1, <1>10, FateRun
<1>11. CASE RunFinish
  BY <1>1, <1>11, FateFinish
<1>12. ASSUME NEW c \in Callers, Call(c)
       PROVE  /\ FateInv'
              /\ \A u \in Timers, v \in Versions : fate'[u][v] # fate[u][v] =>
                   <<fate[u][v], fate'[u][v]>> \in {<<"none", "pending">>, <<"pending", "dropped">>}
  BY <1>12, <1>3, <1>4, <1>6, <1>9 DEF Call
<1>13. ASSUME NEW c \in Callers, Continue(c)
       PROVE  /\ FateInv'
              /\ \A u \in Timers, v \in Versions : fate'[u][v] # fate[u][v] =>
                   <<fate[u][v], fate'[u][v]>> \in {<<"pending", "cancelled">>, <<"dropped", "cancelled">>}
  BY <1>13, <1>3, <1>5, <1>7, <1>8 DEF Continue
<1>14. CASE RunExit
  BY <1>9, <1>14, CallersAssumption
<1> QED
  BY <1>2, <1>10, <1>11, <1>12, <1>13, <1>14 DEF Next, RunStep, RunTimeout, RunInterrupted

\* Nothing has an id at first.
LEMMA FateInit == Init => FateInv
<1> SUFFICES ASSUME Init PROVE FateInv
  OBVIOUS
<1>1. \A v \in Versions : v \in Nat \ {0}
  BY NumberSets, VersionGap
<1>2. IdsInOrder
  BY <1>1 DEF Init, IdsInOrder
<1>3. IdsCurrent
  BY <1>1 DEF Init, IdsCurrent, Unversioned
<1>4. RunKnows /\ CallersKnow
  BY DEF Init, RunKnows, CallersKnow, Cancelling
<1>5. CancelVerdict /\ AssertsHold
  BY DEF Init, CancelVerdict, AssertsHold
<1> QED
  BY <1>2, <1>3, <1>4, <1>5 DEF FateInv

\* What timer_id and version of every timer say of the fate of its ids, in
\* every reachable state.
THEOREM FateInvariant == Spec => []FateInv
<1>1. WakeInv /\ FateInv /\ [Next]_vars => FateInv'
  BY FateNext
<1> QED
  BY <1>1, FateInit, WakeInvariant, PTL DEF Spec

\* The answer of cancel_timer is true of the id it was given, however often the
\* timer object was reused before, meanwhile or after.
THEOREM CancelTellsTruth == Spec => []CancelVerdict
<1>1. FateInv => CancelVerdict
  BY DEF FateInv
<1> QED
  BY <1>1, FateInvariant, PTL

\* TimerFactory::release gets only timers whose current id is finished,
\* cancelled, or given up by a timer thread that has ended.
THEOREM ReleasedSettled == Spec => []ReleasedIsSettled
<1>1. WakeInv /\ FateInv => ReleasedIsSettled
  BY DEF FateInv, WakeInv, TypeOK, IdsCurrent, CurrentFate, Settled, ReleasedIsSettled
<1> QED
  BY <1>1, FateInvariant, WakeInvariant, PTL

\* The asserts of try_delete and of the end of Run never abort the process.
THEOREM AssertsNeverFail == Spec => []AssertsHold
<1>1. FateInv => AssertsHold
  BY DEF FateInv
<1> QED
  BY <1>1, FateInvariant, PTL

\* An id is run at most once, not before its time, never after it was
\* cancelled or given up.
THEOREM FatesGoForward == Spec => FateForward
<1> DEFINE Forward ==
      \A t \in Timers, v \in Versions : fate'[t][v] # fate[t][v] =>
         /\ <<fate[t][v], fate'[t][v]>> \in
               {<<"none", "pending">>, <<"pending", "running">>, <<"running", "finished">>,
                <<"pending", "cancelled">>, <<"pending", "dropped">>, <<"dropped", "cancelled">>}
         /\ fate'[t][v] = "running" => run_time[t] <= now
<1>1. WakeInv /\ FateInv /\ [Next]_vars => [Forward]_vars
  BY FateNext
<1>2. FateForward <=> [][Forward]_vars
  BY DEF FateForward
<1> HIDE DEF Forward
<1> QED
  BY <1>1, <1>2, FateInvariant, WakeInvariant, PTL DEF Spec

=============================================================================
