--------------------------- MODULE SchedulerProofs ---------------------------
(***************************************************************************)
(* Type correctness of Scheduler, for every set of requests, models and    *)
(* runners and every value of the limits.  The type invariant alone is not *)
(* inductive: useLoadedRunner, Head(drain) and load dereference what the   *)
(* scheduler goroutine remembers, so TInv adds what its locals hold at     *)
(* each point of processOnePending (Frames).                               *)
(***************************************************************************)
EXTENDS Scheduler, FiniteSetTheorems, SequenceTheorems, TLAPS

\* What the scheduler goroutine's locals hold at each point of processOnePending.
Frames ==
    /\ pc \notin {"idle", "pop"} => cur \in Requests
    /\ pc = "load" => run \in Runners
    /\ pc = "drainUse" => drain # <<>>

TInv == TypeOK /\ Frames

\* InitScheduler starts well typed.
LEMMA TypeInit == Init => TInv
<1>. SUFFICES ASSUME Init PROVE TInv
  OBVIOUS
<1>. USE SchedulerAssumption DEF Init
<1>0. AnyModel \in Models
  BY DEF AnyModel
<1>1. RequestTypes
  BY <1>0 DEF RequestTypes, ReqPcs
<1>2. RunnerTypes
  BY <1>0 DEF RunnerTypes
<1>3. SharedTypes
  BY DEF SharedTypes
<1>4. LocalTypes /\ Frames
  BY DEF LocalTypes, Frames, Pcs
<1>5. FlagTypes
  BY DEF FlagTypes
<1>. QED
  BY <1>1, <1>2, <1>3, <1>4, <1>5 DEF TInv, TypeOK

\* The steps several goroutines take a variant of.
LEMMA FailTypes ==
    ASSUME RequestTypes, NEW r, Fail(r) \/ FailCanceled(r) PROVE RequestTypes'
  BY DEF RequestTypes, Fail, FailCanceled, ReqPcs, argVars

\* Sending a runner on successCh keeps the request well typed.
LEMMA HoldTypes ==
    ASSUME RequestTypes, NEW r, NEW x \in Runners, Hold(r, x) PROVE RequestTypes'
<1>1. oks' \in [Requests -> Nat]
  <2>1. oks \in [Requests -> Nat] /\ oks' = [oks EXCEPT ![r] = @ + 1]
    BY DEF RequestTypes, Hold
  <2>2. CASE r \in Requests
    BY <2>1, <2>2
  <2>3. CASE r \notin Requests
    BY <2>1, <2>3
  <2>. QED
    BY <2>2, <2>3
<1>. QED
  BY <1>1 DEF RequestTypes, Hold, ReqPcs, argVars

\* Arithmetic of an unsigned counter stays in the counter's range.
LEMMA RefRange ==
    ASSUME NEW n \in Int PROVE n % RefMod \in 0..(RefMod - 1)
  BY SchedulerAssumption

\* Both outcomes of useLoadedRunner keep requests and runners well typed.
LEMMA UseTypes ==
    ASSUME RequestTypes, RunnerTypes, NEW r \in Requests, NEW x, UseLoadedRunner(r, x)
    PROVE  RequestTypes' /\ RunnerTypes'
<1>1. CASE Fail(r) /\ UNCHANGED runnerVars
  BY <1>1, FailTypes DEF RunnerTypes, runnerVars
<1>2. CASE Acquire(r, x)
  <2>1. x \in Runners /\ Hold(r, x)
    BY <1>2 DEF Acquire, RunnerTypes
  <2>2. (refCount[x] + 1) % RefMod \in 0..(RefMod - 1)
    BY <2>1, RefRange DEF RunnerTypes
  <2>3. RunnerTypes'
    BY <1>2, <2>1, <2>2 DEF Acquire, RunnerTypes, RequestTypes, StopTimer
  <2>. QED
    BY <2>1, <2>3, HoldTypes
<1>. QED
  BY <1>1, <1>2 DEF UseLoadedRunner

\* needsReload, which may grow the context in place, keeps runners well typed.
LEMMA ReloadTypes ==
    ASSUME RequestTypes, RunnerTypes, NEW r \in Requests, NEW x, NEW done, NEW reload,
           NeedsReload(r, x, done, reload)
    PROVE  RunnerTypes'
<1>1. numCtx' \in [Runners -> 1..MaxCtx]
  BY DEF NeedsReload, RunnerTypes, RequestTypes
<1>. QED
  BY <1>1 DEF NeedsReload, RunnerTypes

\* scheduleExpiredRunner keeps the events on expiredCh within their bound.
LEMMA ScheduleTypes ==
    ASSUME SharedTypes, NEW x, ScheduleExpired(x)
    PROVE  expiredCh' \in [Runners -> 0..MaxTokens]
<1>1. expiredCh \in [Runners -> 0..MaxTokens]
  BY DEF SharedTypes
<1>2. \A n \in 0..MaxTokens : Signal(n) \in 0..MaxTokens
  BY SchedulerAssumption DEF Signal
<1>. QED
  BY <1>1, <1>2 DEF ScheduleExpired

\* releaseRemoteBlobs never makes a pin count negative.
LEMMA ReleaseTypes ==
    ASSUME SharedTypes, NEW m, Release(m) PROVE pins' \in [Models -> Nat]
<1>1. pins \in [Models -> Nat]
  BY DEF SharedTypes
<1>2. CASE m \in Models
  BY <1>1, <1>2 DEF Release
<1>3. CASE m \notin Models
  BY <1>1, <1>3 DEF Release
<1>. QED
  BY <1>2, <1>3

\* Popping a request leaves a queue of requests.
LEMMA RemoveAtTypes ==
    ASSUME NEW s \in Seq(Requests), NEW i \in DOMAIN s PROVE RemoveAt(s, i) \in Seq(Requests)
<1>1. SubSeq(s, 1, i - 1) \in Seq(Requests)
  OBVIOUS
<1>2. SubSeq(s, i + 1, Len(s)) \in Seq(Requests)
  OBVIOUS
<1>. QED
  BY <1>1, <1>2 DEF RemoveAt

\* pendingQueue.Remove leaves a queue of requests.
LEMMA RemoveQueuedTypes ==
    ASSUME NEW s \in Seq(Requests), NEW r \in ToSet(s)
    PROVE  RemoveQueued(s, r) \in Seq(Requests)
<1>1. PICK i \in DOMAIN s : s[i] = r
  BY DEF ToSet
<1>. QED
  BY <1>1, RemoveAtTypes DEF RemoveQueued

\* DrainMatching finds at most as many requests as the queue holds.
LEMMA DrainMatchingBound ==
    ASSUME TypeOK
    PROVE  LET n == Len(pending)
               c == Cardinality({i \in 1..n : model[pending[i]] = modelKey[run]})
           IN  c \in Nat /\ c <= n
<1>. DEFINE n == Len(pending)
            M == {i \in 1..n : model[pending[i]] = modelKey[run]}
<1>1. n \in Nat
  BY DEF TypeOK, SharedTypes
<1>. HIDE DEF n
<1>2. IsFiniteSet(1..n) /\ Cardinality(1..n) = n
  BY <1>1, FS_Interval
<1>3. IsFiniteSet(M) /\ Cardinality(M) <= n /\ Cardinality(M) \in Nat
  BY <1>2, FS_Subset, FS_CardinalityType
<1>. QED
  BY <1>3 DEF n

\* The two slices DrainMatching builds are queues of requests.
LEMMA DrainMatchingTypes ==
    ASSUME TypeOK, DrainMatching
    PROVE  pending' \in Seq(Requests) /\ drain' \in Seq(Requests)
<1>. DEFINE n == Len(pending)
            M == {i \in 1..n : model[pending[i]] = modelKey[run]}
            c == Cardinality(M)
<1>1. pending \in Seq(Requests) /\ n \in Nat
  BY DEF TypeOK, SharedTypes
<1>2. c \in Nat /\ c <= n
  BY DrainMatchingBound
<1>3. PICK q \in [1..n -> 1..n] :
        /\ drain' = [j \in 1..c |-> pending[q[j]]]
        /\ pending' = [j \in 1..(n - c) |-> pending[q[c + j]]]
  BY DEF DrainMatching
<1>. HIDE DEF M, c, n
<1>4. \A j \in 1..n : pending[q[j]] \in Requests
  BY <1>1 DEF n
<1>5. (\A j \in 1..c : j \in 1..n) /\ (\A j \in 1..(n - c) : c + j \in 1..n)
  BY <1>1, <1>2
<1>6. drain' \in [1..c -> Requests]
  BY <1>3, <1>4, <1>5
<1>7. pending' \in [1..(n - c) -> Requests]
  BY <1>3, <1>4, <1>5
<1>8. n - c \in Nat
  BY <1>1, <1>2
<1>. QED
  BY <1>2, <1>6, <1>7, <1>8, SeqDef

\* Finitely many models are resident: loaded maps the models onto its values.
LEMMA ResidentFinite ==
    ASSUME SharedTypes PROVE IsFiniteSet(Resident) /\ Cardinality(Resident) \in Nat
<1>. DEFINE V == {loaded[m] : m \in Models}
<1>1. loaded \in Surjection(Models, V)
  BY DEF SharedTypes, Surjection
<1>2. Resident \subseteq V
  BY DEF Resident
<1>. HIDE DEF V
<1>3. IsFiniteSet(V)
  BY <1>1, SchedulerAssumption, FS_Surjection
<1>. QED
  BY <1>2, <1>3, FS_Subset, FS_CardinalityType

\* A group of variables that a step leaves alone keeps its types.
LEMMA Kept ==
    ASSUME TInv
    PROVE  /\ UNCHANGED reqVars => RequestTypes'
           /\ UNCHANGED runnerVars => RunnerTypes'
           /\ UNCHANGED <<mapVars, pending, chanVars, protected, closeVars>> => SharedTypes'
           /\ UNCHANGED <<pc, cur, run, loadedCount, todo, drain, requeue>>
                => LocalTypes' /\ Frames'
           /\ UNCHANGED <<wake, loadsPaused, trainingPause, runtimeAhead, shrunk,
                          evictionPaused>> => FlagTypes'
<1>1. UNCHANGED reqVars => RequestTypes'
  BY DEF TInv, TypeOK, RequestTypes, reqVars
<1>2. UNCHANGED runnerVars => RunnerTypes'
  BY DEF TInv, TypeOK, RunnerTypes, runnerVars
<1>3. UNCHANGED <<mapVars, pending, chanVars, protected, closeVars>> => SharedTypes'
  BY DEF TInv, TypeOK, SharedTypes, mapVars, chanVars, closeVars
<1>4. UNCHANGED <<pc, cur, run, loadedCount, todo, drain, requeue>>
                => LocalTypes' /\ Frames'
  BY DEF TInv, TypeOK, LocalTypes, Frames
<1>5. UNCHANGED <<wake, loadsPaused, trainingPause, runtimeAhead, shrunk, evictionPaused>> => FlagTypes'
  BY DEF TInv, TypeOK, FlagTypes
<1>. QED
  BY <1>1, <1>2, <1>3, <1>4, <1>5

\* Every step keeps the types and the frames of the scheduler goroutine: one
\* proof step per action of Next.
LEMMA TypeStep == TInv /\ [Next]_vars => TInv'
<1>. SUFFICES ASSUME TInv, [Next]_vars PROVE TInv'
  OBVIOUS
<1>. USE SchedulerAssumption DEF TInv, TypeOK
<1>1. ASSUME NEW r \in Requests, NEW m \in Models, NEW k \in KeepAlives, NEW c \in 1..MaxCtx,
             Call(r, m, k, c)
      PROVE  TInv'
  <2>1. RequestTypes'
    BY <1>1 DEF Call, ReqStep, RequestTypes, ReqPcs
  <2>. QED
    BY <1>1, <2>1, Kept DEF Call, ReqStep, sharedVars, queueVars, envVars,
      localVars
<1>2. ASSUME NEW r \in Requests, PauseAbort(r) PROVE TInv'
  <2>1. RequestTypes'
    BY <1>2, FailTypes DEF PauseAbort, argVars, RequestTypes, ReqPcs
  <2>. QED
    BY <1>2, <2>1, Kept DEF PauseAbort, Fail, sharedVars, queueVars, envVars,
      localVars
<1>3. ASSUME NEW r \in Requests, Lookup(r) PROVE TInv'
  <2>1. RequestTypes'
    BY <1>3 DEF Lookup, ReqStep, argVars, RequestTypes, ReqPcs, SharedTypes
  <2>. QED
    BY <1>3, <2>1, Kept DEF Lookup, ReqStep, sharedVars, queueVars, envVars,
      localVars
<1>4. ASSUME NEW r \in Requests, Check(r) PROVE TInv'
  <2>1. RequestTypes'
    BY <1>4 DEF Check, ReqStep, argVars, RequestTypes, ReqPcs, RunnerTypes
  <2>2. RunnerTypes'
    BY <1>4, ReloadTypes DEF Check, ReqStep
  <2>. QED
    BY <1>4, <2>1, <2>2, Kept DEF Check, NeedsReload, ReqStep, sharedVars,
      queueVars, envVars, localVars
<1>5. ASSUME NEW r \in Requests, Use(r) PROVE TInv'
  <2>1. RequestTypes'
    BY <1>5, UseTypes DEF Use, argVars, RequestTypes, ReqPcs, RunnerTypes
  <2>2. RunnerTypes'
    BY <1>5, UseTypes DEF Use, runnerVars
  <2>. QED
    BY <1>5, <2>1, <2>2, Kept DEF Use, StopTimer, Fail, Hold, Acquire,
      UseLoadedRunner, sharedVars, queueVars, envVars, localVars
<1>6. ASSUME NEW r \in Requests, Refuse(r) PROVE TInv'
  <2>1. RequestTypes'
    BY <1>6, FailTypes DEF Refuse, argVars, RequestTypes, ReqPcs
  <2>. QED
    BY <1>6, <2>1, Kept DEF Refuse, Fail, sharedVars, queueVars, envVars,
      localVars
<1>7. ASSUME NEW r \in Requests, Push(r) PROVE TInv'
  <2>1. RequestTypes'
    BY <1>7 DEF Push, ReqStep, argVars, RequestTypes, ReqPcs
  <2>2. SharedTypes'
    BY <1>7 DEF Push, mapVars, chanVars, envVars, closeVars, SharedTypes
  <2>3. FlagTypes'
    BY <1>7 DEF Push, ReqStep, envVars, localVars, FlagTypes
  <2>. QED
    BY <1>7, <2>1, <2>2, <2>3, Kept DEF Push, ReqStep, envVars, localVars
<1>8. ASSUME NEW r \in Requests, ReqFinished(r) PROVE TInv'
  <2>1. RequestTypes'
    BY <1>8 DEF ReqFinished, ReqStep, argVars, RequestTypes, ReqPcs
  <2>2. SharedTypes'
    BY <1>8 DEF ReqFinished, mapVars, queueVars, envVars, closeVars,
      SharedTypes
  <2>. QED
    BY <1>8, <2>1, <2>2, Kept DEF ReqFinished, ReqStep, queueVars, envVars,
      localVars
<1>9. ASSUME NEW r \in Requests, CancelCtx(r) PROVE TInv'
  <2>1. RequestTypes'
    BY <1>9 DEF CancelCtx, argVars, RequestTypes, ReqPcs
  <2>. QED
    BY <1>9, <2>1, Kept DEF CancelCtx, sharedVars, queueVars, envVars,
      localVars
<1>10. ASSUME NEW r \in Requests, Reap(r) PROVE TInv'
  <2>1. RequestTypes'
    BY <1>10 DEF Reap, ReqStep, argVars, RequestTypes, ReqPcs
  <2>. QED
    BY <1>10, <2>1, Kept DEF Reap, ReqStep, sharedVars, queueVars, envVars,
      localVars
<1>11. ASSUME NEW r \in Requests, DropPendingOnCancel(r) PROVE TInv'
  <2>1. RequestTypes'
    BY <1>11 DEF DropPendingOnCancel, ReqStep, RemoveQueued, argVars,
      RequestTypes, ReqPcs
  <2>2. SharedTypes'
    BY <1>11, RemoveQueuedTypes DEF DropPendingOnCancel, mapVars, queueVars,
      chanVars, envVars, closeVars, SharedTypes
  <2>3. FlagTypes'
    BY <1>11 DEF DropPendingOnCancel, ReqStep, RemoveQueued, queueVars,
      envVars, localVars, FlagTypes
  <2>. QED
    BY <1>11, <2>1, <2>2, <2>3, Kept DEF DropPendingOnCancel, ReqStep,
      RemoveQueued, queueVars, envVars, localVars
<1>12. ASSUME NEW r \in Requests, ProcessFinishedRequest(r) PROVE TInv'
  <2>1. RequestTypes'
    BY <1>12 DEF ProcessFinishedRequest, Signal, ScheduleExpired, StopTimer,
      Released, argVars, RequestTypes, ReqPcs
  <2>2. RunnerTypes'
    <3>1. CASE loaded[model[r]] = None
      BY <1>12, <3>1 DEF ProcessFinishedRequest, RunnerTypes
    <3>2. CASE loaded[model[r]] # None
      <4>. DEFINE x == loaded[model[r]]
      <4>1. x \in Runners
        BY <3>2 DEF SharedTypes, RequestTypes
      <4>4. refCount[x] - 1 \in Int
        BY <4>1 DEF RunnerTypes
      <4>2. Released(refCount[x]) \in 0..(RefMod - 1)
        BY <4>4, RefRange DEF Released
      <4>. HIDE DEF x
      <4>3. /\ refCount' \in [Runners -> 0..(RefMod - 1)]
            /\ expireTimer' \in [Runners -> {"nil", "armed", "fired"}]
        BY <1>12, <3>2, <4>1, <4>2 DEF ProcessFinishedRequest, StopTimer, RunnerTypes, x
      <4>. QED
        BY <1>12, <4>3 DEF ProcessFinishedRequest, RunnerTypes
    <3>. QED
      BY <3>1, <3>2
  <2>3. SharedTypes'
    BY <1>12, ScheduleTypes DEF ProcessFinishedRequest, Released, mapVars,
      queueVars, envVars, closeVars, SharedTypes
  <2>. QED
    BY <1>12, <2>1, <2>2, <2>3, Kept DEF ProcessFinishedRequest, Signal,
      ScheduleExpired, StopTimer, Released, queueVars, envVars, localVars
<1>13. ASSUME NEW x \in Runners, TimerFire(x) PROVE TInv'
  <2>1. RunnerTypes'
    BY <1>13 DEF TimerFire, RunnerTypes
  <2>. QED
    BY <1>13, <2>1, Kept DEF TimerFire, sharedVars, queueVars, envVars,
      localVars
<1>14. ASSUME NEW x \in Runners, TimerCallback(x) PROVE TInv'
  <2>1. RunnerTypes'
    BY <1>14 DEF TimerCallback, StopTimer, RunnerTypes
  <2>2. SharedTypes'
    BY <1>14, ScheduleTypes DEF TimerCallback, mapVars, queueVars, envVars,
      closeVars, SharedTypes
  <2>. QED
    BY <1>14, <2>1, <2>2, Kept DEF TimerCallback, Signal, ScheduleExpired,
      StopTimer, queueVars, envVars, localVars
<1>15. ASSUME NEW x \in Runners, ExpireDuplicate(x) PROVE TInv'
  <2>1. SharedTypes'
    BY <1>15, SMTT(30) DEF ExpireDuplicate, Expired, mapVars, queueVars, envVars,
      closeVars, SharedTypes
  <2>. QED
    BY <1>15, <2>1, Kept DEF ExpireDuplicate, Expired, queueVars, envVars,
      localVars
<1>16. ASSUME NEW x \in Runners, ExpireOrphan(x) PROVE TInv'
  <2>1. RunnerTypes'
    BY <1>16 DEF ExpireOrphan, StopTimer, Detach, Expired, RunnerTypes,
      SharedTypes
  <2>2. SharedTypes'
    <3>1. pins' \in [Models -> Nat]
      BY <1>16, ReleaseTypes DEF ExpireOrphan
    <3>2. expiredCh' \in [Runners -> 0..MaxTokens]
      BY <1>16 DEF ExpireOrphan, Expired, SharedTypes
    <3>. QED
      BY <1>16, <3>1, <3>2 DEF ExpireOrphan, queueVars, envVars, closeVars, SharedTypes
  <2>. QED
    BY <1>16, <2>1, <2>2, Kept DEF ExpireOrphan, StopTimer, Detach, Release,
      Expired, queueVars, envVars, localVars
<1>17. ASSUME NEW x \in Runners, ExpireUnload(x) PROVE TInv'
  <2>1. SharedTypes'
    <3>1. loaded' \in [Models -> Runners \cup {None}]
      BY <1>17 DEF ExpireUnload, Unregister, SharedTypes
    <3>2. expiredCh' \in [Runners -> 0..MaxTokens]
      BY <1>17 DEF ExpireUnload, Expired, SharedTypes
    <3>. QED
      BY <1>17, <3>1, <3>2 DEF ExpireUnload, queueVars, envVars, SharedTypes
  <2>. QED
    BY <1>17, <2>1, Kept DEF ExpireUnload, Unregister, Expired, queueVars,
      envVars, localVars
<1>18. ASSUME NEW x \in Runners, LoadReady(x) PROVE TInv'
  <2>1. RequestTypes'
    BY <1>18, HoldTypes DEF LoadReady, argVars, RequestTypes, ReqPcs
  <2>2. RunnerTypes'
    BY <1>18 DEF LoadReady, RunnerTypes, RequestTypes
  <2>3. SharedTypes'
    BY <1>18 DEF LoadReady, queueVars, chanVars, envVars, closeVars,
      SharedTypes, RunnerTypes
  <2>. QED
    BY <1>18, <2>1, <2>2, <2>3, Kept DEF LoadReady, Hold, queueVars, envVars,
      localVars
<1>19. ASSUME NEW x \in Runners, LoadDetached(x) PROVE TInv'
  <2>1. RequestTypes'
    BY <1>19, FailTypes DEF LoadDetached, Signal, ScheduleExpired, argVars,
      RequestTypes, ReqPcs
  <2>2. RunnerTypes'
    BY <1>19 DEF LoadDetached, RunnerTypes
  <2>3. SharedTypes'
    BY <1>19, ScheduleTypes DEF LoadDetached, mapVars, queueVars, envVars,
      closeVars, SharedTypes, RunnerTypes
  <2>. QED
    BY <1>19, <2>1, <2>2, <2>3, Kept DEF LoadDetached, Signal, ScheduleExpired,
      Fail, queueVars, envVars, localVars
<1>20. ASSUME NEW x \in Runners, LoadFailed(x) PROVE TInv'
  <2>1. RequestTypes'
    BY <1>20, FailTypes DEF LoadFailed, Signal, ScheduleExpired, argVars,
      RequestTypes, ReqPcs
  <2>2. RunnerTypes'
    BY <1>20 DEF LoadFailed, RunnerTypes
  <2>3. SharedTypes'
    <3>1. cooldown' \subseteq Models
      BY <1>20 DEF LoadFailed, SharedTypes, RunnerTypes
    <3>2. expiredCh' \in [Runners -> 0..MaxTokens]
      BY <1>20, ScheduleTypes DEF LoadFailed, SharedTypes
    <3>. QED
      BY <1>20, <3>1, <3>2 DEF LoadFailed, queueVars, envVars, closeVars, SharedTypes
  <2>. QED
    BY <1>20, <2>1, <2>2, <2>3, Kept DEF LoadFailed, Signal, ScheduleExpired,
      Fail, queueVars, envVars, localVars
<1>21. ASSUME NEW x \in Runners, UnloadDetach(x) PROVE TInv'
  <2>1. RunnerTypes'
    BY <1>21 DEF UnloadDetach, StopTimer, Detach, RunnerTypes
  <2>2. SharedTypes'
    BY <1>21 DEF UnloadDetach, mapVars, queueVars, chanVars, envVars,
      SharedTypes
  <2>. QED
    BY <1>21, <2>1, <2>2, Kept DEF UnloadDetach, StopTimer, Detach, queueVars,
      envVars, localVars
<1>22. ASSUME NEW x \in Runners, Crash(x) PROVE TInv'
  <2>1. RunnerTypes'
    BY <1>22 DEF Crash, RunnerTypes
  <2>. QED
    BY <1>22, <2>1, Kept DEF Crash, sharedVars, queueVars, envVars, localVars
<1>23. CASE TakeWake
  <2>1. LocalTypes' /\ Frames'
    BY <1>23 DEF TakeWake, Goto, frameVars, LocalTypes, Pcs, Frames
  <2>2. FlagTypes'
    BY <1>23 DEF TakeWake, Goto, envVars, frameVars, FlagTypes
  <2>. QED
    BY <1>23, <2>1, <2>2, Kept DEF TakeWake, Goto, envVars, frameVars
<1>24. CASE TakeUnloaded
  <2>1. SharedTypes'
    BY <1>24 DEF TakeUnloaded, mapVars, envVars, closeVars, SharedTypes
  <2>2. FlagTypes'
    BY <1>24 DEF TakeUnloaded, envVars, localVars, FlagTypes
  <2>. QED
    BY <1>24, <2>1, <2>2, Kept DEF TakeUnloaded, envVars, localVars
<1>25. CASE PopNothing
  <2>1. LocalTypes' /\ Frames'
    BY <1>25 DEF PopNothing, Goto, frameVars, LocalTypes, Pcs, Frames
  <2>. QED
    BY <1>25, <2>1, Kept DEF PopNothing, Goto, sharedVars, queueVars, envVars,
      frameVars
<1>26. CASE PopNext
  <2>1. RequestTypes'
    <3>1. PICK i \in DOMAIN pending : FailCanceled(pending[i]) \/ UNCHANGED reqVars
      BY <1>26 DEF PopNext
    <3>. QED
      BY <3>1, FailTypes, Kept
  <2>2. SharedTypes'
    BY <1>26, RemoveAtTypes DEF PopNext, mapVars, chanVars, envVars, closeVars,
      SharedTypes
  <2>3. LocalTypes' /\ Frames'
    BY <1>26 DEF PopNext, PopsAt, localVars, LocalTypes, Pcs, Frames,
      SharedTypes
  <2>. QED
    BY <1>26, <2>1, <2>2, <2>3, Kept DEF PopNext, FailCanceled, PopsAt,
      envVars, localVars
<1>27. CASE LoopCanceled
  <2>1. RequestTypes'
    BY <1>27, FailTypes DEF LoopCanceled, Break, argVars, RequestTypes, ReqPcs
  <2>2. LocalTypes' /\ Frames'
    BY <1>27 DEF LoopCanceled, Break, LocalTypes, Pcs, Frames
  <2>3. FlagTypes'
    BY <1>27 DEF LoopCanceled, Break, envVars, FlagTypes
  <2>. QED
    BY <1>27, <2>1, <2>2, <2>3, Kept DEF LoopCanceled, FailCanceled, Break,
      envVars
<1>28. CASE LoopHead
  <2>1. loadedCount' \in Nat
    BY <1>28, ResidentFinite DEF LoopHead
  <2>2. LocalTypes' /\ Frames'
    BY <1>28, <2>1 DEF LoopHead, LocalTypes, Pcs, Frames, SharedTypes, RequestTypes
  <2>. QED
    BY <1>28, <2>2, Kept DEF LoopHead, sharedVars, queueVars, envVars
<1>29. CASE LoopConflict
  <2>1. LocalTypes' /\ Frames'
    BY <1>29 DEF LoopConflict, Advance, Conflicting, frameVars,
      LocalTypes, Pcs, Frames, SharedTypes
  <2>. QED
    BY <1>29, <2>1, Kept DEF LoopConflict, Advance, Conflicting,
      sharedVars, queueVars, envVars, frameVars
<1>30. CASE LoopOtherMLX
  <2>1. LocalTypes' /\ Frames'
    BY <1>30 DEF LoopOtherMLX, Advance, OtherMLX, frameVars,
      LocalTypes, Pcs, Frames, SharedTypes
  <2>. QED
    BY <1>30, <2>1, Kept DEF LoopOtherMLX, Advance, Conflicting,
      OtherMLX, sharedVars, queueVars, envVars, frameVars
<1>31. CASE LoopMLXBusy
  <2>1. RequestTypes'
    BY <1>31, FailTypes DEF LoopMLXBusy, Break, Conflicting,
      OtherMLX, argVars, RequestTypes, ReqPcs
  <2>2. LocalTypes' /\ Frames'
    BY <1>31 DEF LoopMLXBusy, Break, OtherMLX, LocalTypes, Pcs,
      Frames
  <2>3. FlagTypes'
    BY <1>31 DEF LoopMLXBusy, Break, OtherMLX, envVars, FlagTypes
  <2>. QED
    BY <1>31, <2>1, <2>2, <2>3, Kept DEF LoopMLXBusy, Fail, Break,
      Conflicting, OtherMLX, envVars
<1>32. CASE LoopFull
  <2>1. LocalTypes' /\ Frames'
    BY <1>32 DEF LoopFull, Advance, OtherMLX, Loadable,
      frameVars, LocalTypes, Pcs, Frames
  <2>. QED
    BY <1>32, <2>1, Kept DEF LoopFull, Advance,
      Conflicting, OtherMLX, Loadable, sharedVars, queueVars, envVars,
      frameVars
<1>33. CASE LoopRoom
  <2>1. LocalTypes' /\ Frames'
    BY <1>33 DEF LoopRoom, Advance, Loadable, frameVars, LocalTypes, Pcs, Frames
  <2>. QED
    BY <1>33, <2>1, Kept DEF LoopRoom, Advance, Loadable, sharedVars, queueVars, envVars,
      frameVars
<1>34. CASE CheckLoaded
  <2>1. RunnerTypes'
    BY <1>34, ReloadTypes DEF CheckLoaded, Goto, LocalTypes, Frames
  <2>2. LocalTypes' /\ Frames'
    BY <1>34 DEF CheckLoaded, Goto, frameVars, LocalTypes, Pcs, Frames
  <2>. QED
    BY <1>34, <2>1, <2>2, Kept DEF CheckLoaded, NeedsReload, Goto, sharedVars,
      queueVars, envVars, frameVars
<1>35. CASE UseLoaded
  <2>1. RequestTypes'
    BY <1>35, UseTypes DEF UseLoaded, Break, argVars, RequestTypes, ReqPcs,
      RunnerTypes, LocalTypes, Frames
  <2>2. RunnerTypes'
    BY <1>35, UseTypes DEF UseLoaded, Break, runnerVars, LocalTypes, Frames
  <2>3. LocalTypes' /\ Frames'
    BY <1>35 DEF UseLoaded, Break, LocalTypes, Pcs, Frames
  <2>4. FlagTypes'
    BY <1>35 DEF UseLoaded, Break, envVars, FlagTypes
  <2>. QED
    BY <1>35, <2>1, <2>2, <2>3, <2>4, Kept DEF UseLoaded, StopTimer, Fail,
      Hold, Acquire, UseLoadedRunner, Break, envVars
<1>36. CASE PickVictim
  <2>1. LocalTypes' /\ Frames'
    BY <1>36, SMTT(30) DEF PickVictim, Resident, Advance, Victims, frameVars, LocalTypes,
      Pcs, Frames, SharedTypes
  <2>. QED
    BY <1>36, <2>1, Kept DEF PickVictim, Resident, Advance, Victims,
      sharedVars, queueVars, envVars, frameVars
<1>37. CASE PickNothing
  <2>1. LocalTypes' /\ Frames'
    BY <1>37 DEF PickNothing, Resident, Retry, Victims, LocalTypes, Pcs, Frames
  <2>2. FlagTypes'
    BY <1>37 DEF PickNothing, Resident, Retry, Victims, sharedVars, queueVars,
      envVars, FlagTypes
  <2>. QED
    BY <1>37, <2>1, <2>2, Kept DEF PickNothing, Resident, Retry, Victims,
      sharedVars, queueVars, envVars
<1>38. CASE CreateServer
  <2>1. RunnerTypes'
    BY <1>38 DEF CreateServer, Resident, Free, RunnerTypes, RequestTypes,
      LocalTypes, Frames
  <2>2. SharedTypes'
    BY <1>38 DEF CreateServer, Resident, Free, queueVars, chanVars, envVars,
      closeVars, SharedTypes
  <2>3. LocalTypes' /\ Frames'
    BY <1>38 DEF CreateServer, Resident, Free, frameVars, LocalTypes, Pcs,
      Frames
  <2>. QED
    BY <1>38, <2>1, <2>2, <2>3, Kept DEF CreateServer, Resident, Free,
      queueVars, envVars, frameVars
<1>39. CASE CreateFails
  <2>1. RequestTypes'
    BY <1>39, FailTypes DEF CreateFails, Break, argVars, RequestTypes, ReqPcs
  <2>2. SharedTypes'
    BY <1>39, SMTT(30) DEF CreateFails, Break, chanVars, envVars, closeVars, SharedTypes,
      LocalTypes, Frames, RequestTypes
  <2>3. LocalTypes' /\ Frames'
    BY <1>39 DEF CreateFails, Break, LocalTypes, Pcs, Frames
  <2>4. FlagTypes'
    BY <1>39 DEF CreateFails, Break, envVars, FlagTypes
  <2>. QED
    BY <1>39, <2>1, <2>2, <2>3, <2>4, Kept DEF CreateFails, Fail, Break,
      envVars
<1>40. CASE Register
  <2>1. RunnerTypes'
    BY <1>40 DEF Register, Break, RunnerTypes, RequestTypes, LocalTypes, Frames
  <2>2. SharedTypes'
    <3>1. loaded' \in [Models -> Runners \cup {None}]
      BY <1>40 DEF Register, SharedTypes, Frames
    <3>2. pins' \in [Models -> Nat]
      <4>1. \/ pins' = [pins EXCEPT ![model[cur]] = @ + 1]
            \/ pins' = [pins EXCEPT ![model[cur]] = @]
        BY <1>40 DEF Register
      <4>2. pins \in [Models -> Nat]
        BY DEF SharedTypes
      <4>3. model[cur] \in Models
        BY <1>40 DEF Register, Frames, RequestTypes
      <4>. QED
        BY <4>1, <4>2, <4>3
    <3>. QED
      BY <1>40, <3>1, <3>2 DEF Register, Break, chanVars, envVars, closeVars, SharedTypes
  <2>3. LocalTypes' /\ Frames'
    BY <1>40 DEF Register, Break, LocalTypes, Pcs, Frames
  <2>4. FlagTypes'
    BY <1>40 DEF Register, Break, envVars, FlagTypes
  <2>. QED
    BY <1>40, <2>1, <2>2, <2>3, <2>4, Kept DEF Register, Break, envVars
<1>41. CASE LoadNeedsRoom
  <2>1. RunnerTypes'
    BY <1>41 DEF LoadNeedsRoom, Resident, ClearActiveLoading, RunnerTypes
  <2>2. SharedTypes'
    BY <1>41 DEF LoadNeedsRoom, Resident, ClearActiveLoading, queueVars,
      chanVars, envVars, closeVars, SharedTypes
  <2>3. LocalTypes' /\ Frames'
    BY <1>41 DEF LoadNeedsRoom, Resident, LocalTypes, Pcs, Frames, SharedTypes
  <2>. QED
    BY <1>41, <2>1, <2>2, <2>3, Kept DEF LoadNeedsRoom, Resident,
      ClearActiveLoading, queueVars, envVars
<1>42. CASE LoadFails
  <2>1. RequestTypes'
    BY <1>42, FailTypes DEF LoadFails, Break, ClearActiveLoading, argVars,
      RequestTypes, ReqPcs
  <2>2. RunnerTypes'
    BY <1>42 DEF LoadFails, Break, ClearActiveLoading, RunnerTypes
  <2>3. SharedTypes'
    BY <1>42, SMTT(30) DEF LoadFails, Break, ClearActiveLoading, chanVars, envVars,
      closeVars, SharedTypes, LocalTypes, Frames, RequestTypes
  <2>4. LocalTypes' /\ Frames'
    BY <1>42 DEF LoadFails, Break, LocalTypes, Pcs, Frames
  <2>5. FlagTypes'
    BY <1>42 DEF LoadFails, Break, envVars, FlagTypes
  <2>. QED
    BY <2>1, <2>2, <2>3, <2>4, <2>5
<1>43. CASE ShrinkCheck
  <2>1. LocalTypes' /\ Frames'
    BY <1>43 DEF ShrinkCheck, LocalTypes, Pcs, Frames
  <2>. QED
    BY <1>43, <2>1, Kept DEF ShrinkCheck, sharedVars, queueVars, envVars
<1>44. CASE ShrinkDo
  <2>1. RunnerTypes'
    BY <1>44 DEF ShrinkDo, RunnerTypes
  <2>2. LocalTypes' /\ Frames'
    BY <1>44 DEF ShrinkDo, LocalTypes, Pcs, Frames
  <2>3. FlagTypes'
    BY <1>44 DEF ShrinkDo, sharedVars, queueVars, envVars, FlagTypes
  <2>. QED
    BY <1>44, <2>1, <2>2, <2>3, Kept DEF ShrinkDo, sharedVars, queueVars,
      envVars
<1>45. CASE ShrinkEnd
  <2>1. LocalTypes' /\ Frames'
    BY <1>45 DEF ShrinkEnd, Goto, frameVars, LocalTypes, Pcs, Frames
  <2>. QED
    BY <1>45, <2>1, Kept DEF ShrinkEnd, Goto, sharedVars, queueVars, envVars,
      frameVars
<1>46. CASE DrainMatching
  <2>0. pending' \in Seq(Requests) /\ drain' \in Seq(Requests)
    BY <1>46, DrainMatchingTypes
  <2>1. SharedTypes'
    BY <1>46, <2>0 DEF DrainMatching, mapVars, chanVars, envVars, closeVars, SharedTypes
  <2>2. LocalTypes' /\ Frames'
    BY <1>46, <2>0 DEF DrainMatching, LocalTypes, Pcs, Frames
  <2>. QED
    BY <1>46, <2>1, <2>2, Kept DEF DrainMatching, envVars
<1>47. CASE DrainSkip
  <2>1. RequestTypes'
    BY <1>47 DEF DrainSkip, ReqStep, argVars, RequestTypes, ReqPcs
  <2>2. LocalTypes' /\ Frames'
    BY <1>47 DEF DrainSkip, ReqStep, LocalTypes, Pcs, Frames
  <2>. QED
    BY <1>47, <2>1, <2>2, Kept DEF DrainSkip, ReqStep, sharedVars, queueVars,
      envVars
<1>48. CASE DrainCheck
  <2>1. RunnerTypes'
    <3>1. Head(drain) \in Requests
      BY <1>48 DEF DrainCheck, LocalTypes
    <3>. QED
      BY <1>48, <3>1, ReloadTypes DEF DrainCheck
  <2>2. LocalTypes' /\ Frames'
    <3>0. /\ drain \in Seq(Requests) /\ requeue \in Seq(Requests) /\ drain # <<>>
          /\ \/ UNCHANGED <<drain, requeue>>
             \/ requeue' = Append(requeue, Head(drain)) /\ drain' = Tail(drain)
      BY <1>48 DEF DrainCheck, LocalTypes
    <3>2. Head(drain) \in Requests /\ Tail(drain) \in Seq(Requests)
      BY <3>0
    <3>3. Append(requeue, Head(drain)) \in Seq(Requests)
      BY <3>0, <3>2
    <3>1. drain' \in Seq(Requests) /\ requeue' \in Seq(Requests)
      BY <3>0, <3>2, <3>3
    <3>. QED
      BY <1>48, <3>1 DEF DrainCheck, LocalTypes, Pcs, Frames
  <2>. QED
    BY <1>48, <2>1, <2>2, Kept DEF DrainCheck, NeedsReload, sharedVars,
      queueVars, envVars
<1>49. CASE DrainUse
  <2>1. Head(drain) \in Requests
    BY <1>49 DEF DrainUse, LocalTypes, Frames
  <2>2. RequestTypes' /\ RunnerTypes'
    BY <1>49, <2>1, UseTypes DEF DrainUse
  <2>3. LocalTypes' /\ Frames'
    BY <1>49 DEF DrainUse, LocalTypes, Pcs, Frames
  <2>. QED
    BY <1>49, <2>2, <2>3, Kept DEF DrainUse, sharedVars, queueVars, envVars
<1>50. CASE DrainEnd
  <2>1. SharedTypes'
    BY <1>50 DEF DrainEnd, RequeueFront, mapVars, chanVars, envVars, closeVars,
      SharedTypes, LocalTypes
  <2>2. LocalTypes' /\ Frames'
    BY <1>50 DEF DrainEnd, RequeueFront, LocalTypes, Pcs, Frames
  <2>3. FlagTypes'
    BY <1>50 DEF DrainEnd, RequeueFront, envVars, FlagTypes
  <2>. QED
    BY <1>50, <2>1, <2>2, <2>3, Kept DEF DrainEnd, RequeueFront, envVars
<1>51. CASE EvictCanceled
  <2>1. RequestTypes'
    BY <1>51, FailTypes DEF EvictCanceled, Retry, argVars, RequestTypes, ReqPcs
  <2>2. LocalTypes' /\ Frames'
    BY <1>51 DEF EvictCanceled, Retry, LocalTypes, Pcs, Frames
  <2>3. FlagTypes'
    BY <1>51 DEF EvictCanceled, Retry, sharedVars, queueVars, envVars,
      FlagTypes
  <2>. QED
    BY <1>51, <2>1, <2>2, <2>3, Kept DEF EvictCanceled, FailCanceled, Retry,
      sharedVars, queueVars, envVars
<1>52. CASE Evict
  <2>1. RunnerTypes'
    BY <1>52 DEF Evict, StopTimer, RunnerTypes
  <2>2. SharedTypes'
    BY <1>52, ScheduleTypes DEF Evict, mapVars, queueVars, envVars, closeVars,
      SharedTypes
  <2>3. LocalTypes' /\ Frames'
    BY <1>52 DEF Evict, Goto, frameVars, LocalTypes, Pcs, Frames
  <2>. QED
    BY <1>52, <2>1, <2>2, <2>3, Kept DEF Evict, Goto, Signal, ScheduleExpired,
      StopTimer, frameVars, queueVars, envVars
<1>67. CASE EvictPause
  <2>1. LocalTypes' /\ Frames'
    BY <1>67 DEF EvictPause, LocalTypes, Pcs, Frames
  <2>2. FlagTypes'
    BY <1>67 DEF EvictPause, queueVars, envVars, FlagTypes
  <2>. QED
    BY <1>67, <2>1, <2>2, Kept DEF EvictPause, queueVars, envVars
<1>53. CASE WaitUnloaded
  <2>1. SharedTypes'
    BY <1>53 DEF WaitUnloaded, ResumeLoads, EvictResume, mapVars, envVars,
      closeVars, SharedTypes
  <2>2. LocalTypes' /\ Frames'
    BY <1>53 DEF WaitUnloaded, ResumeLoads, EvictResume, LocalTypes, Pcs,
      Frames
  <2>3. FlagTypes'
    BY <1>53 DEF WaitUnloaded, ResumeLoads, EvictResume, envVars, FlagTypes
  <2>. QED
    BY <1>53, <2>1, <2>2, <2>3, Kept DEF WaitUnloaded, ResumeLoads,
      EvictResume, envVars
<1>54. CASE WaitTimeout
  <2>1. LocalTypes' /\ Frames'
    BY <1>54 DEF WaitTimeout, ResumeLoads, EvictResume, LocalTypes, Pcs, Frames
  <2>2. FlagTypes'
    BY <1>54 DEF WaitTimeout, ResumeLoads, EvictResume, envVars, FlagTypes
  <2>. QED
    BY <1>54, <2>1, <2>2, Kept DEF WaitTimeout, ResumeLoads, EvictResume,
      envVars, chanVars
<1>55. CASE WaitCanceled
  <2>1. RequestTypes'
    BY <1>55, FailTypes DEF WaitCanceled, ResumeLoads, EvictResume, argVars,
      RequestTypes, ReqPcs
  <2>2. LocalTypes' /\ Frames'
    BY <1>55 DEF WaitCanceled, ResumeLoads, EvictResume, LocalTypes, Pcs,
      Frames
  <2>3. FlagTypes'
    BY <1>55 DEF WaitCanceled, ResumeLoads, EvictResume, envVars, FlagTypes
  <2>. QED
    BY <1>55, <2>1, <2>2, <2>3, Kept DEF WaitCanceled, FailCanceled,
      ResumeLoads, EvictResume, envVars, chanVars
<1>56. ASSUME NEW m \in Models, ExpireRunner(m) PROVE TInv'
  <2>1. RunnerTypes'
    BY <1>56 DEF ExpireRunner, StopTimer, RunnerTypes, SharedTypes
  <2>2. SharedTypes'
    BY <1>56, ScheduleTypes DEF ExpireRunner, mapVars, queueVars, envVars,
      closeVars, SharedTypes
  <2>. QED
    BY <1>56, <2>1, <2>2, Kept DEF ExpireRunner, Signal, ScheduleExpired,
      StopTimer, queueVars, envVars, localVars
<1>57. ASSUME NEW m \in Models, WatchdogReclaim(m) PROVE TInv'
  <2>1. SharedTypes'
    BY <1>57, ScheduleTypes DEF WatchdogReclaim, mapVars, queueVars, envVars,
      closeVars, SharedTypes
  <2>. QED
    BY <1>57, <2>1, Kept DEF WatchdogReclaim, Signal, ScheduleExpired,
      queueVars, envVars, localVars
<1>58. ASSUME NEW m \in Models, Protect(m) PROVE TInv'
  <2>1. SharedTypes'
    BY <1>58 DEF Protect, mapVars, queueVars, chanVars, closeVars, SharedTypes
  <2>. QED
    BY <1>58, <2>1, Kept DEF Protect, queueVars, localVars
<1>59. ASSUME NEW m \in Models, CooldownOver(m) PROVE TInv'
  <2>1. SharedTypes'
    BY <1>59 DEF CooldownOver, queueVars, chanVars, envVars, closeVars,
      SharedTypes
  <2>. QED
    BY <1>59, <2>1, Kept DEF CooldownOver, queueVars, envVars, localVars
<1>60. ASSUME NEW keep \in UnloadKeeps, NEW force \in BOOLEAN, UnloadRunnersExcept(keep, force)
      PROVE  TInv'
  <2>1. RunnerTypes'
    BY <1>60 DEF UnloadRunnersExcept, UnloadRunners, RunnerTypes, SharedTypes
  <2>2. SharedTypes'
    BY <1>60, SMTT(30) DEF UnloadRunnersExcept, Signal, UnloadRunners, SharedTypes
  <2>. QED
    BY <1>60, <2>1, <2>2, Kept DEF UnloadRunnersExcept, Signal, UnloadRunners,
      localVars
<1>61. CASE PrepareForTraining
  <2>1. RunnerTypes'
    BY <1>61 DEF PrepareForTraining, UnloadRunners, RunnerTypes, SharedTypes
  <2>2. SharedTypes'
    BY <1>61, SMTT(30) DEF PrepareForTraining, Signal, UnloadRunners, SharedTypes
  <2>3. FlagTypes'
    BY <1>61 DEF PrepareForTraining, UnloadRunners, localVars, FlagTypes
  <2>. QED
    BY <1>61, <2>1, <2>2, <2>3, Kept DEF PrepareForTraining, Signal,
      UnloadRunners, localVars
<1>62. CASE TrainingEnds
  <2>1. FlagTypes'
    BY <1>62 DEF TrainingEnds, queueVars, localVars, FlagTypes
  <2>. QED
    BY <1>62, <2>1, Kept DEF TrainingEnds, queueVars, localVars
<1>63. CASE PolicyTick
  <2>1. FlagTypes'
    BY <1>63 DEF PolicyTick, ResumeLoads, envVars, localVars, FlagTypes
  <2>. QED
    BY <1>63, <2>1, Kept DEF PolicyTick, ResumeLoads, envVars, localVars
<1>64. CASE RuntimeTicket
  <2>1. FlagTypes'
    BY <1>64 DEF RuntimeTicket, queueVars, localVars, FlagTypes
  <2>. QED
    BY <1>64, <2>1, Kept DEF RuntimeTicket, queueVars, localVars
<1>65. CASE ExpireFinish
  <2>1. RunnerTypes'
    BY <1>65 DEF ExpireFinish, StopTimer, Detach, RunnerTypes, SharedTypes
  <2>2. SharedTypes'
    <3>1. pins' \in [Models -> Nat]
      BY <1>65, ReleaseTypes DEF ExpireFinish
    <3>2. unloadedCh' \in 0..MaxTokens
      BY <1>65 DEF ExpireFinish, Signal, SharedTypes
    <3>. QED
      BY <1>65, <3>1, <3>2 DEF ExpireFinish, queueVars, envVars, SharedTypes
  <2>. QED
    BY <1>65, <2>1, <2>2, Kept DEF ExpireFinish, Signal, StopTimer, Detach,
      Release, queueVars, envVars, localVars
<1>68. ASSUME NEW x \in Runners, WatchdogShrinkCheck(x) PROVE TInv'
  <2>1. SharedTypes'
    BY <1>68 DEF WatchdogShrinkCheck, mapVars, queueVars, chanVars, envVars, SharedTypes
  <2>. QED
    BY <1>68, <2>1, Kept DEF WatchdogShrinkCheck, queueVars, envVars, localVars
<1>69. CASE WatchdogShrink
  <2>1. RunnerTypes'
    BY <1>69 DEF WatchdogShrink, RunnerTypes
  <2>2. SharedTypes'
    BY <1>69 DEF WatchdogShrink, mapVars, queueVars, chanVars, envVars, SharedTypes
  <2>. QED
    BY <1>69, <2>1, <2>2, Kept DEF WatchdogShrink, queueVars, envVars, localVars
<1>66. CASE UNCHANGED vars
  BY <1>66, Kept DEF vars, sharedVars, queueVars, envVars, localVars
<1>. QED
  BY <1>1, <1>2, <1>3, <1>4, <1>5, <1>6, <1>7, <1>8, <1>9, <1>10, <1>11, <1>12,
     <1>13, <1>14, <1>15, <1>16, <1>17, <1>18, <1>19, <1>20, <1>21, <1>22,
     <1>23, <1>24, <1>25, <1>26, <1>27, <1>28, <1>29, <1>30, <1>31, <1>32,
     <1>33, <1>34, <1>35, <1>36, <1>37, <1>38, <1>39, <1>40, <1>41, <1>42,
     <1>43, <1>44, <1>45, <1>46, <1>47, <1>48, <1>49, <1>50, <1>51, <1>52,
     <1>53, <1>54, <1>55, <1>56, <1>57, <1>58, <1>59, <1>60, <1>61, <1>62,
     <1>63, <1>64, <1>65, <1>66, <1>67, <1>68, <1>69
     DEF Next, ClientStep, HandlerStep, ExpireStep, LoadStep, SchedulerStep, BrokerStep

\* The types and the frames hold in every reachable state.
LEMMA TypeInvariant == Spec => []TInv
  BY TypeInit, TypeStep, PTL DEF Spec

\* Every variable keeps its type, for any numbers of requests, models and runners:
\* no late or repeated release of blobs (releaseRemoteBlobs) takes a pin count below
\* zero, and what processOnePending dereferences is set where it does.  Nothing is
\* said of the value of refCount, which may wrap: UnusedIsIdle.
THEOREM TypeCorrect == Spec => []TypeOK
<1>1. TInv => TypeOK
  BY DEF TInv
<1>. QED
  BY <1>1, TypeInvariant, PTL
=============================================================================
