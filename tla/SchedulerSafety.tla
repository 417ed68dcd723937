--------------------------- MODULE SchedulerSafety ---------------------------
(***************************************************************************)
(* Proofs of the promises of Scheduler that rest on the scheduler          *)
(* goroutine: pauses, wake-ups, residency limits, that every queued        *)
(* request is answered once and by somebody, and that an idle runner       *)
(* expires.                                                                *)
(***************************************************************************)
EXTENDS SchedulerOwnership

\* Only the scheduler goroutine touches its locals.
LEMMA OtherSteps ==
    ASSUME [Next]_vars, ~SchedulerStep PROVE UNCHANGED localVars
<1>1. ASSUME NEW r \in Requests,
             ClientStep(r) \/ HandlerStep(r) \/ DropPendingOnCancel(r) \/ ProcessFinishedRequest(r)
      PROVE  UNCHANGED localVars
  BY <1>1 DEF ClientStep, Call, CancelCtx, Reap, HandlerStep, PauseAbort, Lookup, Check,
     Use, Refuse, Push, ReqFinished, DropPendingOnCancel, ProcessFinishedRequest
<1>2. ASSUME NEW x \in Runners,
             TimerFire(x) \/ TimerCallback(x) \/ ExpireStep(x) \/ LoadStep(x)
             \/ UnloadDetach(x) \/ Crash(x)
      PROVE  UNCHANGED localVars
  BY <1>2 DEF TimerFire, TimerCallback, ExpireStep, ExpireDuplicate, ExpireOrphan,
     ExpireUnload, LoadStep, LoadReady, LoadDetached, LoadFailed, UnloadDetach, Crash
<1>3. CASE ExpireFinish \/ BrokerStep
  BY <1>3 DEF ExpireFinish, BrokerStep, ExpireRunner, WatchdogReclaim,
       WatchdogShrinkCheck, WatchdogShrink, Protect,
     CooldownOver, UnloadRunnersExcept, UnloadRunners, PrepareForTraining, TrainingEnds,
     PolicyTick, RuntimeTicket
<1>4. CASE UNCHANGED vars
  BY <1>4 DEF vars
<1>. QED
  BY <1>1, <1>2, <1>3, <1>4 DEF Next

-----------------------------------------------------------------------------
\* A pause without training was taken by the eviction wait that is still to end.
PauseInv == ~Training => ~trainingPause /\ (loadsPaused => pc = "wait" /\ evictionPaused)

\* Every way into and out of the eviction wait keeps PauseInv.
LEMMA PauseStep == PauseInv /\ [Next]_vars => PauseInv'
<1>. SUFFICES ASSUME PauseInv, [Next]_vars, ~Training PROVE PauseInv'
  BY DEF PauseInv
<1>1. ASSUME ~SchedulerStep, ~PolicyTick PROVE UNCHANGED <<loadsPaused, trainingPause>>
  <2>1. ASSUME NEW r \in Requests,
               ClientStep(r) \/ HandlerStep(r) \/ DropPendingOnCancel(r) \/ ProcessFinishedRequest(r)
        PROVE  UNCHANGED <<loadsPaused, trainingPause>>
    BY <2>1 DEF ClientStep, Call, CancelCtx, Reap, HandlerStep, PauseAbort, Lookup, Check,
       Use, Refuse, Push, ReqFinished, DropPendingOnCancel, ProcessFinishedRequest, sharedVars, envVars
  <2>2. ASSUME NEW x \in Runners,
               TimerFire(x) \/ TimerCallback(x) \/ ExpireStep(x) \/ LoadStep(x)
               \/ UnloadDetach(x) \/ Crash(x)
        PROVE  UNCHANGED <<loadsPaused, trainingPause>>
    BY <2>2 DEF TimerFire, TimerCallback, ExpireStep, ExpireDuplicate, ExpireOrphan,
       ExpireUnload, LoadStep, LoadReady, LoadDetached, LoadFailed, UnloadDetach, Crash, sharedVars, envVars
  <2>3. CASE ExpireFinish \/ BrokerStep
    BY <1>1, <2>3 DEF PauseInv, ExpireFinish, BrokerStep, ExpireRunner, WatchdogReclaim,
       WatchdogShrinkCheck, WatchdogShrink, Protect,
       CooldownOver, UnloadRunnersExcept, PrepareForTraining, TrainingEnds, RuntimeTicket,
       envVars
  <2>4. CASE UNCHANGED vars
    BY <2>4 DEF vars, sharedVars, envVars
  <2>. QED
    BY <1>1, <2>1, <2>2, <2>3, <2>4 DEF Next
<1>2. CASE ~SchedulerStep /\ ~PolicyTick
  BY <1>1, <1>2, OtherSteps DEF PauseInv, localVars
<1>6. CASE PolicyTick
  BY <1>6 DEF PolicyTick, ResumeLoads, PauseInv, envVars, localVars
<1>3. CASE EvictPause
  BY <1>3 DEF EvictPause, PauseInv, envVars
<1>4. CASE WaitUnloaded \/ WaitTimeout \/ WaitCanceled
  BY <1>4 DEF WaitUnloaded, WaitTimeout, WaitCanceled, EvictResume, ResumeLoads, PauseInv, envVars
<1>5. CASE TakeWake \/ TakeUnloaded \/ PopNothing \/ PopNext \/ LoopCanceled \/ LoopHead
           \/ LoopConflict \/ LoopOtherMLX \/ LoopMLXBusy \/ LoopFull \/ LoopRoom \/ CheckLoaded
           \/ UseLoaded \/ PickVictim \/ PickNothing \/ CreateServer \/ CreateFails \/ Register
           \/ LoadNeedsRoom \/ LoadFails \/ ShrinkCheck \/ ShrinkDo \/ ShrinkEnd \/ DrainMatching
           \/ DrainSkip \/ DrainCheck \/ DrainUse \/ DrainEnd \/ EvictCanceled \/ Evict
  <2>1. UNCHANGED <<loadsPaused, trainingPause>>
    BY <1>5 DEF TakeWake, TakeUnloaded, PopNothing, PopNext, LoopCanceled, LoopHead,
       LoopConflict, LoopOtherMLX, LoopMLXBusy, LoopFull, LoopRoom, CheckLoaded, UseLoaded,
       PickVictim, PickNothing, CreateServer, CreateFails, Register, LoadNeedsRoom, LoadFails,
       ShrinkCheck, ShrinkDo, ShrinkEnd, DrainMatching, DrainSkip, DrainCheck, DrainUse,
       DrainEnd, EvictCanceled, Evict, Advance, sharedVars, envVars
  <2>2. pc # "wait" /\ pc' # "wait"
    BY <1>5 DEF TakeWake, TakeUnloaded, PopNothing, PopNext, LoopCanceled, LoopHead,
       LoopConflict, LoopOtherMLX, LoopMLXBusy, LoopFull, LoopRoom, Loadable,
       CheckLoaded, UseLoaded, PickVictim, PickNothing, CreateServer, CreateFails, Register,
       LoadNeedsRoom, LoadFails, ShrinkCheck, ShrinkDo, ShrinkEnd, DrainMatching, DrainSkip,
       DrainCheck, DrainUse, DrainEnd, EvictCanceled, Evict, Advance, Goto, Retry, Break, localVars
  <2>. QED
    BY <2>1, <2>2 DEF PauseInv
<1>. QED
  BY <1>2, <1>3, <1>4, <1>5, <1>6 DEF SchedulerStep

\* Without training, loads are paused at most while an eviction waits for VRAM,
\* whatever the policy ticks lift meanwhile: no way out of the wait (unload,
\* timeout, cancellation) leaves loadsPaused latched.
THEOREM PauseReleasedHolds == Spec => []PauseReleased
<1>1. Init => PauseInv
  BY DEF Init, PauseInv
<1>2. PauseInv => PauseReleased
  BY DEF PauseInv, PauseReleased
<1>. QED
  BY <1>1, <1>2, PauseStep, PTL DEF Spec

\* The pause that training holds survives the eviction that finds it, through the
\* way out of the wait: only the end of training lifts it.
THEOREM PauseKeptHolds == Spec => PauseKept
<1>. DEFINE PauseHeld == trainingPause /\ loadsPaused /\ ~evictionPaused
            PauseStays == ~trainingPause' \/ (loadsPaused' /\ ~evictionPaused')
<1>1. [Next]_vars => [PauseHeld => PauseStays]_vars
  <2>. SUFFICES ASSUME PauseHeld, [Next]_vars PROVE PauseStays
    OBVIOUS
  <2>. USE DEF PauseHeld, PauseStays
  <2>1. ASSUME NEW r \in Requests,
               ClientStep(r) \/ HandlerStep(r) \/ DropPendingOnCancel(r) \/ ProcessFinishedRequest(r)
        PROVE  UNCHANGED <<loadsPaused, evictionPaused>>
    BY <2>1 DEF ClientStep, Call, CancelCtx, Reap, HandlerStep, PauseAbort, Lookup, Check,
       Use, Refuse, Push, ReqFinished, DropPendingOnCancel, ProcessFinishedRequest, sharedVars,
       localVars
  <2>2. ASSUME NEW x \in Runners,
               TimerFire(x) \/ TimerCallback(x) \/ ExpireStep(x) \/ LoadStep(x)
               \/ UnloadDetach(x) \/ Crash(x)
        PROVE  UNCHANGED <<loadsPaused, evictionPaused>>
    BY <2>2 DEF TimerFire, TimerCallback, ExpireStep, ExpireDuplicate, ExpireOrphan,
       ExpireUnload, LoadStep, LoadReady, LoadDetached, LoadFailed, UnloadDetach, Crash,
       sharedVars, localVars
  <2>3. CASE ExpireFinish \/ BrokerStep
    BY <2>3 DEF ExpireFinish, BrokerStep, ExpireRunner, WatchdogReclaim,
       WatchdogShrinkCheck, WatchdogShrink, Protect, CooldownOver, UnloadRunnersExcept,
       UnloadRunners, PrepareForTraining, TrainingEnds, PolicyTick, ResumeLoads, RuntimeTicket,
       localVars
  <2>4. CASE EvictPause \/ WaitUnloaded \/ WaitTimeout \/ WaitCanceled
    BY <2>4 DEF EvictPause, WaitUnloaded, WaitTimeout, WaitCanceled, EvictResume
  <2>5. CASE TakeWake \/ TakeUnloaded \/ PopNothing \/ PopNext \/ LoopCanceled \/ LoopHead
             \/ LoopConflict \/ LoopOtherMLX \/ LoopMLXBusy \/ LoopFull \/ LoopRoom \/ CheckLoaded
             \/ UseLoaded \/ PickVictim \/ PickNothing \/ CreateServer \/ CreateFails \/ Register
             \/ LoadNeedsRoom \/ LoadFails \/ ShrinkCheck \/ ShrinkDo \/ ShrinkEnd \/ DrainMatching
             \/ DrainSkip \/ DrainCheck \/ DrainUse \/ DrainEnd \/ EvictCanceled \/ Evict
    BY <2>5 DEF TakeWake, TakeUnloaded, PopNothing, PopNext, LoopCanceled, LoopHead,
       LoopConflict, LoopOtherMLX, LoopMLXBusy, LoopFull, LoopRoom, CheckLoaded, UseLoaded,
       PickVictim, PickNothing, CreateServer, CreateFails, Register, LoadNeedsRoom, LoadFails,
       ShrinkCheck, ShrinkDo, ShrinkEnd, DrainMatching, DrainSkip, DrainCheck, DrainUse,
       DrainEnd, EvictCanceled, Evict, EvictResume, ScheduleExpired, Advance, Goto, Retry, Break,
       sharedVars, frameVars, localVars
  <2>6. CASE UNCHANGED vars
    BY <2>6 DEF vars, sharedVars, localVars
  <2>. QED
    BY <2>1, <2>2, <2>3, <2>4, <2>5, <2>6 DEF Next, SchedulerStep
<1>. QED
  BY <1>1, PTL DEF Spec, PauseKept

-----------------------------------------------------------------------------
\* Without cross-queue tickets the scheduler goroutine never goes back to sleep
\* with a request in the queue and no wake-up pending: each goroutine that adds
\* to the queue or takes from it notifies, and processOnePending does at its end.
WakeInv == ~runtimeAhead /\ NoLostWakeup

\* Every step that touches the queue or puts the goroutine to sleep keeps WakeInv.
LEMMA WakeStep ==
    ASSUME ~CrossFifo PROVE WakeInv /\ [Next]_vars => WakeInv'
<1>. SUFFICES ASSUME WakeInv, [Next]_vars PROVE WakeInv'
  OBVIOUS
<1>1. ASSUME NEW r \in Requests,
             ClientStep(r) \/ HandlerStep(r) \/ DropPendingOnCancel(r) \/ ProcessFinishedRequest(r)
      PROVE  /\ UNCHANGED <<runtimeAhead, pc>>
             /\ UNCHANGED <<pending, wake>> \/ wake'
  BY <1>1 DEF ClientStep, Call, CancelCtx, Reap, HandlerStep, PauseAbort, Lookup, Check,
     Use, Refuse, Push, ReqFinished, DropPendingOnCancel, ProcessFinishedRequest,
     sharedVars, queueVars, envVars, localVars
<1>2. ASSUME NEW x \in Runners,
             TimerFire(x) \/ TimerCallback(x) \/ ExpireStep(x) \/ LoadStep(x)
             \/ UnloadDetach(x) \/ Crash(x)
      PROVE  UNCHANGED <<runtimeAhead, pc, pending, wake>>
  BY <1>2 DEF TimerFire, TimerCallback, ExpireStep, ExpireDuplicate, ExpireOrphan,
     ExpireUnload, LoadStep, LoadReady, LoadDetached, LoadFailed, UnloadDetach, Crash,
     sharedVars, queueVars, envVars, localVars
<1>3. CASE ExpireFinish \/ BrokerStep
  <2>1. UNCHANGED <<runtimeAhead, pc, pending>> /\ (wake => wake')
    <3>1. CASE PolicyTick
      <4>1. UNCHANGED <<runtimeAhead, pc, pending>>
        BY <3>1 DEF PolicyTick, envVars, localVars
      <4>2. wake => wake'
        BY <3>1 DEF PolicyTick, ResumeLoads
      <4>. QED
        BY <4>1, <4>2
    <3>2. CASE ~PolicyTick
      BY <1>3, <3>2 DEF ExpireFinish, BrokerStep, ExpireRunner, WatchdogReclaim,
       WatchdogShrinkCheck, WatchdogShrink, Protect,
         CooldownOver, UnloadRunnersExcept, UnloadRunners, PrepareForTraining, TrainingEnds,
         RuntimeTicket, queueVars, envVars, localVars
    <3>. QED
      BY <3>1, <3>2
  <2>. QED
    BY <2>1 DEF WakeInv, NoLostWakeup
<1>4. CASE UNCHANGED vars
  BY <1>4 DEF vars, sharedVars, queueVars, envVars, localVars, WakeInv, NoLostWakeup
<1>5. CASE SchedulerStep
  <2>1. UNCHANGED runtimeAhead
    BY <1>5 DEF SchedulerStep, TakeWake, TakeUnloaded, PopNothing, PopNext, LoopCanceled,
       LoopHead, LoopConflict, LoopOtherMLX, LoopMLXBusy, LoopFull, LoopRoom, CheckLoaded,
       UseLoaded, PickVictim, PickNothing, CreateServer, CreateFails, Register, LoadNeedsRoom,
       LoadFails, ShrinkCheck, ShrinkDo, ShrinkEnd, DrainMatching, DrainSkip, DrainCheck,
       DrainUse, DrainEnd, EvictCanceled, Evict, EvictPause, WaitUnloaded, WaitTimeout, WaitCanceled,
       EvictResume, Advance, sharedVars, envVars
  <2>2. ASSUME Break PROVE NoLostWakeup'
    BY <2>2 DEF Break, NoLostWakeup
  <2>3. CASE TakeUnloaded
    BY <2>1, <2>3 DEF TakeUnloaded, localVars, WakeInv, NoLostWakeup
  <2>4. CASE PopNothing
    BY <2>1, <2>4 DEF PopNothing, sharedVars, queueVars, WakeInv, NoLostWakeup
  <2>5. CASE LoopCanceled \/ LoopMLXBusy \/ UseLoaded \/ CreateFails \/ Register \/ LoadFails
    BY <2>1, <2>2, <2>5 DEF LoopCanceled, LoopMLXBusy, UseLoaded, CreateFails, Register,
       LoadFails, WakeInv
  <2>6. CASE TakeWake \/ PopNext \/ LoopHead \/ LoopConflict \/ LoopOtherMLX \/ LoopFull
             \/ LoopRoom \/ CheckLoaded \/ PickVictim \/ PickNothing \/ CreateServer
             \/ LoadNeedsRoom \/ ShrinkCheck \/ ShrinkDo \/ ShrinkEnd \/ DrainMatching
             \/ DrainSkip \/ DrainCheck \/ DrainUse \/ DrainEnd \/ EvictCanceled \/ Evict
             \/ EvictPause \/ WaitUnloaded \/ WaitTimeout \/ WaitCanceled
    <3>1. pc' # "idle"
      BY <2>6 DEF TakeWake, PopNext, LoopHead, LoopConflict, LoopOtherMLX, LoopFull,
         LoopRoom, CheckLoaded, PickVictim, PickNothing, CreateServer, LoadNeedsRoom,
         ShrinkCheck, ShrinkDo, ShrinkEnd, DrainMatching, DrainSkip, DrainCheck, DrainUse,
         DrainEnd, EvictCanceled, Evict, EvictPause, WaitUnloaded, WaitTimeout, WaitCanceled,
         EvictResume, Advance, Goto, Retry, localVars
    <3>. QED
      BY <2>1, <3>1 DEF WakeInv, NoLostWakeup
  <2>. QED
    BY <1>5, <2>3, <2>4, <2>5, <2>6 DEF SchedulerStep
<1>. QED
  BY <1>1, <1>2, <1>3, <1>4, <1>5 DEF Next, WakeInv, NoLostWakeup

\* The scheduler never sleeps on a non-empty queue (without cross-queue tickets).
THEOREM NoLostWakeupHolds ==
    ASSUME ~CrossFifo PROVE Spec => []NoLostWakeup
<1>1. Init => WakeInv
  BY DEF Init, WakeInv, NoLostWakeup
<1>2. WakeInv => NoLostWakeup
  BY DEF WakeInv
<1>3. WakeInv /\ [Next]_vars => WakeInv'
  BY WakeStep
<1>. QED
  BY <1>1, <1>2, <1>3, PTL DEF Spec

-----------------------------------------------------------------------------
\* Two models may not be resident together.
Excludes(m, n) == {m, n} \subseteq MLX \/ \E g \in Groups : {m, n} \subseteq g

\* The goroutine is inside loadFn or between its calls.
ProbePcs == LoadPcs \ {"decide"}

\* From the residency check of processOnePending until load registers the runner
\* there is room for it: the map only shrinks in between, so the number read at
\* the head of the loop is never too small.
RoomInv ==
    /\ ResidencyLimits
    /\ pc = "decide" => Cardinality(Resident) <= loadedCount
    /\ pc \in ProbePcs =>
         /\ Cardinality(Resident) < MaxRunners
         /\ \A n \in Models \ {model[cur]} : loaded[n] # None => ~Excludes(n, model[cur])

\* Outside Register runners only leave the map; only LoopHead reads their number
\* and only LoopRoom begins a load.
LEMMA MapShrinks ==
    ASSUME TInv, InHand, [Next]_vars, ~Register
    PROVE  /\ \A m \in Models : loaded'[m] \in {None, loaded[m]}
           /\ pc' = "decide" => LoopHead \/ (pc = "decide" /\ UNCHANGED loadedCount)
           /\ pc' \in ProbePcs => LoopRoom \/ (pc \in ProbePcs /\ model'[cur'] = model[cur])
<1>0. loaded \in [Models -> Runners \cup {None}] /\ model \in [Requests -> Models]
  BY DEF TInv, TypeOK, RequestTypes, SharedTypes
<1>1. ASSUME NEW r \in Requests,
             ClientStep(r) \/ HandlerStep(r) \/ DropPendingOnCancel(r) \/ ProcessFinishedRequest(r)
      PROVE  UNCHANGED loaded
  BY <1>1 DEF ClientStep, Call, CancelCtx, Reap, HandlerStep, PauseAbort, Lookup, Check,
     Use, Refuse, Push, ReqFinished, DropPendingOnCancel, ProcessFinishedRequest,
     sharedVars, mapVars
<1>2. ASSUME NEW x \in Runners,
             TimerFire(x) \/ TimerCallback(x) \/ ExpireStep(x) \/ LoadStep(x)
             \/ UnloadDetach(x) \/ Crash(x)
      PROVE  \A m \in Models : loaded'[m] \in {None, loaded[m]}
  BY <1>0, <1>2 DEF TimerFire, TimerCallback, ExpireStep, ExpireDuplicate, ExpireOrphan,
     ExpireUnload, Unregister, LoadStep, LoadReady, LoadDetached, LoadFailed, UnloadDetach,
     Crash, sharedVars, mapVars
<1>3. ASSUME ExpireFinish \/ BrokerStep
      PROVE  \A m \in Models : loaded'[m] \in {None, loaded[m]}
  BY <1>0, <1>3 DEF ExpireFinish, BrokerStep, ExpireRunner, WatchdogReclaim,
       WatchdogShrinkCheck, WatchdogShrink, Protect,
     CooldownOver, UnloadRunnersExcept, UnloadRunners, PrepareForTraining, TrainingEnds,
     PolicyTick, RuntimeTicket, mapVars
<1>4. ASSUME SchedulerStep PROVE UNCHANGED loaded
  BY <1>4 DEF SchedulerStep, TakeWake, TakeUnloaded, PopNothing, PopNext, LoopCanceled,
     LoopHead, LoopConflict, LoopOtherMLX, LoopMLXBusy, LoopFull, LoopRoom, CheckLoaded,
     UseLoaded, PickVictim, PickNothing, CreateServer, CreateFails, LoadNeedsRoom,
     LoadFails, ShrinkCheck, ShrinkDo, ShrinkEnd, DrainMatching, DrainSkip, DrainCheck,
     DrainUse, DrainEnd, EvictCanceled, Evict, EvictPause, WaitUnloaded, WaitTimeout, WaitCanceled,
     EvictResume, Advance, sharedVars, mapVars
<1>5. ASSUME UNCHANGED vars PROVE UNCHANGED loaded
  BY <1>5 DEF vars, sharedVars, mapVars
<1>6. \A m \in Models : loaded'[m] \in {None, loaded[m]}
  BY <1>1, <1>2, <1>3, <1>4, <1>5 DEF Next
<1>7. ASSUME pc' \in ProbePcs, ~SchedulerStep
      PROVE  pc \in ProbePcs /\ model'[cur'] = model[cur]
  <2>1. UNCHANGED <<pc, cur>> /\ cur \in Requests /\ reqPc[cur] # "free"
    BY <1>7, OtherSteps DEF localVars, TInv, Frames, InHand, Held, LoadPcs, ProbePcs
  <2>2. model'[cur] = model[cur]
    <3>1. CASE UNCHANGED model
      BY <3>1
    <3>2. ASSUME NEW r \in Requests, NEW m \in Models, NEW k \in KeepAlives,
                 NEW c \in 1..MaxCtx, Call(r, m, k, c)
          PROVE  model'[cur] = model[cur]
      BY <1>0, <2>1, <3>2 DEF Call
    <3>3. ASSUME NEW r \in Requests,
                 CancelCtx(r) \/ Reap(r) \/ HandlerStep(r) \/ DropPendingOnCancel(r)
                 \/ ProcessFinishedRequest(r)
          PROVE  UNCHANGED model
      BY <3>3 DEF CancelCtx, Reap, HandlerStep, PauseAbort, Lookup, Check, Use, Refuse, Push,
         ReqFinished, DropPendingOnCancel, ProcessFinishedRequest, Fail, UseLoadedRunner,
         Acquire, Hold, argVars
    <3>4. ASSUME NEW x \in Runners,
                 TimerFire(x) \/ TimerCallback(x) \/ ExpireStep(x) \/ LoadStep(x)
                 \/ UnloadDetach(x) \/ Crash(x)
          PROVE  UNCHANGED model
      BY <3>4 DEF TimerFire, TimerCallback, ExpireStep, ExpireDuplicate, ExpireOrphan,
         ExpireUnload, LoadStep, LoadReady, LoadDetached, LoadFailed, UnloadDetach, Crash,
         Fail, Hold, reqVars, argVars
    <3>5. CASE ExpireFinish \/ BrokerStep \/ UNCHANGED vars
      BY <3>5 DEF ExpireFinish, BrokerStep, ExpireRunner, WatchdogReclaim,
       WatchdogShrinkCheck, WatchdogShrink, Protect,
         CooldownOver, UnloadRunnersExcept, UnloadRunners, PrepareForTraining, TrainingEnds,
         PolicyTick, RuntimeTicket, vars, reqVars
    <3>. QED
      BY <1>7, <3>1, <3>2, <3>3, <3>4, <3>5 DEF Next, ClientStep
  <2>. QED
    BY <1>7, <2>1, <2>2
<1>8. ASSUME pc' \in ProbePcs, SchedulerStep, ~LoopRoom
      PROVE  pc \in ProbePcs /\ model'[cur'] = model[cur]
  <2>1. CreateServer \/ LoadNeedsRoom \/ ShrinkCheck \/ ShrinkDo \/ ShrinkEnd
    BY <1>8 DEF LoadPcs, ProbePcs, SchedulerStep, TakeWake, TakeUnloaded, PopNothing, PopNext, LoopCanceled,
       LoopHead, LoopConflict, LoopOtherMLX, LoopMLXBusy, LoopFull, Loadable,
       CheckLoaded, UseLoaded, PickVictim, PickNothing, CreateFails, LoadFails, DrainMatching,
       DrainSkip, DrainCheck, DrainUse, DrainEnd, EvictCanceled, Evict, EvictPause, WaitUnloaded,
       WaitTimeout, WaitCanceled, EvictResume, Advance, Goto, Retry, Break, localVars
  <2>. QED
    BY <2>1 DEF LoadPcs, ProbePcs, CreateServer, LoadNeedsRoom, ShrinkCheck, ShrinkDo, ShrinkEnd, Goto,
       frameVars, reqVars
<1>9. ASSUME pc' = "decide", ~SchedulerStep PROVE pc = "decide" /\ UNCHANGED loadedCount
  BY <1>9, OtherSteps DEF localVars
<1>10. ASSUME pc' = "decide", SchedulerStep PROVE LoopHead
  BY <1>10 DEF SchedulerStep, TakeWake, TakeUnloaded, PopNothing, PopNext, LoopCanceled,
     LoopConflict, LoopOtherMLX, LoopMLXBusy, LoopFull, LoopRoom, Loadable, CheckLoaded,
     UseLoaded, PickVictim, PickNothing, CreateServer, CreateFails, Register, LoadNeedsRoom,
     LoadFails, ShrinkCheck, ShrinkDo, ShrinkEnd, DrainMatching, DrainSkip, DrainCheck,
     DrainUse, DrainEnd, EvictCanceled, Evict, EvictPause, WaitUnloaded, WaitTimeout,
     WaitCanceled, EvictResume, Advance, Goto, Retry, Break, localVars
<1>. QED
  BY <1>6, <1>7, <1>8, <1>9, <1>10

\* Register fills the room that was checked; every other step only makes more.
LEMMA RoomStep == TInv /\ InHand /\ Ownership /\ RoomInv /\ [Next]_vars => RoomInv'
<1>. SUFFICES ASSUME TInv, InHand, Ownership, RoomInv, [Next]_vars PROVE RoomInv'
  OBVIOUS
<1>0. loaded \in [Models -> Runners \cup {None}] /\ model \in [Requests -> Models]
  BY DEF TInv, TypeOK, RequestTypes, SharedTypes
<1>3. IsFiniteSet(Resident) /\ Cardinality(Resident) \in Nat
  BY ResidentFinite DEF TInv, TypeOK
<1>1. CASE Register
  <2>1. /\ pc = "load" /\ pc' = "idle" /\ loaded' = [loaded EXCEPT ![model[cur]] = run]
        /\ run \in Runners /\ cur \in Requests /\ run \notin Resident
        /\ loaded[model[cur]] = None
    BY <1>1 DEF Register, Break, TInv, Frames, Ownership, LoadInFlight, LoadPcs
  <2>2. run # None /\ model[cur] \in Models
    BY <1>0, <2>1, SchedulerAssumption
  <2>3. Resident' = Resident \cup {run}
    BY <1>0, <2>1, <2>2 DEF Resident
  <2>4. Cardinality(Resident') = Cardinality(Resident) + 1
    BY <1>3, <2>1, <2>3, FS_AddElement
  <2>5. Cardinality(Resident) < MaxRunners
    BY <2>1 DEF RoomInv, LoadPcs, ProbePcs
  <2>6. Cardinality(Resident') <= MaxRunners
    BY <1>3, <2>4, <2>5, SchedulerAssumption
  <2>7. ASSUME NEW m \in Models, NEW n \in Models, m # n, loaded'[m] # None, loaded'[n] # None
        PROVE  ~Excludes(m, n)
    <3>1. CASE m # model[cur] /\ n # model[cur]
      BY <1>0, <2>1, <2>7, <3>1 DEF RoomInv, ResidencyLimits, Excludes
    <3>2. CASE m = model[cur]
      BY <1>0, <2>1, <2>7, <3>2 DEF RoomInv, LoadPcs, ProbePcs, Excludes
    <3>3. CASE n = model[cur]
      BY <1>0, <2>1, <2>7, <3>3 DEF RoomInv, LoadPcs, ProbePcs, Excludes
    <3>. QED
      BY <3>1, <3>2, <3>3
  <2>8. ResidencyLimits'
    BY <2>6, <2>7 DEF ResidencyLimits, Excludes
  <2>. QED
    BY <2>1, <2>8 DEF RoomInv, LoadPcs, ProbePcs
<1>2. CASE ~Register
  <2>1. \A m \in Models : loaded'[m] \in {None, loaded[m]}
    BY <1>2, MapShrinks
  <2>2. Resident' \subseteq Resident
    BY <2>1 DEF Resident
  <2>3. Cardinality(Resident') <= Cardinality(Resident) /\ Cardinality(Resident') \in Nat
    BY <1>3, <2>2, FS_Subset, FS_CardinalityType
  <2>4. ResidencyLimits'
    <3>1. Cardinality(Resident') <= MaxRunners
      BY <1>3, <2>3, SchedulerAssumption DEF RoomInv, ResidencyLimits
    <3>. QED
      BY <2>1, <3>1 DEF RoomInv, ResidencyLimits
  <2>5. ASSUME pc' \in ProbePcs
        PROVE  /\ Cardinality(Resident') < MaxRunners
               /\ \A n \in Models \ {model'[cur']} : loaded'[n] # None => ~Excludes(n, model'[cur'])
    <3>1. CASE LoopRoom
      <4>1. /\ UNCHANGED <<cur, model, loaded>> /\ Conflicting = {} /\ OtherMLX = {}
            /\ Cardinality(Resident) <= loadedCount /\ loadedCount < MaxRunners
        BY <3>1 DEF LoopRoom, Loadable, Advance, frameVars, reqVars, sharedVars, mapVars, RoomInv
      <4>3. loadedCount \in Nat
        BY DEF TInv, TypeOK, LocalTypes
      <4>2. \A n \in Models \ {model[cur]} : loaded[n] # None => ~Excludes(n, model[cur])
        BY <4>1 DEF Conflicting, OtherMLX, Excludes
      <4>. QED
        BY <1>3, <2>3, <4>1, <4>2, <4>3, SchedulerAssumption
    <3>2. CASE pc \in ProbePcs /\ model'[cur'] = model[cur]
      <4>1. /\ Cardinality(Resident) < MaxRunners
            /\ \A n \in Models \ {model[cur]} : loaded[n] # None => ~Excludes(n, model[cur])
        BY <3>2 DEF RoomInv
      <4>. QED
        BY <1>3, <2>1, <2>3, <3>2, <4>1, SchedulerAssumption
    <3>. QED
      BY <1>2, <2>5, <3>1, <3>2, MapShrinks
  <2>6. ASSUME pc' = "decide" PROVE Cardinality(Resident') <= loadedCount'
    <3>1. CASE LoopHead
      BY <1>3, <2>3, <3>1 DEF LoopHead
    <3>2. CASE pc = "decide" /\ UNCHANGED loadedCount
      <4>1. Cardinality(Resident) <= loadedCount /\ loadedCount \in Nat
        BY <3>2 DEF RoomInv, TInv, TypeOK, LocalTypes
      <4>. QED
        BY <1>3, <2>3, <3>2, <4>1
    <3>. QED
      BY <1>2, <2>6, <3>1, <3>2, MapShrinks
  <2>. QED
    BY <2>4, <2>5, <2>6 DEF RoomInv
<1>. QED
  BY <1>1, <1>2

\* The limit on loaded models, concurrency groups and MLX exclusivity hold in the
\* map in every state, for any limit and any groups.
THEOREM ResidencyLimitsHolds == Spec => []ResidencyLimits
<1>1. Init => RoomInv
  <2>1. ASSUME Init PROVE Resident = {}
    BY <2>1 DEF Init, Resident
  <2>2. Init => Cardinality(Resident) = 0
    BY <2>1, FS_EmptySet
  <2>3. Init => ResidencyLimits
    BY <2>2, SchedulerAssumption DEF Init, ResidencyLimits
  <2>. QED
    BY <2>3 DEF Init, RoomInv, ProbePcs, LoadPcs
<1>2. RoomInv => ResidencyLimits
  BY DEF RoomInv
<1>. QED
  BY <1>1, <1>2, RoomStep, OwnershipInvariant, PTL DEF Spec

-----------------------------------------------------------------------------
(* Who may still answer a request.  The queue, the two slices of a drain, the   *)
(* scheduler's current request and the loads in flight never hold the same      *)
(* request twice (OneHolder), so that whoever answers one takes the right to    *)
(* answer it away from everybody else (AnswerInv).                              *)

Distinct(s) == \A i, j \in DOMAIN s : s[i] = s[j] => i = j

\* Taking the head of a queue without duplicates removes that request.
LEMMA TailDistinct ==
    ASSUME NEW s \in Seq(Requests), s # <<>>, Distinct(s)
    PROVE  /\ Head(s) \in Requests /\ Tail(s) \in Seq(Requests) /\ Distinct(Tail(s))
           /\ Head(s) \in ToSet(s) /\ ToSet(Tail(s)) = ToSet(s) \ {Head(s)}
<1>1. /\ Len(s) \in Nat \ {0} /\ Head(s) = s[1] /\ Head(s) \in Requests
      /\ Tail(s) \in Seq(Requests) /\ Len(Tail(s)) = Len(s) - 1
      /\ DOMAIN s = 1 .. Len(s) /\ DOMAIN Tail(s) = 1 .. Len(s) - 1
      /\ \A i \in 1 .. Len(s) - 1 : Tail(s)[i] = s[i + 1]
  OBVIOUS
<1>2. Distinct(Tail(s))
  <2>. SUFFICES ASSUME NEW i \in 1 .. Len(s) - 1, NEW j \in 1 .. Len(s) - 1, s[i + 1] = s[j + 1]
                PROVE  i = j
    BY <1>1 DEF Distinct
  <2>1. i + 1 \in DOMAIN s /\ j + 1 \in DOMAIN s
    BY <1>1
  <2>2. i + 1 = j + 1
    BY <2>1 DEF Distinct
  <2>. QED
    BY <2>2
<1>3. ASSUME NEW e \in ToSet(Tail(s)) PROVE e \in ToSet(s) \ {Head(s)}
  <2>1. PICK i \in 1 .. Len(s) - 1 : e = s[i + 1]
    BY <1>1, <1>3 DEF ToSet
  <2>2. i + 1 \in DOMAIN s /\ 1 \in DOMAIN s /\ i + 1 # 1
    BY <1>1
  <2>3. e # s[1] /\ e \in ToSet(s)
    BY <2>1, <2>2 DEF Distinct, ToSet
  <2>. QED
    BY <1>1, <2>3
<1>4. ASSUME NEW e \in ToSet(s) \ {Head(s)} PROVE e \in ToSet(Tail(s))
  <2>1. PICK i \in 1 .. Len(s) : e = s[i]
    BY <1>1 DEF ToSet
  <2>2. i - 1 \in 1 .. Len(s) - 1 /\ (i - 1) + 1 = i
    BY <1>1, <1>4, <2>1
  <2>3. e = Tail(s)[i - 1]
    BY <1>1, <2>1, <2>2
  <2>. QED
    BY <1>1, <2>2, <2>3 DEF ToSet
<1>5. Head(s) \in ToSet(s)
  BY <1>1 DEF ToSet
<1>. QED
  BY <1>1, <1>2, <1>3, <1>4, <1>5

\* Putting queues without common elements together.
LEMMA ConcatDistinct ==
    ASSUME NEW s \in Seq(Requests), NEW t \in Seq(Requests),
           Distinct(s), Distinct(t), ToSet(s) \cap ToSet(t) = {}
    PROVE  Distinct(s \o t) /\ ToSet(s \o t) = ToSet(s) \cup ToSet(t)
<1>. DEFINE m == Len(s)
            n == Len(t)
            u == s \o t
<1>1. /\ m \in Nat /\ n \in Nat /\ DOMAIN s = 1 .. m /\ DOMAIN t = 1 .. n /\ DOMAIN u = 1 .. m + n
      /\ \A i \in 1 .. m : u[i] = s[i]
      /\ \A i \in 1 .. m + n : i > m => u[i] = t[i - m]
  OBVIOUS
<1>2. /\ \A i \in 1 .. m : s[i] \in ToSet(s)
      /\ \A i \in 1 .. n : t[i] \in ToSet(t)
  BY <1>1 DEF ToSet
<1>. HIDE DEF m, n, u
<1>3. \A i \in 1 .. m + n : i > m => i - m \in 1 .. n
  BY <1>1
<1>4. Distinct(u)
  <2>. SUFFICES ASSUME NEW i \in 1 .. m + n, NEW j \in 1 .. m + n, u[i] = u[j] PROVE i = j
    BY <1>1 DEF Distinct
  <2>1. CASE i <= m /\ j <= m
    BY <1>1, <2>1 DEF Distinct
  <2>2. CASE i > m /\ j > m
    <3>1. i - m \in 1 .. n /\ j - m \in 1 .. n /\ t[i - m] = t[j - m]
      BY <1>1, <1>3, <2>2
    <3>2. i - m = j - m
      BY <1>1, <3>1 DEF Distinct
    <3>. QED
      BY <1>1, <3>2
  <2>3. CASE (i <= m /\ j > m) \/ (i > m /\ j <= m)
    BY <1>1, <1>2, <1>3, <2>3
  <2>. QED
    BY <1>1, <2>1, <2>2, <2>3
<1>5. ToSet(s) \subseteq ToSet(u)
  BY <1>1 DEF ToSet
<1>6. ASSUME NEW i \in 1 .. n PROVE t[i] \in ToSet(u)
  <2>1. i + m \in 1 .. m + n /\ i + m > m /\ (i + m) - m = i
    BY <1>1
  <2>2. u[i + m] = t[i]
    BY <1>1, <2>1
  <2>. QED
    BY <1>1, <2>1, <2>2 DEF ToSet
<1>7. ToSet(t) \subseteq ToSet(u)
  BY <1>1, <1>6 DEF ToSet
<1>8. ToSet(u) \subseteq ToSet(s) \cup ToSet(t)
  BY ConcatSet DEF u
<1>. QED
  BY <1>4, <1>5, <1>7, <1>8 DEF u

\* Push puts a request at the end that is not in the queue yet.
LEMMA AppendDistinct ==
    ASSUME NEW s \in Seq(Requests), NEW r \in Requests, Distinct(s), r \notin ToSet(s)
    PROVE  Distinct(Append(s, r)) /\ ToSet(Append(s, r)) = ToSet(s) \cup {r}
<1>1. <<r>> \in Seq(Requests) /\ Append(s, r) = s \o <<r>>
  BY AppendIsConcat
<1>2. Distinct(<<r>>) /\ ToSet(<<r>>) = {r}
  BY DEF Distinct, ToSet
<1>. DEFINE w == <<r>>
<1>3. w \in Seq(Requests) /\ Append(s, r) = s \o w /\ Distinct(w) /\ ToSet(w) = {r}
  BY <1>1, <1>2
<1>. HIDE DEF w
<1>. QED
  BY <1>3, ConcatDistinct

\* A slice of a queue without duplicates.
LEMMA SliceDistinct ==
    ASSUME NEW s \in Seq(Requests), Distinct(s), NEW m \in Nat \ {0}, NEW n \in Nat, n <= Len(s)
    PROVE  /\ SubSeq(s, m, n) \in Seq(Requests) /\ Distinct(SubSeq(s, m, n))
           /\ ToSet(SubSeq(s, m, n)) = {s[i] : i \in m .. n}
<1>. DEFINE u == SubSeq(s, m, n)
            k == Len(u)
<1>1. /\ u \in Seq(Requests) /\ k \in Nat /\ k = (IF m <= n THEN n - m + 1 ELSE 0)
      /\ DOMAIN u = 1 .. k /\ \A i \in 1 .. k : u[i] = s[m + i - 1]
      /\ DOMAIN s = 1 .. Len(s) /\ Len(s) \in Nat
  OBVIOUS
<1>. HIDE DEF u, k
<1>2. \A i \in 1 .. k : m + i - 1 \in m .. n /\ m + i - 1 \in DOMAIN s
  BY <1>1
<1>3. Distinct(u)
  <2>. SUFFICES ASSUME NEW i \in 1 .. k, NEW j \in 1 .. k, u[i] = u[j] PROVE i = j
    BY <1>1 DEF Distinct
  <2>1. m + i - 1 = m + j - 1
    BY <1>1, <1>2 DEF Distinct
  <2>. QED
    BY <2>1
<1>4. \A i \in m .. n : i - m + 1 \in 1 .. k /\ u[i - m + 1] = s[i]
  <2>. SUFFICES ASSUME NEW i \in m .. n PROVE i - m + 1 \in 1 .. k /\ u[i - m + 1] = s[i]
    OBVIOUS
  <2>1. i - m + 1 \in 1 .. k /\ m + (i - m + 1) - 1 = i
    BY <1>1
  <2>. QED
    BY <1>1, <2>1
<1>5. ToSet(u) = {s[i] : i \in m .. n}
  <2>1. ASSUME NEW e \in ToSet(u) PROVE e \in {s[i] : i \in m .. n}
    <3>1. PICK i \in 1 .. k : e = u[i]
      BY <1>1, <2>1 DEF ToSet
    <3>. QED
      BY <1>1, <1>2, <3>1
  <2>2. ASSUME NEW i \in m .. n PROVE s[i] \in ToSet(u)
    BY <1>1, <1>4 DEF ToSet
  <2>. QED
    BY <2>1, <2>2
<1>. QED
  BY <1>1, <1>3, <1>5 DEF u

\* Removing one position removes that request and no other.
LEMMA RemoveAtDistinct ==
    ASSUME NEW s \in Seq(Requests), Distinct(s), NEW k \in DOMAIN s
    PROVE  Distinct(RemoveAt(s, k)) /\ ToSet(RemoveAt(s, k)) = ToSet(s) \ {s[k]}
<1>. DEFINE a == SubSeq(s, 1, k - 1)
            b == SubSeq(s, k + 1, Len(s))
            n == Len(s)
<1>0. n \in Nat /\ DOMAIN s = 1 .. n /\ k \in 1 .. n
  OBVIOUS
<1>1. /\ a \in Seq(Requests) /\ Distinct(a) /\ ToSet(a) = {s[i] : i \in 1 .. k - 1}
      /\ b \in Seq(Requests) /\ Distinct(b) /\ ToSet(b) = {s[i] : i \in k + 1 .. n}
  <2>1. /\ 1 \in Nat \ {0} /\ k - 1 \in Nat /\ k - 1 <= n
        /\ k + 1 \in Nat \ {0} /\ n <= n
    BY <1>0
  <2>2. a \in Seq(Requests) /\ Distinct(a) /\ ToSet(a) = {s[i] : i \in 1 .. k - 1}
    BY <2>1, SliceDistinct
  <2>3. b \in Seq(Requests) /\ Distinct(b) /\ ToSet(b) = {s[i] : i \in k + 1 .. n}
    BY <1>0, <2>1, SliceDistinct
  <2>. QED
    BY <2>2, <2>3
<1>2. RemoveAt(s, k) = a \o b
  BY DEF RemoveAt
<1>. HIDE DEF a, b, n
<1>3. ToSet(a) \cap ToSet(b) = {}
  <2>. SUFFICES ASSUME NEW i \in 1 .. k - 1, NEW j \in k + 1 .. n, s[i] = s[j] PROVE FALSE
    BY <1>1
  <2>1. i \in DOMAIN s /\ j \in DOMAIN s /\ i # j
    BY <1>0
  <2>. QED
    BY <2>1 DEF Distinct
<1>4. ToSet(a) \cup ToSet(b) = ToSet(s) \ {s[k]}
  <2>1. \A i \in 1 .. k - 1 : s[i] \in ToSet(s) \ {s[k]}
    BY <1>0 DEF Distinct, ToSet
  <2>2. \A i \in k + 1 .. n : s[i] \in ToSet(s) \ {s[k]}
    BY <1>0 DEF Distinct, ToSet
  <2>3. ASSUME NEW e \in ToSet(s) \ {s[k]} PROVE e \in ToSet(a) \cup ToSet(b)
    <3>1. PICK i \in 1 .. n : e = s[i]
      BY <1>0 DEF ToSet
    <3>2. i \in 1 .. k - 1 \/ i \in k + 1 .. n
      BY <1>0, <2>3, <3>1
    <3>. QED
      BY <1>1, <3>1, <3>2
  <2>. QED
    BY <1>1, <2>1, <2>2, <2>3
<1>5. Distinct(a \o b) /\ ToSet(a \o b) = ToSet(a) \cup ToSet(b)
  BY <1>1, <1>3, ConcatDistinct, ZenonT(40)
<1>. QED
  BY <1>2, <1>4, <1>5

\* DrainMatching deals the queue out to its two slices: nothing twice, nothing lost.
LEMMA DrainMatchingParts ==
    ASSUME TypeOK, DrainMatching, Distinct(pending)
    PROVE  /\ Distinct(drain') /\ Distinct(pending')
           /\ ToSet(drain') \cap ToSet(pending') = {}
           /\ ToSet(drain') \cup ToSet(pending') = ToSet(pending)
<1>. DEFINE n == Len(pending)
            M == {i \in 1..n : model[pending[i]] = modelKey[run]}
            c == Cardinality(M)
<1>1. PICK q \in [1..n -> 1..n] :
        /\ StablePartition(q, n, M)
        /\ drain' = [j \in 1..c |-> pending[q[j]]]
        /\ pending' = [j \in 1..(n - c) |-> pending[q[c + j]]]
  BY DEF DrainMatching
<1>2. pending \in Seq(Requests) /\ n \in Nat /\ DOMAIN pending = 1..n
  BY DEF TypeOK, SharedTypes
<1>3. c \in Nat /\ c <= n
  BY DrainMatchingBound
<1>4. \A j, k \in 1..n : q[j] = q[k] => j = k
  <2>1. /\ \A j \in 1..n : q[j] \in M <=> j <= c
        /\ \A j, k \in 1..n : j < k /\ (q[j] \in M <=> q[k] \in M) => q[j] < q[k]
    BY <1>1 DEF StablePartition
  <2>. HIDE DEF n, M, c
  <2>2. ASSUME NEW j \in 1..n, NEW k \in 1..n, j < k PROVE q[j] # q[k]
    <3>1. CASE q[j] \in M <=> q[k] \in M
      <4>1. q[j] < q[k] /\ q[j] \in 1..n /\ q[k] \in 1..n
        BY <1>1, <2>1, <2>2, <3>1
      <4>. QED
        BY <1>2, <4>1
    <3>2. CASE ~(q[j] \in M <=> q[k] \in M)
      BY <3>2
    <3>. QED
      BY <3>1, <3>2
  <2>. QED
    BY <1>2, <2>2
<1>. HIDE DEF n, M, c
<1>5. \A i \in 1..n : \E j \in 1..n : q[j] = i
  <2>1. IsFiniteSet(1..n)
    BY <1>2, FS_Interval
  <2>2. q \in Injection(1..n, 1..n)
    BY <1>1, <1>4 DEF Injection, IsInjective
  <2>3. q \in Surjection(1..n, 1..n)
    BY <2>1, <2>2, FS_Injection
  <2>. QED
    BY <2>3 DEF Surjection
<1>6. \A j, k \in 1..n : pending[q[j]] = pending[q[k]] => j = k
  BY <1>1, <1>2, <1>4 DEF Distinct
<1>7. /\ \A j \in 1..c : j \in 1..n
      /\ \A j \in 1..(n - c) : c + j \in 1..n
      /\ \A j \in 1..n : j \in 1..c \/ (j - c \in 1..(n - c) /\ c + (j - c) = j)
  BY <1>2, <1>3
<1>8. /\ DOMAIN drain' = 1..c /\ \A j \in 1..c : drain'[j] = pending[q[j]]
      /\ DOMAIN pending' = 1..(n - c) /\ \A j \in 1..(n - c) : pending'[j] = pending[q[c + j]]
  BY <1>1
<1>9. Distinct(drain')
  BY <1>6, <1>7, <1>8 DEF Distinct
<1>10. Distinct(pending')
  <2>. SUFFICES ASSUME NEW i \in 1..(n - c), NEW j \in 1..(n - c), pending'[i] = pending'[j] PROVE i = j
    BY <1>8 DEF Distinct
  <2>1. c + i = c + j
    BY <1>6, <1>7, <1>8
  <2>. QED
    BY <1>3, <2>1
<1>11. ToSet(drain') \cap ToSet(pending') = {}
  <2>. SUFFICES ASSUME NEW i \in 1..c, NEW j \in 1..(n - c), drain'[i] = pending'[j] PROVE FALSE
    BY <1>8 DEF ToSet
  <2>1. i = c + j
    BY <1>6, <1>7, <1>8
  <2>. QED
    BY <1>3, <2>1
<1>12. ToSet(drain') \cup ToSet(pending') \subseteq ToSet(pending)
  BY DrainMatchingSet
<1>13. ASSUME NEW e \in ToSet(pending) PROVE e \in ToSet(drain') \cup ToSet(pending')
  <2>1. PICK i \in 1..n : e = pending[i]
    BY <1>2 DEF ToSet
  <2>2. PICK j \in 1..n : q[j] = i
    BY <1>5
  <2>3. CASE j \in 1..c
    BY <1>8, <2>1, <2>2, <2>3 DEF ToSet
  <2>4. CASE j - c \in 1..(n - c) /\ c + (j - c) = j
    <3>1. pending'[j - c] = e
      BY <1>8, <2>1, <2>2, <2>4
    <3>. QED
      BY <1>8, <2>4, <3>1 DEF ToSet
  <2>. QED
    BY <1>7, <2>3, <2>4
<1>. QED
  BY <1>9, <1>10, <1>11, <1>12, <1>13

\* The request processOnePending works on, and those a load in flight will answer.
Busy == IF pc \in {"idle", "pop"} THEN {} ELSE {cur}
Owners == {owner[x] : x \in loading}
Waiting == Queued \cup Owners

DrainPcs == {"drainLoop", "drainUse"}

OneHolder ==
    /\ Distinct(pending) /\ Distinct(drain) /\ Distinct(requeue)
    /\ ToSet(pending) \cap ToSet(drain) = {}
    /\ ToSet(pending) \cap ToSet(requeue) = {}
    /\ ToSet(drain) \cap ToSet(requeue) = {}
    /\ Busy \cap Waiting = {}
    /\ Owners \cap Queued = {}
    /\ \A x, y \in loading : owner[x] = owner[y] => x = y
    /\ pc = "load" => run \notin loading
    /\ pc \notin DrainPcs => drain = <<>>

\* A client that left during an eviction was failed, and the loop has yet to see it.
GivenUp(r) == pc = "loop" /\ r \in canceled /\ reqPc[r] = "done" /\ errs[r] = 1 /\ oks[r] = 0

AnswerInv ==
    /\ \A r \in Waiting : r \in Requests /\ reqPc[r] = "queued"
    /\ \A r \in Busy : r \in Requests /\ (reqPc[r] = "queued" \/ GivenUp(r))
    /\ \A r \in Requests : reqPc[r] = "queued" => r \in Waiting \cup Busy
    /\ \A r \in Requests : reqPc[r] \notin {"held", "done"} => errs[r] = 0 /\ oks[r] = 0
    /\ AnsweredOnce

\* Nobody waits at the start.
LEMMA AnswerInit == Init => OneHolder /\ AnswerInv
<1>. SUFFICES ASSUME Init PROVE OneHolder /\ AnswerInv
  OBVIOUS
<1>1. Busy = {} /\ Queued = {} /\ Owners = {}
  BY DEF Init, Busy, Queued, Owners, ToSet
<1>2. \A r \in Requests : errs[r] + oks[r] <= 1
  BY DEF Init
<1>. QED
  BY <1>1, <1>2 DEF Init, OneHolder, AnswerInv, AnsweredOnce, Waiting, Distinct, ToSet

\* The step concerns no request but r.
Only(r) == \A q \in Requests \ {r} : reqPc'[q] = reqPc[q] /\ errs'[q] = errs[q] /\ oks'[q] = oks[q]

\* The step is the answer r gets, or one it may get without the answer being its second.
Answers(r) == Only(r) /\ reqPc'[r] \in {"held", "done"} /\ errs'[r] + oks'[r] <= 1

\* A send on either channel of a request that has had no answer yet.
LEMMA SendAnswers ==
    ASSUME RequestTypes, NEW r \in Requests, errs[r] = 0, oks[r] = 0,
           Fail(r) \/ FailCanceled(r) \/ \E x : Hold(r, x)
    PROVE  Answers(r)
<1>1. reqPc \in [Requests -> ReqPcs] /\ errs \in [Requests -> Nat] /\ oks \in [Requests -> Nat]
  BY DEF RequestTypes
<1>2. CASE Fail(r) \/ FailCanceled(r)
  <2>1. errs'[r] = 1 /\ oks' = oks /\ reqPc'[r] = "done"
    BY <1>1, <1>2 DEF Fail, FailCanceled
  <2>. QED
    BY <1>1, <1>2, <2>1 DEF Fail, FailCanceled, Answers, Only
<1>3. CASE \E x : Hold(r, x)
  <2>1. oks'[r] = 1 /\ errs' = errs /\ reqPc'[r] = "held"
    BY <1>1, <1>3 DEF Hold
  <2>. QED
    BY <1>1, <1>3, <2>1 DEF Hold, Answers, Only
<1>. QED
  BY <1>2, <1>3

\* useLoadedRunner answers, one way or the other.
LEMMA UseAnswers ==
    ASSUME RequestTypes, NEW r \in Requests, errs[r] = 0, oks[r] = 0, NEW x, UseLoadedRunner(r, x)
    PROVE  Answers(r)
  BY SendAnswers DEF UseLoadedRunner, Acquire

\* A client that leaves a second time is not sent a second error.
LEMMA FailAgain ==
    ASSUME RequestTypes, NEW r \in Requests, errs[r] = 1, oks[r] = 0, FailCanceled(r)
    PROVE  Answers(r)
<1>1. reqPc \in [Requests -> ReqPcs] /\ errs \in [Requests -> Nat] /\ oks \in [Requests -> Nat]
  BY DEF RequestTypes
<1>2. errs'[r] = 1 /\ oks' = oks /\ reqPc'[r] = "done"
  BY <1>1 DEF FailCanceled
<1>. QED
  BY <1>1, <1>2 DEF FailCanceled, Answers, Only

\* Who waits or is worked on has had no answer, unless it gave up.
LEMMA Unanswered ==
    ASSUME AnswerInv, NEW r \in Waiting \cup Busy, ~GivenUp(r)
    PROVE  r \in Requests /\ reqPc[r] = "queued" /\ errs[r] = 0 /\ oks[r] = 0
<1>1. r \in Requests /\ reqPc[r] = "queued"
  BY DEF AnswerInv
<1>. QED
  BY <1>1 DEF AnswerInv

\* One request moves on, out of the queue if it was there; the others stay.
LEMMA OneMoves ==
    ASSUME OneHolder, AnswerInv, NEW r \in Requests, Only(r), reqPc'[r] # "queued",
           errs'[r] + oks'[r] <= 1, reqPc'[r] \in {"held", "done"} \/ (errs'[r] = 0 /\ oks'[r] = 0),
           Waiting' = Waiting \ {r}, Busy' = Busy \ {r}, pc = "loop" => Busy' = {} \/ pc' = pc,
           \A q \in canceled : q = r \/ q \in canceled'
    PROVE  AnswerInv'
<1>1. ASSUME NEW q \in Waiting' PROVE q \in Requests /\ reqPc'[q] = "queued"
  BY <1>1 DEF AnswerInv, Only
<1>2. ASSUME NEW q \in Busy' PROVE q \in Requests /\ (reqPc'[q] = "queued" \/ GivenUp(q)')
  <2>1. q \in Busy /\ q # r /\ q \in Requests /\ (pc = "loop" => pc' = "loop")
    BY <1>2 DEF AnswerInv
  <2>2. reqPc'[q] = reqPc[q] /\ errs'[q] = errs[q] /\ oks'[q] = oks[q]
    BY <2>1 DEF Only
  <2>3. reqPc[q] = "queued" \/ GivenUp(q)
    BY <2>1 DEF AnswerInv
  <2>. QED
    BY <2>1, <2>2, <2>3 DEF GivenUp
<1>3. ASSUME NEW q \in Requests, reqPc'[q] = "queued" PROVE q \in Waiting' \cup Busy'
  <2>1. q # r /\ reqPc[q] = "queued"
    BY <1>3 DEF Only
  <2>. QED
    BY <2>1 DEF AnswerInv
<1>4. ASSUME NEW q \in Requests, reqPc'[q] \notin {"held", "done"} PROVE errs'[q] = 0 /\ oks'[q] = 0
  BY <1>4 DEF AnswerInv, Only
<1>5. ASSUME NEW q \in Requests PROVE errs'[q] + oks'[q] <= 1
  BY <1>5 DEF AnswerInv, AnsweredOnce, Only
<1>. QED
  BY <1>1, <1>2, <1>3, <1>4, <1>5 DEF AnswerInv, AnsweredOnce

\* The requests in the scheduler's hands change places, and nobody is answered.
LEMMA NoneMoves ==
    ASSUME AnswerInv, UNCHANGED <<reqPc, errs, oks>>, canceled \subseteq canceled',
           Waiting' \cup Busy' = Waiting \cup Busy,
           \A q \in Waiting' : reqPc[q] = "queued",
           \A q \in Busy' : reqPc[q] = "queued" \/ (pc = "loop" /\ pc' = pc)
    PROVE  AnswerInv'
<1>1. ASSUME NEW q \in Waiting' PROVE q \in Requests /\ reqPc'[q] = "queued"
  BY <1>1 DEF AnswerInv
<1>2. ASSUME NEW q \in Busy' PROVE q \in Requests /\ (reqPc'[q] = "queued" \/ GivenUp(q)')
  BY <1>2 DEF AnswerInv, GivenUp
<1>3. ASSUME NEW q \in Requests, reqPc'[q] = "queued" PROVE q \in Waiting' \cup Busy'
  BY <1>3 DEF AnswerInv
<1>4. \A q \in Requests : reqPc'[q] \notin {"held", "done"} => errs'[q] = 0 /\ oks'[q] = 0
  BY DEF AnswerInv
<1>5. AnsweredOnce'
  BY DEF AnswerInv, AnsweredOnce
<1>. QED
  BY <1>1, <1>2, <1>3, <1>4, <1>5 DEF AnswerInv

\* Nobody takes a request into hand.
LEMMA HolderKept ==
    ASSUME OneHolder, UNCHANGED <<pending, drain, requeue>>,
           loading' \subseteq loading, \A x \in loading' : owner'[x] = owner[x],
           Busy' \subseteq Busy, pc' = "load" => run' \notin loading, pc \in DrainPcs => pc' \in DrainPcs
    PROVE  OneHolder' /\ Queued' = Queued
<1>1. Owners' \subseteq Owners /\ Queued' = Queued
  BY DEF Owners, Queued
<1>. QED
  BY <1>1 DEF OneHolder, Waiting

\* Timers, expiry, the broker and clients that leave concern no request that waits.
LEMMA QuietStep ==
    ASSUME OneHolder, AnswerInv, canceled \subseteq canceled',
           UNCHANGED <<reqPc, errs, oks, pending, drain, requeue, pc, cur, run, loading, owner>>
    PROVE  OneHolder' /\ AnswerInv'
<1>1. Busy' = Busy /\ Waiting' = Waiting
  BY DEF Busy, Waiting, Queued, Owners
<1>2. OneHolder'
  <2>1. \A x \in loading' : owner'[x] = owner[x]
    OBVIOUS
  <2>2. (pc' = "load" => run' \notin loading) /\ pc' = pc
    BY DEF OneHolder
  <2>. QED
    BY <1>1, <2>1, <2>2, HolderKept
<1>3. AnswerInv'
  <2>1. \A q \in Waiting' : reqPc[q] = "queued"
    BY <1>1 DEF AnswerInv
  <2>2. \A q \in Busy' : reqPc[q] = "queued" \/ (pc = "loop" /\ pc' = pc)
    BY <1>1 DEF AnswerInv, GivenUp
  <2>. QED
    BY <1>1, <2>1, <2>2, NoneMoves
<1>. QED
  BY <1>2, <1>3

\* GetRunner before the queue and after the answer.
LEMMA HandlerMoves ==
    ASSUME TInv, OneHolder, AnswerInv, NEW r \in Requests, reqPc[r] # "queued",
           r \notin Busy, Only(r), reqPc'[r] # "queued",
           errs'[r] + oks'[r] <= 1, reqPc'[r] \in {"held", "done"} \/ (errs'[r] = 0 /\ oks'[r] = 0),
           UNCHANGED <<pending, drain, requeue, pc, cur, run, loading, owner>>,
           \A q \in canceled : q = r \/ q \in canceled'
    PROVE  OneHolder' /\ AnswerInv'
<1>1. Busy' = Busy /\ Waiting' = Waiting
  BY DEF Busy, Waiting, Queued, Owners
<1>2. OneHolder'
  <2>1. (pc' = "load" => run' \notin loading) /\ pc' = pc
    BY DEF OneHolder
  <2>. QED
    BY <1>1, <2>1, HolderKept
<1>3. Waiting' = Waiting \ {r} /\ Busy' = Busy \ {r}
  BY <1>1 DEF AnswerInv
<1>4. AnswerInv'
  BY <1>3, OneMoves
<1>. QED
  BY <1>2, <1>4

\* Handlers and clients, but for Push: at most the answer to their own request.
LEMMA HandlerStepAnswers ==
    ASSUME TInv, OneHolder, AnswerInv, NEW r \in Requests,
           (HandlerStep(r) /\ ~Push(r)) \/ ClientStep(r)
    PROVE  OneHolder' /\ AnswerInv'
<1>0. /\ RequestTypes
      /\ reqPc \in [Requests -> ReqPcs] /\ errs \in [Requests -> Nat] /\ oks \in [Requests -> Nat]
  BY DEF TInv, TypeOK, RequestTypes
<1>1. UNCHANGED <<pending, drain, requeue, pc, cur, run, loading, owner>>
  BY DEF HandlerStep, ClientStep, Call, CancelCtx, Reap, PauseAbort, Lookup, Check, Use, Refuse,
     ReqFinished, UseLoadedRunner, Acquire, NeedsReload, sharedVars, queueVars, localVars, runnerVars
<1>2. ASSUME reqPc[r] \in {"start", "use", "push"}, \/ Fail(r) \/ \E x : UseLoadedRunner(r, x)
      PROVE  OneHolder' /\ AnswerInv'
  <2>1. errs[r] = 0 /\ oks[r] = 0 /\ r \notin Busy /\ reqPc[r] # "queued"
    BY <1>2 DEF AnswerInv, GivenUp
  <2>2. Answers(r)
    BY <1>0, <1>2, <2>1, SendAnswers, UseAnswers
  <2>3. canceled' = canceled
    BY <1>2 DEF Fail, UseLoadedRunner, Acquire, Hold
  <2>. QED
    BY <1>1, <2>1, <2>2, <2>3, HandlerMoves DEF Answers
<1>3. ASSUME NEW v \in ReqPcs \ {"queued", "held", "done"}, reqPc[r] \in {"free", "start", "check"},
             reqPc' = [reqPc EXCEPT ![r] = v], UNCHANGED <<errs, oks, canceled>>
      PROVE  OneHolder' /\ AnswerInv'
  <2>1. errs[r] = 0 /\ oks[r] = 0 /\ r \notin Busy /\ reqPc[r] # "queued"
    BY <1>3 DEF AnswerInv, GivenUp
  <2>2. Only(r) /\ reqPc'[r] = v
    BY <1>0, <1>3 DEF Only
  <2>. QED
    BY <1>1, <1>3, <2>1, <2>2, HandlerMoves
<1>4. CASE PauseAbort(r) \/ Use(r) \/ Refuse(r)
  BY <1>2, <1>4 DEF PauseAbort, Use, Refuse
<1>5. CASE Lookup(r) \/ Check(r) \/ \E m \in Models, k \in KeepAlives, c \in 1..MaxCtx : Call(r, m, k, c)
  <2>1. \E v \in ReqPcs \ {"queued", "held", "done"} : reqPc' = [reqPc EXCEPT ![r] = v]
    BY <1>5 DEF Lookup, Check, Call, ReqStep, ReqPcs
  <2>2. reqPc[r] \in {"free", "start", "check"} /\ UNCHANGED <<errs, oks, canceled>>
    BY <1>5 DEF Lookup, Check, Call
  <2>. QED
    BY <1>3, <2>1, <2>2
<1>6. CASE ReqFinished(r)
  <2>1. /\ reqPc[r] = "held" /\ reqPc'[r] = "done" /\ Only(r)
        /\ UNCHANGED <<errs, oks, canceled>>
    BY <1>0, <1>6 DEF ReqFinished, ReqStep, Only
  <2>2. r \notin Busy /\ errs'[r] + oks'[r] <= 1
    BY <2>1 DEF AnswerInv, AnsweredOnce, GivenUp
  <2>. QED
    BY <1>1, <2>1, <2>2, HandlerMoves
<1>7. CASE Reap(r)
  <2>1. /\ reqPc[r] = "done" /\ reqPc'[r] = "free" /\ errs'[r] = 0 /\ oks'[r] = 0 /\ Only(r)
        /\ r # cur /\ canceled' = canceled \ {r}
    BY <1>0, <1>7 DEF Reap, ReqStep, Only
  <2>2. r \notin Busy
    BY <2>1 DEF Busy
  <2>3. errs'[r] + oks'[r] <= 1 /\ \A q \in canceled : q = r \/ q \in canceled'
    BY <2>1
  <2>. QED
    BY <1>1, <2>1, <2>2, <2>3, HandlerMoves
<1>8. CASE CancelCtx(r)
  BY <1>1, <1>8, QuietStep DEF CancelCtx
<1>. QED
  BY <1>4, <1>5, <1>6, <1>7, <1>8 DEF HandlerStep, ClientStep

\* Push: the request goes to the end of the queue.
LEMMA PushAnswers ==
    ASSUME TInv, OneHolder, AnswerInv, NEW r \in Requests, Push(r) PROVE OneHolder' /\ AnswerInv'
<1>0. /\ pending \in Seq(Requests) /\ reqPc \in [Requests -> ReqPcs]
  BY DEF TInv, TypeOK, RequestTypes, SharedTypes
<1>1. /\ reqPc[r] = "push" /\ pending' = Append(pending, r) /\ reqPc' = [reqPc EXCEPT ![r] = "queued"]
      /\ UNCHANGED <<drain, requeue, pc, cur, run, loading, owner, errs, oks, canceled>>
  BY DEF Push, ReqStep, localVars, runnerVars
<1>2. r \notin Waiting \cup Busy
  BY <1>1 DEF AnswerInv, GivenUp
<1>3. Distinct(pending') /\ ToSet(pending') = ToSet(pending) \cup {r}
  BY <1>0, <1>1, <1>2, AppendDistinct DEF OneHolder, Waiting, Queued
<1>4. Busy' = Busy /\ Owners' = Owners /\ Queued' = Queued \cup {r} /\ Waiting' = Waiting \cup {r}
  BY <1>1, <1>3 DEF Busy, Owners, Queued, Waiting
<1>5. OneHolder'
  BY <1>1, <1>2, <1>3, <1>4 DEF OneHolder, Waiting, Queued
<1>6. AnswerInv'
  <2>1. \A q \in Requests : q # r => reqPc'[q] = reqPc[q]
    BY <1>0, <1>1
  <2>2. reqPc'[r] = "queued"
    BY <1>0, <1>1
  <2>3. ASSUME NEW q \in Waiting' PROVE q \in Requests /\ reqPc'[q] = "queued"
    BY <1>4, <2>1, <2>2 DEF AnswerInv
  <2>4. ASSUME NEW q \in Busy' PROVE q \in Requests /\ (reqPc'[q] = "queued" \/ GivenUp(q)')
    BY <1>1, <1>2, <1>4, <2>1 DEF AnswerInv, GivenUp
  <2>5. ASSUME NEW q \in Requests, reqPc'[q] = "queued" PROVE q \in Waiting' \cup Busy'
    BY <1>4, <2>1, <2>5 DEF AnswerInv
  <2>6. ASSUME NEW q \in Requests, reqPc'[q] \notin {"held", "done"} PROVE errs'[q] = 0 /\ oks'[q] = 0
    BY <1>1, <2>1, <2>6 DEF AnswerInv
  <2>7. AnsweredOnce'
    BY <1>1 DEF AnswerInv, AnsweredOnce
  <2>. QED
    BY <2>3, <2>4, <2>5, <2>6, <2>7 DEF AnswerInv
<1>. QED
  BY <1>5, <1>6

\* A request leaves the queue, answered or dropped.
LEMMA Dequeued ==
    ASSUME TInv, OneHolder, AnswerInv, NEW i \in DOMAIN pending, pending' = RemoveAt(pending, i),
           UNCHANGED <<drain, requeue, pc, cur, run, loading, owner, canceled>>,
           Only(pending[i]), reqPc'[pending[i]] = "done", errs'[pending[i]] + oks'[pending[i]] <= 1
    PROVE  OneHolder' /\ AnswerInv'
<1>. DEFINE r == pending[i]
<1>0. pending \in Seq(Requests) /\ r \in Requests /\ r \in ToSet(pending)
  BY DEF TInv, TypeOK, SharedTypes, ToSet
<1>1. Distinct(pending') /\ ToSet(pending') = ToSet(pending) \ {r}
  BY <1>0, RemoveAtDistinct DEF OneHolder
<1>. HIDE DEF r
<1>2. r \in Queued /\ r \notin Owners \cup Busy \cup ToSet(drain) \cup ToSet(requeue)
  BY <1>0 DEF OneHolder, Queued, Waiting
<1>3. Busy' = Busy /\ Owners' = Owners /\ Queued' = Queued \ {r} /\ Waiting' = Waiting \ {r}
  BY <1>1, <1>2 DEF Busy, Owners, Queued, Waiting
<1>4. OneHolder'
  BY <1>1, <1>2, <1>3 DEF OneHolder, Waiting, Queued
<1>5. AnswerInv'
  <2>1. Busy' = Busy \ {r}
    BY <1>2, <1>3
  <2>2. Only(r) /\ reqPc'[r] = "done" /\ errs'[r] + oks'[r] <= 1
    BY DEF r
  <2>. QED
    BY <1>0, <1>3, <2>1, <2>2, OneMoves
<1>. QED
  BY <1>4, <1>5

\* dropPendingOnCancel: it looks for the request in the queue and nowhere else.
LEMMA DropAnswers ==
    ASSUME TInv, OneHolder, AnswerInv, NEW r \in Requests, DropPendingOnCancel(r)
    PROVE  OneHolder' /\ AnswerInv'
<1>0. reqPc \in [Requests -> ReqPcs]
  BY DEF TInv, TypeOK, RequestTypes
<1>1. UNCHANGED <<drain, requeue, pc, cur, run, loading, owner, canceled, errs, oks>>
  BY DEF DropPendingOnCancel, localVars, runnerVars
<1>2. CASE r \in ToSet(pending)
  <2>1. PICK i \in DOMAIN pending : pending[i] = r /\ pending' = RemoveAt(pending, i)
    <3>1. \E i \in DOMAIN pending : pending[i] = r
      BY <1>2 DEF ToSet
    <3>. QED
      BY <1>2, <3>1 DEF DropPendingOnCancel, RemoveQueued
  <2>2. Only(r) /\ reqPc'[r] = "done"
    BY <1>0, <1>1, <1>2 DEF DropPendingOnCancel, ReqStep, Only
  <2>3. errs'[r] + oks'[r] <= 1
    BY <1>1 DEF AnswerInv, AnsweredOnce
  <2>. QED
    BY <1>1, <2>1, <2>2, <2>3, Dequeued
<1>3. CASE r \notin ToSet(pending)
  BY <1>1, <1>3, QuietStep DEF DropPendingOnCancel, queueVars
<1>. QED
  BY <1>2, <1>3

\* A pop fails the request, or makes it the scheduler's own.
LEMMA PopAnswers ==
    ASSUME TInv, OneHolder, AnswerInv, PopNext PROVE OneHolder' /\ AnswerInv'
<1>0. pending \in Seq(Requests) /\ RequestTypes
  BY DEF TInv, TypeOK, SharedTypes
<1>1. PICK i \in DOMAIN pending :
        /\ pending' = RemoveAt(pending, i)
        /\ \/ pending[i] \in canceled /\ FailCanceled(pending[i]) /\ UNCHANGED localVars
           \/ /\ pending[i] \notin canceled /\ pc' = "loop" /\ cur' = pending[i]
              /\ UNCHANGED <<reqVars, drain, requeue>>
  BY DEF PopNext
<1>2. pc = "pop" /\ UNCHANGED <<loading, owner>>
  BY DEF PopNext, runnerVars
<1>. DEFINE r == pending[i]
<1>3. r \in Requests /\ r \in ToSet(pending)
  BY <1>0 DEF ToSet
<1>4. Distinct(pending') /\ ToSet(pending') = ToSet(pending) \ {r}
  BY <1>0, <1>1, RemoveAtDistinct DEF OneHolder
<1>5. errs[r] = 0 /\ oks[r] = 0 /\ reqPc[r] = "queued"
  BY <1>2, <1>3, Unanswered DEF Waiting, Queued, GivenUp
<1>6. CASE FailCanceled(r) /\ UNCHANGED localVars
  <2>1. Answers(r)
    BY <1>0, <1>3, <1>5, <1>6, SendAnswers
  <2>2. reqPc'[r] = "done"
    BY <1>0, <1>3, <1>6 DEF FailCanceled, RequestTypes
  <2>3. UNCHANGED <<drain, requeue, pc, cur, run, loading, owner, canceled>>
    BY <1>2, <1>6 DEF localVars, FailCanceled
  <2>. QED
    BY <1>1, <2>1, <2>2, <2>3, Dequeued DEF Answers
<1>7. CASE pc' = "loop" /\ cur' = r /\ UNCHANGED <<reqVars, drain, requeue>>
  <2>. HIDE DEF r
  <2>1. r \notin Owners \cup ToSet(drain) \cup ToSet(requeue)
    BY <1>3 DEF OneHolder, Queued
  <2>2. /\ Busy = {} /\ Busy' = {r} /\ Owners' = Owners
        /\ Queued' = Queued \ {r} /\ Waiting' = Waiting \ {r} /\ r \in Waiting
    BY <1>2, <1>3, <1>4, <1>7, <2>1 DEF Busy, Owners, Queued, Waiting
  <2>3. OneHolder'
    BY <1>2, <1>4, <1>7, <2>1, <2>2 DEF OneHolder, Waiting, Queued, DrainPcs
  <2>4. AnswerInv'
    <3>1. \A q \in Waiting' : reqPc[q] = "queued"
      BY <2>2 DEF AnswerInv
    <3>2. Waiting' \cup Busy' = Waiting \cup Busy
      BY <2>2
    <3>3. UNCHANGED <<reqPc, errs, oks, canceled>>
      BY <1>7 DEF reqVars
    <3>. QED
      BY <1>5, <2>2, <3>1, <3>2, <3>3, NoneMoves
  <2>. QED
    BY <2>3, <2>4
<1>. QED
  BY <1>1, <1>6, <1>7

\* A load in flight answers the request that began it.
LEMMA LoadAnswers ==
    ASSUME TInv, OneHolder, AnswerInv, NEW x \in Runners, LoadStep(x) PROVE OneHolder' /\ AnswerInv'
<1>. DEFINE r == owner[x]
<1>0. RequestTypes
  BY DEF TInv, TypeOK
<1>1. /\ x \in loading /\ loading' = loading \ {x}
      /\ Fail(r) \/ Hold(r, x)
      /\ UNCHANGED <<pending, drain, requeue, pc, cur, run, owner, canceled>>
  BY DEF LoadStep, LoadReady, LoadDetached, LoadFailed, Fail, Hold, queueVars, localVars
<1>2. r \in Owners /\ Owners' = Owners \ {r}
  BY <1>1 DEF Owners, OneHolder
<1>. HIDE DEF r
<1>3. r \notin Busy /\ r \notin Queued
  BY <1>2 DEF OneHolder, Waiting
<1>4. Busy' = Busy /\ Queued' = Queued /\ Waiting' = Waiting \ {r}
  BY <1>1, <1>2, <1>3 DEF Busy, Queued, Waiting
<1>5. OneHolder'
  <2>1. (pc' = "load" => run' \notin loading) /\ pc' = pc
    BY <1>1 DEF OneHolder
  <2>2. loading' \subseteq loading /\ \A y \in loading' : owner'[y] = owner[y]
    BY <1>1
  <2>. QED
    BY <1>1, <1>4, <2>1, <2>2, HolderKept
<1>6. r \in Requests /\ errs[r] = 0 /\ oks[r] = 0
  BY <1>2 DEF AnswerInv, Waiting
<1>7. Answers(r)
  BY <1>0, <1>1, <1>6, SendAnswers
<1>8. AnswerInv'
  BY <1>1, <1>3, <1>4, <1>6, <1>7, OneMoves DEF Answers
<1>. QED
  BY <1>5, <1>8

\* The steps that end processOnePending answer its request.
LEMMA CurrentAnswered ==
    ASSUME TInv, OneHolder, AnswerInv, pc \notin {"idle", "pop"} \cup DrainPcs,
           \/ ~GivenUp(cur) /\ (Fail(cur) \/ \E x : UseLoadedRunner(cur, x))
           \/ FailCanceled(cur),
           pc' = "idle", UNCHANGED <<pending, drain, requeue, loading, owner>>
    PROVE  OneHolder' /\ AnswerInv'
<1>0. RequestTypes /\ cur \in Requests /\ cur \in Busy
  BY DEF TInv, TypeOK, Frames, Busy
<1>1. Busy = {cur} /\ Busy' = {} /\ Owners' = Owners /\ Queued' = Queued
  BY DEF Busy, Owners, Queued
<1>2. cur \notin Waiting
  BY <1>0 DEF OneHolder
<1>3. Answers(cur)
  <2>1. CASE GivenUp(cur)
    BY <1>0, <2>1, FailAgain DEF GivenUp
  <2>2. CASE ~GivenUp(cur)
    <3>1. errs[cur] = 0 /\ oks[cur] = 0
      BY <1>0, <2>2, Unanswered
    <3>. QED
      BY <1>0, <3>1, SendAnswers, UseAnswers
  <2>. QED
    BY <2>1, <2>2
<1>4. OneHolder'
  BY <1>1, HolderKept
<1>5. AnswerInv'
  <2>1. Waiting' = Waiting \ {cur} /\ Busy' = Busy \ {cur}
    BY <1>1, <1>2 DEF Waiting
  <2>2. canceled' = canceled
    BY DEF Fail, FailCanceled, UseLoadedRunner, Acquire, Hold
  <2>. QED
    BY <1>0, <1>1, <1>3, <2>1, <2>2, OneMoves DEF Answers
<1>. QED
  BY <1>4, <1>5

\* Register hands the request to the goroutine that waits for the server.
LEMMA RegisterAnswers ==
    ASSUME TInv, OneHolder, AnswerInv, Register PROVE OneHolder' /\ AnswerInv'
<1>1. /\ pc = "load" /\ loading' = loading \cup {run} /\ owner' = [owner EXCEPT ![run] = cur] /\ pc' = "idle"
      /\ UNCHANGED <<reqPc, errs, oks, canceled, pending, drain, requeue>>
  BY DEF Register, Break, reqVars
<1>2. cur \in Requests /\ run \in Runners /\ owner \in [Runners -> Requests \cup {None}] /\ loading \subseteq Runners
  BY <1>1 DEF TInv, TypeOK, Frames, RunnerTypes
<1>3. run \notin loading /\ owner'[run] = cur /\ \A x \in loading : owner'[x] = owner[x]
  BY <1>1, <1>2 DEF OneHolder
<1>4. /\ Busy = {cur} /\ Busy' = {} /\ Queued' = Queued /\ Owners' = Owners \cup {cur}
      /\ Waiting' = Waiting \cup {cur}
  <2>1. Owners' = Owners \cup {cur}
    BY <1>1, <1>3 DEF Owners
  <2>. QED
    BY <1>1, <2>1 DEF Busy, Queued, Waiting
<1>5. cur \notin Waiting
  BY <1>4 DEF OneHolder
<1>6. \A x, y \in loading' : owner'[x] = owner'[y] => x = y
  <2>1. \A x \in loading : owner[x] # cur
    BY <1>5 DEF Waiting, Owners
  <2>2. \A x, y \in loading : owner[x] = owner[y] => x = y
    BY DEF OneHolder
  <2>. QED
    BY <1>1, <1>3, <2>1, <2>2
<1>7. OneHolder'
  BY <1>1, <1>4, <1>5, <1>6 DEF OneHolder, Waiting, DrainPcs
<1>8. reqPc[cur] = "queued"
  BY <1>1, <1>4, Unanswered DEF GivenUp
<1>9. AnswerInv'
  <2>1. \A q \in Waiting' : reqPc[q] = "queued"
    BY <1>4, <1>8 DEF AnswerInv
  <2>. QED
    BY <1>1, <1>4, <2>1, NoneMoves
<1>. QED
  BY <1>7, <1>9

\* An eviction given up: its request is failed, and stays with the goroutine until
\* the head of the loop.
LEMMA GiveUpAnswers ==
    ASSUME TInv, OneHolder, AnswerInv, EvictCanceled \/ WaitCanceled PROVE OneHolder' /\ AnswerInv'
<1>1. /\ pc \in {"evict", "wait"} /\ cur \in canceled /\ FailCanceled(cur) /\ pc' = "loop"
      /\ UNCHANGED <<cur, pending, drain, requeue, loading, owner, canceled, oks>>
  BY DEF EvictCanceled, WaitCanceled, EvictResume, Retry, FailCanceled, runnerVars, sharedVars, queueVars
<1>2. cur \in Requests /\ cur \in Busy /\ Busy' = Busy /\ Busy = {cur} /\ Waiting' = Waiting
  BY <1>1 DEF TInv, Frames, Busy, Waiting, Queued, Owners
<1>3. /\ reqPc \in [Requests -> ReqPcs] /\ errs \in [Requests -> Nat] /\ oks \in [Requests -> Nat]
  BY DEF TInv, TypeOK, RequestTypes
<1>4. errs[cur] = 0 /\ oks[cur] = 0 /\ cur \notin Waiting
  <2>1. cur \notin Waiting
    BY <1>2 DEF OneHolder
  <2>. QED
    BY <1>1, <1>2, <2>1, Unanswered DEF GivenUp
<1>5. /\ reqPc' = [reqPc EXCEPT ![cur] = "done"] /\ errs'[cur] = 1 /\ oks'[cur] = 0
      /\ \A q \in Requests \ {cur} : errs'[q] = errs[q] /\ oks'[q] = oks[q]
  BY <1>1, <1>2, <1>3, <1>4 DEF FailCanceled
<1>6. OneHolder'
  BY <1>1, <1>2, HolderKept DEF DrainPcs
<1>7. AnswerInv'
  <2>1. ASSUME NEW q \in Waiting' PROVE q \in Requests /\ reqPc'[q] = "queued"
    BY <1>2, <1>3, <1>4, <1>5 DEF AnswerInv
  <2>2. ASSUME NEW q \in Busy' PROVE q \in Requests /\ GivenUp(q)'
    BY <1>1, <1>2, <1>3, <1>5 DEF GivenUp
  <2>3. ASSUME NEW q \in Requests, reqPc'[q] = "queued" PROVE q \in Waiting' \cup Busy'
    BY <1>2, <1>3, <1>5, <2>3 DEF AnswerInv
  <2>4. ASSUME NEW q \in Requests, reqPc'[q] \notin {"held", "done"} PROVE errs'[q] = 0 /\ oks'[q] = 0
    BY <1>3, <1>5, <2>4 DEF AnswerInv
  <2>5. ASSUME NEW q \in Requests PROVE errs'[q] + oks'[q] <= 1
    BY <1>5, <2>5 DEF AnswerInv, AnsweredOnce
  <2>. QED
    BY <2>1, <2>2, <2>3, <2>4, <2>5 DEF AnswerInv, AnsweredOnce
<1>. QED
  BY <1>6, <1>7

\* The other steps of processOnePending keep its request, and touch no queue.
LEMMA LocalAnswers ==
    ASSUME TInv, OneHolder, AnswerInv,
           TakeWake \/ TakeUnloaded \/ PopNothing \/ LoopHead \/ LoopConflict \/ LoopOtherMLX
           \/ LoopFull \/ LoopRoom \/ CheckLoaded \/ PickVictim \/ PickNothing \/ CreateServer
           \/ LoadNeedsRoom \/ ShrinkCheck \/ ShrinkDo \/ ShrinkEnd \/ Evict \/ EvictPause
           \/ WaitUnloaded \/ WaitTimeout
    PROVE  OneHolder' /\ AnswerInv'
<1>1. UNCHANGED <<reqPc, errs, oks, canceled, pending, drain, requeue, loading, owner, cur>>
  BY DEF TakeWake, TakeUnloaded, PopNothing, LoopHead, LoopConflict, LoopOtherMLX, LoopFull, LoopRoom,
     CheckLoaded, PickVictim, PickNothing, CreateServer, LoadNeedsRoom, ShrinkCheck, ShrinkDo, ShrinkEnd,
     Evict, EvictPause, WaitUnloaded, WaitTimeout, EvictResume, Retry, Goto, Advance, NeedsReload,
     reqVars, runnerVars, sharedVars, queueVars, localVars, frameVars
<1>2. /\ pc \in {"idle", "pop"} <=> pc' \in {"idle", "pop"}
      /\ pc = "loop" => cur \notin canceled
      /\ pc' = "load" => CreateServer
      /\ pc \notin DrainPcs
  BY DEF TakeWake, TakeUnloaded, PopNothing, LoopHead, LoopConflict, LoopOtherMLX, LoopFull, LoopRoom,
     Loadable, CheckLoaded, PickVictim, PickNothing, CreateServer, LoadNeedsRoom, ShrinkCheck, ShrinkDo,
     ShrinkEnd, Evict, EvictPause, WaitUnloaded, WaitTimeout, EvictResume, Retry, Goto, Advance,
     localVars, frameVars, DrainPcs
<1>3. CreateServer => run' \notin loading
  BY DEF CreateServer, Free
<1>4. Busy' = Busy /\ Waiting' = Waiting
  BY <1>1, <1>2 DEF Busy, Waiting, Queued, Owners
<1>5. OneHolder'
  BY <1>1, <1>2, <1>3, <1>4, HolderKept
<1>6. AnswerInv'
  <2>1. \A q \in Waiting' : reqPc[q] = "queued"
    BY <1>4 DEF AnswerInv
  <2>2. \A q \in Busy' : reqPc[q] = "queued"
    BY <1>2, <1>4 DEF AnswerInv, GivenUp, Busy
  <2>. QED
    BY <1>1, <1>4, <2>1, <2>2, NoneMoves
<1>. QED
  BY <1>5, <1>6

\* drainSameModelPending: the queue is split, a skipped or used request leaves the
\* slice, one to be kept goes to the other slice, and that one goes back in front.
LEMMA DrainAnswers ==
    ASSUME TInv, OneHolder, AnswerInv, DrainMatching \/ DrainSkip \/ DrainCheck \/ DrainUse \/ DrainEnd
    PROVE  OneHolder' /\ AnswerInv'
<1>0. /\ pending \in Seq(Requests) /\ drain \in Seq(Requests) /\ requeue \in Seq(Requests)
      /\ TypeOK /\ RequestTypes /\ reqPc \in [Requests -> ReqPcs]
  BY DEF TInv, TypeOK, RequestTypes, SharedTypes, LocalTypes
<1>1. /\ UNCHANGED <<cur, loading, owner, canceled>>
      /\ pc \notin {"idle", "pop", "loop"} /\ pc' \notin {"idle", "pop", "loop", "load"}
  BY DEF DrainMatching, DrainSkip, DrainCheck, DrainUse, DrainEnd, NeedsReload, UseLoadedRunner, Acquire,
     Fail, Hold, reqVars, runnerVars
<1>2. Busy' = Busy /\ Owners' = Owners
  BY <1>1 DEF Busy, Owners
<1>3. \A q \in Waiting \cup Busy : q \in Requests /\ reqPc[q] = "queued" /\ errs[q] = 0 /\ oks[q] = 0
  BY <1>1, Unanswered DEF GivenUp
<1>4. ASSUME UNCHANGED <<reqPc, errs, oks>>, Queued' = Queued PROVE AnswerInv'
  <2>1. Waiting' = Waiting
    BY <1>2, <1>4 DEF Waiting
  <2>. QED
    BY <1>1, <1>2, <1>3, <1>4, <2>1, NoneMoves
<1>5. CASE DrainMatching
  <2>1. UNCHANGED <<requeue, reqPc, errs, oks>> /\ drain = <<>> /\ pc' = "drainLoop"
    BY <1>5 DEF DrainMatching, reqVars, OneHolder, DrainPcs
  <2>2. /\ Distinct(drain') /\ Distinct(pending')
        /\ ToSet(drain') \cap ToSet(pending') = {}
        /\ ToSet(drain') \cup ToSet(pending') = ToSet(pending)
    BY <1>0, <1>5, DrainMatchingParts DEF OneHolder
  <2>3. ToSet(drain) = {}
    BY <2>1 DEF ToSet
  <2>4. Queued' = Queued
    BY <2>1, <2>2, <2>3 DEF Queued
  <2>5. OneHolder'
    BY <1>1, <1>2, <2>1, <2>2, <2>4 DEF OneHolder, Waiting, DrainPcs
  <2>. QED
    BY <1>4, <2>1, <2>4, <2>5
<1>6. ASSUME pc \in DrainPcs, drain # <<>>
      PROVE  /\ Head(drain) \in Requests /\ Head(drain) \in ToSet(drain) /\ Head(drain) \in Queued
             /\ Head(drain) \notin Busy \cup Owners \cup ToSet(pending) \cup ToSet(requeue)
             /\ Tail(drain) \in Seq(Requests) /\ Distinct(Tail(drain))
             /\ ToSet(Tail(drain)) = ToSet(drain) \ {Head(drain)}
  <2>1. /\ Head(drain) \in Requests /\ Head(drain) \in ToSet(drain)
        /\ Tail(drain) \in Seq(Requests) /\ Distinct(Tail(drain))
        /\ ToSet(Tail(drain)) = ToSet(drain) \ {Head(drain)}
    BY <1>0, <1>6, TailDistinct DEF OneHolder
  <2>2. Head(drain) \in Queued /\ Head(drain) \notin Busy \cup Owners \cup ToSet(pending) \cup ToSet(requeue)
    BY <2>1 DEF OneHolder, Queued, Waiting
  <2>. QED
    BY <2>1, <2>2
<1>7. ASSUME pc \in DrainPcs, drain # <<>>, drain' = Tail(drain), UNCHANGED <<pending, requeue>>, pc' \in DrainPcs,
             Only(Head(drain)), reqPc'[Head(drain)] \in {"held", "done"},
             errs'[Head(drain)] + oks'[Head(drain)] <= 1
      PROVE  OneHolder' /\ AnswerInv'
  <2>. DEFINE r == Head(drain)
  <2>1. /\ r \in Requests /\ r \in Queued /\ r \notin Busy \cup Owners \cup ToSet(pending) \cup ToSet(requeue)
        /\ Distinct(drain') /\ ToSet(drain') = ToSet(drain) \ {r}
        /\ Only(r) /\ reqPc'[r] \in {"held", "done"} /\ errs'[r] + oks'[r] <= 1
    BY <1>6, <1>7
  <2>. HIDE DEF r
  <2>2. Queued' = Queued \ {r} /\ Waiting' = Waiting \ {r} /\ Busy' = Busy \ {r}
    BY <1>2, <1>7, <2>1 DEF Queued, Waiting
  <2>3. OneHolder'
    BY <1>1, <1>2, <1>7, <2>1, <2>2 DEF OneHolder, Waiting
  <2>4. AnswerInv'
    BY <1>1, <2>1, <2>2, OneMoves
  <2>. QED
    BY <2>3, <2>4
<1>8. CASE DrainSkip
  <2>1. /\ pc \in DrainPcs /\ drain # <<>> /\ drain' = Tail(drain) /\ pc' \in DrainPcs
        /\ UNCHANGED <<pending, requeue, errs, oks>> /\ reqPc' = [reqPc EXCEPT ![Head(drain)] = "done"]
    BY <1>8 DEF DrainSkip, DrainPcs, ReqStep, sharedVars, queueVars
  <2>2. Head(drain) \in Requests
    BY <1>6, <2>1
  <2>3. Only(Head(drain)) /\ reqPc'[Head(drain)] = "done"
    BY <1>0, <2>1, <2>2 DEF Only
  <2>4. errs'[Head(drain)] + oks'[Head(drain)] <= 1
    BY <2>1, <2>2 DEF AnswerInv, AnsweredOnce
  <2>. QED
    BY <1>7, <2>1, <2>3, <2>4
<1>9. CASE DrainUse
  <2>1. /\ pc \in DrainPcs /\ drain # <<>> /\ drain' = Tail(drain) /\ pc' \in DrainPcs
        /\ UNCHANGED <<pending, requeue>> /\ UseLoadedRunner(Head(drain), run)
    BY <1>9 DEF DrainUse, DrainPcs, sharedVars, queueVars, TInv, Frames
  <2>2. Head(drain) \in Requests /\ errs[Head(drain)] = 0 /\ oks[Head(drain)] = 0
    BY <1>3, <1>6, <2>1 DEF Waiting
  <2>3. Answers(Head(drain))
    BY <1>0, <2>1, <2>2, UseAnswers
  <2>. QED
    BY <1>7, <2>1, <2>3 DEF Answers
<1>10. CASE DrainCheck
  <2>1. /\ pc \in DrainPcs /\ drain # <<>> /\ pc' \in DrainPcs /\ UNCHANGED <<pending, reqPc, errs, oks>>
        /\ \/ UNCHANGED <<drain, requeue>>
           \/ drain' = Tail(drain) /\ requeue' = Append(requeue, Head(drain))
    BY <1>10 DEF DrainCheck, DrainPcs, reqVars, sharedVars, queueVars
  <2>2. CASE UNCHANGED <<drain, requeue>>
    <3>1. Queued' = Queued
      BY <2>1, <2>2 DEF Queued
    <3>2. OneHolder'
      BY <1>1, <1>2, <2>1, <2>2, <3>1 DEF OneHolder, Waiting
    <3>. QED
      BY <1>4, <2>1, <3>1, <3>2
  <2>3. CASE drain' = Tail(drain) /\ requeue' = Append(requeue, Head(drain))
    <3>. DEFINE r == Head(drain)
    <3>1. /\ r \in Requests /\ r \in ToSet(drain) /\ r \notin Busy \cup Owners \cup ToSet(pending) \cup ToSet(requeue)
          /\ Distinct(drain') /\ ToSet(drain') = ToSet(drain) \ {r} /\ requeue' = Append(requeue, r)
      BY <1>6, <2>1, <2>3
    <3>. HIDE DEF r
    <3>2. Distinct(requeue') /\ ToSet(requeue') = ToSet(requeue) \cup {r}
      BY <1>0, <3>1, AppendDistinct DEF OneHolder
    <3>3. Queued' = Queued
      BY <2>1, <3>1, <3>2 DEF Queued
    <3>4. OneHolder'
      BY <1>1, <1>2, <2>1, <3>1, <3>2, <3>3 DEF OneHolder, Waiting
    <3>. QED
      BY <1>4, <2>1, <3>3, <3>4
  <2>. QED
    BY <2>1, <2>2, <2>3
<1>11. CASE DrainEnd
  <2>1. /\ drain = <<>> /\ UNCHANGED <<drain, reqPc, errs, oks>> /\ pending' = requeue \o pending /\ requeue' = <<>>
    BY <1>11 DEF DrainEnd, RequeueFront, reqVars
  <2>2. Distinct(pending') /\ ToSet(pending') = ToSet(requeue) \cup ToSet(pending)
    BY <1>0, <2>1, ConcatDistinct DEF OneHolder
  <2>3. Distinct(requeue') /\ ToSet(requeue') = {} /\ ToSet(drain) = {}
    BY <2>1 DEF Distinct, ToSet
  <2>4. Queued' = Queued
    BY <2>1, <2>2, <2>3 DEF Queued
  <2>5. OneHolder'
    BY <1>1, <1>2, <2>1, <2>2, <2>3, <2>4 DEF OneHolder, Waiting
  <2>. QED
    BY <1>4, <2>1, <2>4, <2>5
<1>. QED
  BY <1>5, <1>8, <1>9, <1>10, <1>11

\* Every step of every goroutine keeps both.
LEMMA AnswerStep == TInv /\ OneHolder /\ AnswerInv /\ [Next]_vars => OneHolder' /\ AnswerInv'
<1>. SUFFICES ASSUME TInv, OneHolder, AnswerInv, [Next]_vars PROVE OneHolder' /\ AnswerInv'
  OBVIOUS
<1>1. ASSUME NEW r \in Requests, ClientStep(r) \/ HandlerStep(r) PROVE OneHolder' /\ AnswerInv'
  BY <1>1, HandlerStepAnswers, PushAnswers
<1>2. ASSUME NEW r \in Requests, DropPendingOnCancel(r) PROVE OneHolder' /\ AnswerInv'
  BY <1>2, DropAnswers
<1>3. ASSUME NEW x \in Runners, LoadStep(x) PROVE OneHolder' /\ AnswerInv'
  BY <1>3, LoadAnswers
<1>4. CASE \/ \E r \in Requests : ProcessFinishedRequest(r)
           \/ \E x \in Runners : TimerFire(x) \/ TimerCallback(x) \/ ExpireStep(x) \/ UnloadDetach(x) \/ Crash(x)
           \/ ExpireFinish \/ BrokerStep \/ UNCHANGED vars
  <2>1. UNCHANGED <<reqPc, errs, oks, pending, drain, requeue, pc, cur, run, loading, owner, canceled>>
    <3>1. ASSUME NEW r \in Requests, ProcessFinishedRequest(r)
          PROVE  UNCHANGED <<reqPc, errs, oks, pending, drain, requeue, pc, cur, run, loading, owner, canceled>>
      BY <3>1 DEF ProcessFinishedRequest, queueVars, localVars
    <3>2. ASSUME NEW x \in Runners, TimerFire(x) \/ TimerCallback(x) \/ ExpireStep(x) \/ UnloadDetach(x) \/ Crash(x)
          PROVE  UNCHANGED <<reqPc, errs, oks, pending, drain, requeue, pc, cur, run, loading, owner, canceled>>
      BY <3>2 DEF TimerFire, TimerCallback, ExpireStep, ExpireDuplicate, ExpireOrphan, ExpireUnload,
         UnloadDetach, Crash, reqVars, runnerVars, sharedVars, queueVars, localVars
    <3>3. CASE ExpireFinish \/ BrokerStep
      BY <3>3, SMTT(30) DEF ExpireFinish, BrokerStep, ExpireRunner, WatchdogReclaim, WatchdogShrinkCheck,
         WatchdogShrink, Protect, CooldownOver, UnloadRunnersExcept, UnloadRunners, PrepareForTraining,
         TrainingEnds, PolicyTick, RuntimeTicket, reqVars, runnerVars, queueVars, localVars
    <3>4. CASE UNCHANGED vars
      BY <3>4 DEF vars, reqVars, runnerVars, sharedVars, queueVars, localVars
    <3>. QED
      BY <1>4, <3>1, <3>2, <3>3, <3>4
  <2>. QED
    BY <2>1, QuietStep
<1>5. CASE PopNext
  BY <1>5, PopAnswers
<1>6. CASE LoopCanceled \/ LoopMLXBusy \/ CreateFails \/ LoadFails \/ UseLoaded
  <2>1. /\ pc \notin {"idle", "pop"} \cup DrainPcs
        /\ \/ pc # "loop" /\ (Fail(cur) \/ \E x : UseLoadedRunner(cur, x))
           \/ FailCanceled(cur)
    BY <1>6 DEF LoopCanceled, LoopMLXBusy, CreateFails, LoadFails, UseLoaded, DrainPcs
  <2>2. pc' = "idle" /\ UNCHANGED <<pending, drain, requeue, loading, owner>>
    BY <1>6 DEF LoopCanceled, LoopMLXBusy, CreateFails, LoadFails, UseLoaded, UseLoadedRunner, Acquire, Break,
       runnerVars
  <2>3. pc # "loop" => ~GivenUp(cur)
    BY DEF GivenUp
  <2>. QED
    BY <2>1, <2>2, <2>3, CurrentAnswered
<1>7. CASE Register
  BY <1>7, RegisterAnswers
<1>8. CASE DrainMatching \/ DrainSkip \/ DrainCheck \/ DrainUse \/ DrainEnd
  BY <1>8, DrainAnswers
<1>9. CASE EvictCanceled \/ WaitCanceled
  BY <1>9, GiveUpAnswers
<1>10. CASE TakeWake \/ TakeUnloaded \/ PopNothing \/ LoopHead \/ LoopConflict \/ LoopOtherMLX
           \/ LoopFull \/ LoopRoom \/ CheckLoaded \/ PickVictim \/ PickNothing \/ CreateServer
           \/ LoadNeedsRoom \/ ShrinkCheck \/ ShrinkDo \/ ShrinkEnd \/ Evict \/ EvictPause
           \/ WaitUnloaded \/ WaitTimeout
  BY <1>10, LocalAnswers
<1>. QED
  BY <1>1, <1>2, <1>3, <1>4, <1>5, <1>6, <1>7, <1>8, <1>9, <1>10 DEF Next, SchedulerStep

\* In every reachable state.
LEMMA AnswerInvariant == Spec => [](OneHolder /\ AnswerInv)
<1>. QED
  BY AnswerInit, AnswerStep, TypeInvariant, PTL DEF Spec

\* A request is answered at most once, whichever of its handler, the scheduler
\* goroutine and the goroutines of loads gets to it: neither errCh nor successCh, of
\* capacity one, is sent to twice.
THEOREM AnsweredOnceHolds == Spec => []AnsweredOnce
<1>1. AnswerInv => AnsweredOnce
  BY DEF AnswerInv
<1>. QED
  BY <1>1, AnswerInvariant, PTL

\* A request that was queued is in the queue, with the scheduler goroutine, or with
\* the load that will answer it, until it is answered or dropped with its client gone.
THEOREM NoneForgottenHolds == Spec => []NoneForgotten
<1>1. AnswerInv => NoneForgotten
  <2>. SUFFICES ASSUME AnswerInv, NEW r \in Requests, reqPc[r] = "queued"
                PROVE  \/ r \in ToSet(pending) \cup ToSet(drain) \cup ToSet(requeue) \cup {cur}
                       \/ \E x \in loading : owner[x] = r
    BY DEF NoneForgotten
  <2>. QED
    BY DEF AnswerInv, Waiting, Queued, Owners, Busy
<1>. QED
  BY <1>1, AnswerInvariant, PTL

-----------------------------------------------------------------------------
(* Why an idle runner expires.  processFinishedRequest finds the runner it        *)
(* releases by the request's model key, not by the runner the request was given.  *)
(* KeyInv says that the two agree for as long as that runner is in the map, so    *)
(* that the last reference to a resident runner starts the timer of that runner.  *)

\* The request has looked a runner up, holds it, or has yet to release it.
Holds(r) == reqPc[r] = "held" \/ r \in finishedReqCh
Using(r) == reqPc[r] \in {"check", "use"} \/ Holds(r)

KeyInv ==
    /\ \A r \in Requests : Using(r) => ptr[r] \in Runners /\ modelKey[ptr[r]] = model[r]
    /\ \A r \in Requests : Holds(r) => oks[r] = 1
    /\ \A r \in finishedReqCh : reqPc[r] = "done"
    /\ \A x \in loading : modelKey[x] = model[owner[x]]
    /\ pc \in {"check", "use"} => run \in Runners /\ modelKey[run] = model[cur]
    /\ pc \in {"drain"} \cup DrainPcs => run \in Runners
    /\ \A q \in ToSet(drain) : model[q] = modelKey[run]

\* The model of a request is set when its slot is used, and only then.
LEMMA ModelFixed ==
    ASSUME TInv, [Next]_vars, NEW r \in Requests, reqPc[r] # "free" PROVE model'[r] = model[r]
<1>0. model \in [Requests -> Models]
  BY DEF TInv, TypeOK, RequestTypes
<1>1. ASSUME NEW q \in Requests, ClientStep(q) PROVE model'[r] = model[r]
  BY <1>0, <1>1 DEF ClientStep, Call, CancelCtx, Reap, argVars
<1>2. ASSUME NEW q \in Requests, HandlerStep(q) \/ DropPendingOnCancel(q) \/ ProcessFinishedRequest(q)
      PROVE  UNCHANGED model
  BY <1>2 DEF HandlerStep, PauseAbort, Lookup, Check, Use, Refuse, Push, ReqFinished, DropPendingOnCancel,
     ProcessFinishedRequest, Fail, UseLoadedRunner, Acquire, Hold, argVars
<1>3. ASSUME NEW x \in Runners,
             TimerFire(x) \/ TimerCallback(x) \/ ExpireStep(x) \/ LoadStep(x) \/ UnloadDetach(x) \/ Crash(x)
      PROVE  UNCHANGED model
  BY <1>3 DEF TimerFire, TimerCallback, ExpireStep, ExpireDuplicate, ExpireOrphan, ExpireUnload, LoadStep,
     LoadReady, LoadDetached, LoadFailed, UnloadDetach, Crash, Fail, Hold, argVars, reqVars
<1>4. CASE SchedulerStep
  <2>1. CASE TakeWake \/ TakeUnloaded \/ PopNothing \/ PopNext \/ LoopCanceled \/ LoopHead \/ LoopConflict
             \/ LoopOtherMLX \/ LoopMLXBusy \/ LoopFull \/ LoopRoom \/ CheckLoaded \/ UseLoaded
             \/ PickVictim \/ PickNothing
    BY <2>1 DEF TakeWake, TakeUnloaded, PopNothing, PopNext, LoopCanceled, LoopHead, LoopConflict, LoopOtherMLX,
       LoopMLXBusy, LoopFull, LoopRoom, Advance, CheckLoaded, UseLoaded, PickVictim, PickNothing, Fail,
       FailCanceled, UseLoadedRunner, Acquire, Hold, reqVars, argVars
  <2>2. CASE CreateServer \/ CreateFails \/ Register \/ LoadNeedsRoom \/ LoadFails
             \/ ShrinkCheck \/ ShrinkDo \/ ShrinkEnd
    BY <2>2 DEF CreateServer, CreateFails, Register, LoadNeedsRoom, LoadFails, ShrinkCheck, ShrinkDo, ShrinkEnd,
       Fail, reqVars, argVars
  <2>3. CASE DrainMatching \/ DrainSkip \/ DrainCheck \/ DrainUse \/ DrainEnd \/ EvictCanceled \/ Evict
             \/ EvictPause \/ WaitUnloaded \/ WaitTimeout \/ WaitCanceled
    BY <2>3 DEF DrainMatching, DrainSkip, DrainCheck, DrainUse, DrainEnd, EvictCanceled, Evict, EvictPause,
       WaitUnloaded, WaitTimeout, WaitCanceled, FailCanceled, Fail, UseLoadedRunner, Acquire, Hold, reqVars, argVars
  <2>. QED
    BY <1>4, <2>1, <2>2, <2>3 DEF SchedulerStep
<1>5. CASE ExpireFinish \/ BrokerStep
  BY <1>5 DEF ExpireFinish, BrokerStep, ExpireRunner, WatchdogReclaim, WatchdogShrinkCheck, WatchdogShrink,
     Protect, CooldownOver, UnloadRunnersExcept, UnloadRunners, PrepareForTraining, TrainingEnds, PolicyTick,
     RuntimeTicket, reqVars
<1>6. CASE UNCHANGED vars
  BY <1>6 DEF vars, reqVars
<1>. QED
  BY <1>1, <1>2, <1>3, <1>4, <1>5, <1>6 DEF Next

\* The key of a runner is set when its object is created, and nothing refers to it then.
LEMMA KeyFixed ==
    ASSUME TInv, [Next]_vars, NEW x \in Runners, ~Free(x) PROVE modelKey'[x] = modelKey[x]
<1>0. modelKey \in [Runners -> Models]
  BY DEF TInv, TypeOK, RunnerTypes
<1>1. ASSUME NEW q \in Requests,
             ClientStep(q) \/ HandlerStep(q) \/ DropPendingOnCancel(q) \/ ProcessFinishedRequest(q)
      PROVE  UNCHANGED modelKey
  BY <1>1 DEF ClientStep, Call, CancelCtx, Reap, HandlerStep, PauseAbort, Lookup, Check, Use, Refuse, Push,
     ReqFinished, DropPendingOnCancel, ProcessFinishedRequest, UseLoadedRunner, Acquire, NeedsReload, runnerVars
<1>2. ASSUME NEW y \in Runners,
             TimerFire(y) \/ TimerCallback(y) \/ ExpireStep(y) \/ LoadStep(y) \/ UnloadDetach(y) \/ Crash(y)
      PROVE  UNCHANGED modelKey
  BY <1>2 DEF TimerFire, TimerCallback, ExpireStep, ExpireDuplicate, ExpireOrphan, ExpireUnload, LoadStep,
     LoadReady, LoadDetached, LoadFailed, UnloadDetach, Crash, runnerVars
<1>3. CASE CreateServer
  BY <1>0, <1>3 DEF CreateServer
<1>4. CASE SchedulerStep /\ ~CreateServer
  <2>1. CASE TakeWake \/ TakeUnloaded \/ PopNothing \/ PopNext \/ LoopCanceled \/ LoopHead \/ LoopConflict
             \/ LoopOtherMLX \/ LoopMLXBusy \/ LoopFull \/ LoopRoom \/ CheckLoaded \/ UseLoaded
             \/ PickVictim \/ PickNothing
    BY <2>1 DEF TakeWake, TakeUnloaded, PopNothing, PopNext, LoopCanceled, LoopHead, LoopConflict, LoopOtherMLX,
       LoopMLXBusy, LoopFull, LoopRoom, Advance, CheckLoaded, UseLoaded, PickVictim, PickNothing,
       UseLoadedRunner, Acquire, NeedsReload, runnerVars
  <2>2. CASE CreateFails \/ Register \/ LoadNeedsRoom \/ LoadFails \/ ShrinkCheck \/ ShrinkDo \/ ShrinkEnd
    BY <2>2 DEF CreateFails, Register, LoadNeedsRoom, LoadFails, ShrinkCheck, ShrinkDo, ShrinkEnd, runnerVars
  <2>3. CASE DrainMatching \/ DrainSkip \/ DrainCheck \/ DrainUse \/ DrainEnd \/ EvictCanceled \/ Evict
             \/ EvictPause \/ WaitUnloaded \/ WaitTimeout \/ WaitCanceled
    BY <2>3 DEF DrainMatching, DrainSkip, DrainCheck, DrainUse, DrainEnd, EvictCanceled, Evict, EvictPause,
       WaitUnloaded, WaitTimeout, WaitCanceled, EvictResume, UseLoadedRunner, Acquire, NeedsReload, runnerVars
  <2>. QED
    BY <1>4, <2>1, <2>2, <2>3 DEF SchedulerStep
<1>5. CASE ExpireFinish \/ BrokerStep
  BY <1>5 DEF ExpireFinish, BrokerStep, ExpireRunner, WatchdogReclaim, WatchdogShrinkCheck, WatchdogShrink,
     Protect, CooldownOver, UnloadRunnersExcept, UnloadRunners, PrepareForTraining, TrainingEnds, PolicyTick,
     RuntimeTicket, runnerVars
<1>6. CASE UNCHANGED vars
  BY <1>6 DEF vars, runnerVars
<1>. QED
  BY <1>1, <1>2, <1>3, <1>4, <1>5, <1>6 DEF Next

\* The step gives r no runner and no answer, and takes none away before its release.
KeepsUse(r) ==
    /\ Using(r)' => Using(r) /\ ptr'[r] = ptr[r]
    /\ Holds(r)' => Holds(r) /\ oks'[r] = oks[r]
    /\ r \in finishedReqCh' => reqPc'[r] = "done"
    /\ Holds(r) => (Holds(r)' /\ ptr'[r] = ptr[r]) \/ ProcessFinishedRequest(r)

\* The step gives r a runner of its model.
Enters(r) ==
    /\ reqPc[r] # "free" /\ ~Holds(r) /\ r \notin finishedReqCh'
    /\ ptr'[r] \in Runners /\ ~Free(ptr'[r]) /\ modelKey[ptr'[r]] = model[r]
    /\ Holds(r)' => oks'[r] = 1

\* Who has no answer yet has nothing to release.
LEMMA NothingHeld ==
    ASSUME TInv, AnswerInv, KeyInv, NEW r \in Requests,
           r \in Waiting \cup Busy \/ reqPc[r] \notin {"held", "done"}
    PROVE  ~Holds(r) /\ oks[r] = 0 /\ r \notin finishedReqCh
<1>1. oks[r] = 0
  BY DEF AnswerInv, GivenUp
<1>2. oks[r] # 1
  BY <1>1
<1>. QED
  BY <1>1, <1>2 DEF KeyInv, Holds

\* Sends on the channels of q concern nobody else, and an error gives no runner.
LEMMA SendKeeps ==
    ASSUME TInv, KeyInv, NEW q \in Requests, UNCHANGED finishedReqCh, NEW r \in Requests,
           \/ q # r /\ \E x : Hold(q, x)
           \/ ~Holds(q) /\ (Fail(q) \/ FailCanceled(q))
    PROVE  KeepsUse(r)
<1>1. /\ reqPc \in [Requests -> ReqPcs] /\ ptr \in [Requests -> Runners \cup {None}]
      /\ oks \in [Requests -> Nat]
  BY DEF TInv, TypeOK, RequestTypes
<1>2. r \in finishedReqCh => reqPc[r] = "done"
  BY DEF KeyInv
<1>. QED
  BY <1>1, <1>2 DEF Fail, FailCanceled, Hold, KeepsUse, Using, Holds

\* A runner that is handed out is one of the request's model.
LEMMA HoldEnters ==
    ASSUME TInv, KeyInv, NEW q \in Requests, UNCHANGED finishedReqCh, ~Holds(q),
           oks[q] = 0, reqPc[q] # "free", NEW x \in Runners, ~Free(x), modelKey[x] = model[q], Hold(q, x)
    PROVE  Enters(q)
<1>1. ptr \in [Requests -> Runners \cup {None}] /\ oks \in [Requests -> Nat]
  BY DEF TInv, TypeOK, RequestTypes
<1>2. ptr'[q] = x /\ oks'[q] = 1
  BY <1>1 DEF Hold
<1>. QED
  BY <1>2 DEF Enters, Holds

\* A step that leaves runners, answers and handlers alone.
LEMMA KeptStill ==
    ASSUME KeyInv, UNCHANGED <<reqPc, ptr, oks, finishedReqCh>>, NEW r \in Requests PROVE KeepsUse(r)
  BY DEF KeepsUse, Using, Holds, KeyInv

\* The steps of a handler and its goroutines.
LEMMA HandlerKeeps ==
    ASSUME TInv, Ownership, AnswerInv, KeyInv, NEW q \in Requests, NEW r \in Requests,
           ClientStep(q) \/ HandlerStep(q) \/ DropPendingOnCancel(q) \/ ProcessFinishedRequest(q)
    PROVE  KeepsUse(r) \/ Enters(r)
<1>0. /\ reqPc \in [Requests -> ReqPcs] /\ ptr \in [Requests -> Runners \cup {None}] /\ oks \in [Requests -> Nat]
      /\ model \in [Requests -> Models] /\ loaded \in [Models -> Runners \cup {None}] /\ finishedReqCh \subseteq Requests
      /\ None \notin Runners
  BY SchedulerAssumption DEF TInv, TypeOK, RequestTypes, SharedTypes
<1>k. \A p \in finishedReqCh : reqPc[p] = "done"
  BY DEF KeyInv
<1>1. CASE ClientStep(q)
  BY <1>0, <1>k, <1>1 DEF ClientStep, Call, CancelCtx, Reap, ReqStep, KeepsUse, Using, Holds, sharedVars, chanVars
<1>2. CASE PauseAbort(q) \/ Refuse(q)
  BY <1>2, SendKeeps, NothingHeld DEF PauseAbort, Refuse, sharedVars, chanVars
<1>3. CASE Lookup(q)
  <2>1. CASE r # q \/ loaded[model[q]] = None
    BY <1>0, <1>k, <1>3, <2>1 DEF Lookup, ReqStep, KeepsUse, Using, Holds, sharedVars, chanVars
  <2>2. CASE r = q /\ loaded[model[q]] # None
    <3>1. /\ ptr'[q] = loaded[model[q]] /\ loaded[model[q]] \in Runners /\ modelKey[loaded[model[q]]] = model[q]
          /\ loaded[model[q]] \in Resident
      BY <1>0, <1>3, <2>2 DEF Lookup, Ownership, LoadedAttached, Resident
    <3>2. reqPc[q] = "start" /\ reqPc'[q] = "check" /\ q \notin finishedReqCh' /\ ~Holds(q)
      BY <1>0, <1>k, <1>3, <2>2 DEF Lookup, ReqStep, Holds, sharedVars, chanVars
    <3>. QED
      BY <2>2, <3>1, <3>2 DEF Enters, Holds, Free
  <2>. QED
    BY <2>1, <2>2
<1>4. CASE Check(q) \/ Push(q) \/ ReqFinished(q)
  BY <1>0, <1>k, <1>4 DEF Check, Push, ReqFinished, ReqStep, KeepsUse, Using, Holds, sharedVars, chanVars
<1>5. CASE Use(q)
  <2>1. ~Holds(q) /\ oks[q] = 0 /\ reqPc[q] = "use" /\ UNCHANGED finishedReqCh
        /\ ptr[q] \in Runners /\ modelKey[ptr[q]] = model[q]
    BY <1>5, NothingHeld DEF Use, sharedVars, chanVars, KeyInv, Using
  <2>2. CASE Fail(q)
    BY <2>1, <2>2, SendKeeps
  <2>3. CASE Hold(q, ptr[q])
    BY <2>1, <2>3, SendKeeps, HoldEnters DEF Free
  <2>. QED
    BY <1>5, <2>2, <2>3 DEF Use, UseLoadedRunner, Acquire
<1>6. CASE DropPendingOnCancel(q)
  <2>1. q \in ToSet(pending) => ~Holds(q)
    BY NothingHeld DEF Waiting, Queued
  <2>. QED
    BY <1>0, <1>k, <1>6, <2>1 DEF DropPendingOnCancel, ReqStep, KeepsUse, Using, Holds, chanVars
<1>7. CASE ProcessFinishedRequest(q)
  BY <1>0, <1>k, <1>7 DEF ProcessFinishedRequest, KeepsUse, Using, Holds
<1>. QED
  BY <1>1, <1>2, <1>3, <1>4, <1>5, <1>6, <1>7 DEF HandlerStep

\* The steps of everybody else.
LEMMA RunnerKeeps ==
    ASSUME TInv, AnswerInv, KeyInv, NEW r \in Requests,
           \/ \E x \in Runners : TimerFire(x) \/ TimerCallback(x) \/ ExpireStep(x) \/ LoadStep(x)
                                 \/ UnloadDetach(x) \/ Crash(x)
           \/ ExpireFinish \/ BrokerStep \/ UNCHANGED vars
    PROVE  KeepsUse(r) \/ Enters(r)
<1>1. ASSUME NEW x \in Runners, LoadStep(x) PROVE KeepsUse(r) \/ Enters(r)
  <2>1. x \in loading /\ owner[x] \in Waiting /\ UNCHANGED finishedReqCh
    BY <1>1 DEF LoadStep, LoadReady, LoadDetached, LoadFailed, Waiting, Owners, chanVars
  <2>2. /\ owner[x] \in Requests /\ reqPc[owner[x]] = "queued" /\ modelKey[x] = model[owner[x]]
        /\ ~Free(x)
    BY <2>1 DEF AnswerInv, KeyInv, Free
  <2>3. ~Holds(owner[x]) /\ oks[owner[x]] = 0
    BY <2>1, <2>2, NothingHeld
  <2>4. CASE Fail(owner[x])
    BY <2>1, <2>2, <2>3, <2>4, SendKeeps
  <2>5. CASE Hold(owner[x], x)
    BY <2>1, <2>2, <2>3, <2>5, SendKeeps, HoldEnters
  <2>. QED
    BY <1>1, <2>4, <2>5 DEF LoadStep, LoadReady, LoadDetached, LoadFailed
<1>2. ASSUME NEW x \in Runners, TimerFire(x) \/ TimerCallback(x) \/ ExpireStep(x) \/ UnloadDetach(x) \/ Crash(x)
      PROVE  UNCHANGED <<reqPc, ptr, oks, finishedReqCh>>
  BY <1>2 DEF TimerFire, TimerCallback, ExpireStep, ExpireDuplicate, ExpireOrphan, ExpireUnload, UnloadDetach,
     Crash, reqVars, sharedVars, chanVars
<1>3. CASE ExpireFinish \/ BrokerStep
  <2>1. UNCHANGED <<reqPc, ptr, oks, finishedReqCh>>
    BY <1>3 DEF ExpireFinish, BrokerStep, ExpireRunner, WatchdogReclaim, WatchdogShrinkCheck, WatchdogShrink,
       Protect, CooldownOver, UnloadRunnersExcept, UnloadRunners, PrepareForTraining, TrainingEnds, PolicyTick,
       RuntimeTicket, reqVars, chanVars
  <2>. QED
    BY <2>1, KeptStill
<1>4. CASE UNCHANGED vars
  BY <1>4, KeptStill DEF vars, reqVars, sharedVars, chanVars
<1>. QED
  BY <1>1, <1>2, <1>3, <1>4, KeptStill

\* The steps of the scheduler goroutine.
LEMMA SchedulerKeeps ==
    ASSUME TInv, AnswerInv, KeyInv, NEW r \in Requests, SchedulerStep PROVE KeepsUse(r) \/ Enters(r)
<1>0. pending \in Seq(Requests) /\ drain \in Seq(Requests) /\ reqPc \in [Requests -> ReqPcs]
      /\ llama \subseteq Runners
  BY DEF TInv, TypeOK, RequestTypes, RunnerTypes, SharedTypes, LocalTypes
<1>1. CASE PopNext
  <2>1. PICK i \in DOMAIN pending : FailCanceled(pending[i]) \/ UNCHANGED reqVars
    BY <1>1 DEF PopNext
  <2>2. pending[i] \in Requests /\ pending[i] \in Waiting /\ UNCHANGED finishedReqCh
    BY <1>0, <1>1 DEF PopNext, Waiting, Queued, ToSet, chanVars
  <2>3. ~Holds(pending[i])
    BY <2>2, NothingHeld
  <2>. QED
    BY <2>1, <2>2, <2>3, SendKeeps, KeptStill DEF reqVars
<1>2. CASE LoopCanceled \/ LoopMLXBusy \/ CreateFails \/ LoadFails \/ UseLoaded \/ EvictCanceled \/ WaitCanceled
  <2>1. cur \in Busy
    BY <1>2 DEF LoopCanceled, LoopMLXBusy, CreateFails, LoadFails, UseLoaded, EvictCanceled, WaitCanceled, Busy
  <2>2. cur \in Requests /\ reqPc[cur] # "free" /\ ~Holds(cur) /\ oks[cur] = 0
    BY <2>1, NothingHeld DEF AnswerInv, GivenUp
  <2>3. UNCHANGED finishedReqCh
    BY <1>2 DEF LoopCanceled, LoopMLXBusy, CreateFails, LoadFails, UseLoaded, EvictCanceled, WaitCanceled,
       EvictResume, sharedVars, chanVars
  <2>4. CASE Fail(cur) \/ FailCanceled(cur)
    BY <2>2, <2>3, <2>4, SendKeeps
  <2>5. CASE UseLoaded /\ Acquire(cur, run)
    <3>1. Hold(cur, run) /\ run \in Runners /\ run \in llama /\ modelKey[run] = model[cur]
      BY <1>0, <2>5 DEF UseLoaded, Acquire, KeyInv
    <3>. QED
      BY <2>2, <2>3, <3>1, SendKeeps, HoldEnters DEF Free
  <2>. QED
    BY <1>2, <2>4, <2>5 DEF LoopCanceled, LoopMLXBusy, CreateFails, LoadFails, UseLoaded, EvictCanceled,
       WaitCanceled, UseLoadedRunner
<1>3. CASE DrainSkip \/ DrainUse
  <2>1. drain # <<>> /\ UNCHANGED finishedReqCh
    BY <1>3 DEF DrainSkip, DrainUse, TInv, Frames, sharedVars, chanVars
  <2>2. Head(drain) \in Requests /\ Head(drain) \in ToSet(drain)
    BY <1>0, <2>1, TailSet
  <2>3. Head(drain) \in Waiting /\ reqPc[Head(drain)] # "free"
    BY <2>2 DEF Waiting, Queued, AnswerInv
  <2>4. ~Holds(Head(drain)) /\ oks[Head(drain)] = 0
    BY <2>2, <2>3, NothingHeld
  <2>5. CASE DrainSkip
    <3>1. \A p \in finishedReqCh : reqPc[p] = "done"
      BY DEF KeyInv
    <3>. QED
      BY <1>0, <2>1, <2>2, <2>4, <2>5, <3>1 DEF DrainSkip, ReqStep, KeepsUse, Using, Holds
  <2>6. CASE DrainUse /\ Fail(Head(drain))
    BY <2>1, <2>2, <2>4, <2>6, SendKeeps
  <2>7. CASE DrainUse /\ Acquire(Head(drain), run)
    <3>1. Hold(Head(drain), run) /\ run \in llama /\ run \in Runners /\ model[Head(drain)] = modelKey[run]
      BY <1>0, <2>2, <2>7 DEF Acquire, KeyInv
    <3>. QED
      BY <2>1, <2>2, <2>3, <2>4, <3>1, SendKeeps, HoldEnters DEF Free
  <2>. QED
    BY <1>3, <2>5, <2>6, <2>7 DEF DrainUse, UseLoadedRunner
<1>4. CASE TakeWake \/ TakeUnloaded \/ PopNothing \/ LoopHead \/ LoopConflict \/ LoopOtherMLX
           \/ LoopFull \/ LoopRoom \/ CheckLoaded \/ PickVictim \/ PickNothing
  <2>1. UNCHANGED <<reqPc, ptr, oks, finishedReqCh>>
    BY <1>4 DEF TakeWake, TakeUnloaded, PopNothing, LoopHead, LoopConflict, LoopOtherMLX, LoopFull, LoopRoom,
       CheckLoaded, PickVictim, PickNothing, Advance, reqVars, sharedVars, chanVars
  <2>. QED
    BY <2>1, KeptStill
<1>5. CASE CreateServer \/ Register \/ LoadNeedsRoom \/ ShrinkCheck \/ ShrinkDo \/ ShrinkEnd
  <2>1. UNCHANGED <<reqPc, ptr, oks, finishedReqCh>>
    BY <1>5 DEF CreateServer, Register, LoadNeedsRoom, ShrinkCheck, ShrinkDo, ShrinkEnd, reqVars, sharedVars, chanVars
  <2>. QED
    BY <2>1, KeptStill
<1>6. CASE DrainMatching \/ DrainCheck \/ DrainEnd \/ Evict \/ EvictPause \/ WaitUnloaded \/ WaitTimeout
  <2>1. UNCHANGED <<reqPc, ptr, oks, finishedReqCh>>
    BY <1>6 DEF DrainMatching, DrainCheck, DrainEnd, Evict, EvictPause, WaitUnloaded, WaitTimeout, EvictResume,
       reqVars, sharedVars, chanVars
  <2>. QED
    BY <2>1, KeptStill
<1>. QED
  BY <1>1, <1>2, <1>3, <1>4, <1>5, <1>6 DEF SchedulerStep

\* Outside Register no runner starts to load and none changes its request.
LEMMA LoadsEnd ==
    ASSUME [Next]_vars, ~Register PROVE loading' \subseteq loading /\ owner' = owner
<1>1. ASSUME NEW q \in Requests,
             ClientStep(q) \/ HandlerStep(q) \/ DropPendingOnCancel(q) \/ ProcessFinishedRequest(q)
      PROVE  UNCHANGED <<loading, owner>>
  BY <1>1 DEF ClientStep, Call, CancelCtx, Reap, HandlerStep, PauseAbort, Lookup, Check, Use, Refuse, Push,
     ReqFinished, DropPendingOnCancel, ProcessFinishedRequest, UseLoadedRunner, Acquire, NeedsReload, runnerVars
<1>2. ASSUME NEW y \in Runners,
             TimerFire(y) \/ TimerCallback(y) \/ ExpireStep(y) \/ LoadStep(y) \/ UnloadDetach(y) \/ Crash(y)
      PROVE  loading' \subseteq loading /\ owner' = owner
  BY <1>2 DEF TimerFire, TimerCallback, ExpireStep, ExpireDuplicate, ExpireOrphan, ExpireUnload, LoadStep,
     LoadReady, LoadDetached, LoadFailed, UnloadDetach, Crash, runnerVars
<1>3. CASE TakeWake \/ TakeUnloaded \/ PopNothing \/ PopNext \/ LoopCanceled \/ LoopHead \/ LoopConflict
           \/ LoopOtherMLX \/ LoopMLXBusy \/ LoopFull \/ LoopRoom \/ CheckLoaded \/ UseLoaded
           \/ PickVictim \/ PickNothing
  <2>1. UNCHANGED <<loading, owner>>
    BY <1>3 DEF TakeWake, TakeUnloaded, PopNothing, PopNext, LoopCanceled, LoopHead, LoopConflict, LoopOtherMLX,
       LoopMLXBusy, LoopFull, LoopRoom, Advance, CheckLoaded, UseLoaded, PickVictim, PickNothing,
       UseLoadedRunner, Acquire, NeedsReload, runnerVars
  <2>. QED
    BY <2>1
<1>4. CASE CreateServer \/ CreateFails \/ LoadNeedsRoom \/ LoadFails \/ ShrinkCheck \/ ShrinkDo \/ ShrinkEnd
  BY <1>4 DEF CreateServer, CreateFails, LoadNeedsRoom, LoadFails, ShrinkCheck, ShrinkDo, ShrinkEnd, runnerVars
<1>5. CASE DrainMatching \/ DrainSkip \/ DrainCheck \/ DrainUse \/ DrainEnd \/ EvictCanceled \/ Evict
           \/ EvictPause \/ WaitUnloaded \/ WaitTimeout \/ WaitCanceled
  BY <1>5 DEF DrainMatching, DrainSkip, DrainCheck, DrainUse, DrainEnd, EvictCanceled, Evict, EvictPause,
     WaitUnloaded, WaitTimeout, WaitCanceled, EvictResume, UseLoadedRunner, Acquire, NeedsReload, runnerVars
<1>6. CASE ExpireFinish \/ BrokerStep
  BY <1>6 DEF ExpireFinish, BrokerStep, ExpireRunner, WatchdogReclaim, WatchdogShrinkCheck, WatchdogShrink,
     Protect, CooldownOver, UnloadRunnersExcept, UnloadRunners, PrepareForTraining, TrainingEnds, PolicyTick,
     RuntimeTicket, runnerVars
<1>7. CASE UNCHANGED vars
  BY <1>7 DEF vars, runnerVars
<1>. QED
  BY <1>1, <1>2, <1>3, <1>4, <1>5, <1>6, <1>7 DEF Next, SchedulerStep

\* Which runner the scheduler goroutine turns to: one it finds in the map, or the
\* one it has in hand.
LEMMA RunChosen ==
    ASSUME TInv, KeyInv, SchedulerStep
    PROVE  /\ pc' \in {"check", "use"} =>
                \/ pc = "loop" /\ cur' = cur /\ run' = loaded[model[cur]] /\ run' # None
                \/ pc = "check" /\ cur' = cur /\ run' = run
           /\ pc' \in {"drain"} \cup DrainPcs =>
                \/ run' \in Resident
                \/ pc \in {"check", "drain"} \cup DrainPcs /\ run' = run
           /\ pc' \in DrainPcs => DrainMatching \/ (run' = run /\ (drain' = drain \/ (drain # <<>> /\ drain' = Tail(drain))))
<1>1. CASE TakeWake \/ TakeUnloaded \/ PopNothing \/ PopNext \/ LoopCanceled \/ LoopMLXBusy
           \/ LoopFull \/ LoopRoom \/ UseLoaded \/ PickNothing \/ CreateServer \/ CreateFails \/ Register
           \/ LoadFails \/ EvictCanceled
  <2>1. pc' \notin {"check", "use", "drain"} \cup DrainPcs
    BY <1>1 DEF TakeWake, TakeUnloaded, PopNothing, PopNext, LoopCanceled, LoopMLXBusy, LoopFull, LoopRoom,
       Loadable, UseLoaded, PickNothing, CreateServer, CreateFails, Register, LoadFails, EvictCanceled,
       Advance, Goto, Retry, Break, localVars, DrainPcs
  <2>. QED
    BY <2>1
<1>2. CASE LoadNeedsRoom \/ ShrinkCheck \/ ShrinkDo \/ ShrinkEnd \/ Evict \/ EvictPause \/ DrainEnd
           \/ WaitUnloaded \/ WaitTimeout \/ WaitCanceled
  <2>1. pc' \notin {"check", "use", "drain"} \cup DrainPcs
    BY <1>2 DEF LoadNeedsRoom, ShrinkCheck, ShrinkDo, ShrinkEnd, Evict, EvictPause, DrainEnd, WaitUnloaded,
       WaitTimeout, WaitCanceled, EvictResume, Goto, DrainPcs
  <2>. QED
    BY <2>1
<1>3. CASE LoopHead
  BY <1>3 DEF LoopHead, DrainPcs
<1>4. CASE LoopConflict \/ LoopOtherMLX \/ PickVictim
  <2>1. \E x \in Resident : Advance("drain", x)
    <3>1. ASSUME LoopConflict PROVE \E x \in Resident : Advance("drain", x)
      <4>1. Conflicting \subseteq Resident
        BY DEF Conflicting, Resident
      <4>. QED
        BY <3>1, <4>1 DEF LoopConflict
    <3>2. ASSUME LoopOtherMLX PROVE \E x \in Resident : Advance("drain", x)
      <4>1. \A n \in OtherMLX : loaded[n] \in Resident
        BY SchedulerAssumption DEF OtherMLX, Resident
      <4>. QED
        BY <3>2, <4>1 DEF LoopOtherMLX
    <3>3. ASSUME PickVictim PROVE \E x \in Resident : Advance("drain", x)
      <4>1. Victims \subseteq Resident
        BY DEF Victims
      <4>. QED
        BY <3>3, <4>1 DEF PickVictim
    <3>. QED
      BY <1>4, <3>1, <3>2, <3>3
  <2>2. run' \in Resident /\ pc' = "drain"
    BY <2>1 DEF Advance
  <2>. QED
    BY <2>2 DEF DrainPcs
<1>5. CASE CheckLoaded
  BY <1>5 DEF CheckLoaded, Goto, frameVars, DrainPcs
<1>6. CASE DrainMatching
  BY <1>6 DEF DrainMatching, DrainPcs
<1>7. CASE DrainSkip \/ DrainCheck \/ DrainUse
  BY <1>7 DEF DrainSkip, DrainCheck, DrainUse, DrainPcs, TInv, Frames
<1>. QED
  BY <1>1, <1>2, <1>3, <1>4, <1>5, <1>6, <1>7 DEF SchedulerStep

\* The slice DrainMatching takes out of the queue is for the runner's model.
LEMMA SliceMatches ==
    ASSUME TInv, DrainMatching PROVE \A q \in ToSet(drain') : model[q] = modelKey[run]
<1>. DEFINE n == Len(pending)
            M == {i \in 1..n : model[pending[i]] = modelKey[run]}
            c == Cardinality(M)
<1>1. PICK q \in [1..n -> 1..n] :
        /\ StablePartition(q, n, M)
        /\ drain' = [j \in 1..c |-> pending[q[j]]]
  BY DEF DrainMatching
<1>2. c \in Nat /\ c <= n /\ n \in Nat
  <2>1. pending \in Seq(Requests)
    BY DEF TInv, TypeOK, SharedTypes
  <2>. QED
    BY <2>1, DrainMatchingBound DEF TInv
<1>3. \A i \in M : model[pending[i]] = modelKey[run]
  OBVIOUS
<1>. HIDE DEF n, M, c
<1>4. ASSUME NEW j \in 1..c PROVE model[drain'[j]] = modelKey[run]
  <2>1. j \in 1..n
    BY <1>2
  <2>2. q[j] \in M
    BY <1>1, <2>1 DEF StablePartition, c
  <2>. QED
    BY <1>1, <1>3, <2>2
<1>. QED
  BY <1>1, <1>4 DEF ToSet

\* Nobody has a runner at the start.
LEMMA KeyInit == Init => KeyInv
  BY DEF Init, KeyInv, Using, Holds, DrainPcs, ToSet

\* Every step keeps the agreement of keys and models.
LEMMA KeyStep ==
    TInv /\ InHand /\ Ownership /\ OneHolder /\ AnswerInv /\ KeyInv /\ [Next]_vars => KeyInv'
<1>. SUFFICES ASSUME TInv, InHand, Ownership, OneHolder, AnswerInv, KeyInv, [Next]_vars PROVE KeyInv'
  OBVIOUS
<1>0. /\ TInv' /\ OneHolder' /\ AnswerInv'
      /\ loaded \in [Models -> Runners \cup {None}] /\ None \notin Runners /\ drain \in Seq(Requests)
  BY TypeStep, AnswerStep, SchedulerAssumption DEF TInv, TypeOK, SharedTypes, LocalTypes
<1>1. ASSUME NEW r \in Requests PROVE KeepsUse(r) \/ Enters(r)
  BY HandlerKeeps, RunnerKeeps, SchedulerKeeps DEF Next
<1>2. ASSUME NEW r \in Requests, Enters(r) PROVE modelKey'[ptr'[r]] = model'[r]
  BY <1>2, KeyFixed, ModelFixed DEF Enters
<1>3. ASSUME NEW r \in Requests, Using(r), ptr'[r] = ptr[r]
      PROVE  ptr'[r] \in Runners /\ modelKey'[ptr'[r]] = model'[r]
  <2>1. ptr[r] \in Runners /\ modelKey[ptr[r]] = model[r] /\ ~Free(ptr[r])
    BY <1>3 DEF KeyInv, Free
  <2>2. reqPc[r] # "free"
    BY <1>3 DEF KeyInv, Using, Holds
  <2>. QED
    BY <1>3, <2>1, <2>2, KeyFixed, ModelFixed
<1>4. ASSUME NEW r \in Requests, Using(r)' PROVE ptr'[r] \in Runners /\ modelKey'[ptr'[r]] = model'[r]
  BY <1>1, <1>2, <1>3, <1>4 DEF KeepsUse, Enters
<1>5. ASSUME NEW r \in Requests, Holds(r)' PROVE oks'[r] = 1
  BY <1>1, <1>5 DEF KeepsUse, Enters, KeyInv
<1>6. ASSUME NEW r \in finishedReqCh' PROVE reqPc'[r] = "done"
  <2>1. r \in Requests
    BY <1>0 DEF TInv, TypeOK, SharedTypes
  <2>. QED
    BY <1>1, <1>6, <2>1 DEF KeepsUse, Enters
<1>7. ASSUME NEW q \in Waiting \cup Busy PROVE q \in Requests /\ reqPc[q] # "free" /\ model'[q] = model[q]
  <2>1. q \in Requests /\ reqPc[q] # "free"
    BY DEF AnswerInv, GivenUp
  <2>. QED
    BY <2>1, ModelFixed
<1>8. ASSUME NEW x \in loading' PROVE modelKey'[x] = model'[owner'[x]]
  <2>0. loading \subseteq Runners /\ owner \in [Runners -> Requests \cup {None}]
    BY DEF TInv, TypeOK, RunnerTypes
  <2>1. ASSUME x \in loading, owner'[x] = owner[x] PROVE modelKey'[x] = model'[owner'[x]]
    <3>1. owner[x] \in Waiting /\ modelKey[x] = model[owner[x]] /\ ~Free(x) /\ x \in Runners
      BY <2>0, <2>1 DEF Waiting, Owners, KeyInv, Free
    <3>. QED
      BY <1>7, <2>1, <3>1, KeyFixed
  <2>2. CASE Register
    <3>1. /\ pc = "load" /\ loading' = loading \cup {run} /\ owner' = [owner EXCEPT ![run] = cur]
          /\ UNCHANGED <<model, modelKey>> /\ run \in Runners
      BY <2>2 DEF Register, reqVars, TInv, Frames
    <3>2. run \notin loading /\ modelKey[run] = model[cur]
      BY <3>1 DEF OneHolder, Ownership, LoadInFlight
    <3>. QED
      BY <2>0, <2>1, <3>1, <3>2
  <2>. QED
    BY <1>8, <2>1, <2>2, LoadsEnd
<1>9. ASSUME NEW x \in Runners, x \in Resident \cup {run} PROVE modelKey'[x] = modelKey[x]
  BY <1>9, KeyFixed DEF Free
<1>10. pc \notin {"idle", "pop"} => cur \in Requests /\ model'[cur] = model[cur]
  BY <1>7 DEF Busy
<1>11. \A q \in ToSet(drain) : model'[q] = model[q]
  BY <1>7 DEF Waiting, Queued
<1>12. Resident \subseteq Runners
  BY <1>0 DEF Resident
<1>13. CASE ~SchedulerStep
  <2>1. UNCHANGED <<pc, cur, run, drain>>
    BY <1>13, OtherSteps DEF localVars
  <2>2. ASSUME pc \in {"check", "use"} PROVE run \in Runners /\ modelKey'[run] = model'[cur]
    BY <1>9, <1>10, <2>2 DEF KeyInv
  <2>3. ASSUME NEW q \in ToSet(drain) PROVE model'[q] = modelKey'[run]
    <3>1. pc \in DrainPcs
      BY <2>3 DEF OneHolder, ToSet
    <3>2. run \in Runners /\ model[q] = modelKey[run]
      BY <3>1, <2>3 DEF KeyInv
    <3>. QED
      BY <1>9, <1>11, <2>3, <3>2
  <2>. QED
    BY <1>4, <1>5, <1>6, <1>8, <2>1, <2>2, <2>3 DEF KeyInv
<1>14. CASE SchedulerStep
  <2>1. ASSUME pc' \in {"check", "use"} PROVE run' \in Runners /\ modelKey'[run'] = model'[cur']
    <3>1. CASE pc = "loop" /\ cur' = cur /\ run' = loaded[model[cur]] /\ run' # None
      <4>1. model[cur] \in Models
        BY <1>10, <3>1 DEF TInv, TypeOK, RequestTypes
      <4>2. run' \in Runners /\ run' \in Resident /\ modelKey[run'] = model[cur]
        BY <1>0, <3>1, <4>1 DEF Resident, Ownership, LoadedAttached
      <4>. QED
        BY <1>9, <1>10, <3>1, <4>2
    <3>2. CASE pc = "check" /\ cur' = cur /\ run' = run
      BY <1>9, <1>10, <3>2 DEF KeyInv
    <3>. QED
      BY <1>14, <2>1, <3>1, <3>2, RunChosen
  <2>2. ASSUME pc' \in {"drain"} \cup DrainPcs PROVE run' \in Runners
    BY <1>12, <1>14, <2>2, RunChosen DEF KeyInv
  <2>3. ASSUME NEW q \in ToSet(drain') PROVE model'[q] = modelKey'[run']
    <3>1. pc' \in DrainPcs
      BY <1>0, <2>3 DEF OneHolder, ToSet
    <3>2. CASE DrainMatching
      <4>1. run \in Runners /\ run' = run /\ UNCHANGED <<model, modelKey>>
        BY <3>2 DEF DrainMatching, KeyInv, reqVars, runnerVars
      <4>. QED
        BY <2>3, <3>2, <4>1, SliceMatches
    <3>3. CASE run' = run /\ (drain' = drain \/ (drain # <<>> /\ drain' = Tail(drain)))
      <4>1. q \in ToSet(drain)
        BY <1>0, <2>3, <3>3, TailSet
      <4>2. run \in Runners /\ model[q] = modelKey[run]
        BY <2>2, <3>1, <3>3, <4>1 DEF KeyInv
      <4>. QED
        BY <1>9, <1>11, <3>3, <4>1, <4>2
    <3>. QED
      BY <1>14, <3>1, <3>2, <3>3, RunChosen
  <2>. QED
    BY <1>4, <1>5, <1>6, <1>8, <2>1, <2>2, <2>3 DEF KeyInv
<1>. QED
  BY <1>13, <1>14

\* The runner has a timer, a callback or an expiry event under way.
Expiring(x) == expireTimer[x] # "nil" \/ x \in firing \/ expiredCh[x] > 0

\* The step leaves x expiring or in use, or it does not make it idle.
Settles(x) ==
    \/ Expiring(x)' \/ Referenced(x)' \/ refCount'[x] # 0
    \/ x \notin loading /\ ~Expiring(x) /\ refCount[x] = 0

\* Who is in the map is a runner.
LEMMA ResidentRunner == ASSUME TInv, NEW x \in Resident PROVE x \in Runners /\ x # None
<1>1. loaded \in [Models -> Runners \cup {None}] /\ None \notin Runners
  BY SchedulerAssumption DEF TInv, TypeOK, SharedTypes
<1>. QED
  BY <1>1 DEF Resident

\* An event on the channel, whatever the bound on their number.
LEMMA SignalPositive == ASSUME NEW n \in 0..MaxTokens PROVE Signal(n) \in 0..MaxTokens /\ Signal(n) > 0
  BY SchedulerAssumption DEF Signal

\* A step that sets no timer, takes no event and counts no reference of x.
LEMMA SettlesKept ==
    ASSUME NEW x \in Runners, x \notin loading', x \in loading => x \in loading',
           Expiring(x) => Expiring(x)', refCount'[x] = refCount[x]
    PROVE  Settles(x)
  BY DEF Settles

\* The steps of handlers and clients: a reference that is taken stops the timer, the
\* last one that is released starts it or expires the runner.
LEMMA HandlerSettles ==
    ASSUME TInv, NEW x \in Runners, x \notin loading', NEW q \in Requests,
           ClientStep(q) \/ HandlerStep(q) \/ DropPendingOnCancel(q) \/ ProcessFinishedRequest(q)
    PROVE  Settles(x)
<1>0. /\ refCount \in [Runners -> 0..(RefMod - 1)] /\ expireTimer \in [Runners -> {"nil", "armed", "fired"}]
      /\ expiredCh \in [Runners -> 0..MaxTokens] /\ reqPc \in [Requests -> ReqPcs]
      /\ ptr \in [Requests -> Runners \cup {None}] /\ sessionDuration \in [Runners -> {"zero", "pos"}]
  BY DEF TInv, TypeOK, RequestTypes, RunnerTypes, SharedTypes
<1>1. CASE ClientStep(q) \/ (HandlerStep(q) /\ ~Use(q)) \/ DropPendingOnCancel(q)
  <2>1. UNCHANGED <<refCount, loading, expireTimer, firing, expiredCh>>
    BY <1>1 DEF ClientStep, Call, CancelCtx, Reap, HandlerStep, PauseAbort, Lookup, Check, Refuse, Push,
       ReqFinished, DropPendingOnCancel, NeedsReload, runnerVars, sharedVars, chanVars
  <2>. QED
    BY <2>1, SettlesKept DEF Expiring
<1>2. CASE Use(q)
  <2>1. CASE Acquire(q, ptr[q])
    <3>1. ptr'[q] = ptr[q] /\ reqPc'[q] = "held"
      BY <1>0, <2>1 DEF Acquire, Hold
    <3>2. CASE x = ptr[q]
      BY <3>1, <3>2 DEF Settles, Referenced
    <3>3. CASE x # ptr[q]
      <4>1. UNCHANGED <<loading, firing, expiredCh>> /\ refCount'[x] = refCount[x] /\ expireTimer'[x] = expireTimer[x]
        BY <1>0, <1>2, <2>1, <3>3 DEF Use, Acquire, StopTimer, sharedVars, chanVars
      <4>. QED
        BY <4>1, SettlesKept DEF Expiring
    <3>. QED
      BY <3>2, <3>3
  <2>2. CASE UNCHANGED runnerVars
    BY <1>2, <2>2, SettlesKept DEF Use, Expiring, runnerVars, sharedVars, chanVars
  <2>. QED
    BY <1>2, <2>1, <2>2 DEF Use, UseLoadedRunner
<1>3. CASE ProcessFinishedRequest(q)
  <2>. DEFINE y == loaded[model[q]]
  <2>0. UNCHANGED <<loading, firing>> /\ MaxTokens \in Nat
    BY <1>3, SchedulerAssumption DEF ProcessFinishedRequest
  <2>1. CASE x # y
    <3>1. refCount'[x] = refCount[x] /\ expiredCh'[x] = expiredCh[x]
          /\ (expireTimer'[x] = expireTimer[x] \/ expireTimer'[x] # "nil")
      BY <1>0, <1>3, <2>1 DEF ProcessFinishedRequest, StopTimer, ScheduleExpired
    <3>. QED
      BY <2>0, <3>1, SettlesKept DEF Expiring
  <2>2. CASE x = y
    <3>1. PICK n : /\ n = Released(refCount[x]) /\ refCount'[x] = n
                   /\ \/ n > 0
                      \/ expiredCh' = [expiredCh EXCEPT ![x] = Signal(@)]
                      \/ expireTimer' = [expireTimer EXCEPT ![x] = "armed"]
      BY <1>0, <1>3, <2>2, SchedulerAssumption DEF ProcessFinishedRequest, ScheduleExpired
    <3>2. Signal(expiredCh[x]) > 0
      BY <1>0, SignalPositive
    <3>3. n > 0 => n # 0
      OBVIOUS
    <3>. QED
      BY <1>0, <3>1, <3>2, <3>3 DEF Settles, Expiring
  <2>. QED
    BY <2>1, <2>2
<1>. QED
  BY <1>1, <1>2, <1>3

\* The steps of timers, of the expiry goroutine and of loads: an event that is taken
\* from the channel is one of a runner that is not, or no longer, in the map.
LEMMA RunnerSettles ==
    ASSUME TInv, Ownership, AnswerInv, NEW x \in Resident \cap Resident', x \notin loading', NEW y \in Runners,
           TimerFire(y) \/ TimerCallback(y) \/ ExpireStep(y) \/ LoadStep(y) \/ UnloadDetach(y) \/ Crash(y)
    PROVE  Settles(x)
<1>0. /\ refCount \in [Runners -> 0..(RefMod - 1)] /\ expireTimer \in [Runners -> {"nil", "armed", "fired"}]
      /\ expiredCh \in [Runners -> 0..MaxTokens] /\ reqPc \in [Requests -> ReqPcs] /\ MaxTokens \in Nat
      /\ ptr \in [Requests -> Runners \cup {None}] /\ loaded \in [Models -> Runners \cup {None}]
      /\ modelKey \in [Runners -> Models] /\ None \notin Runners
  BY SchedulerAssumption DEF TInv, TypeOK, RequestTypes, RunnerTypes, SharedTypes
<1>1. x \in Runners /\ loaded[modelKey[x]] = x /\ x \notin wiped
  BY <1>0 DEF Resident, Ownership, LoadedAttached, ClosingUnregistered
<1>2. Signal(expiredCh[y]) > 0
  BY <1>0, SignalPositive
<1>3. CASE TimerFire(y)
  BY <1>0, <1>1, <1>3, SettlesKept DEF TimerFire, Expiring, sharedVars, chanVars
<1>4. CASE TimerCallback(y)
  BY <1>0, <1>1, <1>2, <1>4, SettlesKept DEF TimerCallback, StopTimer, ScheduleExpired, Expiring
<1>5. CASE ExpireStep(y)
  <2>1. x # y
    <3>1. CASE ExpireDuplicate(y) \/ ExpireOrphan(y)
      BY <1>0, <1>1, <3>1 DEF ExpireDuplicate, ExpireOrphan
    <3>2. CASE ExpireUnload(y)
      <4>1. loaded' = [loaded EXCEPT ![modelKey[y]] = None] /\ loaded[modelKey[y]] = y
        BY <3>2 DEF ExpireUnload, Unregister
      <4>2. y \notin Resident'
        BY <1>0, <4>1 DEF Resident, Ownership, LoadedAttached
      <4>. QED
        BY <4>2
    <3>. QED
      BY <1>5, <3>1, <3>2 DEF ExpireStep
  <2>2. UNCHANGED <<refCount, loading, firing>> /\ expireTimer'[x] = expireTimer[x] /\ expiredCh'[x] = expiredCh[x]
    BY <1>0, <1>1, <1>5, <2>1 DEF ExpireStep, ExpireDuplicate, ExpireOrphan, ExpireUnload, Detach, StopTimer,
       runnerVars
  <2>. QED
    BY <1>1, <2>2, SettlesKept DEF Expiring
<1>6. CASE LoadReady(y)
  <2>1. CASE x = y
    <3>1. owner[y] \in Requests /\ Hold(owner[y], y)
      BY <1>6 DEF LoadReady, AnswerInv, Waiting, Owners
    <3>. QED
      BY <1>0, <2>1, <3>1 DEF Hold, Settles, Referenced
  <2>2. CASE x # y
    BY <1>0, <1>1, <1>6, <2>2, SettlesKept DEF LoadReady, Expiring, chanVars
  <2>. QED
    BY <2>1, <2>2
<1>7. CASE LoadDetached(y) \/ LoadFailed(y)
  <2>1. CASE x = y
    BY <1>0, <1>1, <1>2, <1>7, <2>1 DEF LoadDetached, LoadFailed, ScheduleExpired, Settles, Expiring
  <2>2. CASE x # y
    <3>1. UNCHANGED <<refCount, expireTimer, firing>> /\ loading' = loading \ {y} /\ expiredCh'[x] = expiredCh[x]
      BY <1>0, <1>1, <1>7, <2>2 DEF LoadDetached, LoadFailed, ScheduleExpired
    <3>. QED
      BY <1>1, <2>2, <3>1, SettlesKept DEF Expiring
  <2>. QED
    BY <2>1, <2>2
<1>8. CASE UnloadDetach(y)
  <2>1. x # y
    BY <1>1, <1>8 DEF UnloadDetach
  <2>. QED
    BY <1>0, <1>1, <1>8, <2>1, SettlesKept DEF UnloadDetach, Detach, StopTimer, Expiring, chanVars
<1>9. CASE Crash(y)
  BY <1>1, <1>9, SettlesKept DEF Crash, Expiring, sharedVars, chanVars
<1>. QED
  BY <1>3, <1>4, <1>5, <1>6, <1>7, <1>8, <1>9 DEF LoadStep

\* The steps of the scheduler goroutine: a runner that is used is stopped, one that
\* is evicted expires, and one that is registered loads.
LEMMA SchedulerSettles ==
    ASSUME TInv, Ownership, NEW x \in Resident \cap Resident', x \notin loading', SchedulerStep, AnswerInv
    PROVE  Settles(x)
<1>0. /\ refCount \in [Runners -> 0..(RefMod - 1)] /\ expireTimer \in [Runners -> {"nil", "armed", "fired"}]
      /\ expiredCh \in [Runners -> 0..MaxTokens] /\ reqPc \in [Requests -> ReqPcs] /\ MaxTokens \in Nat
      /\ ptr \in [Requests -> Runners \cup {None}] /\ loaded \in [Models -> Runners \cup {None}]
      /\ drain \in Seq(Requests) /\ x \in Runners /\ model \in [Requests -> Models] /\ None \notin Runners
  BY ResidentRunner, SchedulerAssumption DEF TInv, TypeOK, RequestTypes, RunnerTypes, SharedTypes, LocalTypes
<1>1. ASSUME UNCHANGED <<refCount, loading, expireTimer, firing, expiredCh>> PROVE Settles(x)
  BY <1>0, <1>1, SettlesKept DEF Expiring
<1>2. ASSUME NEW q \in Requests, UseLoadedRunner(q, run), UNCHANGED expiredCh PROVE Settles(x)
  <2>1. CASE Acquire(q, run)
    <3>1. ptr'[q] = run /\ reqPc'[q] = "held"
      BY <1>0, <2>1 DEF Acquire, Hold
    <3>2. CASE x = run
      BY <1>2, <3>1, <3>2 DEF Settles, Referenced
    <3>3. CASE x # run
      <4>1. UNCHANGED <<loading, firing>> /\ refCount'[x] = refCount[x] /\ expireTimer'[x] = expireTimer[x]
        BY <1>0, <2>1, <3>3 DEF Acquire, StopTimer
      <4>. QED
        BY <1>0, <1>2, <4>1, SettlesKept DEF Expiring
    <3>. QED
      BY <3>2, <3>3
  <2>2. CASE UNCHANGED runnerVars
    BY <1>1, <1>2, <2>2 DEF runnerVars
  <2>. QED
    BY <1>2, <2>1, <2>2 DEF UseLoadedRunner
<1>3. CASE UseLoaded
  <2>1. cur \in Requests
    BY <1>3 DEF UseLoaded, TInv, Frames
  <2>. QED
    BY <1>2, <1>3, <2>1 DEF UseLoaded, chanVars
<1>4. CASE DrainUse
  <2>1. Head(drain) \in Requests
    BY <1>0, <1>4, TailSet DEF DrainUse, TInv, Frames
  <2>. QED
    BY <1>2, <1>4, <2>1 DEF DrainUse, sharedVars, chanVars
<1>5. CASE Register
  <2>1. x # run
    <3>1. run \notin Resident
      BY <1>5 DEF Register, Ownership, LoadInFlight
    <3>. QED
      BY <3>1
  <2>2. x # loaded[model[cur]]
    <3>1. loaded[model[cur]] = None
      BY <1>5 DEF Register, Ownership, LoadInFlight, LoadPcs
    <3>. QED
      BY <1>0, <3>1
  <2>. QED
    BY <1>0, <1>5, <2>1, <2>2, SettlesKept DEF Register, Expiring, chanVars
<1>6. CASE Evict
  <2>1. Signal(expiredCh[x]) > 0
    BY <1>0, SignalPositive
  <2>2. UNCHANGED <<refCount, loading, firing>>
    BY <1>6 DEF Evict
  <2>3. CASE x = run
    BY <1>0, <1>6, <2>1, <2>3 DEF Evict, ScheduleExpired, Settles, Expiring
  <2>4. CASE x # run
    <3>1. expireTimer'[x] = expireTimer[x] /\ expiredCh'[x] = expiredCh[x]
      BY <1>0, <1>6, <2>4 DEF Evict, StopTimer, ScheduleExpired
    <3>. QED
      BY <1>0, <2>2, <3>1, SettlesKept DEF Expiring
  <2>. QED
    BY <2>3, <2>4
<1>7. CASE TakeWake \/ TakeUnloaded \/ PopNothing \/ PopNext \/ LoopCanceled \/ LoopHead \/ LoopConflict
           \/ LoopOtherMLX \/ LoopMLXBusy \/ LoopFull \/ LoopRoom \/ CheckLoaded \/ PickVictim \/ PickNothing
  <2>1. UNCHANGED <<refCount, loading, expireTimer, firing, expiredCh>>
    BY <1>7 DEF TakeWake, TakeUnloaded, PopNothing, PopNext, LoopCanceled, LoopHead, LoopConflict, LoopOtherMLX,
       LoopMLXBusy, LoopFull, LoopRoom, Advance, CheckLoaded, PickVictim, PickNothing, NeedsReload, runnerVars,
       sharedVars, chanVars
  <2>. QED
    BY <1>1, <2>1
<1>8. CASE CreateServer \/ CreateFails \/ LoadNeedsRoom \/ LoadFails \/ ShrinkCheck \/ ShrinkDo \/ ShrinkEnd
  <2>1. UNCHANGED <<refCount, loading, expireTimer, firing, expiredCh>>
    BY <1>8 DEF CreateServer, CreateFails, LoadNeedsRoom, LoadFails, ShrinkCheck, ShrinkDo, ShrinkEnd, runnerVars,
       sharedVars, chanVars
  <2>. QED
    BY <1>1, <2>1
<1>9. CASE DrainMatching \/ DrainSkip \/ DrainCheck \/ DrainEnd \/ EvictCanceled \/ EvictPause
           \/ WaitUnloaded \/ WaitTimeout \/ WaitCanceled
  <2>1. UNCHANGED <<refCount, loading, expireTimer, firing, expiredCh>>
    BY <1>9 DEF DrainMatching, DrainSkip, DrainCheck, DrainEnd, EvictCanceled, EvictPause, WaitUnloaded,
       WaitTimeout, WaitCanceled, EvictResume, NeedsReload, runnerVars, sharedVars, chanVars
  <2>. QED
    BY <1>1, <2>1
<1>. QED
  BY <1>3, <1>4, <1>5, <1>6, <1>7, <1>8, <1>9 DEF SchedulerStep

\* The broker, operators and the watchdog expire runners or leave them alone.
LEMMA BrokerSettles ==
    ASSUME TInv, Ownership, NEW x \in Resident, x \notin loading', ExpireFinish \/ BrokerStep \/ UNCHANGED vars
    PROVE  Settles(x)
<1>0. /\ refCount \in [Runners -> 0..(RefMod - 1)] /\ expireTimer \in [Runners -> {"nil", "armed", "fired"}]
      /\ expiredCh \in [Runners -> 0..MaxTokens] /\ MaxTokens \in Nat /\ x \in Runners
      /\ loaded \in [Models -> Runners \cup {None}] /\ x # xrun
  BY ResidentRunner, SchedulerAssumption DEF TInv, TypeOK, RunnerTypes, SharedTypes, Ownership, ClosingUnregistered
<1>1. ASSUME UNCHANGED <<refCount, loading, firing>>,
             \/ expireTimer'[x] = expireTimer[x] /\ expiredCh'[x] = expiredCh[x]
             \/ expiredCh'[x] = Signal(expiredCh[x])
      PROVE  Settles(x)
  <2>1. Signal(expiredCh[x]) > 0
    BY <1>0, SignalPositive
  <2>. QED
    BY <1>0, <1>1, <2>1, SettlesKept DEF Expiring
<1>2. CASE ExpireFinish
  BY <1>0, <1>1, <1>2 DEF ExpireFinish, Detach, StopTimer
<1>3. ASSUME NEW m \in Models, ExpireRunner(m) \/ WatchdogReclaim(m) PROVE Settles(x)
  <2>1. UNCHANGED <<refCount, loading, firing>>
    BY <1>3 DEF ExpireRunner, WatchdogReclaim, runnerVars
  <2>2. CASE x = loaded[m]
    BY <1>0, <1>1, <1>3, <2>1, <2>2 DEF ExpireRunner, WatchdogReclaim, ScheduleExpired
  <2>3. CASE x # loaded[m]
    BY <1>0, <1>1, <1>3, <2>1, <2>3 DEF ExpireRunner, WatchdogReclaim, ScheduleExpired, StopTimer, runnerVars
  <2>. QED
    BY <2>2, <2>3
<1>4. ASSUME NEW keep, NEW force, UnloadRunners(keep, force) PROVE Settles(x)
  <2>. DEFINE safe == IF force THEN {} ELSE protected
              targets == {m \in Models : loaded[m] # None /\ m # keep /\ m \notin safe}
              deferred == {loaded[m] : m \in {m \in targets : keep = None /\ refCount[loaded[m]] > 0}}
  <2>1. /\ expireTimer' = [y \in Runners |-> IF y \in deferred THEN "nil" ELSE expireTimer[y]]
        /\ expiredCh' = [y \in Runners |-> IF y \in deferred THEN Signal(expiredCh[y]) ELSE expiredCh[y]]
        /\ UNCHANGED <<refCount, loading, firing>>
    BY <1>4 DEF UnloadRunners
  <2>. HIDE DEF deferred
  <2>. QED
    BY <1>0, <1>1, <2>1
<1>5. ASSUME UNCHANGED <<refCount, loading, expireTimer, firing, expiredCh>> PROVE Settles(x)
  BY <1>1, <1>5
<1>6. ASSUME NEW m \in Models, Protect(m) \/ CooldownOver(m) PROVE Settles(x)
  BY <1>5, <1>6 DEF Protect, CooldownOver, runnerVars, chanVars
<1>7. CASE \/ \E y \in Runners : WatchdogShrinkCheck(y)
           \/ WatchdogShrink \/ TrainingEnds \/ PolicyTick \/ RuntimeTicket \/ UNCHANGED vars
  BY <1>5, <1>7 DEF WatchdogShrinkCheck, WatchdogShrink, TrainingEnds, PolicyTick, RuntimeTicket, vars, runnerVars,
     sharedVars, chanVars
<1>. QED
  BY <1>2, <1>3, <1>4, <1>6, <1>7 DEF BrokerStep, UnloadRunnersExcept, PrepareForTraining

\* An idle runner stays one that expires: nothing makes it idle without setting its
\* timer or expiring it, and nothing stops its timer without taking a reference.
LEMMA IdleStep ==
    ASSUME TInv, InHand, Ownership, OneHolder, AnswerInv, KeyInv, IdleExpires, [Next]_vars PROVE IdleExpires'
<1>. SUFFICES ASSUME NEW x \in Resident', x \notin loading', refCount'[x] = 0, ~Referenced(x)', ~Expiring(x)'
              PROVE  FALSE
  BY DEF IdleExpires, Expiring
<1>0. /\ loaded \in [Models -> Runners \cup {None}] /\ loaded' \in [Models -> Runners \cup {None}]
      /\ ptr \in [Requests -> Runners \cup {None}] /\ None \notin Runners
  BY TypeStep, SchedulerAssumption DEF TInv, TypeOK, RequestTypes, SharedTypes
<1>1. x \in Runners /\ x \in Resident
  <2>1. CASE Register
    <3>1. loaded' = [loaded EXCEPT ![model[cur]] = run] /\ run \in loading'
      BY <2>1 DEF Register
    <3>2. Resident' \subseteq Resident \cup {run}
      BY <1>0, <3>1 DEF Resident
    <3>. QED
      BY <1>0, <3>1, <3>2 DEF Resident
  <2>2. CASE ~Register
    <3>1. \A m \in Models : loaded'[m] \in {None, loaded[m]}
      BY <2>2, MapShrinks
    <3>. QED
      BY <1>0, <3>1 DEF Resident
  <2>. QED
    BY <2>1, <2>2
<1>2. Settles(x)
  <2>1. CASE SchedulerStep
    BY <1>1, <2>1, SchedulerSettles
  <2>2. CASE ExpireFinish \/ BrokerStep \/ UNCHANGED vars
    BY <1>1, <2>2, BrokerSettles
  <2>3. ASSUME NEW y \in Runners,
               TimerFire(y) \/ TimerCallback(y) \/ ExpireStep(y) \/ LoadStep(y) \/ UnloadDetach(y) \/ Crash(y)
        PROVE  Settles(x)
    BY <1>1, <2>3, RunnerSettles
  <2>4. ASSUME NEW q \in Requests,
               ClientStep(q) \/ HandlerStep(q) \/ DropPendingOnCancel(q) \/ ProcessFinishedRequest(q)
        PROVE  Settles(x)
    BY <1>1, <2>4, HandlerSettles
  <2>. QED
    BY <2>1, <2>2, <2>3, <2>4 DEF Next
<1>3. x \notin loading /\ ~Expiring(x) /\ refCount[x] = 0
  BY <1>2 DEF Settles
<1>4. PICK r \in Requests : ptr[r] = x /\ Holds(r)
  BY <1>1, <1>3 DEF IdleExpires, Expiring, Referenced, Holds
<1>5. ProcessFinishedRequest(r)
  <2>1. KeepsUse(r) \/ Enters(r)
    BY HandlerKeeps, RunnerKeeps, SchedulerKeeps DEF Next
  <2>2. ~(Holds(r)' /\ ptr'[r] = ptr[r])
    BY <1>4 DEF Referenced, Holds
  <2>. QED
    BY <1>4, <2>1, <2>2 DEF KeepsUse, Enters
<1>6. loaded[model[r]] = x
  <2>1. modelKey[x] = model[r]
    BY <1>4 DEF KeyInv, Using
  <2>2. loaded[modelKey[x]] = x
    BY <1>0, <1>1 DEF Resident, Ownership, LoadedAttached
  <2>. QED
    BY <2>1, <2>2
<1>7. Expiring(x)'
  <2>1. /\ expireTimer \in [Runners -> {"nil", "armed", "fired"}] /\ refCount \in [Runners -> 0..(RefMod - 1)]
        /\ expiredCh \in [Runners -> 0..MaxTokens] /\ Signal(expiredCh[x]) > 0
    BY <1>1, SignalPositive DEF TInv, TypeOK, RunnerTypes, SharedTypes
  <2>2. PICK n : /\ refCount'[x] = n
                 /\ \/ n > 0
                    \/ expiredCh' = [expiredCh EXCEPT ![x] = Signal(@)]
                    \/ expireTimer' = [expireTimer EXCEPT ![x] = "armed"]
    BY <1>0, <1>1, <1>5, <1>6, <2>1 DEF ProcessFinishedRequest, ScheduleExpired
  <2>. QED
    BY <1>1, <2>1, <2>2 DEF Expiring
<1>. QED
  BY <1>7

\* In every reachable state.
LEMMA IdleInvariant == Spec => [](KeyInv /\ IdleExpires)
<1>1. Init => KeyInv /\ IdleExpires
  BY KeyInit DEF Init, IdleExpires, Resident
<1>. QED
  BY <1>1, KeyStep, IdleStep, OwnershipInvariant, AnswerInvariant, PTL DEF Spec

\* A loaded runner that nobody uses has a timer, a callback or an expiry event under
\* way: no order of releases, acquisitions, stale callbacks, evictions and failed
\* loads leaves a model in memory for ever.
THEOREM IdleExpiresHolds == Spec => []IdleExpires
  BY IdleInvariant, PTL
=============================================================================
