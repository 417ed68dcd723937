-------------------------- MODULE SchedulerOwnership --------------------------
(***************************************************************************)
(* Who owns a runner and its server process.  The handle of a server moves *)
(* from activeLoading to a runnerRef in s.loaded and from there to the     *)
(* goroutine that closes it; three goroutines move it and none holds one   *)
(* lock all the way.  Ownership says where it can be, and is inductive     *)
(* together with the types (TInv) and with InHand: a request the queue or  *)
(* the scheduler holds is not replaced by a new one under its feet.        *)
(***************************************************************************)
EXTENDS SchedulerProofs

\* The elements of the sequences that the queue operations build.
LEMMA TailSet ==
    ASSUME NEW s \in Seq(Requests), s # <<>>
    PROVE  ToSet(Tail(s)) \subseteq ToSet(s) /\ Head(s) \in ToSet(s)
  BY DEF ToSet

\* Appending adds at most the appended request.
LEMMA AppendSet ==
    ASSUME NEW s \in Seq(Requests), NEW r \in Requests
    PROVE  ToSet(Append(s, r)) \subseteq ToSet(s) \cup {r}
  BY DEF ToSet

\* RequeueFront brings no request that was in neither sequence.
LEMMA ConcatSet ==
    ASSUME NEW s \in Seq(Requests), NEW t \in Seq(Requests)
    PROVE  ToSet(s \o t) \subseteq ToSet(s) \cup ToSet(t)
<1>. SUFFICES ASSUME NEW i \in DOMAIN (s \o t) PROVE (s \o t)[i] \in ToSet(s) \cup ToSet(t)
  BY DEF ToSet
<1>1. i \in 1..(Len(s) + Len(t))
  OBVIOUS
<1>2. CASE i <= Len(s)
  BY <1>1, <1>2 DEF ToSet
<1>3. CASE i > Len(s)
  BY <1>1, <1>3 DEF ToSet
<1>. QED
  BY <1>1, <1>2, <1>3

\* Popping brings no new request.
LEMMA RemoveAtSet ==
    ASSUME NEW s \in Seq(Requests), NEW i \in DOMAIN s
    PROVE  ToSet(RemoveAt(s, i)) \subseteq ToSet(s)
<1>. DEFINE a == SubSeq(s, 1, i - 1)
            b == SubSeq(s, i + 1, Len(s))
<1>1. a \in Seq(Requests) /\ b \in Seq(Requests)
  OBVIOUS
<1>2. ToSet(a) \subseteq ToSet(s)
  BY DEF ToSet
<1>3. ToSet(b) \subseteq ToSet(s)
  BY DEF ToSet
<1>4. RemoveAt(s, i) = a \o b
  BY DEF RemoveAt
<1>. HIDE DEF a, b
<1>. QED
  BY <1>1, <1>2, <1>3, <1>4, ConcatSet

\* The requests the scheduler has been handed and has not let go.
Queued == ToSet(pending) \cup ToSet(drain) \cup ToSet(requeue)
Held == Queued \cup (IF pc \in {"idle", "pop"} THEN {} ELSE {cur})

\* None of them is the slot of a new request: its model key is fixed.
InHand == \A r \in Held : reqPc[r] # "free"

\* Initially no request is in anyone's hands.
LEMMA InHandInit == Init => InHand
  BY DEF Init, InHand, Held, Queued, ToSet

\* What the queue and the scheduler goroutine hold are requests.
LEMMA HeldRequests == TInv => Held \subseteq Requests
  BY DEF TInv, TypeOK, SharedTypes, LocalTypes, Frames, Held, Queued, ToSet

\* reqPc goes to "free" in Reap only, and Reap spares what the scheduler holds.
LEMMA NotFreed ==
    ASSUME TInv, [Next]_vars, NEW r \in Requests, reqPc[r] # "free",
           r \in Held
    PROVE  reqPc'[r] # "free"
<1>0. reqPc \in [Requests -> ReqPcs]
  BY DEF TInv, TypeOK, RequestTypes
<1>1. ASSUME NEW q, Fail(q) \/ FailCanceled(q) PROVE reqPc'[r] # "free"
  BY <1>0, <1>1 DEF Fail, FailCanceled
<1>2. ASSUME NEW q, NEW x, UseLoadedRunner(q, x) PROVE reqPc'[r] # "free"
  BY <1>0, <1>1, <1>2 DEF UseLoadedRunner, Acquire, Hold
<1>3. CASE UNCHANGED reqPc
  BY <1>3
<1>4. ASSUME NEW q \in Requests, ClientStep(q) PROVE reqPc'[r] # "free"
  BY <1>0, <1>4 DEF ClientStep, Call, CancelCtx, Reap, ReqStep, Held, Queued
<1>5. ASSUME NEW q \in Requests, HandlerStep(q) PROVE reqPc'[r] # "free"
  BY <1>0, <1>1, <1>2, <1>5 DEF HandlerStep, PauseAbort, Lookup, Check, Use, Refuse, Push, ReqFinished, ReqStep
<1>6. ASSUME NEW q \in Requests, DropPendingOnCancel(q) \/ ProcessFinishedRequest(q) PROVE reqPc'[r] # "free"
  BY <1>0, <1>6 DEF DropPendingOnCancel, ProcessFinishedRequest, ReqStep
<1>7. ASSUME NEW x \in Runners, LoadStep(x) PROVE reqPc'[r] # "free"
  BY <1>0, <1>1, <1>7 DEF LoadStep, LoadReady, LoadDetached, LoadFailed, Hold
<1>8. ASSUME NEW x \in Runners, TimerFire(x) \/ TimerCallback(x) \/ ExpireStep(x) \/ UnloadDetach(x) \/ Crash(x) PROVE UNCHANGED reqPc
  BY <1>8 DEF TimerFire, TimerCallback, ExpireStep, ExpireDuplicate, ExpireOrphan, ExpireUnload, UnloadDetach, Crash, reqVars
<1>9. CASE SchedulerStep
  BY <1>0, <1>1, <1>2, <1>3, <1>9 DEF SchedulerStep, TakeWake, TakeUnloaded, PopNothing, PopNext,
    LoopCanceled, LoopHead, LoopConflict, LoopOtherMLX, LoopMLXBusy, LoopFull, LoopRoom, Advance,
    CheckLoaded, UseLoaded, PickVictim, PickNothing, CreateServer, CreateFails, Register, LoadNeedsRoom,
    LoadFails, ShrinkCheck, ShrinkDo, ShrinkEnd, DrainMatching, DrainSkip, DrainCheck, DrainUse, DrainEnd,
    EvictCanceled, Evict, EvictPause, WaitUnloaded, WaitTimeout, WaitCanceled, ReqStep, reqVars
<1>10. CASE ExpireFinish \/ BrokerStep
  BY <1>10 DEF ExpireFinish, BrokerStep, ExpireRunner, WatchdogReclaim,
       WatchdogShrinkCheck, WatchdogShrink, Protect, CooldownOver, UnloadRunnersExcept,
     UnloadRunners, PrepareForTraining, TrainingEnds, PolicyTick, RuntimeTicket, reqVars
<1>11. CASE UNCHANGED vars
  BY <1>11 DEF vars, reqVars
<1>. QED
  BY <1>3, <1>4, <1>5, <1>6, <1>7, <1>8, <1>9, <1>10, <1>11 DEF Next

\* DrainMatching brings no request that was not queued.
LEMMA DrainMatchingSet ==
    ASSUME TypeOK, DrainMatching
    PROVE  ToSet(drain') \subseteq ToSet(pending) /\ ToSet(pending') \subseteq ToSet(pending)
<1>. DEFINE n == Len(pending)
            c == Cardinality({i \in 1..n : model[pending[i]] = modelKey[run]})
<1>1. PICK q \in [1..n -> 1..n] :
        /\ drain' = [j \in 1..c |-> pending[q[j]]]
        /\ pending' = [j \in 1..(n - c) |-> pending[q[c + j]]]
  BY DEF DrainMatching
<1>2. c \in Nat /\ c <= n
  BY DrainMatchingBound
<1>. HIDE DEF c
<1>3. pending \in Seq(Requests) /\ n \in Nat
  BY DEF TypeOK, SharedTypes
<1>4. \A j \in 1..n : pending[q[j]] \in ToSet(pending)
  BY <1>3 DEF ToSet
<1>5. (\A j \in 1..c : j \in 1..n) /\ (\A j \in 1..(n - c) : c + j \in 1..n)
  BY <1>2, <1>3
<1>. HIDE DEF n
<1>6. ToSet(drain') \subseteq ToSet(pending)
  BY <1>1, <1>4, <1>5 DEF ToSet
<1>7. ToSet(pending') \subseteq ToSet(pending)
  BY <1>1, <1>4, <1>5 DEF ToSet
<1>. QED
  BY <1>6, <1>7

\* A request comes into the scheduler's hands through Push only.
LEMMA HeldGrows ==
    ASSUME TInv, [Next]_vars PROVE \A r \in Held' : r \in Held \/ reqPc'[r] = "queued"
<1>0. /\ pending \in Seq(Requests) /\ drain \in Seq(Requests) /\ requeue \in Seq(Requests)
      /\ reqPc \in [Requests -> ReqPcs]
  BY DEF TInv, TypeOK, RequestTypes, SharedTypes, LocalTypes
<1>1. CASE UNCHANGED <<pending, drain, requeue>> /\ (UNCHANGED <<pc, cur>> \/ pc' \in {"idle", "pop"} \/ (UNCHANGED cur /\ pc \notin {"idle", "pop"}))
  BY <1>1 DEF Held, Queued
<1>2. ASSUME NEW r \in Requests, Push(r) PROVE \A q \in Held' : q \in Held \/ reqPc'[q] = "queued"
  <2>1. ToSet(pending') \subseteq ToSet(pending) \cup {r} /\ reqPc'[r] = "queued"
    BY <1>0, <1>2, AppendSet DEF Push, ReqStep
  <2>. QED
    BY <1>2, <2>1 DEF Push, Held, Queued, localVars
<1>3. ASSUME NEW r \in Requests, DropPendingOnCancel(r) PROVE Held' \subseteq Held
  <2>1. CASE r \in ToSet(pending)
    <3>1. PICK i \in DOMAIN pending : pending' = RemoveAt(pending, i)
      <4>1. \E i \in DOMAIN pending : pending[i] = r
        BY <2>1 DEF ToSet
      <4>. QED
        BY <1>3, <2>1, <4>1 DEF DropPendingOnCancel, RemoveQueued
    <3>. QED
      BY <1>0, <1>3, <3>1, RemoveAtSet DEF DropPendingOnCancel, Held, Queued, localVars
  <2>2. CASE r \notin ToSet(pending)
    BY <1>1, <1>3, <2>2 DEF DropPendingOnCancel, Held, Queued, localVars, queueVars
  <2>. QED
    BY <2>1, <2>2
<1>4. CASE PopNext
  <2>1. PICK i \in DOMAIN pending : /\ pending' = RemoveAt(pending, i)
                                    /\ UNCHANGED localVars \/ (cur' = pending[i] /\ UNCHANGED <<drain, requeue>>)
    BY <1>4 DEF PopNext
  <2>2. pending[i] \in ToSet(pending) /\ ToSet(pending') \subseteq ToSet(pending)
    BY <1>0, <2>1, RemoveAtSet DEF ToSet
  <2>. QED
    BY <2>1, <2>2 DEF Held, Queued, localVars
<1>5. CASE DrainMatching
  <2>1. ToSet(drain') \subseteq ToSet(pending) /\ ToSet(pending') \subseteq ToSet(pending)
    BY <1>5, DrainMatchingSet DEF TInv
  <2>. QED
    BY <1>5, <2>1 DEF DrainMatching, Held, Queued
<1>6. CASE DrainSkip \/ DrainUse
  <2>1. ToSet(drain') \subseteq ToSet(drain) /\ UNCHANGED <<pending, requeue, cur>> /\ pc \notin {"idle", "pop"}
    BY <1>0, <1>6, TailSet DEF DrainSkip, DrainUse, sharedVars, queueVars, TInv, Frames
  <2>. QED
    BY <2>1 DEF Held, Queued
<1>7. CASE DrainCheck
  <2>1. UNCHANGED <<pending, cur>> /\ pc \notin {"idle", "pop"} /\ drain # <<>>
    BY <1>7 DEF DrainCheck, sharedVars, queueVars
  <2>2. Head(drain) \in Requests /\ Head(drain) \in ToSet(drain)
    BY <1>0, <2>1, TailSet
  <2>3. CASE UNCHANGED <<drain, requeue>>
    BY <2>1, <2>3 DEF Held, Queued
  <2>4. CASE drain' = Tail(drain) /\ requeue' = Append(requeue, Head(drain))
    <3>1. ToSet(drain') \subseteq ToSet(drain)
      BY <1>0, <2>1, <2>4, TailSet
    <3>2. ToSet(requeue') \subseteq ToSet(requeue) \cup {Head(drain)}
      BY <1>0, <2>2, <2>4, AppendSet
    <3>. QED
      BY <2>1, <2>2, <3>1, <3>2 DEF Held, Queued
  <2>. QED
    BY <1>7, <2>3, <2>4 DEF DrainCheck
<1>8. CASE DrainEnd
  <2>1. ToSet(pending') \subseteq ToSet(requeue) \cup ToSet(pending) /\ ToSet(requeue') = {}
    BY <1>0, <1>8, ConcatSet DEF DrainEnd, RequeueFront, ToSet
  <2>. QED
    BY <1>8, <2>1 DEF DrainEnd, Held, Queued
<1>9. ASSUME NEW r \in Requests,
             ClientStep(r) \/ ProcessFinishedRequest(r) \/ (HandlerStep(r) /\ ~Push(r))
      PROVE  UNCHANGED <<pending, drain, requeue, pc, cur>>
  BY <1>9 DEF ClientStep, Call, CancelCtx, Reap, HandlerStep, PauseAbort, Lookup, Check, Use, Refuse,
     ReqFinished, ProcessFinishedRequest, sharedVars, queueVars, localVars
<1>10. ASSUME NEW x \in Runners, TimerFire(x) \/ TimerCallback(x) \/ ExpireStep(x) \/ LoadStep(x)
                                 \/ UnloadDetach(x) \/ Crash(x)
       PROVE  UNCHANGED <<pending, drain, requeue, pc, cur>>
  BY <1>10 DEF TimerFire, TimerCallback, ExpireStep, ExpireDuplicate, ExpireOrphan, ExpireUnload,
     LoadStep, LoadReady, LoadDetached, LoadFailed, UnloadDetach, Crash, sharedVars, queueVars, localVars
<1>11. CASE ExpireFinish \/ BrokerStep
  <2>1. UNCHANGED <<pending, drain, requeue, pc, cur>>
    BY <1>11 DEF ExpireFinish, BrokerStep, ExpireRunner, WatchdogReclaim,
       WatchdogShrinkCheck, WatchdogShrink, Protect, CooldownOver,
       UnloadRunnersExcept, UnloadRunners, PrepareForTraining, TrainingEnds, PolicyTick, RuntimeTicket,
       queueVars, localVars
  <2>. QED
    BY <1>1, <2>1
<1>12. CASE TakeWake \/ TakeUnloaded \/ PopNothing \/ LoopCanceled \/ LoopHead \/ LoopConflict
            \/ LoopOtherMLX \/ LoopMLXBusy \/ LoopFull \/ LoopRoom \/ CheckLoaded \/ UseLoaded
            \/ PickVictim \/ PickNothing \/ CreateServer \/ CreateFails \/ Register
            \/ LoadNeedsRoom \/ LoadFails \/ ShrinkCheck \/ ShrinkDo \/ ShrinkEnd
            \/ EvictCanceled \/ Evict \/ EvictPause \/ WaitUnloaded \/ WaitTimeout \/ WaitCanceled
  <2>1. UNCHANGED <<pending, drain, requeue>>
    BY <1>12 DEF TakeWake, TakeUnloaded, PopNothing, LoopCanceled, LoopHead, LoopConflict,
       LoopOtherMLX, LoopMLXBusy, LoopFull, LoopRoom, CheckLoaded, UseLoaded, PickVictim, PickNothing,
       CreateServer, CreateFails, Register, LoadNeedsRoom, LoadFails, ShrinkCheck, ShrinkDo, ShrinkEnd,
       EvictCanceled, Evict, EvictPause, WaitUnloaded, WaitTimeout, WaitCanceled, EvictResume, Break, Retry, Goto,
       Advance, sharedVars, queueVars, localVars, frameVars
  <2>2. UNCHANGED <<pc, cur>> \/ pc' \in {"idle", "pop"} \/ (UNCHANGED cur /\ pc \notin {"idle", "pop"})
    BY <1>12 DEF TakeWake, TakeUnloaded, PopNothing, LoopCanceled, LoopHead, LoopConflict,
       LoopOtherMLX, LoopMLXBusy, LoopFull, LoopRoom, CheckLoaded, UseLoaded, PickVictim, PickNothing,
       CreateServer, CreateFails, Register, LoadNeedsRoom, LoadFails, ShrinkCheck, ShrinkDo, ShrinkEnd,
       EvictCanceled, Evict, EvictPause, WaitUnloaded, WaitTimeout, WaitCanceled, EvictResume, Break, Retry, Goto,
       Advance, Loadable, sharedVars, queueVars, localVars, frameVars
  <2>. QED
    BY <1>1, <2>1, <2>2
<1>13. CASE UNCHANGED vars
  BY <1>1, <1>13 DEF vars, sharedVars, queueVars, localVars
<1>. QED
  BY <1>1, <1>2, <1>3, <1>4, <1>5, <1>6, <1>7, <1>8, <1>9, <1>10, <1>11, <1>12, <1>13
     DEF Next, SchedulerStep, HandlerStep

\* A slot is never freed while the queue or the scheduler holds its request.
LEMMA InHandStep == TInv /\ InHand /\ [Next]_vars => InHand'
<1>. SUFFICES ASSUME TInv, InHand, [Next]_vars, NEW r \in Held' PROVE reqPc'[r] # "free"
  BY DEF InHand
<1>. QED
  BY HeldRequests, NotFreed, HeldGrows DEF InHand

-----------------------------------------------------------------------------
\* What the scheduler goroutine relies on during load: nobody else knows the
\* server it is loading, except through activeLoading, and nobody registers a
\* runner under the key.
LoadPcs == {"decide", "create", "load", "shrink", "shrinkDo"}

LoadInFlight ==
    /\ pc # "load" => activeLoading = None
    /\ pc = "load" => /\ run \notin llama \cup wiped \cup Resident \cup {xrun}
                      /\ modelKey[run] = model[cur]
                      /\ activeLoading \in {None, run}
    /\ pc \in LoadPcs => loaded[model[cur]] = None

\* A runner that is being closed has left the map.
ClosingUnregistered == wiped \cap Resident = {} /\ xrun \notin Resident

Ownership == LoadedAttached /\ NoServerLeak /\ LoadInFlight /\ ClosingUnregistered

\* Initially nobody owns anything.
LEMMA OwnershipInit == Init => Ownership
  BY DEF Init, Ownership, LoadedAttached, NoServerLeak, LoadInFlight, ClosingUnregistered,
     LoadPcs, Resident

\* A step that moves no handle keeps the ownership.
LEMMA OwnershipKept ==
    ASSUME Ownership,
           UNCHANGED <<loaded, activeLoading, llama, alive, modelKey, wiped, xrun, pc, run, cur>>,
           pc \in LoadPcs => model'[cur] = model[cur]
    PROVE  Ownership'
  BY DEF Ownership, LoadedAttached, NoServerLeak, LoadInFlight, ClosingUnregistered, LoadPcs, Resident

\* A step of the scheduler goroutine outside load.
LEMMA OwnershipMove ==
    ASSUME Ownership, UNCHANGED <<loaded, activeLoading, llama, alive, modelKey, wiped, xrun, model>>,
           pc # "load", pc' # "load", pc' \in LoadPcs => loaded[model[cur']] = None
    PROVE  Ownership'
  BY DEF Ownership, LoadedAttached, NoServerLeak, LoadInFlight, ClosingUnregistered, LoadPcs, Resident

\* Every step keeps the ownership: one proof step per action that moves a
\* handle, the others in groups.
LEMMA OwnershipStep == TInv /\ InHand /\ Ownership /\ [Next]_vars => Ownership'
<1>. SUFFICES ASSUME TInv, InHand, Ownership, [Next]_vars PROVE Ownership'
  OBVIOUS
<1>0. /\ loaded \in [Models -> Runners \cup {None}] /\ modelKey \in [Runners -> Models]
      /\ model \in [Requests -> Models] /\ xrun \in Runners \cup {None} /\ None \notin Runners
      /\ wiped \subseteq Runners /\ activeLoading \in Runners \cup {None}
      /\ llama \subseteq Runners /\ alive \subseteq Runners
  BY SchedulerAssumption DEF TInv, TypeOK, RequestTypes, RunnerTypes, SharedTypes
<1>1. ASSUME NEW r \in Requests, NEW m \in Models, NEW k \in KeepAlives, NEW c \in 1..MaxCtx,
             Call(r, m, k, c)
      PROVE  Ownership'
  <2>1. pc \in LoadPcs => model'[cur] = model[cur]
    BY <1>0, <1>1 DEF Call, InHand, Held, LoadPcs, TInv, Frames
  <2>. QED
    BY <1>1, <2>1, OwnershipKept
       DEF Call, runnerVars, sharedVars, mapVars, closeVars, localVars
<1>2. ASSUME NEW r \in Requests,
             CancelCtx(r) \/ Reap(r) \/ HandlerStep(r) \/ DropPendingOnCancel(r)
             \/ ProcessFinishedRequest(r)
      PROVE  Ownership'
  <2>1. UNCHANGED <<loaded, activeLoading, llama, alive, modelKey, wiped, xrun, pc, run, cur, model>>
    BY <1>2 DEF CancelCtx, Reap, HandlerStep, PauseAbort, Lookup, Check, Use, Refuse, Push, ReqFinished,
       DropPendingOnCancel, ProcessFinishedRequest, Fail, UseLoadedRunner, Acquire, Hold, NeedsReload,
       runnerVars, sharedVars, mapVars, closeVars, localVars, argVars
  <2>. QED
    BY <2>1, OwnershipKept
<1>3. ASSUME NEW x \in Runners,
             TimerFire(x) \/ TimerCallback(x) \/ ExpireDuplicate(x) \/ LoadStep(x)
      PROVE  Ownership'
  <2>1. UNCHANGED <<loaded, activeLoading, llama, alive, modelKey, wiped, xrun, pc, run, cur, model>>
    BY <1>3 DEF TimerFire, TimerCallback, ExpireDuplicate, LoadStep, LoadReady, LoadDetached, LoadFailed,
       Fail, Hold, runnerVars, reqVars, sharedVars, mapVars, closeVars, localVars, argVars
  <2>. QED
    BY <2>1, OwnershipKept
<1>4. ASSUME NEW x \in Runners, ExpireOrphan(x) PROVE Ownership'
  <2>1. x \notin Resident
    BY <1>0, <1>4 DEF ExpireOrphan, Ownership, LoadedAttached, Resident
  <2>. QED
    BY <1>0, <1>4, <2>1 DEF ExpireOrphan, Detach, Ownership, LoadedAttached, NoServerLeak,
       LoadInFlight, ClosingUnregistered, Resident, LoadPcs, closeVars, localVars, reqVars
<1>5. ASSUME NEW x \in Runners, ExpireUnload(x) PROVE Ownership'
  <2>1. /\ x \in Resident /\ x \notin Resident' /\ Resident' \subseteq Resident
        /\ Resident \subseteq Resident' \cup {x}
    BY <1>0, <1>5 DEF ExpireUnload, Unregister, Ownership, LoadedAttached, Resident
  <2>2. UNCHANGED <<activeLoading, llama, alive, modelKey, wiped, pc, run, cur, model>>
        /\ xrun = None /\ xrun' = x
    BY <1>5 DEF ExpireUnload, Expired, runnerVars, reqVars, localVars
  <2>3. LoadedAttached'
    BY <1>0, <1>5, <2>2 DEF ExpireUnload, Unregister, Ownership, LoadedAttached
  <2>4. NoServerLeak'
    BY <1>0, <2>1, <2>2 DEF Ownership, NoServerLeak
  <2>5. LoadInFlight'
    <3>1. pc \in LoadPcs => loaded'[model[cur]] = None
      BY <1>0, <1>5 DEF ExpireUnload, Unregister, Ownership, LoadInFlight
    <3>. QED
      BY <2>1, <2>2, <3>1 DEF Ownership, LoadInFlight
  <2>6. ClosingUnregistered'
    BY <2>1, <2>2 DEF Ownership, ClosingUnregistered
  <2>. QED
    BY <2>3, <2>4, <2>5, <2>6 DEF Ownership
<1>6. CASE ExpireFinish
  <2>1. /\ llama' = llama \ {xrun} /\ alive' = alive \ {xrun} /\ xrun' = None
        /\ UNCHANGED <<loaded, activeLoading, modelKey, wiped, pc, run, cur, model>>
    BY <1>6 DEF ExpireFinish, Detach, localVars, reqVars
  <2>2. LoadedAttached' /\ ClosingUnregistered'
    BY <1>0, <2>1 DEF Ownership, LoadedAttached, ClosingUnregistered, Resident
  <2>3. NoServerLeak'
    BY <1>0, <2>1 DEF Ownership, NoServerLeak, Resident
  <2>4. LoadInFlight'
    BY <1>0, <2>1 DEF Ownership, LoadInFlight, LoadPcs, Resident, TInv, Frames
  <2>. QED
    BY <2>2, <2>3, <2>4 DEF Ownership
<1>7. ASSUME NEW x \in Runners, UnloadDetach(x) PROVE Ownership'
  BY <1>0, <1>7 DEF UnloadDetach, Detach, Ownership, LoadedAttached, NoServerLeak,
     LoadInFlight, ClosingUnregistered, Resident, LoadPcs, localVars, reqVars, mapVars
<1>8. ASSUME NEW x \in Runners, Crash(x) PROVE Ownership'
  BY <1>0, <1>8 DEF Crash, Ownership, LoadedAttached, NoServerLeak, LoadInFlight,
     ClosingUnregistered, Resident, LoadPcs, localVars, reqVars, sharedVars, mapVars, closeVars
<1>9. CASE TakeWake \/ TakeUnloaded \/ PopNothing \/ PopNext \/ LoopCanceled
           \/ LoopConflict \/ LoopOtherMLX \/ LoopMLXBusy \/ LoopFull \/ CheckLoaded \/ UseLoaded
           \/ PickVictim \/ PickNothing \/ CreateFails \/ DrainMatching \/ DrainSkip
           \/ DrainCheck \/ DrainUse \/ DrainEnd \/ EvictCanceled \/ Evict \/ EvictPause
           \/ WaitUnloaded \/ WaitTimeout \/ WaitCanceled
  <2>1. UNCHANGED <<loaded, activeLoading, llama, alive, modelKey, wiped, xrun, model>>
    BY <1>9 DEF TakeWake, TakeUnloaded, PopNothing, PopNext, LoopCanceled, LoopConflict,
       LoopOtherMLX, LoopMLXBusy, LoopFull, CheckLoaded, UseLoaded, PickVictim, PickNothing, CreateFails,
       DrainMatching, DrainSkip, DrainCheck, DrainUse, DrainEnd, EvictCanceled, Evict, EvictPause, WaitUnloaded,
       WaitTimeout, WaitCanceled, EvictResume, Advance, Fail, FailCanceled, UseLoadedRunner, Acquire, Hold,
       NeedsReload, runnerVars, reqVars, argVars, sharedVars, mapVars, closeVars
  <2>2. pc \notin {"load"} /\ pc' \notin LoadPcs
    BY <1>9 DEF TakeWake, TakeUnloaded, PopNothing, PopNext, LoopCanceled, LoopConflict,
       LoopOtherMLX, LoopMLXBusy, LoopFull, Loadable, CheckLoaded, UseLoaded, PickVictim,
       PickNothing, CreateFails, DrainMatching, DrainSkip, DrainCheck, DrainUse, DrainEnd, EvictCanceled,
       Evict, EvictPause, EvictPause, WaitUnloaded, WaitTimeout, WaitCanceled, EvictResume, Advance, Goto, Retry, Break, localVars,
       LoadPcs
  <2>. QED
    BY <2>1, <2>2, OwnershipMove DEF LoadPcs
<1>10. CASE LoopHead \/ LoopRoom \/ ShrinkCheck \/ ShrinkDo \/ ShrinkEnd
  <2>1. UNCHANGED <<loaded, activeLoading, llama, alive, modelKey, wiped, xrun, model>>
    BY <1>10 DEF LoopHead, LoopRoom, Advance, ShrinkCheck, ShrinkDo, ShrinkEnd, runnerVars, reqVars, sharedVars,
       mapVars, closeVars
  <2>2. pc # "load" /\ pc' # "load" /\ (pc' \in LoadPcs => loaded[model[cur']] = None)
    <3>1. CASE LoopRoom
      BY <3>1 DEF LoopRoom, Loadable, Advance, frameVars, Ownership, LoadInFlight, LoadPcs
    <3>4. CASE LoopHead
      BY <3>4 DEF LoopHead, LoadPcs
    <3>2. CASE ShrinkCheck \/ ShrinkDo
      BY <3>2 DEF ShrinkCheck, ShrinkDo, Ownership, LoadInFlight, LoadPcs
    <3>3. CASE ShrinkEnd
      BY <3>3 DEF ShrinkEnd, Goto, frameVars, Ownership, LoadInFlight, LoadPcs
    <3>. QED
      BY <1>10, <3>1, <3>2, <3>3, <3>4
  <2>. QED
    BY <2>1, <2>2, OwnershipMove
<1>11. CASE CreateServer
  <2>1. PICK x \in Runners : /\ Free(x) /\ activeLoading' = x /\ alive' = alive \cup {x}
                             /\ modelKey' = [modelKey EXCEPT ![x] = model[cur]] /\ run' = x
    BY <1>11 DEF CreateServer
  <2>2. /\ pc = "create" /\ pc' = "load" /\ UNCHANGED <<cur, model, loaded, llama, wiped, xrun>>
    BY <1>11 DEF CreateServer, frameVars, reqVars, closeVars
  <2>3. x \notin Resident \cup llama \cup wiped /\ x # xrun
    BY <2>1 DEF Free
  <2>4. model[cur] \in Models
    BY <1>0, <2>2 DEF TInv, Frames
  <2>5. LoadedAttached'
    BY <1>0, <2>1, <2>2, <2>3, <2>4 DEF Ownership, LoadedAttached, Resident
  <2>6. NoServerLeak'
    BY <1>0, <2>1, <2>2, <2>3 DEF Ownership, NoServerLeak, Resident, LoadInFlight
  <2>7. LoadInFlight'
    BY <1>0, <2>1, <2>2, <2>3, <2>4 DEF Ownership, LoadInFlight, Resident, LoadPcs
  <2>8. ClosingUnregistered'
    BY <2>2 DEF Ownership, ClosingUnregistered, Resident
  <2>. QED
    BY <2>5, <2>6, <2>7, <2>8 DEF Ownership
<1>12. CASE Register
  <2>1. /\ pc = "load" /\ pc' = "idle" /\ UNCHANGED <<modelKey, wiped, xrun>>
        /\ loaded' = [loaded EXCEPT ![model[cur]] = run]
        /\ activeLoading' = None
    BY <1>12 DEF Register, Break, closeVars
  <2>2. /\ loaded[model[cur]] = None /\ run \notin wiped \cup {xrun} /\ modelKey[run] = model[cur]
        /\ activeLoading \in {None, run}
        /\ run \in Runners /\ model[cur] \in Models
    BY <1>0, <2>1 DEF Ownership, LoadInFlight, LoadPcs, TInv, Frames
  <2>3. llama' = llama \cup {run} /\ alive' = alive
    BY <1>0, <1>12, <2>2 DEF Register
  <2>4. Resident' = Resident \cup {run}
    BY <1>0, <2>1, <2>2 DEF Resident
  <2>5. LoadedAttached'
    BY <1>0, <2>1, <2>2, <2>3 DEF Ownership, LoadedAttached
  <2>6. NoServerLeak'
    BY <1>0, <2>1, <2>2, <2>3, <2>4 DEF Ownership, NoServerLeak
  <2>7. LoadInFlight'
    BY <2>1 DEF LoadInFlight, LoadPcs
  <2>8. ClosingUnregistered'
    BY <2>1, <2>2, <2>4 DEF Ownership, ClosingUnregistered
  <2>. QED
    BY <2>5, <2>6, <2>7, <2>8 DEF Ownership
<1>13. CASE LoadNeedsRoom \/ LoadFails
  <2>1. /\ pc = "load" /\ pc' \in {"idle", "pick", "shrink"} /\ (pc' = "shrink" => cur' = cur)
        /\ activeLoading' = None
        /\ alive' = alive \ {IF activeLoading # None THEN activeLoading ELSE run}
        /\ UNCHANGED <<loaded, llama, modelKey, wiped, xrun, model>>
    BY <1>13 DEF LoadNeedsRoom, LoadFails, ClearActiveLoading, Break, Fail, argVars, reqVars, closeVars
  <2>2. LoadInFlight' /\ LoadedAttached' /\ ClosingUnregistered'
    BY <2>1 DEF Ownership, LoadInFlight, LoadedAttached, ClosingUnregistered, Resident, LoadPcs
  <2>3. NoServerLeak'
    BY <1>0, <2>1 DEF Ownership, LoadInFlight, NoServerLeak, Resident
  <2>. QED
    BY <2>2, <2>3 DEF Ownership
<1>14. ASSUME NEW keep, NEW force, UnloadRunners(keep, force) PROVE Ownership'
  <2>. DEFINE safe == IF force THEN {} ELSE protected
              targets == {m \in Models : loaded[m] # None /\ m # keep /\ m \notin safe}
              deferred == {loaded[m] : m \in {m \in targets : keep = None /\ refCount[loaded[m]] > 0}}
              gone == {loaded[m] : m \in targets} \ deferred
  <2>1. /\ \/ activeLoading' = None /\ alive' = alive \ {activeLoading}
           \/ UNCHANGED <<activeLoading, alive>>
        /\ loaded' = [m \in Models |-> IF loaded[m] \in gone THEN None ELSE loaded[m]]
        /\ wiped' = wiped \cup gone
    BY <1>14 DEF UnloadRunners
  <2>8. gone \subseteq Resident
    BY DEF Resident
  <2>. HIDE DEF gone
  <2>2. UNCHANGED <<llama, modelKey, xrun, pc, run, cur, model>>
    BY <1>14 DEF UnloadRunners, localVars, reqVars
  <2>3. Resident' = Resident \ gone
    BY <1>0, <2>1 DEF Resident
  <2>4. LoadedAttached'
    BY <1>0, <2>1, <2>2 DEF Ownership, LoadedAttached
  <2>5. NoServerLeak'
    BY <1>0, <2>1, <2>2, <2>3 DEF Ownership, NoServerLeak
  <2>6. LoadInFlight'
    <3>1. pc \in LoadPcs => loaded'[model[cur]] = None
      BY <1>0, <2>1 DEF Ownership, LoadInFlight, LoadPcs, TInv, Frames
    <3>. QED
      BY <2>1, <2>2, <2>3, <2>8, <3>1 DEF Ownership, LoadInFlight
  <2>7. ClosingUnregistered'
    BY <2>1, <2>2, <2>3, <2>8 DEF Ownership, ClosingUnregistered
  <2>. QED
    BY <2>4, <2>5, <2>6, <2>7 DEF Ownership
<1>15. CASE BrokerStep
  <2>1. ASSUME NEW m \in Models, ExpireRunner(m) \/ WatchdogReclaim(m) \/ Protect(m) \/ CooldownOver(m)
        PROVE  Ownership'
    BY <2>1, OwnershipKept DEF ExpireRunner, WatchdogReclaim,
       WatchdogShrinkCheck, WatchdogShrink, Protect, CooldownOver, runnerVars, reqVars,
       mapVars, closeVars, localVars
  <2>3. ASSUME NEW x \in Runners, WatchdogShrinkCheck(x) PROVE Ownership'
    BY <2>3, OwnershipKept DEF WatchdogShrinkCheck, runnerVars, reqVars,
       mapVars, localVars
  <2>4. CASE WatchdogShrink
    BY <2>4, OwnershipKept DEF WatchdogShrink, reqVars, mapVars, localVars
  <2>2. CASE TrainingEnds \/ PolicyTick \/ RuntimeTicket
    BY <2>2, OwnershipKept DEF TrainingEnds, PolicyTick, RuntimeTicket, runnerVars, reqVars, mapVars,
       closeVars, localVars
  <2>. QED
    BY <1>14, <1>15, <2>1, <2>2, <2>3, <2>4 DEF BrokerStep, UnloadRunnersExcept, PrepareForTraining
<1>16. CASE UNCHANGED vars
  BY <1>16, OwnershipKept DEF vars, runnerVars, reqVars, sharedVars, mapVars, closeVars, localVars
<1>. QED
  BY <1>1, <1>2, <1>3, <1>4, <1>5, <1>6, <1>7, <1>8, <1>9, <1>10, <1>11, <1>12, <1>13, <1>15, <1>16
     DEF Next, ClientStep, ExpireStep, SchedulerStep

\* Types, slots in hand and ownership hold together in every reachable state.
LEMMA OwnershipInvariant == Spec => [](TInv /\ InHand /\ Ownership)
<1>1. Init => TInv /\ InHand /\ Ownership
  BY TypeInit, InHandInit, OwnershipInit
<1>2. TInv /\ InHand /\ Ownership /\ [Next]_vars => (TInv /\ InHand /\ Ownership)'
  BY TypeStep, InHandStep, OwnershipStep
<1>. QED
  BY <1>1, <1>2, PTL DEF Spec

\* Whoever finds a runner in s.loaded finds the model it looked for, with its
\* server attached: no interleaving of the goroutines that detach servers
\* (processExpiredRunner, unloadRunnersExceptOpts, load) leaves another one there.
THEOREM LoadedAttachedHolds == Spec => []LoadedAttached
<1>1. Ownership => LoadedAttached
  BY DEF Ownership
<1>. QED
  BY <1>1, OwnershipInvariant, PTL

\* No server process is ever without an owner that will close it, although
\* clearActiveLoading, the broker's wipes and load itself pass its handle around.
THEOREM NoServerLeakHolds == Spec => []NoServerLeak
<1>1. Ownership => NoServerLeak
  BY DEF Ownership
<1>. QED
  BY <1>1, OwnershipInvariant, PTL

\* The two branches of load that the code marks as bugs (the panic on a different
\* model in flight, "model was still loaded") are unreachable.
THEOREM NoStaleLoadHolds == Spec => []NoStaleLoad
<1>1. Ownership => NoStaleLoad
  BY DEF Ownership, LoadInFlight, LoadPcs, NoStaleLoad
<1>. QED
  BY <1>1, OwnershipInvariant, PTL
=============================================================================
