------------------------------ MODULE Scheduler ------------------------------
(***************************************************************************)
(* The model runner scheduler (server/sched.go, server/pending_queue.go).  *)
(*                                                                         *)
(* HTTP handlers call GetRunner and wait for a runner or an error.  A      *)
(* request for a resident model takes a reference on its goroutine (the    *)
(* fast path); any other request is queued for the scheduler goroutine     *)
(* (processPending), which loads the model and evicts others to make room. *)
(* Two more goroutines serve finished requests and expired runners, every  *)
(* load has a goroutine that waits for the server process, and timers,     *)
(* operators and the VRAM broker expire or wipe runners at any time.       *)
(*                                                                         *)
(* Every critical section of loadedMu, refMu and pending.mu is one step;   *)
(* what a goroutine remembers between two sections is part of the state.   *)
(***************************************************************************)
EXTENDS Integers, FiniteSets, Sequences, SequencesExt

CONSTANTS
    Requests,     \* LlmRequest values; a slot is reused after its request ended
    Models,       \* scheduler model keys (schedulerModelKey)
    Runners,      \* runnerRef objects and their server processes
    None,         \* nil
    MaxQueue,     \* OLLAMA_MAX_QUEUE
    MaxRunners,   \* OLLAMA_MAX_LOADED_MODELS, set explicitly
    RefMod,       \* 2^w for the unsigned refCount
    MaxTokens,    \* bound: expiry events in flight per runner, and unload signals
    MaxCtx,       \* context sizes are 1..MaxCtx; 1 is kvReclaimFloor
    KeepAlives,   \* keep_alive of a request: subset of {"unset", "zero", "pos"}
    Groups,       \* concurrency groups: sets of models that exclude each other
    MLX,          \* the models that are MLX, of which one may be resident
    Pinnable,     \* models a pin or a fulfillment hold may protect
    UnloadKeeps,  \* keepModelKey arguments of unloadRunnersExceptOpts (None is "")
    Operator,     \* whether operators stop models and the watchdog expires them
    LoadMayFail,  \* whether creating or loading a server may fail
    MayCrash,     \* whether a server process may die on its own
    MayTimeOut,   \* whether the eviction wait may time out
    Training,     \* whether training or a runtime backlog pauses loads
    CrossFifo,    \* whether the Python runtime holds older cross-queue tickets
    Reuse         \* whether clients keep sending requests

ASSUME SchedulerAssumption ==
    /\ MaxQueue \in Nat \ {0}
    /\ MaxRunners \in Nat \ {0}
    /\ RefMod \in Nat \ {0, 1}
    /\ MaxTokens \in Nat \ {0}
    /\ MaxCtx \in Nat \ {0}
    /\ KeepAlives \subseteq {"unset", "zero", "pos"}
    /\ None \notin Requests \cup Models \cup Runners
    /\ Models # {} /\ IsFiniteSet(Models)
    /\ MLX \subseteq Models /\ Pinnable \subseteq Models
    /\ UnloadKeeps \subseteq Models \cup {None}

VARIABLES
    \* requests (LlmRequest and the goroutine inside GetRunner)
    reqPc, model, keepAlive, wantCtx,
    ptr,            \* the runner the request looked up, then the one it holds
    canceled,       \* requests whose context is done
    dropper,        \* requests with a dropPendingOnCancel goroutine
    errs, oks,      \* messages ever put on errCh and successCh
    \* runners (runnerRef) and their processes
    modelKey, refCount, loading,
    llama,          \* runners whose llama field is set
    alive,          \* runners whose server process runs
    expireTimer,    \* "nil", "armed", or "fired" (non-nil but already run)
    firing,         \* runners with a timer callback waiting for refMu
    sessionDuration, numCtx,
    owner,          \* the request whose load created the runner
    \* the scheduler's shared state
    loaded, activeLoading,
    pins,           \* remotestore pin counts, per model's blobs
    cooldown,       \* models in load cooldown
    pending, wake,
    expiredCh,      \* expiry events per runner: sent, being sent or sleeping
    finishedReqCh, unloadedCh,
    loadsPaused, trainingPause, protected, runtimeAhead,
    \* the scheduler goroutine
    pc, cur, run, loadedCount, shrunk, todo, drain, requeue, evictionPaused,
    \* the runner processExpiredRunner has unregistered and is about to close, and
    \* the ones unloadRunnersExceptOpts has; the one the watchdog is about to shrink
    xrun, wiped, wrun

reqVars == <<reqPc, model, keepAlive, wantCtx, ptr, canceled, dropper, errs, oks>>
runnerVars == <<modelKey, refCount, loading, llama, alive, expireTimer, firing,
                sessionDuration, numCtx, owner>>
mapVars == <<loaded, activeLoading, pins, cooldown>>
queueVars == <<pending, wake>>
chanVars == <<expiredCh, finishedReqCh, unloadedCh>>
envVars == <<trainingPause, protected, runtimeAhead>>
localVars == <<pc, cur, run, loadedCount, shrunk, todo, drain, requeue, evictionPaused>>
closeVars == <<xrun, wiped, wrun>>
argVars == <<model, keepAlive, wantCtx>>
frameVars == <<cur, loadedCount, shrunk, todo, drain, requeue, evictionPaused>>
sharedVars == <<mapVars, queueVars, chanVars, loadsPaused, envVars, closeVars>>
vars == <<reqVars, runnerVars, sharedVars, localVars>>

ReqPcs == {"free", "start", "check", "use", "push", "queued", "held", "done"}

Pcs == {"idle", "pop", "loop", "decide", "check", "use", "pick", "create", "load", "shrink",
        "shrinkDo", "drain", "drainLoop", "drainUse", "evict", "pause", "wait"}

RequestTypes ==
    /\ reqPc \in [Requests -> ReqPcs]
    /\ model \in [Requests -> Models]
    /\ keepAlive \in [Requests -> {"unset", "zero", "pos"}]
    /\ wantCtx \in [Requests -> 1..MaxCtx]
    /\ ptr \in [Requests -> Runners \cup {None}]
    /\ canceled \subseteq Requests /\ dropper \subseteq Requests
    /\ errs \in [Requests -> Nat] /\ oks \in [Requests -> Nat]

RunnerTypes ==
    /\ modelKey \in [Runners -> Models]
    /\ refCount \in [Runners -> 0..(RefMod - 1)]
    /\ loading \subseteq Runners /\ llama \subseteq Runners /\ alive \subseteq Runners
    /\ expireTimer \in [Runners -> {"nil", "armed", "fired"}]
    /\ firing \subseteq Runners
    /\ sessionDuration \in [Runners -> {"zero", "pos"}]
    /\ numCtx \in [Runners -> 1..MaxCtx]
    /\ owner \in [Runners -> Requests \cup {None}]

SharedTypes ==
    /\ loaded \in [Models -> Runners \cup {None}]
    /\ activeLoading \in Runners \cup {None}
    /\ pins \in [Models -> Nat]
    /\ cooldown \subseteq Models /\ protected \subseteq Models
    /\ pending \in Seq(Requests)
    /\ expiredCh \in [Runners -> 0..MaxTokens]
    /\ finishedReqCh \subseteq Requests
    /\ unloadedCh \in 0..MaxTokens
    /\ xrun \in Runners \cup {None} /\ wiped \subseteq Runners
    /\ wrun \in Runners \cup {None}

LocalTypes ==
    /\ pc \in Pcs
    /\ cur \in Requests \cup {None} /\ run \in Runners \cup {None}
    /\ loadedCount \in Nat /\ todo \subseteq Runners
    /\ drain \in Seq(Requests) /\ requeue \in Seq(Requests)

FlagTypes ==
    /\ wake \in BOOLEAN
    /\ loadsPaused \in BOOLEAN /\ trainingPause \in BOOLEAN /\ runtimeAhead \in BOOLEAN
    /\ shrunk \in BOOLEAN /\ evictionPaused \in BOOLEAN

\* Every variable has its type; in particular a second release of a runner's blobs,
\* by a late expiry event, never takes the pin count below zero.  (That refCount
\* stays below RefMod is what unsigned means: UnusedIsIdle is about its value.)
TypeOK == RequestTypes /\ RunnerTypes /\ SharedTypes /\ LocalTypes /\ FlagTypes

\* The model of a slot that has not been used yet; never read.
AnyModel == CHOOSE m \in Models : TRUE

Init ==
    /\ reqPc = [r \in Requests |-> "free"]
    /\ model = [r \in Requests |-> AnyModel]
    /\ keepAlive = [r \in Requests |-> "unset"]
    /\ wantCtx = [r \in Requests |-> 1]
    /\ ptr = [r \in Requests |-> None]
    /\ canceled = {} /\ dropper = {}
    /\ errs = [r \in Requests |-> 0] /\ oks = [r \in Requests |-> 0]
    /\ modelKey = [x \in Runners |-> AnyModel]
    /\ refCount = [x \in Runners |-> 0]
    /\ loading = {} /\ llama = {} /\ alive = {}
    /\ expireTimer = [x \in Runners |-> "nil"]
    /\ firing = {}
    /\ sessionDuration = [x \in Runners |-> "zero"]
    /\ numCtx = [x \in Runners |-> 1]
    /\ owner = [x \in Runners |-> None]
    /\ loaded = [m \in Models |-> None]
    /\ activeLoading = None
    /\ pins = [m \in Models |-> 0]
    /\ cooldown = {}
    /\ pending = <<>> /\ wake = FALSE
    /\ expiredCh = [x \in Runners |-> 0]
    /\ finishedReqCh = {}
    /\ unloadedCh = 0
    /\ loadsPaused = FALSE /\ trainingPause = FALSE
    /\ protected = {} /\ runtimeAhead = FALSE
    /\ pc = "idle" /\ cur = None /\ run = None
    /\ loadedCount = 0 /\ shrunk = FALSE /\ evictionPaused = FALSE
    /\ todo = {}
    /\ drain = <<>> /\ requeue = <<>>
    /\ xrun = None /\ wiped = {} /\ wrun = None

-----------------------------------------------------------------------------
(* Steps of which several goroutines take a variant. *)

Resident == {loaded[m] : m \in Models} \ {None}

MutantSignalLost(n) == n

\* One more event on a channel; the bound stands for its capacity.
Signal(n) == IF n < MaxTokens THEN n + 1 ELSE n

MutantScheduleExpiredDrops(x) == UNCHANGED expiredCh

\* scheduleExpiredRunner: a goroutine that will deliver x on expiredCh.
ScheduleExpired(x) == expiredCh' = [expiredCh EXCEPT ![x] = Signal(@)]

StopTimer(x) == expireTimer' = [expireTimer EXCEPT ![x] = "nil"]

\* errCh <- err: the handler gets an error.
Fail(r) ==
    /\ errs' = [errs EXCEPT ![r] = @ + 1]
    /\ reqPc' = [reqPc EXCEPT ![r] = "done"]
    /\ ptr' = [ptr EXCEPT ![r] = None]
    /\ UNCHANGED <<argVars, canceled, dropper, oks>>

MutantFailCanceledTwice(r) == Fail(r)

\* failIfCanceled of a request whose context is done: errCh takes one error and
\* further ones are discarded.
FailCanceled(r) ==
    /\ errs' = [errs EXCEPT ![r] = IF @ = 0 THEN 1 ELSE @]
    /\ reqPc' = [reqPc EXCEPT ![r] = "done"]
    /\ ptr' = [ptr EXCEPT ![r] = None]
    /\ UNCHANGED <<argVars, canceled, dropper, oks>>

\* successCh <- runner: the handler works with the runner until its context ends.
Hold(r, x) ==
    /\ oks' = [oks EXCEPT ![r] = @ + 1]
    /\ reqPc' = [reqPc EXCEPT ![r] = "held"]
    /\ ptr' = [ptr EXCEPT ![r] = x]
    /\ UNCHANGED <<argVars, canceled, dropper, errs>>

\* The critical section of useLoadedRunner that takes a reference.
Acquire(r, x) ==
    /\ x \notin loading /\ x \in llama
    /\ Hold(r, x)
    /\ refCount' = [refCount EXCEPT ![x] = (@ + 1) % RefMod]
    /\ StopTimer(x)
    /\ sessionDuration' = [sessionDuration EXCEPT ![x] =
                              IF keepAlive[r] = "unset" THEN @ ELSE keepAlive[r]]
    /\ UNCHANGED <<modelKey, loading, llama, alive, firing, numCtx, owner>>

\* useLoadedRunner: waitUntilReady blocks while the runner loads, unless the
\* request's context ends; a runner that lost its server is unavailable.
UseLoadedRunner(r, x) ==
    \/ /\ IF x \in loading THEN r \in canceled ELSE x \notin llama
       /\ Fail(r)
       /\ UNCHANGED runnerVars
    \/ Acquire(r, x)

\* needsReload: reload is its result.  A loading runner is reused as it is; one
\* without a server that answers a ping (on a context that may be over) must be
\* reloaded; a larger context is grown in place or forces a reload.  The other
\* launch attributes that force a reload (adapters, projectors, context shift,
\* runner options, a rebuilt binary) act as a context that cannot be grown.
NeedsReload(r, x, ctxDone, reload) ==
    /\ \/ x \in loading /\ ~reload /\ UNCHANGED numCtx
       \/ /\ x \notin loading
          /\ x \notin llama \cap alive \/ ctxDone \/ wantCtx[r] > numCtx[x]
          /\ reload /\ UNCHANGED numCtx
       \/ /\ x \in (llama \cap alive) \ loading /\ ~ctxDone /\ ~reload
          /\ numCtx' = [numCtx EXCEPT ![x] = IF wantCtx[r] > @ THEN wantCtx[r] ELSE @]
    /\ UNCHANGED <<modelKey, refCount, loading, llama, alive, expireTimer, firing,
                   sessionDuration, owner>>

\* detachServer and closeLlamaServer.
Detach(x) ==
    /\ StopTimer(x)
    /\ llama' = llama \ {x}
    /\ alive' = alive \ {x}

MutantReleaseUnguarded(m) == pins' = [pins EXCEPT ![m] = @ - 1]

\* releaseRemoteBlobs: Unpin never takes a count below zero.
Release(m) == pins' = [pins EXCEPT ![m] = IF @ > 0 THEN @ - 1 ELSE 0]

MutantResumeForgets ==
    /\ UNCHANGED loadsPaused
    /\ wake' = (wake \/ loadsPaused)

\* ResumeLoads wakes the scheduler if loads were paused.
ResumeLoads ==
    /\ loadsPaused' = FALSE
    /\ wake' = (wake \/ loadsPaused)

-----------------------------------------------------------------------------
(* Request handlers: GetRunner on the handler's goroutine. *)

ReqStep(r, next) == reqPc' = [reqPc EXCEPT ![r] = next]

\* A new request.
Call(r, m, k, c) ==
    /\ reqPc[r] = "free"
    /\ ReqStep(r, "start")
    /\ model' = [model EXCEPT ![r] = m]
    /\ keepAlive' = [keepAlive EXCEPT ![r] = k]
    /\ wantCtx' = [wantCtx EXCEPT ![r] = c]
    /\ UNCHANGED <<ptr, canceled, dropper, errs, oks, runnerVars, sharedVars, localVars>>

\* The client disconnects, or the handler is finished with the request.
CancelCtx(r) ==
    /\ reqPc[r] # "free" /\ r \notin canceled
    /\ canceled' = canceled \cup {r}
    /\ UNCHANGED <<reqPc, argVars, ptr, dropper, errs, oks, runnerVars, sharedVars,
                   localVars>>

\* GetRunner polls loadsPaused until loads resume or the client is gone.
PauseAbort(r) ==
    /\ reqPc[r] = "start" /\ loadsPaused /\ r \in canceled
    /\ Fail(r)
    /\ UNCHANGED <<runnerVars, sharedVars, localVars>>

Lookup(r) ==
    /\ reqPc[r] = "start" /\ ~loadsPaused
    /\ ptr' = [ptr EXCEPT ![r] = loaded[model[r]]]
    /\ ReqStep(r, IF loaded[model[r]] = None THEN "push" ELSE "check")
    /\ UNCHANGED <<argVars, canceled, dropper, errs, oks, runnerVars, sharedVars,
                   localVars>>

Check(r) ==
    /\ reqPc[r] = "check"
    /\ \E reload \in BOOLEAN :
         /\ NeedsReload(r, ptr[r], r \in canceled /\ model[r] \notin MLX, reload)
         /\ ReqStep(r, IF reload THEN "push" ELSE "use")
    /\ UNCHANGED <<argVars, ptr, canceled, dropper, errs, oks, sharedVars, localVars>>

Use(r) ==
    /\ reqPc[r] = "use"
    /\ UseLoadedRunner(r, ptr[r])
    /\ UNCHANGED <<sharedVars, localVars>>

\* A model in load cooldown and a full queue are refused.
Refuse(r) ==
    /\ reqPc[r] = "push"
    /\ model[r] \in cooldown \/ Len(pending) >= MaxQueue
    /\ Fail(r)
    /\ UNCHANGED <<runnerVars, sharedVars, localVars>>

Push(r) ==
    /\ reqPc[r] = "push"
    /\ model[r] \notin cooldown /\ Len(pending) < MaxQueue
    /\ pending' = Append(pending, r)
    /\ wake' = TRUE
    /\ ReqStep(r, "queued")
    /\ dropper' = dropper \cup {r}
    /\ ptr' = [ptr EXCEPT ![r] = None]
    /\ UNCHANGED <<argVars, canceled, errs, oks, runnerVars, mapVars, chanVars,
                   loadsPaused, envVars, localVars, closeVars>>

\* pendingQueue.Remove of a request that is in the queue.
RemoveQueued(q, r) == RemoveAt(q, CHOOSE i \in DOMAIN q : q[i] = r)

\* dropPendingOnCancel: a request still in the queue when its client disconnects
\* is removed without an answer.
DropPendingOnCancel(r) ==
    /\ r \in canceled \cap dropper
    /\ dropper' = dropper \ {r}
    /\ IF r \in ToSet(pending)
       THEN /\ pending' = RemoveQueued(pending, r)
            /\ wake' = TRUE
            /\ ReqStep(r, "done")
       ELSE UNCHANGED <<queueVars, reqPc>>
    /\ UNCHANGED <<argVars, ptr, canceled, errs, oks, runnerVars, mapVars, chanVars,
                   loadsPaused, envVars, localVars, closeVars>>

\* The goroutine useLoadedRunner and load start for a request that got a runner.
ReqFinished(r) ==
    /\ reqPc[r] = "held" /\ r \in canceled
    /\ finishedReqCh' = finishedReqCh \cup {r}
    /\ ReqStep(r, "done")
    /\ UNCHANGED <<argVars, ptr, canceled, dropper, errs, oks, runnerVars, mapVars,
                   queueVars, expiredCh, unloadedCh, loadsPaused, envVars, localVars,
                   closeVars>>

\* An ended request that no goroutine and no queue refers to; clients that keep
\* sending requests use its slot again.
Reap(r) ==
    /\ Reuse
    /\ reqPc[r] = "done" /\ r \in canceled
    /\ r \notin dropper \cup finishedReqCh \cup {cur}
    /\ r \notin ToSet(pending) \cup ToSet(drain) \cup ToSet(requeue)
    /\ r \notin {owner[x] : x \in loading}
    /\ ReqStep(r, "free")
    /\ errs' = [errs EXCEPT ![r] = 0]
    /\ oks' = [oks EXCEPT ![r] = 0]
    /\ canceled' = canceled \ {r}
    /\ UNCHANGED <<argVars, ptr, dropper, runnerVars, sharedVars, localVars>>

-----------------------------------------------------------------------------
(* Completion: processFinishedRequests, the idle timers and processExpiredRunners. *)

\* refCount-- on an unsigned counter, which wraps at zero.
Released(n) == (n - 1) % RefMod

\* processFinishedRequest: the runner is looked up by the request's model key.
\* The last reference starts (or restarts) the idle timer, or expires the runner.
ProcessFinishedRequest(r) ==
    /\ r \in finishedReqCh
    /\ finishedReqCh' = finishedReqCh \ {r}
    /\ ptr' = [ptr EXCEPT ![r] = None]
    /\ LET x == loaded[model[r]]
           n == Released(refCount[x])
       IN \/ x = None /\ UNCHANGED <<refCount, expireTimer, expiredCh>>
          \/ /\ x # None
             /\ refCount' = [refCount EXCEPT ![x] = n]
             /\ \/ n > 0 /\ UNCHANGED <<expireTimer, expiredCh>>
                \/ n <= 0 /\ sessionDuration[x] = "zero" /\ StopTimer(x) /\ ScheduleExpired(x)
                \/ /\ n <= 0 /\ sessionDuration[x] = "pos"
                   /\ expireTimer' = [expireTimer EXCEPT ![x] = "armed"]
                   /\ UNCHANGED expiredCh
    /\ UNCHANGED <<reqPc, argVars, canceled, dropper, errs, oks, modelKey, loading,
                   llama, alive, firing, sessionDuration, numCtx, owner, mapVars,
                   queueVars, unloadedCh, loadsPaused, envVars, localVars, closeVars>>

\* The session duration passes; the callback then waits for refMu.  Callbacks of
\* one runner are counted once.
TimerFire(x) ==
    /\ expireTimer[x] = "armed" /\ x \notin firing
    /\ expireTimer' = [expireTimer EXCEPT ![x] = "fired"]
    /\ firing' = firing \cup {x}
    /\ UNCHANGED <<reqVars, modelKey, refCount, loading, llama, alive, sessionDuration,
                   numCtx, owner, sharedVars, localVars>>

\* The callback stops whatever timer the runner has by now and expires it.
TimerCallback(x) ==
    /\ x \in firing
    /\ firing' = firing \ {x}
    /\ StopTimer(x)
    /\ ScheduleExpired(x)
    /\ UNCHANGED <<reqVars, modelKey, refCount, loading, llama, alive, sessionDuration,
                   numCtx, owner, mapVars, queueVars, finishedReqCh, unloadedCh,
                   loadsPaused, envVars, localVars, closeVars>>

MutantUnregisterLate(m) == UNCHANGED loaded

\* delete(s.loaded, modelKey)
Unregister(m) == loaded' = [loaded EXCEPT ![m] = None]

\* processExpiredRunner takes an event when it is done with the one before.
Expired(x) == xrun = None /\ expiredCh[x] > 0

\* A duplicate event: nothing is loaded under the runner's key.
ExpireDuplicate(x) ==
    /\ Expired(x) /\ loaded[modelKey[x]] = None
    /\ expiredCh' = [expiredCh EXCEPT ![x] = @ - 1]
    /\ UNCHANGED <<reqVars, runnerVars, mapVars, queueVars, finishedReqCh, unloadedCh,
                   loadsPaused, envVars, localVars, closeVars>>

\* Another process (pid) is loaded under the key: the orphan is shut down.
ExpireOrphan(x) ==
    /\ Expired(x) /\ loaded[modelKey[x]] \notin {None, x}
    /\ expiredCh' = [expiredCh EXCEPT ![x] = @ - 1]
    /\ Detach(x)
    /\ Release(modelKey[x])
    /\ UNCHANGED <<reqVars, modelKey, refCount, loading, firing, sessionDuration,
                   numCtx, owner, loaded, activeLoading, cooldown, queueVars,
                   finishedReqCh, unloadedCh, loadsPaused, envVars, localVars, closeVars>>

\* The loaded runner, unreferenced, is taken out of the map.  While it is
\* referenced the event is re-sent every 10ms: it stays on the channel.
ExpireUnload(x) ==
    /\ Expired(x) /\ loaded[modelKey[x]] = x /\ refCount[x] = 0
    /\ expiredCh' = [expiredCh EXCEPT ![x] = @ - 1]
    /\ Unregister(modelKey[x])
    /\ xrun' = x
    /\ UNCHANGED <<reqVars, runnerVars, activeLoading, pins, cooldown, queueVars,
                   finishedReqCh, unloadedCh, loadsPaused, envVars, localVars, wiped, wrun>>

\* After the GPU baseline query, outside both locks: close the server, release its
\* blobs and, once VRAM has recovered, tell the scheduler.
ExpireFinish ==
    /\ xrun # None
    /\ Detach(xrun)
    /\ Release(modelKey[xrun])
    /\ unloadedCh' = Signal(unloadedCh)
    /\ xrun' = None
    /\ UNCHANGED <<reqVars, modelKey, refCount, loading, firing, sessionDuration,
                   numCtx, owner, loaded, activeLoading, cooldown, queueVars, expiredCh,
                   finishedReqCh, loadsPaused, envVars, localVars, wiped, wrun>>

-----------------------------------------------------------------------------
(* The goroutine load starts: WaitUntilRunning, then publish the runner. *)

\* The server is up and the runner still has it.
LoadReady(x) ==
    /\ x \in loading \cap llama \cap alive
    /\ loading' = loading \ {x}
    /\ refCount' = [refCount EXCEPT ![x] = (@ + 1) % RefMod]
    /\ cooldown' = cooldown \ {modelKey[x]}
    /\ Hold(owner[x], x)
    /\ UNCHANGED <<modelKey, llama, alive, expireTimer, firing, sessionDuration, numCtx,
                   owner, loaded, activeLoading, pins, queueVars, chanVars, loadsPaused,
                   envVars, localVars, closeVars>>

\* The server came up but the runner was detached meanwhile.
LoadDetached(x) ==
    /\ x \in loading \ llama
    /\ loading' = loading \ {x}
    /\ Fail(owner[x])
    /\ ScheduleExpired(x)
    /\ UNCHANGED <<modelKey, refCount, llama, alive, expireTimer, firing,
                   sessionDuration, numCtx, owner, mapVars, queueVars, finishedReqCh,
                   unloadedCh, loadsPaused, envVars, localVars, closeVars>>

\* WaitUntilRunning fails: the process died, the client disconnected (unless its
\* keep_alive is positive, which keeps the load going), or the load went wrong.
\* A cancelled load starts no cooldown.
LoadFailed(x) ==
    /\ x \in loading
    /\ LET disconnected == owner[x] \in canceled /\ keepAlive[owner[x]] # "pos" IN
       \/ (x \notin alive \/ LoadMayFail) /\ cooldown' = cooldown \cup {modelKey[x]}
       \/ disconnected /\ UNCHANGED cooldown
    /\ loading' = loading \ {x}
    /\ Fail(owner[x])
    /\ ScheduleExpired(x)
    /\ UNCHANGED <<modelKey, refCount, llama, alive, expireTimer, firing,
                   sessionDuration, numCtx, owner, loaded, activeLoading, pins,
                   queueVars, finishedReqCh, unloadedCh, loadsPaused, envVars,
                   localVars, closeVars>>

-----------------------------------------------------------------------------
(* The scheduler goroutine: processPending and processOnePending. *)

Goto(next) ==
    /\ pc' = next
    /\ UNCHANGED <<frameVars, run>>

\* The loop of processOnePending tries again from its head.
Retry ==
    /\ pc' = "loop"
    /\ run' = None
    /\ loadedCount' = 0 /\ shrunk' = FALSE
    /\ UNCHANGED <<cur, todo, drain, requeue, evictionPaused>>

MutantBreakSilent ==
    /\ pc' = "idle"
    /\ cur' = None /\ run' = None
    /\ loadedCount' = 0 /\ shrunk' = FALSE
    /\ UNCHANGED <<queueVars, todo, drain, requeue, evictionPaused>>

\* The loop of processOnePending ends; notifyPendingIfQueued.
Break ==
    /\ pc' = "idle"
    /\ cur' = None /\ run' = None
    /\ loadedCount' = 0 /\ shrunk' = FALSE
    /\ wake' = (wake \/ pending # <<>>)
    /\ UNCHANGED <<pending, todo, drain, requeue, evictionPaused>>

TakeWake ==
    /\ pc = "idle" /\ wake
    /\ wake' = FALSE
    /\ Goto("pop")
    /\ UNCHANGED <<reqVars, runnerVars, mapVars, pending, chanVars, loadsPaused,
                   envVars, closeVars>>

TakeUnloaded ==
    /\ pc = "idle" /\ unloadedCh > 0
    /\ unloadedCh' = unloadedCh - 1
    /\ wake' = (wake \/ pending # <<>>)
    /\ UNCHANGED <<reqVars, runnerVars, mapVars, pending, expiredCh, finishedReqCh,
                   loadsPaused, envVars, localVars, closeVars>>

\* pendingPopNext returns nil: the queue is empty, or the Python runtime has an
\* older ticket.
PopNothing ==
    /\ pc = "pop"
    /\ pending = <<>> \/ runtimeAhead
    /\ Goto("idle")
    /\ UNCHANGED <<reqVars, runnerVars, sharedVars>>

\* PopPreferringKeys: the oldest request for a loaded model, else the oldest.
PopsAt(i) ==
    LET Preferred == {k \in DOMAIN pending : loaded[model[pending[k]]] # None} IN
    IF Preferred = {} THEN i = 1 ELSE i \in Preferred /\ \A k \in Preferred : i <= k

\* A canceled request is failed and the next one is popped.
PopNext ==
    /\ pc = "pop" /\ ~runtimeAhead
    /\ \E i \in DOMAIN pending :
         /\ PopsAt(i)
         /\ pending' = RemoveAt(pending, i)
         /\ \/ /\ pending[i] \in canceled
               /\ FailCanceled(pending[i])
               /\ UNCHANGED localVars
            \/ /\ pending[i] \notin canceled
               /\ pc' = "loop"
               /\ cur' = pending[i]
               /\ UNCHANGED <<reqVars, run, loadedCount, shrunk, todo, drain, requeue,
                              evictionPaused>>
    /\ UNCHANGED <<runnerVars, mapVars, wake, chanVars, loadsPaused, envVars, closeVars>>

LoopCanceled ==
    /\ pc = "loop" /\ cur \in canceled
    /\ FailCanceled(cur)
    /\ Break
    /\ UNCHANGED <<runnerVars, mapVars, chanVars, loadsPaused, envVars, closeVars>>

\* The runner and the number of runners, read under loadedMu.  What follows uses
\* this snapshot, while runners are unloaded in parallel.
LoopHead ==
    /\ pc = "loop" /\ cur \notin canceled
    /\ run' = loaded[model[cur]]
    /\ loadedCount' = Cardinality(Resident)
    /\ pc' = IF loaded[model[cur]] = None THEN "decide" ELSE "check"
    /\ UNCHANGED <<cur, shrunk, todo, drain, requeue, evictionPaused, reqVars,
                   runnerVars, sharedVars>>

\* Local progress of the goroutine that touches no shared state.
Advance(next, x) ==
    /\ pc' = next
    /\ run' = x
    /\ UNCHANGED <<frameVars, reqVars, runnerVars, sharedVars>>

\* findConcurrencyGroupConflict: which of several conflicting runners goes first
\* depends on how recently each was used, and a busy one may.
Conflicting == {loaded[n] : n \in {n \in Models \ {model[cur]} :
                    loaded[n] # None /\ \E g \in Groups : {n, model[cur]} \subseteq g}}

LoopConflict ==
    /\ pc = "decide"
    /\ \E x \in Conflicting : Advance("drain", x)

\* findOtherMLXRunner: another resident MLX model yields unless it is protected.
OtherMLX == IF model[cur] \notin MLX THEN {}
            ELSE {n \in MLX \ {model[cur]} : loaded[n] # None}

LoopOtherMLX ==
    /\ pc = "decide" /\ Conflicting = {}
    /\ \E n \in OtherMLX \ protected : Advance("drain", loaded[n])

LoopMLXBusy ==
    /\ pc = "decide" /\ Conflicting = {}
    /\ OtherMLX # {} /\ OtherMLX \subseteq protected
    /\ Fail(cur)
    /\ Break
    /\ UNCHANGED <<runnerVars, mapVars, chanVars, loadsPaused, envVars, closeVars>>

MutantNoExclusion == pc = "decide"

\* Nothing resident excludes the model.
Loadable == pc = "decide" /\ Conflicting = {} /\ OtherMLX = {}

LoopFull ==
    /\ Loadable /\ loadedCount >= MaxRunners
    /\ Advance("pick", None)

\* There is room: the first model may be loaded in part, others must fit.
LoopRoom ==
    /\ Loadable /\ loadedCount < MaxRunners
    /\ Advance("create", None)

\* The loaded runner is used, or evicted if it needs a reload.
CheckLoaded ==
    /\ pc = "check"
    /\ \E reload \in BOOLEAN :
         /\ NeedsReload(cur, run, FALSE, reload)
         /\ Goto(IF reload THEN "drain" ELSE "use")
    /\ UNCHANGED <<reqVars, sharedVars>>

UseLoaded ==
    /\ pc = "use"
    /\ UseLoadedRunner(cur, run)
    /\ Break
    /\ UNCHANGED <<mapVars, chanVars, loadsPaused, envVars, closeVars>>

\* findRunnerToUnload: an unprotected idle runner (which one depends on session
\* durations, names and how recently each was used), else the unprotected one
\* with the shortest session duration.
Victims ==
    LET free == {x \in Resident : modelKey[x] \notin protected}
        idle == {x \in free : refCount[x] = 0}
        brief == {x \in free : sessionDuration[x] = "zero"}
    IN IF idle # {} THEN idle ELSE IF brief # {} THEN brief ELSE free

PickVictim ==
    /\ pc = "pick"
    /\ \E x \in Victims : Advance("drain", x)

\* The runners unloaded in parallel, or all are protected: try again.
PickNothing ==
    /\ pc = "pick" /\ Victims = {}
    /\ Retry
    /\ UNCHANGED <<reqVars, runnerVars, sharedVars>>

-----------------------------------------------------------------------------
(* load: create a server, let it load the model, register the runner. *)

\* A runner object that nothing refers to.
Free(x) ==
    /\ x \notin Resident \cup llama \cup alive \cup loading \cup firing \cup wiped
    /\ x \notin {activeLoading, xrun, wrun, run} \cup todo
    /\ expiredCh[x] = 0
    /\ \A r \in Requests : ptr[r] # x

\* load's first critical section starts a server process.  A load still in flight
\* (activeLoading set) would be reused, or panic if it is for another model:
\* NoStaleLoad shows that there never is one.
CreateServer ==
    /\ pc = "create" /\ activeLoading = None
    /\ \E x \in Runners :
         /\ Free(x)
         /\ activeLoading' = x
         /\ alive' = alive \cup {x}
         /\ modelKey' = [modelKey EXCEPT ![x] = model[cur]]
         /\ run' = x
    /\ pc' = "load"
    /\ UNCHANGED <<frameVars, reqVars, refCount, loading, llama, expireTimer, firing,
                   sessionDuration, numCtx, owner, loaded, pins, cooldown, queueVars,
                   chanVars, loadsPaused, envVars, closeVars>>

\* The model runs elsewhere, which starts no cooldown, or its metadata or its
\* server cannot be created.
CreateFails ==
    /\ pc = "create" /\ LoadMayFail
    /\ \/ cooldown' = cooldown \cup {model[cur]}
       \/ UNCHANGED cooldown
    /\ Fail(cur)
    /\ Break
    /\ UNCHANGED <<runnerVars, loaded, activeLoading, pins, chanVars, loadsPaused,
                   envVars, closeVars>>

\* llama.Load returned in time and the runner is registered, still loading.  If
\* the key were taken, the old runner would be closed and its blobs released.
Register ==
    /\ pc = "load"
    /\ LET m == model[cur]
           old == loaded[model[cur]]
       IN /\ loaded' = [loaded EXCEPT ![m] = run]
          /\ llama' = (llama \cup {run}) \ {old}
          /\ alive' = alive \ {old}
          /\ expireTimer' = [x \in Runners |-> IF x \in {run, old} THEN "nil"
                                               ELSE expireTimer[x]]
          /\ pins' = [pins EXCEPT ![m] = IF old = None THEN @ + 1 ELSE @]
    /\ activeLoading' = None
    /\ loading' = loading \cup {run}
    /\ refCount' = [refCount EXCEPT ![run] = 0]
    /\ sessionDuration' = [sessionDuration EXCEPT ![run] =
                              IF keepAlive[cur] = "zero" THEN "zero" ELSE "pos"]
    /\ numCtx' = [numCtx EXCEPT ![run] = wantCtx[cur]]
    /\ owner' = [owner EXCEPT ![run] = cur]
    /\ Break
    /\ UNCHANGED <<reqVars, modelKey, firing, cooldown, chanVars, loadsPaused, envVars,
                   closeVars>>

MutantClearWithoutClose ==
    /\ activeLoading' = None
    /\ UNCHANGED alive

MutantClearKeepsHandle ==
    /\ alive' = alive \ {IF activeLoading # None THEN activeLoading ELSE run}
    /\ UNCHANGED activeLoading

\* clearActiveLoading closes the load in flight; if another goroutine has already
\* taken it away, the caller's own handle.
ClearActiveLoading ==
    /\ alive' = alive \ {IF activeLoading # None THEN activeLoading ELSE run}
    /\ activeLoading' = None

\* The model does not fit next to the others: drop the probe, then shrink idle
\* KV caches and try again, once; then evict.
LoadNeedsRoom ==
    /\ pc = "load" /\ loadedCount > 0
    /\ ClearActiveLoading
    /\ IF shrunk
       THEN pc' = "pick" /\ UNCHANGED todo
       ELSE pc' = "shrink" /\ todo' = {x \in Resident : modelKey[x] # model[cur]}
    /\ run' = None
    /\ UNCHANGED <<cur, loadedCount, shrunk, drain, requeue, evictionPaused, reqVars,
                   modelKey, refCount, loading, llama, expireTimer, firing,
                   sessionDuration, numCtx, owner, loaded, pins, cooldown, queueVars,
                   chanVars, loadsPaused, envVars, closeVars>>

\* The load fails for good: the model is too large for the whole system, the
\* client is gone (which starts no cooldown), or the server failed.
LoadFails ==
    /\ pc = "load"
    /\ \/ (LoadMayFail \/ run \notin alive) /\ cooldown' = cooldown \cup {model[cur]}
       \/ cur \in canceled /\ UNCHANGED cooldown
    /\ ClearActiveLoading
    /\ Fail(cur)
    /\ Break
    /\ UNCHANGED <<modelKey, refCount, loading, llama, expireTimer, firing,
                   sessionDuration, numCtx, owner, loaded, pins, chanVars, loadsPaused,
                   envVars, closeVars>>

\* tryShrinkIdleKV visits the snapshot it took: refMu is held for the idle check ...
ShrinkCheck ==
    /\ pc = "shrink"
    /\ \E x \in todo :
         /\ todo' = todo \ {x}
         /\ IF refCount[x] = 0 /\ x \in llama \ loading /\ numCtx[x] > 1
            THEN pc' = "shrinkDo" /\ run' = x
            ELSE UNCHANGED <<pc, run>>
    /\ UNCHANGED <<cur, loadedCount, shrunk, drain, requeue, evictionPaused, reqVars,
                   runnerVars, sharedVars>>

\* ... and not for the call that shrinks the context.
ShrinkDo ==
    /\ pc = "shrinkDo"
    /\ pc' = "shrink" /\ run' = None
    /\ \/ /\ run \in alive
          /\ numCtx' = [numCtx EXCEPT ![run] = 1]
          /\ shrunk' = TRUE
       \/ UNCHANGED <<numCtx, shrunk>>
    /\ UNCHANGED <<cur, loadedCount, todo, drain, requeue, evictionPaused, reqVars,
                   modelKey, refCount, loading, llama, alive, expireTimer, firing,
                   sessionDuration, owner, sharedVars>>

ShrinkEnd ==
    /\ pc = "shrink" /\ todo = {}
    /\ Goto(IF shrunk THEN "create" ELSE "pick")
    /\ UNCHANGED <<reqVars, runnerVars, sharedVars>>

-----------------------------------------------------------------------------
(* Eviction of run: drainSameModelPending, then expire it and wait. *)

\* q lists the positions of a sequence of length n, those in M first, each part
\* in order: the two slices DrainMatching builds.
StablePartition(q, n, M) ==
    /\ \A j \in 1..n : q[j] \in M <=> j <= Cardinality(M)
    /\ \A j, k \in 1..n : j < k /\ (q[j] \in M <=> q[k] \in M) => q[j] < q[k]

DrainMatching ==
    /\ pc = "drain"
    /\ LET n == Len(pending)
           M == {i \in 1..n : model[pending[i]] = modelKey[run]}
           c == Cardinality(M)
       IN \E q \in [1..n -> 1..n] :
            /\ StablePartition(q, n, M)
            /\ drain' = [j \in 1..c |-> pending[q[j]]]
            /\ pending' = [j \in 1..(n - c) |-> pending[q[c + j]]]
    /\ pc' = "drainLoop"
    /\ UNCHANGED <<cur, run, loadedCount, shrunk, todo, requeue, evictionPaused,
                   reqVars, runnerVars, mapVars, wake, chanVars, loadsPaused, envVars,
                   closeVars>>

\* A canceled request is skipped: nobody waits for its answer.
DrainSkip ==
    /\ pc = "drainLoop" /\ drain # <<>> /\ Head(drain) \in canceled
    /\ drain' = Tail(drain)
    /\ ReqStep(Head(drain), "done")
    /\ UNCHANGED <<argVars, ptr, canceled, dropper, errs, oks, pc, cur, run,
                   loadedCount, shrunk, todo, requeue, evictionPaused, runnerVars,
                   sharedVars>>

DrainCheck ==
    /\ pc = "drainLoop" /\ drain # <<>> /\ Head(drain) \notin canceled
    /\ \/ /\ NeedsReload(Head(drain), run, FALSE, TRUE)
          /\ requeue' = Append(requeue, Head(drain))
          /\ drain' = Tail(drain)
          /\ UNCHANGED pc
       \/ /\ NeedsReload(Head(drain), run, FALSE, FALSE)
          /\ pc' = "drainUse"
          /\ UNCHANGED <<drain, requeue>>
    /\ UNCHANGED <<cur, run, loadedCount, shrunk, todo, evictionPaused, reqVars,
                   sharedVars>>

DrainUse ==
    /\ pc = "drainUse"
    /\ UseLoadedRunner(Head(drain), run)
    /\ drain' = Tail(drain)
    /\ pc' = "drainLoop"
    /\ UNCHANGED <<cur, run, loadedCount, shrunk, todo, requeue, evictionPaused,
                   sharedVars>>

MutantRequeueDrops ==
    /\ requeue' = <<>>
    /\ UNCHANGED queueVars

RequeueFront ==
    /\ pending' = requeue \o pending
    /\ wake' = (wake \/ requeue # <<>>)
    /\ requeue' = <<>>

DrainEnd ==
    /\ pc = "drainLoop" /\ drain = <<>>
    /\ RequeueFront
    /\ pc' = "evict"
    /\ UNCHANGED <<cur, run, loadedCount, shrunk, todo, drain, evictionPaused, reqVars,
                   runnerVars, mapVars, chanVars, loadsPaused, envVars, closeVars>>

\* The victim's refMu is contended and the client gives up.
EvictCanceled ==
    /\ pc = "evict" /\ cur \in canceled
    /\ FailCanceled(cur)
    /\ Retry
    /\ UNCHANGED <<runnerVars, sharedVars>>

\* The victim's keep-alive is cut to zero and it is expired.
Evict ==
    /\ pc = "evict"
    /\ StopTimer(run)
    /\ sessionDuration' = [sessionDuration EXCEPT ![run] = "zero"]
    /\ ScheduleExpired(run)
    /\ Goto("pause")
    /\ UNCHANGED <<reqVars, modelKey, refCount, loading, llama, alive, firing, numCtx,
                   owner, mapVars, queueVars, finishedReqCh, unloadedCh, loadsPaused,
                   envVars, closeVars>>

\* The pause is taken for the eviction although somebody else has it.
MutantPauseTaken ==
    /\ pc = "pause"
    /\ loadsPaused' = TRUE
    /\ evictionPaused' = TRUE
    /\ pc' = "wait"
    /\ UNCHANGED <<cur, run, loadedCount, shrunk, todo, drain, requeue, reqVars,
                   runnerVars, mapVars, queueVars, chanVars, envVars, closeVars>>

\* New loads are paused for the wait, unless they already are.
EvictPause ==
    /\ pc = "pause"
    /\ loadsPaused' = TRUE
    /\ evictionPaused' = ~loadsPaused
    /\ pc' = "wait"
    /\ UNCHANGED <<cur, run, loadedCount, shrunk, todo, drain, requeue, reqVars,
                   runnerVars, mapVars, queueVars, chanVars, envVars, closeVars>>

\* resumeAfterEvict, and back to the head of the loop.
EvictResume ==
    /\ IF evictionPaused THEN ResumeLoads ELSE UNCHANGED <<loadsPaused, wake>>
    /\ evictionPaused' = FALSE
    /\ pc' = "loop" /\ run' = None
    /\ loadedCount' = 0 /\ shrunk' = FALSE
    /\ UNCHANGED <<pending, cur, todo, drain, requeue, runnerVars, mapVars,
                   expiredCh, finishedReqCh, envVars, closeVars>>

WaitUnloaded ==
    /\ pc = "wait" /\ unloadedCh > 0
    /\ unloadedCh' = unloadedCh - 1
    /\ EvictResume
    /\ UNCHANGED reqVars

WaitTimeout ==
    /\ pc = "wait" /\ MayTimeOut
    /\ EvictResume
    /\ UNCHANGED <<reqVars, unloadedCh>>

WaitCanceled ==
    /\ pc = "wait" /\ cur \in canceled
    /\ EvictResume
    /\ FailCanceled(cur)
    /\ UNCHANGED unloadedCh

-----------------------------------------------------------------------------
(* Operators, the VRAM broker, training and the outside world. *)

\* expireRunner: stop, keep_alive 0 and re-creation of a model.
ExpireRunner(m) ==
    /\ Operator /\ loaded[m] # None
    /\ StopTimer(loaded[m])
    /\ sessionDuration' = [sessionDuration EXCEPT ![loaded[m]] = "zero"]
    /\ ScheduleExpired(loaded[m])
    /\ UNCHANGED <<reqVars, modelKey, refCount, loading, llama, alive, firing, numCtx,
                   owner, mapVars, queueVars, finishedReqCh, unloadedCh, loadsPaused,
                   envVars, localVars, closeVars>>

\* The watchdog expires an idle runner under memory pressure, or one that has
\* been busy for too long, and leaves its timer alone.
WatchdogReclaim(m) ==
    /\ Operator /\ loaded[m] # None
    /\ refCount[loaded[m]] > 0 \/ loaded[m] \in llama \ loading
    /\ ScheduleExpired(loaded[m])
    /\ UNCHANGED <<reqVars, runnerVars, mapVars, queueVars, finishedReqCh, unloadedCh,
                   loadsPaused, envVars, localVars, closeVars>>

\* Before that it shrinks the contexts of idle runners: tryShrinkIdleKV again, on
\* the watchdog's goroutine.
WatchdogShrinkCheck(x) ==
    /\ wrun = None
    /\ refCount[x] = 0 /\ x \in llama \ loading /\ numCtx[x] > 1
    /\ wrun' = x
    /\ UNCHANGED <<reqVars, runnerVars, mapVars, queueVars, chanVars, loadsPaused,
                   envVars, localVars, xrun, wiped>>

WatchdogShrink ==
    /\ wrun # None
    /\ wrun' = None
    /\ \/ wrun \in alive /\ numCtx' = [numCtx EXCEPT ![wrun] = 1]
       \/ UNCHANGED numCtx
    /\ UNCHANGED <<reqVars, modelKey, refCount, loading, llama, alive, expireTimer,
                   firing, sessionDuration, owner, mapVars, queueVars, chanVars,
                   loadsPaused, envVars, localVars, xrun, wiped>>

\* unloadRunnersExceptOpts, under loadedMu: the load in flight and the runners
\* that are neither kept nor protected go; with nothing to keep, a referenced
\* runner is only expired.
UnloadRunners(keep, force) ==
    LET safe == IF force THEN {} ELSE protected
        targets == {m \in Models : loaded[m] # None /\ m # keep /\ m \notin safe}
        deferred == {loaded[m] : m \in {m \in targets : keep = None /\ refCount[loaded[m]] > 0}}
        gone == {loaded[m] : m \in targets} \ deferred
        closing == /\ activeLoading # None
                   /\ modelKey[activeLoading] \notin safe \cup {keep}
    IN /\ activeLoading' = IF closing THEN None ELSE activeLoading
       /\ alive' = IF closing THEN alive \ {activeLoading} ELSE alive
       /\ loaded' = [m \in Models |-> IF loaded[m] \in gone THEN None ELSE loaded[m]]
       /\ wiped' = wiped \cup gone
       /\ expireTimer' = [x \in Runners |-> IF x \in deferred THEN "nil" ELSE expireTimer[x]]
       /\ sessionDuration' = [x \in Runners |-> IF x \in deferred THEN "zero"
                                                ELSE sessionDuration[x]]
       /\ expiredCh' = [x \in Runners |-> IF x \in deferred THEN Signal(expiredCh[x])
                                          ELSE expiredCh[x]]
       /\ UNCHANGED <<reqVars, modelKey, refCount, loading, llama, firing, numCtx,
                      owner, pins, cooldown, pending, finishedReqCh, unloadedCh,
                      protected, runtimeAhead, localVars, xrun, wrun>>

UnloadRunnersExcept(keep, force) ==
    /\ UnloadRunners(keep, force)
    /\ UNCHANGED <<loadsPaused, trainingPause, wake>>

\* Then, outside loadedMu, each removed runner is closed, referenced or not.
UnloadDetach(x) ==
    /\ x \in wiped
    /\ wiped' = wiped \ {x}
    /\ refCount' = [refCount EXCEPT ![x] = 0]
    /\ sessionDuration' = [sessionDuration EXCEPT ![x] = "zero"]
    /\ Detach(x)
    /\ UNCHANGED <<reqVars, modelKey, loading, firing, numCtx, owner, mapVars,
                   queueVars, chanVars, loadsPaused, envVars, localVars, xrun, wrun>>

\* PrepareForTraining: pause new loads and evict everything.
PrepareForTraining ==
    /\ Training /\ ~trainingPause
    /\ trainingPause' = TRUE
    /\ loadsPaused' = TRUE
    /\ UnloadRunners(None, TRUE)
    /\ UNCHANGED wake

TrainingEnds ==
    /\ trainingPause
    /\ trainingPause' = FALSE
    /\ UNCHANGED <<reqVars, runnerVars, mapVars, queueVars, chanVars, loadsPaused,
                   protected, runtimeAhead, localVars, closeVars>>

\* updateSchedInferencePauses, on every tick of the training policy monitor or the
\* runtime coordination pusher: with or without training, a tick that finds no
\* reason to pause resumes loads, whoever paused them.
PolicyTick ==
    /\ \/ trainingPause /\ loadsPaused' = TRUE /\ UNCHANGED wake
       \/ ~trainingPause /\ ResumeLoads
    /\ UNCHANGED <<reqVars, runnerVars, mapVars, pending, chanVars, envVars, localVars,
                   closeVars>>

\* A pin lease or a fulfillment hold begins or ends.
Protect(m) ==
    /\ m \in Pinnable
    /\ protected' = IF m \in protected THEN protected \ {m} ELSE protected \cup {m}
    /\ UNCHANGED <<reqVars, runnerVars, mapVars, queueVars, chanVars, loadsPaused,
                   trainingPause, runtimeAhead, localVars, closeVars>>

\* setRuntimeFifoOldest: the runtime's oldest ticket, polled from its /health, is
\* now ahead of the queue, or no longer.
RuntimeTicket ==
    /\ CrossFifo
    /\ runtimeAhead' = ~runtimeAhead
    /\ UNCHANGED <<reqVars, runnerVars, mapVars, queueVars, chanVars, loadsPaused,
                   trainingPause, protected, localVars, closeVars>>

CooldownOver(m) ==
    /\ m \in cooldown
    /\ cooldown' = cooldown \ {m}
    /\ UNCHANGED <<reqVars, runnerVars, loaded, activeLoading, pins, queueVars,
                   chanVars, loadsPaused, envVars, localVars, closeVars>>

\* A server process dies.
Crash(x) ==
    /\ MayCrash /\ x \in alive
    /\ alive' = alive \ {x}
    /\ UNCHANGED <<reqVars, modelKey, refCount, loading, llama, expireTimer, firing,
                   sessionDuration, numCtx, owner, sharedVars, localVars>>

-----------------------------------------------------------------------------
HandlerStep(r) ==
    \/ PauseAbort(r) \/ Lookup(r) \/ Check(r) \/ Use(r) \/ Refuse(r) \/ Push(r)
    \/ ReqFinished(r)

ClientStep(r) ==
    \/ \E m \in Models, k \in KeepAlives, c \in 1..MaxCtx : Call(r, m, k, c)
    \/ CancelCtx(r)
    \/ Reap(r)

LoadStep(x) == LoadReady(x) \/ LoadDetached(x) \/ LoadFailed(x)

ExpireStep(x) == ExpireDuplicate(x) \/ ExpireOrphan(x) \/ ExpireUnload(x)

SchedulerStep ==
    \/ TakeWake \/ TakeUnloaded \/ PopNothing \/ PopNext
    \/ LoopCanceled \/ LoopHead \/ LoopConflict \/ LoopOtherMLX \/ LoopMLXBusy
    \/ LoopFull \/ LoopRoom \/ CheckLoaded \/ UseLoaded \/ PickVictim \/ PickNothing
    \/ CreateServer \/ CreateFails \/ Register \/ LoadNeedsRoom \/ LoadFails
    \/ ShrinkCheck \/ ShrinkDo \/ ShrinkEnd
    \/ DrainMatching \/ DrainSkip \/ DrainCheck \/ DrainUse \/ DrainEnd
    \/ EvictCanceled \/ Evict \/ EvictPause \/ WaitUnloaded \/ WaitTimeout \/ WaitCanceled

BrokerStep ==
    \/ \E m \in Models : ExpireRunner(m) \/ WatchdogReclaim(m) \/ Protect(m) \/ CooldownOver(m)
    \/ (\E x \in Runners : WatchdogShrinkCheck(x)) \/ WatchdogShrink
    \/ \E keep \in UnloadKeeps, force \in BOOLEAN : UnloadRunnersExcept(keep, force)
    \/ PrepareForTraining \/ TrainingEnds \/ PolicyTick \/ RuntimeTicket

Next ==
    \/ \E r \in Requests : ClientStep(r) \/ HandlerStep(r) \/ DropPendingOnCancel(r)
                           \/ ProcessFinishedRequest(r)
    \/ \E x \in Runners : TimerFire(x) \/ TimerCallback(x) \/ ExpireStep(x) \/ LoadStep(x)
                          \/ UnloadDetach(x) \/ Crash(x)
    \/ ExpireFinish
    \/ SchedulerStep
    \/ BrokerStep

Spec == Init /\ [][Next]_vars

\* The Go runtime schedules every goroutine and runs every timer; a server that
\* does not fail comes up; a handler that holds a runner is finished with it one
\* day, or its client is gone; the runtime does not stay ahead for ever.
FairSpec ==
    /\ Spec
    /\ \A r \in Requests :
         /\ WF_vars(HandlerStep(r)) /\ WF_vars(DropPendingOnCancel(r))
         /\ WF_vars(ProcessFinishedRequest(r))
         /\ WF_vars(reqPc[r] = "held" /\ CancelCtx(r))
    /\ \A x \in Runners :
         /\ WF_vars(TimerFire(x)) /\ WF_vars(TimerCallback(x)) /\ WF_vars(ExpireStep(x))
         /\ WF_vars(LoadStep(x)) /\ WF_vars(UnloadDetach(x))
    /\ WF_vars(ExpireFinish) /\ WF_vars(SchedulerStep)
    /\ WF_vars(runtimeAhead /\ RuntimeTicket)

-----------------------------------------------------------------------------
(* What the scheduler promises. *)

\* The map of loaded runners and the runners agree: whoever finds a runner under
\* a key finds that model, and its server has not been detached, although five
\* goroutines detach servers and none of them holds loadedMu while it does.
LoadedAttached ==
    \A m \in Models : loaded[m] # None => loaded[m] \in llama /\ modelKey[loaded[m]] = m

\* Every server process has someone who will close it: it is being loaded, or its
\* runner is registered or being closed.  clearActiveLoading and the wipes of the
\* broker race for the same handle.
NoServerLeak ==
    /\ alive \subseteq llama \cup {activeLoading} \cup (IF pc = "load" THEN {run} ELSE {})
    /\ llama \subseteq Resident \cup wiped \cup {xrun}

\* load never finds another load in flight ("attempting to load different model
\* after eviction" panics) and never a runner under the key it registers ("model
\* was still loaded").
NoStaleLoad ==
    /\ pc = "create" => activeLoading = None
    /\ pc \in {"create", "load"} => loaded[model[cur]] = None

\* A request gets one answer, an error or a runner: a second send on either
\* channel would block the scheduler or a load goroutine for ever.
AnsweredOnce == \A r \in Requests : errs[r] + oks[r] <= 1

\* OLLAMA_MAX_LOADED_MODELS, concurrency groups and MLX exclusivity hold in the
\* map at all times, not only when processOnePending looks.
ResidencyLimits ==
    /\ Cardinality(Resident) <= MaxRunners
    /\ \A m, n \in {k \in Models : loaded[k] # None} :
         m # n => /\ \A g \in Groups : ~({m, n} \subseteq g)
                  /\ ~({m, n} \subseteq MLX)

\* Without training loads are paused at most for the length of an eviction wait:
\* no way out of it (unload, timeout, cancellation) leaves the flag latched,
\* although a policy tick may have lifted the pause in the meantime.
PauseReleased == ~Training /\ loadsPaused => pc = "wait"

\* One flag, three holders: once training's pause is not shared with an eviction,
\* the evictions that come and go meanwhile leave it alone until training ends.
PauseKept ==
    [][trainingPause /\ loadsPaused /\ ~evictionPaused =>
         ~trainingPause' \/ (loadsPaused' /\ ~evictionPaused')]_vars

\* A queued request is never dropped on the floor: it is in the queue, in the
\* scheduler's hands, or a load will answer it.
NoneForgotten ==
    \A r \in Requests :
        reqPc[r] = "queued" =>
            \/ r \in ToSet(pending) \cup ToSet(drain) \cup ToSet(requeue) \cup {cur}
            \/ \E x \in loading : owner[x] = r

\* A request holds the runner, or its release is still on finishedReqCh.
Referenced(x) == \E r \in Requests : ptr[r] = x /\ (reqPc[r] = "held" \/ r \in finishedReqCh)

\* A loaded runner nobody uses will be unloaded: it has a timer, a callback or an
\* expiry event under way, whatever stops, resets and stale callbacks happened.
IdleExpires ==
    \A x \in Resident \ loading :
        (refCount[x] = 0 /\ ~Referenced(x)) =>
            expireTimer[x] # "nil" \/ x \in firing \/ expiredCh[x] > 0

\* The scheduler never sleeps on a non-empty queue.
NoLostWakeup == pc = "idle" /\ pending # <<>> => wake

\* Every request is answered or its client disconnects.
EveryRequestAnswered ==
    \A r \in Requests : reqPc[r] = "start" ~> reqPc[r] \in {"held", "done"} \/ r \in canceled

-----------------------------------------------------------------------------
(* What documentation and comments claim, and the code does not guarantee. *)

\* refCount "prevent[s] unloading if > 0": a runner that a live request uses keeps
\* its server.
InUseNotClosed ==
    \A r \in Requests : reqPc[r] = "held" /\ r \notin canceled => ptr[r] \in llama

\* It follows that a loaded runner nobody uses counts zero, and can be unloaded.
UnusedIsIdle == \A x \in Resident \ loading : ~Referenced(x) => refCount[x] = 0

\* "Model keys that must not be eviction victims": a pinned or fulfilment-held
\* model is not chosen to make room for another.
ProtectedNotVictim ==
    [][(pc \in {"decide", "pick"} /\ pc' = "drain") => modelKey[run'] \notin protected]_vars

\* The scheduler yields "while runtime has an older ticket": once the runtime
\* stays behind, queued requests are served.
YieldEnds == (<>[](~runtimeAhead)) => EveryRequestAnswered

\* Blobs are pinned for as long as a runner that needs them is loaded.
PinnedWhileLoaded == \A m \in Models : loaded[m] # None => pins[m] > 0
=============================================================================
