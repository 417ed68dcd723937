# A TLA+ development for zerollama

zerollama is a fork of Ollama: one Go server that loads large language models
into server processes ("runners"), keeps as many of them resident as the GPU
allows, and shares the GPU with a Python runtime, training jobs, and image and
video generation. The processes it starts are the llama server of
`llama/llama.cpp/tools/server` (C++), which this repository carries and extends
(prefill cadence, routing of models, resumable streams). This directory holds
TLA+ models of the parts of both where several threads work on the same state,
the TLC configurations that check them, and TLAPS proofs of their safety
properties.

Every module is translated from the code. `PROJECT.json` names, for each
definition, the lines it stands for (`map`).

## 1. The system

| Component | Code | State | Operations | Hard because |
|---|---|---|---|---|
| Model runner scheduler | `server/sched.go` | map of loaded runners, load in flight, reference counts, timers, channels | `GetRunner`, `processPending`, `processFinishedRequests`, `processExpiredRunners`, `load`, `unloadRunnersExceptOpts`, `PauseNewLoads` | four kinds of goroutines, two levels of locks that are released around every slow call |
| Pending queue | `server/pending_queue.go` | FIFO, capacity-one wake channel | `Push`, `PopPreferringKeys`, `Remove`, `DrainMatching`, `RequeueFront` | merged notifications, removal behind the scheduler's back |
| Residency exclusion | `server/concurrency_groups.go`, `server/mlx_exclusive.go` | none (reads the map) | conflict search before a load | the answer is stale when the load registers |
| Load cooldown | `server/load_cooldown.go` | failure count and end per model | refuse, note a failure, clear | which failures count |
| Scheduler watchdog | `server/sched_watchdog.go` | none | expire idle or stuck runners, shrink KV caches | acts on snapshots |
| Pins and fulfillment holds | `server/pin.go`, `server/fulfillment.go` | leases, holds | pin, unpin, expire, protected set | read by three searches at different moments |
| MLX session gate, QoS | `server/mlx_sidecar_gate.go`, `server/schedule_qos.go`, `server/qos_preempt*.go` | hot sessions, inflight counts, cancel functions | begin, end, wait, preempt | polling waits, preemption of a session that is just ending |
| Training defer queue | `server/training_defer_queue.go` | jobs, order, retry times | `enqueue`, `cancel`, `drainOnce`, `evictExpired` | the lock is released around the submit |
| Training and load policy | `server/training_policy.go`, `server/inference_load_policy.go`, `server/training_coordination.go` | one pause flag | periodic ticks | one flag, three holders |
| VRAM broker | `server/vram/broker.go` | none | evict for training, image generation, the runtime | wipes runners at any moment |
| Video exclusive hold | `server/video_exclusive.go` | holds per job | acquire, release, watch | a watcher that polls the job |
| Cross-queue FIFO | `server/cross_queue_fifo.go`, `server/cross_fifo_policy.go` | sequence counter, cached runtime ticket | allocate, compare | cached value, no wake-up |
| Remote blob store | `server/remotestore/` | pin counts, cache files | pin, unpin, LRU eviction, download | deletion races a load |
| Fleet | `fleet/`, `server/assign_hold.go` | peers, one-shot tokens | assign, consume | mostly scoring |
| Downloads and uploads | `server/download.go`, `server/upload.go` | part files | resume, retry, stall detection | partial failure |
| Llama server task queue | `tools/server/server-queue.cpp`, `server-context.cpp` | three task queues, results by task, slots, sleep and yield flags | `post`, `defer`, `start_loop`, `yield_to_queue`, `send`, `recv`, `stop`, `update_slots` | two server threads and one per client on two mutexes and one condition variable |
| Llama server model router | `tools/server/server-models.cpp`, `server-models-sched.cpp` | registry of models, request queue, stopping set, child processes, monitor commands | `ensure_model_ready`, `load`, `make_room`, `unload`, `proxy_request`, `tick`, the monitor thread | waits with the lock given up, processes that die, commands that name a model and not a process |
| Llama server stream replay | `tools/server/server-stream.cpp` | map of sessions, a ring buffer each, a collector | `create_or_replace`, `append`, `finalize`, `read_from`, `evict`, `evict_and_cancel`, `gc_loop`, `stop_gc` | a session outlives its request and its map entry; three locks taken one after the other |
| Everything else | runners, KV caches, conversion, templates, API translation, command line, app, vendored engines | | | see section 7 |

How the parts interact. A handler asks the session gate for permission, then
calls `GetRunner`. `GetRunner` waits while loads are paused, takes the fast path
if the model is resident, and otherwise pushes the request on the pending queue.
The scheduler goroutine pops one request at a time; it may have to evict a
runner, for which it hands an expiry event to the expiry goroutine and waits for
the unload signal. The broker, operators and the watchdog remove or expire
runners from their own goroutines. Training and the runtime backlog pause loads
through the same flag an eviction uses. The defer queue hands training jobs to
the Python worker when the scheduler is idle enough, and its backlog in turn
feeds the pause.

Inside a llama server, HTTP threads post tasks to the queue and wait for results;
the main loop launches tasks on slots and, during each decode, lends the queue to
a worker thread that may answer read-only tasks. A request with a conversation id
tees its output into a session that readers can replay after the connection broke.
In router mode the server runs no model itself: requests wait in a queue per model,
the one at the head loads its model in a child process, idle models are stopped to
make room, and a monitor thread reads, stops, kills and reaps the children.

What makes each part correct, in one line: every request is answered exactly
once; every server process has exactly one owner that will close it; the map
never points to a closed server; limits on residency hold at every moment; an
idle model is unloaded; nobody sleeps on work; a pause ends when its reason ends;
a deferred job is submitted once or not at all. In the llama server: a task is in
exactly one place until it is answered once; declined tasks keep their order; only
the main thread changes slots; the limit on processes holds and no process is
orphaned; a stop reaches the instance it was meant for; every request that waits
ends; a reader receives a gapless run of one generation.

## 2. Modules

| Module | Models |
|---|---|
| `Scheduler` | the scheduler, pending queue, exclusion, and the effects on it of cooldown, watchdog, pins, broker, training policy and cross-queue tickets |
| `MCScheduler` | model values and symmetry for TLC |
| `SchedulerProofs` | type correctness |
| `SchedulerOwnership` | ownership of runners and server processes |
| `SchedulerSafety` | pauses, wake-ups, residency limits; one answer per request; idle runners expire |
| `DeferQueue` | the training defer queue |
| `MCDeferQueue` | symmetry for TLC |
| `DeferQueueProofs` | type correctness, the two facts about submits, `order` lists the waiting jobs |
| `TaskQueue` | the llama server's queue, results, readers, worker thread, sleeping, and the slot work of `update_slots` |
| `ModelRouter` | the router: queue, loads, evictions, proxying, monitor thread, children |
| `StreamLog` | what a replay session promises: an append-only log with readers |
| `StreamSession` | ring buffers, session map, producers, readers, collector, shutdown; implements `StreamLog` |
| `MCTaskQueue`, `MCModelRouter`, `MCStreamSession` | small instances for TLC |
| `TaskQueueProofs` | the inductive invariant of `TaskQueue` and its safety properties |
| `ModelRouterProofs` | the inductive invariant of `ModelRouter` and its safety properties |
| `StreamProofs` | the inductive invariant of `StreamSession` and its safety properties |
| `StreamRefinement` | `StreamSession` implements `StreamLog` |

### 2.1 Scheduler: state

| Variables | Code |
|---|---|
| `reqPc`, `model`, `keepAlive`, `wantCtx`, `ptr`, `canceled`, `dropper`, `errs`, `oks` | an `LlmRequest`, where its goroutine is inside `GetRunner`, its context, and the messages on its two channels |
| `modelKey`, `refCount`, `loading`, `llama`, `expireTimer`, `firing`, `sessionDuration`, `numCtx`, `owner` | the fields of a `runnerRef`; `llama` is the set of runners whose `llama` field is not nil |
| `alive` | the server processes that run |
| `loaded`, `activeLoading`, `pins`, `cooldown` | `s.loaded`, `s.activeLoading`, the resolver's pin counts, the models in cooldown |
| `pending`, `wake` | `pendingQueue` |
| `expiredCh`, `finishedReqCh`, `unloadedCh` | the channels, the goroutines blocked on sending to them included |
| `loadsPaused`, `trainingPause`, `protected`, `runtimeAhead` | the pause flag and what the rest of the server answers |
| `pc`, `cur`, `run`, `loadedCount`, `shrunk`, `todo`, `drain`, `requeue`, `evictionPaused` | the scheduler goroutine: where it is and its local variables |
| `xrun`, `wiped`, `wrun` | what the expiry goroutine, a wipe and the watchdog have in hand |

The unit of a step is a critical section: everything the code does under one
acquisition of `loadedMu`, `refMu` or the queue's mutex is one action, and what a
goroutine carries from one section to the next is a variable. That is the whole
point of the model: the hazards of this code all lie between two sections.

`NeedsReload`, `UseLoadedRunner`, `Acquire`, `Detach`, `ClearActiveLoading` and
`ResumeLoads` are the methods of the same names, used by every action whose code
calls them.

### 2.2 Scheduler: actions

* `Call`, `CancelCtx`, `Reap`: clients. A request slot is used again after its
  request has ended, when `Reuse` is set.
* `PauseAbort`, `Lookup`, `Check`, `Use`, `Refuse`, `Push`, `DropPendingOnCancel`,
  `ReqFinished`: `GetRunner` and the goroutines it starts.
* `ProcessFinishedRequest`, `TimerFire`, `TimerCallback`: completion and timers.
  `time.Timer.Stop` does not stop a callback that has begun: `firing`.
* `ExpireDuplicate`, `ExpireOrphan`, `ExpireUnload`, `ExpireFinish`:
  `processExpiredRunner`. The expiry of a referenced runner is retried every
  10 ms, so its event stays on the channel.
* `LoadReady`, `LoadDetached`, `LoadFailed`: the goroutine `load` starts.
* `TakeWake` ... `WaitCanceled`: `processPending` and `processOnePending` from the
  pop to the end of the eviction wait, with `load`, `tryShrinkIdleKV`,
  `drainSameModelPending` and `findRunnerToUnload`.
* `ExpireRunner`, `WatchdogReclaim`, `WatchdogShrinkCheck`, `WatchdogShrink`,
  `UnloadRunnersExcept`, `UnloadDetach`, `PrepareForTraining`, `TrainingEnds`,
  `PolicyTick`, `Protect`, `RuntimeTicket`, `CooldownOver`, `Crash`: the rest of
  the server and the machine.

### 2.3 Scheduler: abstractions

* Whether a model fits next to others is nondeterministic (`LoadNeedsRoom`), and
  so is which of several runners that qualify is evicted: least recently used,
  names and hysteresis are left out.
* `OLLAMA_MAX_LOADED_MODELS` is set. When it is not, the code derives a limit per
  GPU inside the loop; the model covers the loop with that limit in place.
* Context sizes are `1..MaxCtx`, where 1 is `kvReclaimFloor`. The other launch
  attributes that force a reload (adapters, projectors, context shift, runner
  options, the type of an image model) act like a context that cannot be grown.
* `keep_alive` is unset, zero or positive. A negative one (for ever) is a
  positive one whose timer need not fire in time.
* Cooldowns, timers, eviction waits and cross-queue tickets end at any time.
* `PolicyTick` is the tick of whichever ticker is installed, the training policy
  monitor's (`routes.go:3065`) or the runtime coordination pusher's
  (`routes.go:3090`): it comes at any time, with training or without. With neither a GPU
  worker nor a runtime there is none, so no fairness makes it come.
* `refCount` is unsigned and wraps at `RefMod`, as the code's `uint` does at its width.
* Merged steps. `pendingPopNext` builds the set of loaded keys just before the
  pop; `findRunnerToUnload` and the other searches list the runners first and
  read the protected keys and reference counts next; `EvictPause` tests the
  flag and then sets it; pins are counted just before a runner is registered. In
  each case the model takes the second read as the moment of both. A victim that
  has left the map by the time it is expired still occurs, because the search
  and the eviction are different steps.
* The watchdog may expire any referenced runner; the code's busy timeout asks for
  `busySince`, which `load` does not set (listed as a hazard).
* `pid` comparison in `processExpiredRunner` is comparison of runner objects.
* `unloadRunnersExceptOpts` does not release pins, and neither does the model.
* `unloadedCh`, `expiredCh`: `MaxTokens` bounds the events per runner and the
  unload signals that are distinguished; more are merged. `firing` counts the
  callbacks of one runner once.

### 2.4 DeferQueue

`state`, `order` and `retryCount` are the fields of `trainingDeferQueue`;
`backoff` is the set of jobs whose `nextRetryAt` has not come; `drain` is where
the drain goroutine is; `accepted` counts what the Python worker has taken.
`Enqueue`, `Cancel` and `EvictExpired` are the methods; `DrainPick`,
`DrainGateClosed`, `DrainGateOpen`, `SubmitAccepted`, `SubmitConflict`,
`SubmitFailed` and `MarkPromoted` are `drainOnce`, split where it releases `q.mu`.
The gates (allowed window, inference backlog, cross-queue FIFO) and the worker's
answer are nondeterministic.

### 2.5 TaskQueue

`tasks`, `deferred` and `unhandled` are the three queues of `server_queue`; `cv` is
the set of threads blocked on `condition_tasks`, so that `notify_one` wakes any one
of them and a woken thread tests its predicate again. `main` and `worker` say where
the two server threads are, `hand` what each has popped, `slot` what runs, for how
many more decodes and whether it waits for audio, `todo` which slots a loop of the
main thread has yet to visit.
`waiting` and `results` are `server_response`; `pc` is where each HTTP thread is in
its `server_response_reader`.

A step is one critical section of one of the two mutexes, or the slot work between
two of them. `Post`, `Defer`, `PopDeferred`, `Cleanup`, `Release`, `Send` are the
operations other actions use. A decode is the interval between `BeginYield` and
`EndYield`, in which `WorkerPop`, `WorkerHandle` and the clients run. A prompt takes
up to `Prompt` decodes before the first token. Each decode may fail a slot, abort all of
them, or end a generation at any token.

A realtime session (`Realtime`) occupies a slot without a prompt. It waits when its
audio is used up (`AudioStep` sets `wait`, the code's `audio_wait`) and goes on when a
CONTROL brings more (`ClientAudio`, `HandleAudio`). Slots that wait do not keep the loop
going (`AllIdle`); when the server slept, `load_model` makes all slots anew
(`ReloadSlots`), and the sessions in them are forgotten.

Abstracted: what a task computes; which free slot a task gets (`Available`: any
that qualifies); which slots share a batch (`can_batch_with`), all that have work do
here; the sub-batches of one `update_slots` are one decode. A session has one CONTROL on
its way at a time, posted while a slot runs it; the partial results that mark a commit
or the items of a conversation are left out, a session's text is the partial results
of its decodes, at most `Tokens` of them. Tasks with children, TTS, and an
exception thrown by a callback on the worker, are left out.
The time of the last task is the flag `idle`, set by `IdleTimeout` only when the
loop is idle: idle times are seconds, a critical section is microseconds.

### 2.6 ModelRouter

`status`, `failed`, `subproc` and `req_count` are the registry entry of a model
(`server_model_meta`, `exit_code`, the child, requests in flight); `queue` is the
request queue with `n_waiters` and `loading` per entry; `stopping` is
`stopping_models`; `cmds` the commands on their way to the monitor; `child` every
process spawned, with what the monitor knows of it (`watched`, `asked`, `deadline`)
and the lines it has printed (`out`).

A request goes through `Ensure` (join the queue, wait, claim, load, leave) and
`Proxy` (check, count, finish); `Load` is shared with POST /models/load. Every
critical section that ends with `tick()` in the code ends with `Tick` here. The
children come up, sleep, wake, exit when asked, and die.

Abstracted: `last_used` (any idle model may be the oldest), progress reports, the
device-memory limits, download and measure children, preset reload, removal,
shutdown.

### 2.7 StreamSession and StreamLog

A byte is its position in the generation, so that a byte lost or repeated is visible
in what a reader `got`. `buffer`, `prefix_dropped`, `done` and `cancelled` are the
fields of a session; `hold` is the session a thread took out of the map and has yet to
cancel and finalize; `pending` the chunk `next_orig` returned and the tee has not
written. The refinement mapping (`LogOf`) puts the dropped bytes back: a session's
log is the bytes dropped followed by the bytes held, `closed` is `done`, a reader
that was refused, overtaken or left is "cut".

## 3. What is checked

Properties of `Scheduler`:

* `AnsweredOnce`: a request gets at most one error or runner. Both channels have
  capacity one, so a second send would block the scheduler for ever.
* `NoneForgotten`: a queued request is always somewhere it will be answered from.
* `NoLostWakeup`: the scheduler never sleeps on a non-empty queue.
* `LoadedAttached`, `NoServerLeak`: the map and the server processes agree.
* `NoStaleLoad`: `load` never meets another load in flight (the code would
  panic) or a runner under the key it registers ("shouldn't happen").
* `ResidencyLimits`: the limit on runners, concurrency groups, MLX exclusivity.
* `PauseReleased`: without training no way out of an eviction wait leaves the pause
  on. It may be off during the wait: a policy tick lifts it (section 5).
* `PauseKept`: an eviction that finds the pause on and starts to wait does not lift it
  at the end; only the end of training does.
* `IdleExpires`: an idle runner has a timer, a callback or an expiry event.
* `EveryRequestAnswered`: liveness of the whole.
* `TypeOK`: in particular no wipe, late expiry event or failed load takes a pin count
  below zero. It says nothing of the value of `refCount` (section 5, `UnusedIsIdle`).

Properties of `DeferQueue`: `OrderListsWaiting` (order and map agree),
`AcceptedOnce`, `PromotedIffAccepted` (what the queue records is what the worker
did), `EventuallySettled` (no job waits for ever or vanishes while it waits).

Properties of `TaskQueue`:

* `TaskAccounted`: a task is in exactly one queue, thread or slot, or its one final
  answer is on the way, until its reader leaves. A realtime session that the server
  has slept under is nowhere (section 5).
* `OrderKept`: declining tasks during a decode and putting them back reorders
  nothing.
* `NoOrphanResult`: no result outlives its reader.
* `SlotsStillWhileDecoding`: during a decode nobody touches the slots.
* `SleepsIdle`: the server sleeps only when no slot has work to do, the worker is at
  rest and no thread holds a task. Slots that wait for audio have none
  (`server-context.cpp:4059`), and the server does sleep under them (section 5).
* `SleepersWake`: whoever finds the server asleep is woken.
* `YieldEnds`: `yield_to_queue` returns.
* `Answered`: undisturbed requests are answered, those the prefill cadence defers
  included. The premises (no failure, departure, shutdown or sleep, no slot
  operation deferred, no realtime session open) are the cases of section 5.

Properties of `ModelRouter`: `WithinModelsMax`, `NoOrphanChild`, `StopIsMeant`,
`StopUnderWay`, `QueueAgrees`, `BusySpared`, `StopEnds`, `RequestsEnd`; each is
stated in words in the module. `BusySpared` is about the first instance of a model
and the steps in which nobody calls `unload()`: section 5 says why. Properties of `StreamSession`: `ReplayContiguous`,
`OneLivePerConv`, `ReadersEnd`, and `ImplementsLog`.

| Run | Instance | Shows |
|---|---|---|
| `sched` | 3 requests, 2 models, room for 1 | `AnsweredOnce`, `NoneForgotten`, `PauseReleased` |
| `sched_broker` | 2 requests, 2 models, training, wipes with and without a model to keep | `TypeOK`, `LoadedAttached`, `NoServerLeak`, `NoLostWakeup`, `PauseKept` |
| `sched_idle` | 1 request slot reused for ever, 1 model, keep-alive zero and positive, operators, runtime tickets | `IdleExpires`, no deadlock |
| `sched_failures` | 2 requests, 3 models, a concurrency group, MLX, one protectable, loads fail, servers crash, waits time out | `ResidencyLimits`, `NoStaleLoad` |
| `sched_live` | 2 requests, 2 models, room for 2, two context sizes, fairness | `EveryRequestAnswered` |
| `defer_queue` | 3 jobs, depth 2, 2 retries, fairness | `TypeOK`, `OrderListsWaiting`, `AcceptedOnce`, `PromotedIffAccepted`, `EventuallySettled` |
| `task_queue` | 3 of 4 requests (2 completions, 1 slot operation, 1 scrape) or a realtime session and one of them, 1 slot, sleeping | `TypeOK`, `SleepsIdle`, `TaskAccounted`, `NoOrphanResult`, `OrderKept`, `SlotsStillWhileDecoding` |
| `task_queue_live` | 2 completions with prompts of up to 2 decodes, 2 slots, cadence 2 and starvation 3, sleeping, fairness | `YieldEnds`, `SleepersWake`, `Answered` |
| `router` | 2 requests and a load call, 2 models, 1 slot, a fault, an unload, sleeping children, a client that may leave, a session that may be stopped | `TypeOK`, `WithinModelsMax`, `NoOrphanChild`, `StopIsMeant`, `StopUnderWay` |
| `router_live` | 3 requests, 2 models, 1 slot, a client that may leave, fairness | `QueueAgrees`, `BusySpared`, `StopEnds`, `RequestsEnd` |
| `router_claim` | 3 requests, 2 models, 1 slot, an unload | `ClaimHasLoader` is violated |
| `stream` | 2 generations of 3 bytes, ring of 2, a stop, a reader, fairness | `TypeOK`, `ReplayContiguous`, `OneLivePerConv`, `ReadersEnd`, `ImplementsLog` |

More instances are kept beside these, to be run by hand with
`tlc -config <cfg> <module>`: `SchedulerShrink.cfg` (two context sizes with
operators and the watchdog: `NoStaleLoad`) and `SchedulerTraining.cfg` (training
with failing loads: `NoServerLeak`, `NoLostWakeup`) pass; `SchedulerInUse.cfg`,
`SchedulerRefCount.cfg`, `SchedulerPins.cfg`, `SchedulerPinned.cfg`,
`SchedulerYield.cfg`, `DeferQueueCancel.cfg`, `TaskQueueDeferred.cfg`,
`TaskQueueRealtime.cfg`, `ModelRouterBusy.cfg` and `StreamEvict.cfg` produce the
counterexamples of section 5.

Why the bounds are enough. Two requests are what every race of this code needs
(one that holds or looked up a runner, one that makes the scheduler act); a third
adds a queue with something behind its head. Two runners per model slot allow a
runner and its successor under the same key, which is what late expiry events
need. `RefMod` is 4, so that the reference count of two requests does not wrap by
itself and an underflow is visible. `MaxTokens` is 2: one event that is handled
and one that is late. Symmetry is over requests and runners only, and not used
for liveness. In `task_queue` three requests are the least that can be running, put
back and overtaking; one slot makes the others wait. A realtime session counts twice in
`MaxRequests`, since it posts CONTROLs beside its task; one other request is enough to
wake the server that sleeps under it. In `task_queue_live` the second
slot is what the cadence needs. One router slot makes every load an eviction; two
requests for one model and one for another are the least for a queue with a shared
entry and something behind it. Three bytes through a ring of two make a drop inside
the buffer, a chunk as large as the ring and one larger; `MaxFrom` is 0 since a
reader that starts further on only skips bytes (the proofs are for every offset).
Deadlock is checked in `sched_idle`, where clients keep coming; in
the other runs the system rightly stops when its requests have ended.

Each property has a mutant in `PROJECT.json`: a plausible slip in one mapped
definition that TLC catches with that property.

### Fairness

`FairSpec` of `Scheduler`: the Go runtime runs every goroutine that can run, so
each handler, the scheduler, the expiry goroutine, each load and each timer is
weakly fair. A server that does not fail comes up (`WaitUntilRunning` has a
deadline). A handler that holds a runner eventually ends its request, by finishing
or because its client left. The runtime does not stay ahead for ever, which
the ticker that polls its health justifies. Nothing is assumed of operators,
clients, crashes or training.

`FairSpec` of `DeferQueue`: the drain goroutine ticks; a retry time comes; the
gates open and the worker accepts again and again (strong fairness), since both
depend on work that ends. `EventuallySettled` is about the queue given that.

`FairSpec` of `TaskQueue`: the main thread, the worker and every HTTP thread are
scheduled. That time passes, a connection closes or a signal arrives is not assumed;
a decode ends, and a generation ends after `Tokens` decodes (`n_predict` or the
context limit).

`FairSpec` of `ModelRouter`: threads are scheduled, the monitor handles its commands
and its children, the stop deadline passes, a started child reports or dies, a
proxied request ends. Nobody need send a request, and no child need obey.

`FairSpec` of `StreamSession`: generations and the threads that retire sessions go on;
a reader's loop polls (`STREAM_READ_WAKE_INTERVAL_MS`). The collector need not run.

## 4. What is proved

TLAPS proves, for every set of requests, models, runners, jobs, clients, slots,
sessions and readers and every limit, from what each module assumes of its constants:
`SchedulerAssumption`, `DeferAssumption`, `StreamAssumption`, `RouterAssumption`, and
of `TaskQueue` `SlotsAssumption` (slots are finitely many numbers, at least one),
`ClientsAssumption` (the three kinds of clients are disjoint), `PinAssumption` and
`BoundsAssumption`. They say that sets of the program's objects are finite, that
names differ and that bounds are numbers. Bounds that keep TLC's instances small
(`MaxFaults`, `MaxUnloads`, `Tokens`, ...) are parameters too, so that a theorem
holds for any number of faults.

| Theorem | Module | Extra assumption |
|---|---|---|
| `TypeCorrect` | `SchedulerProofs` | |
| `LoadedAttachedHolds`, `NoServerLeakHolds`, `NoStaleLoadHolds` | `SchedulerOwnership` | |
| `PauseReleasedHolds`, `PauseKeptHolds`, `ResidencyLimitsHolds` | `SchedulerSafety` | |
| `NoLostWakeupHolds` | `SchedulerSafety` | no cross-queue tickets |
| `AnsweredOnceHolds`, `NoneForgottenHolds`, `IdleExpiresHolds` | `SchedulerSafety` | |
| `DeferTypeCorrect`, `DeferAcceptedOnce`, `DeferPromotedIffAccepted`, `DeferOrderListsWaiting` | `DeferQueueProofs` | |
| `TaskQueueTypeCorrect`, `TaskQueueAccounts`, `TaskQueueNoOrphan`, `TaskQueueSleepsIdle`, `TaskQueueSlotsStill`, `TaskQueueOrderKept` | `TaskQueueProofs` | |
| `RouterTypeCorrect`, `RouterLimitHolds`, `RouterKeepsChildren`, `RouterStopsMeant`, `RouterStopUnderWay`, `RouterQueueAgrees`, `RouterSparesBusy` | `ModelRouterProofs` | |
| `StreamTypeCorrect`, `StreamReplayContiguous`, `StreamOneLivePerConv` | `StreamProofs` | |
| `StreamImplementsLog` | `StreamRefinement` | |

The extra assumptions are needed: section 5 has what happens without them.

The argument, scheduler:

* `TInv` = `TypeOK` and `Frames`. The type invariant is not inductive: actions
  dereference `cur`, `run` and `Head(drain)`, so `Frames` says where in
  `processOnePending` they are set.
* `InHand`: a request in the queue or in the scheduler's hands is not reused. It
  is what makes `model[cur]` mean the same from the snapshot to the registration.
* `Ownership` = `LoadedAttached`, `NoServerLeak`, `LoadInFlight`,
  `ClosingUnregistered`. `LoadInFlight` is the heart: from the snapshot that found
  the key free until the registration, only the scheduler goroutine can fill
  the key or `activeLoading`, while others may only empty them.
  `ClosingUnregistered` says that what the expiry goroutine, a wipe or the
  watchdog is about to close has left the map, so closing it breaks nothing.
* `PauseInv`: a pause without training belongs to the eviction wait that will lift it
  (`evictionPaused`), unless a tick has done so before.
* `WakeInv` says that outside "idle" the scheduler is bound to look at the queue
  again; every path to "idle" raises `wake` if the queue is not empty.
* `RoomInv` says that between the decision to load and the registration the count
  the scheduler remembers is an upper bound of the runners in the map and that
  nothing that excludes the model has appeared: others only remove.
* `OneHolder` and `AnswerInv` carry `AnsweredOnce` and `NoneForgotten`. Who may still
  answer a request is one of: its handler before the push, the queue, a slice of a
  drain, the scheduler's current request, a load in flight. `OneHolder` says that no
  request is in two of these places, `AnswerInv` that those in them are exactly the
  requests that wait. The one exception is `GivenUp`: `EvictCanceled` and
  `WaitCanceled` fail the current request and go round the loop, whose head meets it
  once more before it lets it go.
* `KeyInv` carries `IdleExpires`. `processFinishedRequest` looks the runner up by the
  model's key, not by the reference it holds, so the reference must have been to a
  runner of that model: `KeyInv` says so of every request between its lookup and its
  release, of the scheduler between its own, and of the loads. Keys and models do not
  change while somebody refers to them (`KeyFixed`, `ModelFixed`), and who holds a
  runner has been answered, so that by `AnswerInv` nobody hands it another one. Then,
  step by step (`Settles`): the last reference starts the timer or sends the event;
  who stops a timer takes a reference or sends the event; and an event is consumed
  only by a step that removes the runner or finds it removed.

The other components:

* Defer queue: the invariant adds that a job being submitted has not been accepted
  and that one being recorded has. For `OrderListsWaiting` two lemmas say what
  appending and removing do to a sequence without repetitions and its set of elements.
* Task queue, `TaskQueueInv`: `Matches` counts the positions of a queue that hold a
  task of some set, and `Held` adds up the three queues and the two hands, so that
  `TaskAccounted` becomes a sum that lemmas about `Append`, `Tail`, concatenation and
  removal compute. `ThreadInv` ties the hands, flags and loop variables to where the
  two threads are. `LoopGoesOn` says that while a slot has
  work to do (`AtWork`) a NEXT_RESPONSE is in a queue or in the worker's hand;
  `SleepsIdle` follows: the loop goes to sleep only with its queue empty, and then
  every slot that is busy waits for audio. `WaitInv` says that these run realtime
  sessions and `RestInv` that only a server that may sleep does, so that waking up
  loses nothing else (`WakeEffect`).
  `CancelInv`: a CANCEL is around only after its
  client has gone, so what it takes away nobody waits for. Each step of the two
  threads leaves a client as it was, sends it a part of its answer, ends its request,
  drops it because it has gone, or forgets its session (`ServerEffect`).
  `OrderKept` follows from `TaskAccounted`: a task that is held once has one place, so it
  is enough that no step brings two of the tasks ahead into an order they were not
  in (`KeepsLine`). Lemmas say what joining, growing and erasing do to an order.
* Router, `RouterInv`: only the last instance of a model can be alive, and then its
  entry is running and knows it (`Instance1`, `Instance2`); what a reaped child has
  printed has been read (`ReadToTheEnd`), so that no late line changes the status of
  its successor. `NoOrphanChild`, and with `RoomInv` `WithinModelsMax`, follow.
  For stops, which carry a name: behind a stale STOP in the monitor's queue there is
  the WATCH of every live child of that name (`StaleStop`), so the STOP finds nobody; and
  a stop that is meant comes after the WATCH of its child (`UnderWay`). Steps are
  `Calm` (they neither start nor reap a process), except `Spawn`, `Reap` and
  `HandleCommand`. `BusySpared` needs `FirstCount`: until a second instance is
  started, the counter is exactly the number of requests in flight.
* `StreamInv`: `ReplayContiguous` is not inductive, since a reader copies whatever
  the ring holds. `RingHolds` is the missing half: the ring is the run of bytes that
  starts at `prefix_dropped`, and until the session is done it ends at the last byte
  made. `AppendEffect` shows it for the three cases of `append` from three lemmas
  about runs of bytes (`BytesSeq`, `BytesConcat`, `BytesTail`). `HoldUsed` and
  `DownLater` carry `OneLivePerConv`: whoever takes a session out of the map holds
  it, or leaves it to shutdown, until it is finalized.
* `StreamRefinement` shows from `StreamInv` that the log of a session is the run of
  bytes from the first one on (`LogIsBytes`), and then, action by action, that a
  write, a finalize, a lookup, a read, a completion and a cut are `Write`, `Close`,
  `Attach`, `Deliver`, `Complete` and `Cut`, and everything else stutters.

Only model-checked: liveness (`EveryRequestAnswered`, `EventuallySettled`,
`YieldEnds`, `SleepersWake`, `Answered`, `StopEnds`, `RequestsEnd`, `ReadersEnd`),
which is beyond the prover. Every invariant and every other action property of a
passing run is proved.

## 5. Known disagreements

With a run (counterexample in its trace, finding in `PROJECT.json`):

* `ClaimHasLoader` (`router_claim`): a load that went through leaves its entry
  claimed. When the instance goes down again before every waiter has seen it up, the
  entry can be claimed by nobody, and every model behind it in the queue waits until
  those clients leave; a request with a conversation id ignores its socket while it
  waits, so it may never leave.

With an instance to run by hand:

* `InUseNotClosed` (`SchedulerInUse.cfg`): `processExpiredRunner` unregisters an idle
  runner, lets go of both locks for a GPU query and closes the server. A request that
  had looked the runner up acquires it in between and loses its server.
  `server/sched.go:1236` says of `refCount`: "prevent unloading if > 0".
* `UnusedIsIdle` (`SchedulerRefCount.cfg`): a runner is wiped while a request holds it,
  and its model loaded again; the request's release finds the new runner by the
  model's key, counts it down from zero (`server/sched.go:339`) and `refCount`, a
  `uint`, wraps. The count stays above zero with nobody using the runner, so by
  `server/sched.go:1236` ("prevent unloading if > 0") neither idle timer nor eviction
  ever unloads it. `IdleExpires` is about runners that count zero.
* `ProtectedNotVictim` (`SchedulerPinned.cfg`): `findConcurrencyGroupConflict`
  (`server/concurrency_groups.go:84`) chooses its victim without looking at the
  protected keys, which `server/fulfillment.go:232` calls "model keys that must not be
  eviction victims". Where the code does look (`findRunnerToUnload`,
  `findOtherMLXRunner`) the choice and the look are one step of the model.
* `PinnedWhileLoaded` (`SchedulerPins.cfg`): a late expiry event of an unloaded runner
  finds its successor under the key and releases the blobs a second time, which takes
  the successor's pin. `server/sched.go:2268`: "keep remotestore LRU from deleting
  blobs" "that a loaded runner still needs".
* `YieldEnds` (`SchedulerYield.cfg`): the wake-up is spent while the runtime is ahead;
  nobody signals the queue when that ends. `server/sched.go:71`: "blocks
  pendingPopNext while runtime has an older ticket".
* `CancelIsFinal` (`DeferQueueCancel.cfg`): a DELETE that succeeded during a submit is
  overwritten by `markPromotedLocked` or `markFailedOrRetryLocked`, and the job runs
  or waits again. `docs/gpu-training.md:104`: "Cancel Python jobs or **waiting**
  `defer-*` jobs".
* `DeferredRuns` (`TaskQueueDeferred.cfg`): a release moves one deferred task to the
  queue; when that task is cancelled before it launches, the tasks deferred behind it
  stay there with every slot idle, until another request comes.
  `tools/server/server-queue.h:58`: "Add a new task, but defer until one slot is
  available".
* `AwakeForSessions` (`TaskQueueRealtime.cfg`): a realtime session that waits for audio
  does not keep the loop awake; after `idle_sleep_ms` without a task the server sleeps,
  `destroy()` (`server-context.cpp:1285`) frees the context under the session, a CONTROL
  that comes then wakes nobody, since `post` does not ask for the wake-up, and
  `load_model` clears the slots: the session is gone and its client waits for ever.
  `tools/server/server-context.cpp:4054`: "a realtime slot waiting for audio has no work,
  the next audio control task wakes the loop".
* `CountsActive` (`ModelRouterBusy.cfg`): a request that was checked against one
  instance and is counted after that instance was stopped ends after `load()` has
  reset the counter for the next one. The cleanup (`server-models.cpp:1694`) looks its
  model up by name, and takes the count of a request of the new instance. That instance looks
  idle to `tick` and is stopped under its request.
  `tools/server/server-models-sched.cpp:96`: "a busy model is mid-request";
  `server-models.h:172`: "number of active proxy requests". `BusySpared` is
  therefore about first instances.
* `EvictsOwn` (`StreamEvict.cfg`): `on_complete` of a request that failed before it
  streamed evicts by conversation id, and takes the session a newer request of that
  conversation has installed since. `tools/server/server-stream.cpp:636`: "evict the
  session installed by set_req()".

Seen with TLC on the same modules, without a run of their own; each is one
formula over the variables of the module:

* the pause of training is lifted by the end of an eviction that began before it
  (`[][trainingPause /\ loadsPaused => loadsPaused' \/ ~trainingPause']_vars`),
  until the next policy tick; `server/vram/broker.go:82`;
* a request queued before a pause starts a server during it
  (`[][trainingPause /\ loadsPaused => alive' \subseteq alive]_vars`);
  `server/sched.go:1922`;
* the queue exceeds its limit when drained requests are put back
  (`Len(pending) <= MaxQueue`); `docs/faq.mdx:336`;
* a request that finds the runner still loading gets it whatever its context
  (a step from "use" to "held" with `numCtx[ptr[r]] < wantCtx[r]`);
  `server/sched.go:1393`;
* the context of a runner is shrunk under a request that acquired it after the idle
  check; `server/sched.go:1749`;
* a second MLX server starts while the first is closing (two runners of `MLX` in
  `alive`); `server/mlx_exclusive.go:19`;
* a policy tick lifts the pause of an eviction in the middle of its wait, training or
  not (`pc = "wait" => loadsPaused`), and requests in `GetRunner` go on:
  `updateSchedInferencePauses` (`server/inference_load_policy.go:59`) knows nothing of
  evictions, while `server/sched.go:680` logs "paused new loads during eviction
  wait";
* more deferred jobs wait than the limit allows when a job that was cancelled
  during its submit is retried (`Cardinality(Waiting) <= MaxDepth`);
  `docs/t6-unified-queue.md:174`.

In the llama server (`tools/server/`):

* a task that the main thread holds when its CANCEL is posted, and then defers, is
  not found by the cancel and runs for nobody;
* a request that passed `wait_until_no_sleep` and posts after the server went to sleep
  is not looked at until another request wakes the server; `README.md:2555`;
* with a prefill cadence, a prompt deferred while a realtime session has a slot stays
  deferred with other slots idle until the session gets audio or ends, since
  `update_slots` returns before it re-offers it (`main = "idle" /\ tasks = <<>> /\ Busy
  \subseteq Waiting /\ Idle # {} => deferred = <<>>`); `server-context.cpp:3296`: "so they
  are not stuck until a slot frees";
* a session request stopped after it left the line (`server-models.cpp:2102`) returns
  without a `tick`, so that the idle model keeps its slot while another model waits;
  `server-models.cpp:1678`: "a slot freed for this waiter goes to the next one";
* a request leaves the queue before it is counted, so a `tick` in between may stop the
  model it waited for; `server-models-sched.h:98`;
* `make_room` unloads its victim in another critical section than it picked it in,
  and stops it whatever it is doing by then; `BusySpared` therefore leaves out the
  steps in which somebody calls `unload()`;
* the wait of `make_room` for its victim to be down misses it when the victim is
  loaded again at once;
* a reader that the ring overtook gets the end of the stream and no error, while
  `server-stream.cpp:456` says it "blocks for live bytes until the session finalizes";
* a client that leaves before the first result ends its session
  (`server-context.cpp:5989`), while `server-stream.h:64` says "if set, the stream
  survives a client disconnect".

## 6. Plan

Done: the scheduler with its queue, the defer queue, the llama server's task queue,
router and stream replay, their checks, and the proofs of section 4. What is left,
in this order:

1. Abstract specifications with a refinement proof, as `StreamLog` is for
   `StreamSession`: what `GetRunner` promises its callers, and what the router's queue
   promises a request.
2. `SessionGate`: `mlxAgentGate` with begin, end, waits and preemption, pins and
   fulfillment holds, and QoS reservations, composed with `Scheduler` through
   `protected`.
3. `BlobStore`: the resolver's pins, LRU eviction and resumable downloads over peers
   that stall.
4. `LoadPolicy`: training, video holds, runtime backlog and evictions as holders of
   one pause flag; an abstract specification "paused iff somebody holds".
5. The router's device-memory limits and measure children; tasks with children.
6. Watchdog thresholds with `busySince`, cooldown back-off, cross-queue tickets with
   their sequence numbers.

## 7. Not modelled

* Runners, KV caches, prefix blocks: numerical code in one sequence loop per
  process; what the scheduler sees of a process is `alive` and `numCtx`.
* HTTP handlers, JSON streaming, API translation, templates, parsers, tokenizers,
  conversion: data transformations without shared state.
* Discovery and configuration: I/O. Their answers are nondeterministic or
  constants.
* Autoroute, router policies, fleet scoring: heuristics over text and snapshots.
* The Python runtime and the training worker: separate programs, modelled by the
  answers they give.
* Vendored engines, the command line and the desktop app. By far most lines of the
  repository (some 880 000 of C and C++) are tensor kernels, GPU backends, model
  graphs, tokenizer tables and generated headers, nearly all of it in copies of
  ggml and llama.cpp. They compute; they keep no protocol a state machine would say
  anything about, and their numerical results are out of a model checker's reach. The
  share of all lines that the map covers is small for that reason: the models are
  about the concurrent control of the server, which is a few thousand lines.
* In the llama server: chat parsing, sampling, speculative decoding, the prompt cache
  and checkpoints inside `server-context.cpp`, TTS and what
  realtime sessions do with their audio, MCP and the HTTP layer.
