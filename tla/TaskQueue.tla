----------------------------- MODULE TaskQueue -----------------------------
(***************************************************************************)
(* The task queue of the in-tree llama server: server_queue,               *)
(* server_response and server_response_reader (server-queue.cpp) with the  *)
(* callbacks server_context_impl registers on it (server-context.cpp).     *)
(*                                                                         *)
(* Threads: "main" runs start_loop(), "worker" serves the queue while the  *)
(* main thread is inside yield_to_queue(), and every client is the HTTP    *)
(* thread of one request with its own server_response_reader.  A task is   *)
(* named by its client; a request is served once.                          *)
(*                                                                         *)
(* A step is one critical section of mutex_tasks or of mutex_results, or   *)
(* the slot work the main thread does between two of them.  cv is the set  *)
(* of threads blocked on condition_tasks: notify_one wakes any one of      *)
(* them, and a woken thread evaluates its predicate again.                 *)
(***************************************************************************)
EXTENDS Naturals, Sequences, FiniteSets, SequencesExt

CONSTANTS
    Gens,          \* clients whose task needs a slot (completion, infill, realtime)
    Realtime,      \* those of Gens that stream audio to their slot
    SlotOps,       \* clients that save, restore or erase a given slot
    Scrapers,      \* clients of the read-only tasks: metrics and slot listing
    Slots,         \* slot ids
    AnySlot,       \* id_slot = -1
    Pin,           \* Pin[c]: the slot c asks for, or AnySlot
    Tokens,        \* decode steps that sample for a generation, at most
    Prompt,        \* decode steps before them, for the parts of a long prompt, at most
    Attempt,       \* prefill_attempt_interval
    Starve,        \* prefill_any_attempt_interval
    SleepEnabled,  \* idle_sleep_ms >= 0
    MaxRequests,   \* bound: how many clients send a request, realtime sessions counted twice
    Nobody         \* no task

Clients == Gens \cup SlotOps \cup Scrapers

ASSUME SlotsAssumption == Slots \subseteq Nat /\ IsFiniteSet(Slots) /\ Slots # {} /\ AnySlot \notin Slots
ASSUME ClientsAssumption ==
    /\ Realtime \subseteq Gens
    /\ Gens \cap SlotOps = {} /\ Gens \cap Scrapers = {} /\ SlotOps \cap Scrapers = {}
    /\ Nobody \notin Clients /\ "main" \notin Clients /\ "worker" \notin Clients
ASSUME PinAssumption ==
    /\ Pin \in [Gens \cup SlotOps -> Slots \cup {AnySlot}]
    /\ \A c \in SlotOps : Pin[c] \in Slots
ASSUME BoundsAssumption ==
    /\ Tokens \in Nat \ {0} /\ Prompt \in Nat /\ Attempt \in Nat \ {0} /\ Starve \in Nat \ {0}
    /\ SleepEnabled \in BOOLEAN /\ MaxRequests \in Nat

VARIABLES
    tasks, deferred, unhandled,    \* the three queues of server_queue
    running, sleeping, wakeReq,    \* running, sleeping, req_stop_sleeping
    idle,                          \* should_sleep(): idle_sleep_ms passed since time_last_task
    busy, yielding,                \* worker.busy, worker.yielding
    cv,                            \* threads blocked on condition_tasks
    main, worker,                  \* where the two server threads are
    hand,                          \* the task a server thread popped and is processing
    slot,                          \* slot[s].task runs with slot[s].left decode steps to go;
                                   \* slot[s].wait: audio_wait
    todo,                          \* slots the main thread has yet to visit in its loop
    since,                         \* decodes since the last prefill launch
    waiting, results,              \* waiting_task_ids, queue_results by task
    pc                             \* where each client is

queueVars == <<tasks, deferred, unhandled>>
loopVars == <<running, sleeping, wakeReq, idle>>
yieldVars == <<busy, yielding>>
slotVars == <<slot, todo, since>>
resultVars == <<waiting, results>>
vars == <<queueVars, loopVars, yieldVars, cv, main, worker, hand, slotVars, resultVars, pc>>

---------------------------------------------------------------------------
(* Tasks, slots and results.                                               *)

TypeOf(c) == CASE c \in Gens -> "gen" [] c \in SlotOps -> "slotop" [] OTHER -> "metrics"
TaskOf(c) == [type |-> TypeOf(c), of |-> c]
CancelOf(c) == [type |-> "cancel", of |-> c]
\* CONTROL of a realtime session: audio appended, committed or ended.
AudioOf(c) == [type |-> "audio", of |-> c]
NextResponse == [type |-> "next", of |-> Nobody]
NoTask == [type |-> "none", of |-> Nobody]

Tasks ==
    {TaskOf(c) : c \in Clients} \cup {CancelOf(c) : c \in Clients}
    \cup {AudioOf(c) : c \in Realtime} \cup {NextResponse}

\* The task a client posted, as opposed to a CANCEL or a CONTROL that targets it.
IsTaskOf(t, c) == t.of = c /\ t.type \notin {"cancel", "audio"}

FreeSlot == [task |-> Nobody, left |-> 0, wait |-> FALSE]
Processing(s) == slot[s].task # Nobody
Busy == {s \in Slots : Processing(s)}
Idle == Slots \ Busy
\* Realtime slots that need more audio: processing, with nothing to do.
Waiting == {s \in Slots : slot[s].wait}
First(S) == CHOOSE s \in S : \A r \in S : s <= r

\* SLOT_STATE_GENERATING: the prompt is done and at least one token was sampled, or
\* there is no prompt.
HasGeneratingSlot == \E s \in Busy : slot[s].left < Tokens \/ slot[s].task \in Realtime

\* The cadence applies even when nothing is being generated.
MutantCadenceAlways ==
    \/ Attempt <= 1
    \/ Starve > 1 /\ since >= Starve
    \/ since > 0 /\ since % Attempt = 0

\* may_launch_new_prefill(): the decode cadence of the prefill joins.
MayLaunchNewPrefill ==
    \/ Attempt <= 1
    \/ ~HasGeneratingSlot
    \/ Starve > 1 /\ since >= Starve
    \/ since > 0 /\ since % Attempt = 0

\* Results are queued whether or not somebody waits.
MutantSendAlways(c, r) ==
    /\ results' = [results EXCEPT ![c] = Append(@, r)]
    /\ UNCHANGED waiting

\* server_response::send drops what nobody waits for.
Send(c, r) ==
    /\ results' = IF c \in waiting THEN [results EXCEPT ![c] = Append(@, r)] ELSE results
    /\ UNCHANGED waiting

NotifyOne == IF cv = {} THEN UNCHANGED cv ELSE \E t \in cv : cv' = cv \ {t}
NotifyAll == cv' = {}
\* A thread whose predicate is false goes back to condition_tasks.
WaitAgain(t) == cv' = cv \cup {t}

\* cleanup_pending_task(): the target leaves the three queues.  Ids are unique,
\* so that remove_if finds it at most once in each (TaskAccounted).
Cleanup(q, c) ==
    LET found == {i \in DOMAIN q : IsTaskOf(q[i], c)}
    IN  IF found = {} THEN q ELSE RemoveAt(q, First(found))

Post(t, front) ==
    /\ tasks' = IF front THEN <<t>> \o tasks ELSE Append(tasks, t)
    /\ idle' = (idle /\ t.type = "metrics")
    /\ NotifyOne

Defer(t) ==
    /\ deferred' = Append(deferred, t)
    /\ idle' = FALSE
    /\ NotifyOne
    /\ UNCHANGED <<tasks, unhandled>>

\* id_slot is set on completion tasks only: a slot operation carries its slot elsewhere.
WantsSlot(t, s) == t.type = "gen" /\ Pin[t.of] = s

\* The task is copied to the queue and not erased from the deferred ones.
MutantPopDeferredCopies(s) ==
    /\ IF deferred = <<>> THEN UNCHANGED tasks ELSE tasks' = <<Head(deferred)>> \o tasks
    /\ idle' = FALSE
    /\ NotifyOne
    /\ UNCHANGED <<deferred, unhandled>>

\* pop_deferred_task(s): one task, preferably one that asked for slot s.
PopDeferred(s) ==
    /\ IF deferred = <<>>
       THEN UNCHANGED <<tasks, deferred>>
       ELSE LET fits == {i \in DOMAIN deferred : WantsSlot(deferred[i], s)}
                i == IF fits = {} THEN 1 ELSE First(fits)
            IN  /\ tasks' = <<deferred[i]>> \o tasks
                /\ deferred' = RemoveAt(deferred, i)
    /\ idle' = FALSE
    /\ NotifyOne
    /\ UNCHANGED unhandled

\* slot.release() with its callback_on_release.
Release(s) ==
    /\ slot' = [slot EXCEPT ![s] = FreeSlot]
    /\ PopDeferred(s)

---------------------------------------------------------------------------
Init ==
    /\ tasks = <<>> /\ deferred = <<>> /\ unhandled = <<>>
    /\ running = TRUE /\ sleeping = FALSE /\ wakeReq = FALSE /\ idle = FALSE
    /\ busy = FALSE /\ yielding = FALSE
    /\ cv = {}
    /\ main = "process" /\ worker = "rest"
    /\ hand = [t \in {"main", "worker"} |-> NoTask]
    /\ slot = [s \in Slots |-> FreeSlot] /\ todo = {} /\ since = 0
    /\ waiting = {} /\ results = [c \in Clients |-> <<>>]
    /\ pc = [c \in Clients |-> "new"]

---------------------------------------------------------------------------
(* process_new_tasks(), for either thread t.                               *)

\* Pop the head of the queue: it is in none of the queues until it is processed.
PopTask(t) ==
    /\ running
    /\ tasks # <<>>
    /\ hand' = [hand EXCEPT ![t] = Head(tasks)]
    /\ tasks' = Tail(tasks)
    /\ UNCHANGED <<deferred, unhandled, loopVars, yieldVars, cv, slotVars, resultVars, pc>>

MainPop ==
    /\ main = "process"
    /\ PopTask("main")
    /\ main' = "handle"
    /\ UNCHANGED worker

\* The queue is drained, or the loop is terminated.
MainDrained ==
    /\ main = "process"
    /\ \/ ~running /\ main' = "exit"
       \/ running /\ tasks = <<>> /\ main' = "update"
    /\ UNCHANGED <<queueVars, loopVars, yieldVars, cv, worker, hand, slotVars, resultVars, pc>>

(* process_single_task(task, false) on the main thread.                    *)

Processed ==
    /\ main = "handle"
    /\ main' = "process"
    /\ hand' = [hand EXCEPT !["main"] = NoTask]
    /\ UNCHANGED <<running, sleeping, wakeReq, yieldVars, worker, todo, pc>>

\* get_available_slot(): the slot asked for, busy or not, else any free one.
Available(c) == IF Pin[c] # AnySlot THEN {Pin[c]} ELSE Idle

\* No slot, a busy slot, or the cadence holds the launch back.
MustDefer(c) ==
    \/ Available(c) \cap Idle = {}
    \/ ~MayLaunchNewPrefill

\* How a slot begins: with the parts of its prompt, or, for a realtime session, with
\* no prompt, at once or when audio comes.
Launched(c) ==
    IF c \in Realtime
    THEN [task : {c}, left : {Tokens}, wait : BOOLEAN]
    ELSE [task : {c}, left : Tokens .. Tokens + Prompt, wait : {FALSE}]

\* A realtime session is told that it has begun.
LaunchTask ==
    LET c == hand["main"].of IN
    /\ Processed
    /\ hand["main"].type = "gen"
    /\ ~MustDefer(c)
    /\ \E s \in Available(c) : \E l \in Launched(c) : slot' = [slot EXCEPT ![s] = l]
    /\ since' = 0
    /\ IF c \in Realtime THEN Send(c, "partial") ELSE UNCHANGED resultVars
    /\ UNCHANGED <<queueVars, idle, cv>>

\* launch_slot_with_task() fails: the error is sent and the task dropped.
LaunchFails ==
    LET c == hand["main"].of IN
    /\ Processed
    /\ hand["main"].type = "gen"
    /\ ~MustDefer(c)
    /\ Send(c, "error")
    /\ UNCHANGED <<queueVars, idle, cv, slot, since>>

DeferTask ==
    LET t == hand["main"] IN
    /\ Processed
    /\ \/ t.type = "gen" /\ MustDefer(t.of)
       \/ t.type = "slotop" /\ Processing(Pin[t.of])
    /\ Defer(t)
    /\ UNCHANGED <<slot, since, resultVars>>

\* A slot operation runs at once on an idle slot, a read-only task always.
ServeAtOnce ==
    LET t == hand["main"] IN
    /\ Processed
    /\ \/ t.type = "slotop" /\ ~Processing(Pin[t.of]) /\ \E r \in {"final", "error"} : Send(t.of, r)
       \/ t.type = "metrics" /\ Send(t.of, "final")
    /\ UNCHANGED <<queueVars, idle, cv, slot, since>>

\* CANCEL releases the slot that runs its target, if there is one.
HandleCancel ==
    LET c == hand["main"].of
        runs == {s \in Slots : slot[s].task = c}
    IN
    /\ Processed
    /\ hand["main"].type = "cancel"
    /\ IF runs = {} THEN UNCHANGED <<slot, queueVars, idle, cv>> ELSE Release(First(runs))
    /\ UNCHANGED <<since, resultVars>>

\* A CONTROL that finds the slot of its session has it look at its stream again.
HandleAudio ==
    LET c == hand["main"].of IN
    /\ Processed
    /\ hand["main"].type = "audio"
    /\ slot' = [s \in Slots |-> IF slot[s].task = c THEN [slot[s] EXCEPT !.wait = FALSE] ELSE slot[s]]
    /\ UNCHANGED <<queueVars, idle, cv, since, resultVars>>

HandleNextResponse ==
    /\ Processed
    /\ hand["main"].type = "next"
    /\ UNCHANGED <<queueVars, idle, cv, slot, since, resultVars>>

ProcessSingleTask ==
    \/ LaunchTask \/ LaunchFails \/ DeferTask \/ ServeAtOnce
    \/ HandleCancel \/ HandleAudio \/ HandleNextResponse

---------------------------------------------------------------------------
(* update_slots() on the main thread.                                      *)

\* No slot is processing but those that wait for audio.
AllIdle ==
    /\ main = "update" /\ Busy \subseteq Waiting
    /\ main' = "idle"
    /\ UNCHANGED <<queueVars, loopVars, yieldVars, cv, worker, hand, slotVars, resultVars, pc>>

\* Busy slots do not keep the loop going.
MutantNoNextResponse ==
    /\ main = "update" /\ ~(Busy \subseteq Waiting)
    /\ main' = "predecode"
    /\ UNCHANGED <<queueVars, loopVars, yieldVars, cv, worker, hand, slotVars, resultVars, pc>>

PostNextResponse ==
    /\ main = "update" /\ ~(Busy \subseteq Waiting)
    /\ Post(NextResponse, FALSE)
    /\ main' = "predecode"
    /\ UNCHANGED <<deferred, unhandled, running, sleeping, wakeReq, yieldVars, worker, hand, slotVars, resultVars, pc>>

\* Error result, release and the deferred task it re-offers.
FailSlot(s) ==
    /\ Send(slot[s].task, "error")
    /\ Release(s)

\* pre_decode() rejects the prompt of one slot (too long, no logits, ...).
PreDecodeError ==
    /\ main = "predecode"
    /\ \E s \in Busy : FailSlot(s)
    /\ UNCHANGED <<running, sleeping, wakeReq, yieldVars, main, worker, hand, todo, since, pc>>

\* slot_audio_step(), process_realtime_slots(): a realtime session has used up its
\* audio, or has come to its end.  When it does neither it goes on.
AudioStep ==
    /\ main = "predecode"
    /\ \E s \in Busy \ Waiting :
         /\ slot[s].task \in Realtime
         /\ \/ slot' = [slot EXCEPT ![s].wait = TRUE] /\ UNCHANGED <<resultVars, queueVars, idle, cv>>
            \/ Send(slot[s].task, "final") /\ Release(s)
    /\ UNCHANGED <<running, sleeping, wakeReq, yieldVars, main, worker, hand, todo, since, pc>>

\* pre_decode() throws: abort_all_slots() and return.
PreDecodeThrows ==
    /\ main = "predecode"
    /\ Busy # {}
    /\ main' = "abort" /\ todo' = Busy
    /\ UNCHANGED <<queueVars, loopVars, yieldVars, cv, worker, hand, slot, since, resultVars, pc>>

AbortSlot ==
    /\ main = "abort"
    /\ IF todo = {}
       THEN main' = "idle" /\ UNCHANGED <<slot, todo, resultVars, queueVars, idle, cv>>
       ELSE FailSlot(First(todo)) /\ todo' = todo \ {First(todo)} /\ UNCHANGED main
    /\ UNCHANGED <<running, sleeping, wakeReq, yieldVars, worker, hand, since, pc>>

\* Nothing is left to decode: realtime conversations run in process_realtime_slots().
EmptyBatch ==
    /\ main = "predecode"
    /\ \A s \in Busy \ Waiting : slot[s].task \in Realtime
    /\ main' = "requeue" /\ todo' = Idle
    /\ UNCHANGED <<queueVars, loopVars, yieldVars, cv, worker, hand, slot, since, resultVars, pc>>

\* yield_to_queue(): hand the queue to the worker and decode.
BeginYield ==
    /\ main = "predecode" /\ ~(Busy \subseteq Waiting)
    /\ busy' = TRUE /\ yielding' = TRUE
    /\ main' = "decode"
    /\ UNCHANGED <<queueVars, loopVars, cv, worker, hand, slotVars, resultVars, pc>>

\* The worker is not told that the yield is over.
MutantEndYieldSilent ==
    /\ main = "decode"
    /\ yielding' = FALSE
    /\ cv' = IF busy THEN cv \cup {"main"} ELSE cv
    /\ main' = "join"
    /\ UNCHANGED <<queueVars, loopVars, busy, worker, hand, slotVars, resultVars, pc>>

\* The decode is done: end the yield and wait for the worker.
EndYield ==
    /\ main = "decode"
    /\ yielding' = FALSE
    /\ cv' = IF busy THEN {"main"} ELSE {}
    /\ main' = "join"
    /\ UNCHANGED <<queueVars, loopVars, busy, worker, hand, slotVars, resultVars, pc>>

\* push_front in the order of the declined tasks reverses them.
MutantPutBackReversed ==
    /\ tasks' = [i \in 1 .. Len(unhandled) |-> unhandled[Len(unhandled) + 1 - i]] \o tasks
    /\ unhandled' = <<>>
    /\ UNCHANGED deferred

\* The worker is done: the declined tasks go back to the front, in order.
PutBackUnhandled ==
    /\ tasks' = unhandled \o tasks
    /\ unhandled' = <<>>
    /\ UNCHANGED deferred

JoinWorker ==
    /\ main = "join" /\ "main" \notin cv
    /\ IF busy
       THEN WaitAgain("main") /\ UNCHANGED <<queueVars, idle, main, todo, since>>
       ELSE /\ PutBackUnhandled
            /\ idle' = FALSE
            /\ main' = "post" /\ todo' = Busy \ Waiting /\ since' = since + 1
            /\ UNCHANGED cv
    /\ UNCHANGED <<running, sleeping, wakeReq, yieldVars, worker, hand, slot, resultVars, pc>>

\* The token limit is not looked at.
MutantNoTokenLimit ==
    LET s == First(todo) IN
    /\ main = "post"
    /\ todo # {}
    /\ todo' = todo \ {s}
    /\ Send(slot[s].task, "partial")
    /\ slot' = [slot EXCEPT ![s].left = @ - 1]
    /\ UNCHANGED <<queueVars, loopVars, cv, yieldVars, main, worker, hand, since, pc>>

\* post_decode() for the next slot: one more part of the prompt, one more token, the
\* end, or an error.
PostDecode ==
    LET s == First(todo) IN
    /\ main = "post"
    /\ todo # {}
    /\ todo' = todo \ {s}
    /\ \/ /\ slot[s].left > 1
          /\ IF slot[s].left > Tokens THEN UNCHANGED resultVars ELSE Send(slot[s].task, "partial")
          /\ slot' = [slot EXCEPT ![s].left = @ - 1]
          /\ UNCHANGED <<queueVars, idle, cv>>
       \/ slot[s].left <= Tokens /\ Send(slot[s].task, "final") /\ Release(s)
       \/ FailSlot(s)
    /\ UNCHANGED <<running, sleeping, wakeReq, yieldVars, main, worker, hand, since, pc>>

PostDecodeDone ==
    /\ main = "post" /\ todo = {}
    /\ main' = "requeue" /\ todo' = Idle
    /\ UNCHANGED <<queueVars, loopVars, yieldVars, cv, worker, hand, slot, since, resultVars, pc>>

\* maybe_requeue_deferred_prefills(): one deferred task for every idle slot.
RequeueDeferred ==
    /\ main = "requeue"
    /\ IF Attempt > 1 /\ MayLaunchNewPrefill /\ todo # {}
       THEN PopDeferred(First(todo)) /\ todo' = todo \ {First(todo)} /\ UNCHANGED main
       ELSE main' = "idle" /\ todo' = {} /\ UNCHANGED <<queueVars, idle, cv>>
    /\ UNCHANGED <<running, sleeping, wakeReq, yieldVars, worker, hand, slot, since, resultVars, pc>>

---------------------------------------------------------------------------
(* The end of start_loop()'s body: wait for tasks, or sleep.               *)

IdleOver ==
    /\ main = "idle"
    /\ ~running \/ tasks # <<>>
    /\ main' = "process"
    /\ UNCHANGED <<queueVars, loopVars, yieldVars, cv, worker, hand, slotVars, resultVars, pc>>

\* idle_sleep_ms elapse.  That is seconds: a client that was already
\* notified gets the mutex before.
IdleTimeout ==
    /\ SleepEnabled /\ main = "idle" /\ ~idle
    /\ \A c \in Clients : pc[c] = "asleep" => c \in cv
    /\ idle' = TRUE
    /\ UNCHANGED <<queueVars, running, sleeping, wakeReq, yieldVars, cv, main, worker, hand, slotVars, resultVars, pc>>

EnterSleep ==
    /\ main = "idle" /\ running /\ tasks = <<>> /\ idle
    /\ sleeping' = TRUE /\ wakeReq' = FALSE
    /\ cv' = cv \cup {"main"}
    /\ main' = "asleep"
    /\ UNCHANGED <<queueVars, running, idle, yieldVars, worker, hand, slotVars, resultVars, pc>>

\* load_model(), on the way out of sleep, makes the slots anew.
ReloadSlots == slot' = [s \in Slots |-> FreeSlot]

\* The requests that asked for the wake-up are not notified.
MutantLeaveSleepSilent ==
    /\ main = "asleep" /\ "main" \notin cv /\ wakeReq
    /\ wakeReq' = FALSE /\ sleeping' = FALSE /\ idle' = FALSE
    /\ ReloadSlots
    /\ main' = "process"
    /\ UNCHANGED <<queueVars, running, yieldVars, cv, worker, hand, todo, since, resultVars, pc>>

LeaveSleep ==
    /\ main = "asleep" /\ "main" \notin cv
    /\ \/ /\ ~running
          /\ main' = "process"
          /\ UNCHANGED <<sleeping, wakeReq, idle, cv, slot>>
       \/ /\ running /\ wakeReq
          /\ wakeReq' = FALSE /\ sleeping' = FALSE /\ idle' = FALSE
          /\ NotifyAll
          /\ ReloadSlots
          /\ main' = "process"
       \/ /\ running /\ ~wakeReq
          /\ WaitAgain("main")
          /\ UNCHANGED <<sleeping, wakeReq, idle, main, slot>>
    /\ UNCHANGED <<queueVars, running, yieldVars, worker, hand, todo, since, resultVars, pc>>

\* terminate(), from a signal.
Terminate ==
    /\ running
    /\ running' = FALSE
    /\ NotifyAll
    /\ UNCHANGED <<queueVars, sleeping, wakeReq, idle, yieldVars, main, worker, hand, slotVars, resultVars, pc>>

---------------------------------------------------------------------------
(* worker_loop().                                                          *)

WorkerStart ==
    /\ worker = "rest"
    /\ \/ busy /\ worker' = "process"
       \/ main = "exit" /\ worker' = "stopped"
    /\ UNCHANGED <<queueVars, loopVars, yieldVars, cv, main, hand, slotVars, resultVars, pc>>

WorkerPop ==
    /\ worker = "process"
    /\ PopTask("worker")
    /\ worker' = "handle"
    /\ UNCHANGED main

WorkerDrained ==
    /\ worker = "process"
    /\ \/ ~running /\ worker' = "finish"
       \/ running /\ tasks = <<>> /\ worker' = "check"
    /\ UNCHANGED <<queueVars, loopVars, yieldVars, cv, main, hand, slotVars, resultVars, pc>>

\* A CANCEL is carried out while the decode is running.
MutantWorkerCancels ==
    LET t == hand["worker"]
        runs == {s \in Slots : slot[s].task = t.of}
    IN
    /\ worker = "handle"
    /\ IF t.type = "cancel" /\ runs # {}
       THEN slot' = [slot EXCEPT ![First(runs)] = FreeSlot] /\ UNCHANGED unhandled
       ELSE unhandled' = Append(unhandled, t) /\ UNCHANGED slot
    /\ hand' = [hand EXCEPT !["worker"] = NoTask]
    /\ worker' = "process"
    /\ UNCHANGED <<tasks, deferred, loopVars, yieldVars, cv, main, todo, since, resultVars, pc>>

\* process_single_task(task, true): only the read-only tasks are safe.
WorkerHandle ==
    LET t == hand["worker"] IN
    /\ worker = "handle"
    /\ IF t.type = "metrics"
       THEN Send(t.of, "final") /\ UNCHANGED unhandled
       ELSE unhandled' = Append(unhandled, t) /\ UNCHANGED resultVars
    /\ hand' = [hand EXCEPT !["worker"] = NoTask]
    /\ worker' = "process"
    /\ UNCHANGED <<tasks, deferred, loopVars, yieldVars, cv, main, slotVars, pc>>

\* Between two rounds: the yield may be over, a task may have arrived.
WorkerCheck ==
    /\ worker = "check"
    /\ \/ ~yielding /\ worker' = "finish" /\ UNCHANGED cv
       \/ yielding /\ tasks # <<>> /\ worker' = "process" /\ UNCHANGED cv
       \/ yielding /\ tasks = <<>> /\ worker' = "wait" /\ WaitAgain("worker")
    /\ UNCHANGED <<queueVars, loopVars, yieldVars, main, hand, slotVars, resultVars, pc>>

WorkerWoken ==
    /\ worker = "wait" /\ "worker" \notin cv
    /\ IF ~running \/ ~yielding \/ tasks # <<>>
       THEN worker' = "process" /\ UNCHANGED cv
       ELSE WaitAgain("worker") /\ UNCHANGED worker
    /\ UNCHANGED <<queueVars, loopVars, yieldVars, main, hand, slotVars, resultVars, pc>>

WorkerFinish ==
    /\ worker = "finish"
    /\ busy' = FALSE
    /\ NotifyAll
    /\ worker' = "rest"
    /\ UNCHANGED <<queueVars, loopVars, yielding, main, hand, slotVars, resultVars, pc>>

---------------------------------------------------------------------------
(* The HTTP threads.                                                       *)

Requests(S) == Cardinality(S) + Cardinality(S \cap Realtime)

\* server_res_generator's wait_until_no_sleep(); read-only requests look at
\* is_sleeping() instead and answer from the cache when it holds.
ClientStart(c) ==
    /\ pc[c] = "new"
    /\ Requests({c} \cup {d \in Clients : pc[d] # "new"}) <= MaxRequests
    /\ IF ~sleeping
       THEN pc' = [pc EXCEPT ![c] = "ready"] /\ UNCHANGED <<wakeReq, cv>>
       ELSE IF c \in Scrapers
       THEN pc' = [pc EXCEPT ![c] = "done"] /\ UNCHANGED <<wakeReq, cv>>
       ELSE /\ pc' = [pc EXCEPT ![c] = "asleep"]
            /\ wakeReq' = TRUE
            /\ IF wakeReq THEN cv' = cv \cup {c}
               ELSE IF cv = {} THEN cv' = {c}
               ELSE \E t \in cv : cv' = (cv \ {t}) \cup {c}
    /\ UNCHANGED <<queueVars, running, sleeping, idle, yieldVars, main, worker, hand, slotVars, resultVars>>

ClientWoken(c) ==
    /\ pc[c] = "asleep" /\ c \notin cv
    /\ IF sleeping
       THEN WaitAgain(c) /\ UNCHANGED pc
       ELSE pc' = [pc EXCEPT ![c] = "ready"] /\ UNCHANGED cv
    /\ UNCHANGED <<queueVars, loopVars, yieldVars, main, worker, hand, slotVars, resultVars>>

\* post_task(): wait for the id, then post; read-only tasks go to the front.
ClientPost(c) ==
    /\ pc[c] = "ready"
    /\ waiting' = waiting \cup {c}
    /\ Post(TaskOf(c), c \in Scrapers)
    /\ pc' = [pc EXCEPT ![c] = "recv"]
    /\ UNCHANGED <<deferred, unhandled, running, sleeping, wakeReq, yieldVars, main, worker, hand, slotVars, results>>

\* server_response_reader::stop(), the part under mutex_results.
StopWaiting(c, purge) ==
    /\ waiting' = waiting \ {c}
    /\ results' = [results EXCEPT ![c] = IF purge THEN <<>> ELSE Tail(@)]

\* next(): a partial result, the final one (stop() then has nothing to
\* cancel), or an error (stop() cancels).
ClientReceive(c) ==
    /\ pc[c] = "recv"
    /\ results[c] # <<>>
    /\ CASE Head(results[c]) = "partial" ->
              /\ results' = [results EXCEPT ![c] = Tail(@)]
              /\ UNCHANGED <<waiting, pc>>
         [] Head(results[c]) = "final" ->
              /\ StopWaiting(c, FALSE)
              /\ pc' = [pc EXCEPT ![c] = "done"]
         [] OTHER ->
              /\ StopWaiting(c, TRUE)
              /\ pc' = [pc EXCEPT ![c] = "cancel"]
    /\ UNCHANGED <<queueVars, loopVars, yieldVars, cv, main, worker, hand, slotVars>>

\* stop() before the final result: should_stop() held when the poll timed out (the
\* connection is gone or, read-only tasks, the server went to sleep), or the response
\* is destroyed with results still to be read.
ClientGivesUp(c) ==
    /\ pc[c] = "recv"
    /\ StopWaiting(c, TRUE)
    /\ pc' = [pc EXCEPT ![c] = "cancel"]
    /\ UNCHANGED <<queueVars, loopVars, yieldVars, cv, main, worker, hand, slotVars>>

\* post() of the CANCEL: the target leaves the queues, the CANCEL goes first.
ClientCancel(c) ==
    /\ pc[c] = "cancel"
    /\ tasks' = <<CancelOf(c)>> \o Cleanup(tasks, c)
    /\ deferred' = Cleanup(deferred, c)
    /\ unhandled' = Cleanup(unhandled, c)
    /\ idle' = FALSE
    /\ NotifyOne
    /\ pc' = [pc EXCEPT ![c] = "gone"]
    /\ UNCHANGED <<running, sleeping, wakeReq, yieldVars, main, worker, hand, slotVars, resultVars>>

\* post_control(), on a realtime session's other thread, which starts when the session
\* has begun and waits for the answer to one CONTROL before it posts the next.  The
\* answer goes to a reader of its own.
ClientAudio(c) ==
    /\ c \in Realtime /\ \E s \in Slots : slot[s].task = c
    /\ AudioOf(c) \notin ToSet(tasks) \cup ToSet(unhandled) \cup {hand["main"], hand["worker"]}
    /\ Post(AudioOf(c), FALSE)
    /\ UNCHANGED <<deferred, unhandled, running, sleeping, wakeReq, yieldVars, main, worker, hand,
                   slotVars, resultVars, pc>>

---------------------------------------------------------------------------
MainStep ==
    \/ MainPop \/ MainDrained \/ ProcessSingleTask
    \/ AllIdle \/ PostNextResponse \/ PreDecodeError \/ AudioStep \/ PreDecodeThrows \/ AbortSlot
    \/ EmptyBatch \/ BeginYield \/ EndYield \/ JoinWorker
    \/ PostDecode \/ PostDecodeDone \/ RequeueDeferred
    \/ IdleOver \/ EnterSleep \/ LeaveSleep

WorkerStep ==
    \/ WorkerStart \/ WorkerPop \/ WorkerDrained \/ WorkerHandle
    \/ WorkerCheck \/ WorkerWoken \/ WorkerFinish

ClientStep(c) ==
    ClientStart(c) \/ ClientWoken(c) \/ ClientPost(c) \/ ClientReceive(c) \/ ClientCancel(c)

Next ==
    \/ MainStep
    \/ WorkerStep
    \/ \E c \in Clients : ClientStep(c) \/ ClientGivesUp(c) \/ ClientAudio(c)
    \/ IdleTimeout
    \/ Terminate

\* The operating system runs every thread that can run; that a connection
\* closes, time passes or a signal arrives is never assumed.
Fairness ==
    /\ WF_vars(MainStep)
    /\ WF_vars(WorkerStep)
    /\ \A c \in Clients : WF_vars(ClientStep(c))

Spec == Init /\ [][Next]_vars
FairSpec == Spec /\ Fairness

---------------------------------------------------------------------------
(* Properties.                                                             *)

Threads == {"main", "worker"} \cup Clients

TypeOK ==
    /\ tasks \in Seq(Tasks) /\ deferred \in Seq(Tasks) /\ unhandled \in Seq(Tasks)
    /\ {running, sleeping, wakeReq, idle, busy, yielding} \subseteq BOOLEAN
    /\ cv \subseteq Threads
    /\ main \in {"process", "handle", "update", "predecode", "abort", "decode", "join", "post",
                 "requeue", "idle", "asleep", "exit"}
    /\ worker \in {"rest", "process", "handle", "check", "wait", "finish", "stopped"}
    /\ hand \in [{"main", "worker"} -> Tasks \cup {NoTask}]
    /\ slot \in [Slots -> [task : Gens \cup {Nobody}, left : 0 .. Tokens + Prompt, wait : BOOLEAN]]
    /\ todo \subseteq Slots /\ since \in Nat
    /\ waiting \subseteq Clients
    /\ results \in [Clients -> Seq({"partial", "final", "error"})]
    /\ pc \in [Clients -> {"new", "asleep", "ready", "recv", "cancel", "done", "gone"}]

Count(q, c) == Cardinality({i \in DOMAIN q : IsTaskOf(q[i], c)})
\* Where the task of c is, and the answers that end its request.
Holders(c) ==
    Count(tasks, c) + Count(deferred, c) + Count(unhandled, c)
    + Cardinality({t \in {"main", "worker"} : IsTaskOf(hand[t], c)})
    + Cardinality({s \in Slots : slot[s].task = c})
Answers(c) == Cardinality({i \in DOMAIN results[c] : results[c][i] # "partial"})

\* Sessions whose slots load_model() may take away: the server slept under them.
Forgettable == IF SleepEnabled THEN Realtime ELSE {}

\* No task is lost or runs twice: while its reader waits, a task is in exactly
\* one queue, thread or slot, or its one final answer is on the way; once the
\* reader has the answer it is nowhere.  (The queue moves tasks between four
\* places, drops them on cancel and puts them back after a yield;
\* wait_for_all() asserts "duplicate result received".)
TaskAccounted ==
    \A c \in Clients :
        CASE pc[c] = "recv" -> Holders(c) + Answers(c) \in IF c \in Forgettable THEN {0, 1} ELSE {1}
          [] pc[c] \in {"cancel", "gone"} -> Holders(c) <= 1
          [] OTHER -> Holders(c) = 0

\* No result outlives its reader: queue_results holds answers only for tasks
\* somebody still waits for, although stop() purges them only when it cancels
\* and a cancelled task may go on and be answered later.
NoOrphanResult == \A c \in Clients : results[c] # <<>> => c \in waiting

\* The context is freed for sleeping only when no task is in a thread's hands, the
\* worker is at rest and no slot has work to do: update_slots() keeps a NEXT_RESPONSE
\* in the queue as long as one does.  Sessions that wait for audio do not count; the
\* server may sleep under them (AwakeForSessions).
SleepsIdle ==
    sleeping => /\ \A s \in Busy : slot[s].task \in Realtime /\ slot[s].wait
                /\ ~busy /\ \A t \in {"main", "worker"} : hand[t] = NoTask

\* Tasks not yet looked at by the main loop, in the order it will see them.
InWorker == IF hand["worker"] = NoTask THEN <<>> ELSE <<hand["worker"]>>
Ahead == unhandled \o InWorker \o tasks
Before(c, d) ==
    \E i, j \in DOMAIN Ahead : i < j /\ IsTaskOf(Ahead[i], c) /\ IsTaskOf(Ahead[j], d)

\* Declining tasks during a decode and putting them back never reorders two
\* requests that both keep waiting ("put the declined tasks back, keeping
\* their order"), with new posts and cancels arriving meanwhile.
OrderKept == [][\A c, d \in Clients : Before(c, d) => ~Before(d, c)']_vars

\* While the main thread decodes, nobody else touches the slots: the worker
\* serves the queue, but only read-only tasks.
SlotsStillWhileDecoding == [][main = "decode" => UNCHANGED slotVars]_vars

\* yield_to_queue() returns: the worker notices the end of every yield,
\* whatever it was doing, and the main thread learns of it (notify_one and
\* notify_all on one condition variable with three kinds of waiters).
YieldEnds == main = "join" ~> main = "post"

\* A request that finds the server asleep is woken up.
SleepersWake == \A c \in Clients : pc[c] = "asleep" ~> pc[c] # "asleep" \/ ~running

\* Without failures, departures, shutdown or sleep, and as long as no slot
\* operation has to wait and no realtime session is open, every request is answered,
\* the deferred ones and those the prefill cadence holds back included.
Undisturbed ==
    /\ running /\ ~sleeping
    /\ \A c \in Realtime : pc[c] = "new"
    /\ \A c \in Clients : pc[c] # "cancel"
    /\ \A i \in DOMAIN deferred : deferred[i].type = "gen"
Answered == []Undisturbed => \A c \in Clients : pc[c] = "recv" ~> pc[c] = "done"

\* "Add a new task, but defer until one slot is available" (server-queue.h):
\* no task stays deferred when every slot is idle and the loop has nothing to do.
DeferredRuns ==
    main = "idle" /\ running /\ tasks = <<>> /\ Busy = {} => deferred = <<>>

\* "A realtime slot waiting for audio has no work, the next audio control task wakes
\* the loop" (update_slots): the server does not sleep under a session.
AwakeForSessions == sleeping => Busy = {}
=============================================================================
