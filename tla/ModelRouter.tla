----------------------------- MODULE ModelRouter -----------------------------
(***************************************************************************)
(* The router mode of the llama server (tools/server/server-models.cpp and *)
(* server-models-sched.cpp): one process that serves many models, each by  *)
(* a child process of its own, at most ModelsMax of them at a time.        *)
(*                                                                         *)
(* A request whose model is not up joins a queue with one entry per model. *)
(* The request at the head claims the load and runs it on its own thread;  *)
(* idle models are stopped to make room.  A single monitor thread watches  *)
(* the children: it reads their state lines, asks them to exit, kills the  *)
(* ones that do not, and reaps them.  One mutex guards the registry, and   *)
(* every action below is one critical section of it, or one step of a      *)
(* child process.                                                          *)
(*                                                                         *)
(* Not modelled: memory accounting (--models-memory-margin is 0), download *)
(* children, preset reload, removal of a model, shutdown.  last_used picks *)
(* among the idle models; here any idle model may be the oldest.           *)
(***************************************************************************)
EXTENDS Integers, FiniteSets, Sequences, SequencesExt

CONSTANTS
    Models,       \* names in the registry
    Requests,     \* requests proxied to a model, autoload on
    Loaders,      \* POST /models/load calls
    Target,       \* the model each request or load call names
    ModelsMax,    \* --models-max, 0 for no limit
    Cancellable,  \* requests whose client may go away while they wait
    Stoppable,    \* session requests, which DELETE /v1/stream may stop
    SleepEnabled, \* --sleep-idle-seconds is set
    MaxUnloads,   \* bound: POST /models/unload calls
    MaxFaults,    \* bound: crashed children and failed spawns
    None          \* no victim

Threads == Requests \cup Loaders

ASSUME RouterAssumption ==
    /\ IsFiniteSet(Models) /\ IsFiniteSet(Threads)
    /\ Requests \cap Loaders = {}
    /\ Target \in [Threads -> Models]
    /\ ModelsMax \in Nat /\ MaxUnloads \in Nat /\ MaxFaults \in Nat
    /\ Cancellable \subseteq Requests /\ Stoppable \subseteq Requests
    /\ SleepEnabled \in BOOLEAN
    /\ None \notin Models

VARIABLES
    status,      \* meta.status of each model
    failed,      \* meta.exit_code # 0
    subproc,     \* the instance the registry knows, an index of child, or 0
    req_count,   \* requests the registry counts as in flight
    stopping,    \* stopping_models
    queue,       \* the request queue, one entry per model
    child,       \* every child process ever spawned, in order
    cmds,        \* commands for the monitor thread
    pc,          \* where each thread is
    queued,      \* the request is counted in its model's entry
    did_load,    \* the request's own load() returned
    saw_loading, \* the request saw its model in state loading
    victim,      \* the model make_room() picked
    port,        \* the instance a proxied request talks to
    unloads, faults

registry == <<status, failed, subproc, req_count>>
thread == <<pc, queued, did_load, saw_loading, victim, port>>
vars == <<registry, stopping, queue, child, cmds, thread, unloads, faults>>

Statuses == {"unloaded", "loading", "loaded", "sleeping"}
Locations == {"new", "wait", "room", "evict", "drain", "spawn", "loaded", "threw",
              "ready", "checked", "proxying", "done"}

Instances == 1 .. Cardinality(Threads)
Entry == [model : Models, n_waiters : Instances, loading : BOOLEAN]
Line == {"loading", "ready", "sleeping"}
Process == [model : Models, watched : BOOLEAN, asked : BOOLEAN, deadline : BOOLEAN, clean : BOOLEAN,
            life : {"starting", "up", "asleep", "waking", "gone", "reaped"}, out : Seq(Line)]
Command == [type : {"WATCH"}, inst : Instances]
           \cup [type : {"STOP"}, model : Models, send_exit : BOOLEAN]

-----------------------------------------------------------------------------
(* The registry.                                                           *)

is_running(s) == s \in {"loading", "loaded", "sleeping"}
is_ready_or_sleep(s) == s \in {"loaded", "sleeping"}
Alive(i) == child[i].life \notin {"gone", "reaped"}
Running(st) == {m \in Models : is_running(st[m])}

\* server_models_sched::has_capacity
has_capacity == ModelsMax = 0 \/ Cardinality(Running(status)) < ModelsMax

\* server_models_sched::find
Wanted(q) == {q[k].model : k \in DOMAIN q}

\* What pick_victim may return: idle, not on its way out, and nobody waits for it.
Idle(st, rc, stp, q) ==
    {m \in Models \ (stp \cup Wanted(q)) : rc[m] = 0 /\ is_ready_or_sleep(st[m])}

\* server_models_sched::join and leave.
Join(q, m) ==
    IF m \in Wanted(q)
    THEN [k \in DOMAIN q |-> IF q[k].model = m THEN [q[k] EXCEPT !.n_waiters = @ + 1] ELSE q[k]]
    ELSE Append(q, [model |-> m, n_waiters |-> 1, loading |-> FALSE])

\* The last one waiting for a model takes its entry away.
Leave(q, m) ==
    LET k == CHOOSE k \in DOMAIN q : q[k].model = m
    IN IF m \notin Wanted(q) THEN q
       ELSE IF q[k].n_waiters > 1 THEN [q EXCEPT ![k].n_waiters = @ - 1]
       ELSE RemoveAt(q, k)

\* request_stop for each model of V: one command per model that is not stopping yet.
StopCommands(stp, V, send_exit) ==
    SetToSeq({[type |-> "STOP", model |-> m, send_exit |-> send_exit] : m \in V \ stp})

\* server_models_sched::tick, the sets of models it may stop: enough idle ones
\* for the entries that are not loading, as far as there are any.
Evictions(st, rc, stp, q) ==
    LET needed  == Cardinality({k \in DOMAIN q : ~q[k].loading})
        claimed == Cardinality({k \in DOMAIN q : q[k].loading /\ ~is_running(st[q[k].model])})
        free    == ModelsMax - Cardinality(Running(st)) + Cardinality(Running(st) \cap stp) - claimed
        idle    == Idle(st, rc, stp, q)
        n       == IF ModelsMax = 0 \/ q = <<>> \/ free >= needed THEN 0
                   ELSE IF needed - free < Cardinality(idle) THEN needed - free
                   ELSE Cardinality(idle)
    IN {V \in SUBSET idle : Cardinality(V) = n}

\* The trailing tick() of a critical section that leaves the registry at st, rc
\* and the queue at q, with stp stopping.
Tick(st, rc, stp, q) ==
    \E V \in Evictions(st, rc, stp, q) :
        /\ stopping' = stp \cup V
        /\ cmds' = cmds \o StopCommands(stp, V, TRUE)

Goto(t, to) == pc' = [pc EXCEPT ![t] = to]

\* A thread that is done keeps no state.
Finished(t) ==
    /\ Goto(t, "done")
    /\ queued' = [queued EXCEPT ![t] = FALSE]
    /\ did_load' = [did_load EXCEPT ![t] = FALSE]
    /\ saw_loading' = [saw_loading EXCEPT ![t] = FALSE]
    /\ port' = [port EXCEPT ![t] = 0]

Init ==
    /\ status = [m \in Models |-> "unloaded"]
    /\ failed = [m \in Models |-> FALSE]
    /\ subproc = [m \in Models |-> 0]
    /\ req_count = [m \in Models |-> 0]
    /\ stopping = {} /\ queue = <<>> /\ child = <<>> /\ cmds = <<>>
    /\ pc = [t \in Threads |-> "new"]
    /\ queued = [t \in Threads |-> FALSE]
    /\ did_load = [t \in Threads |-> FALSE]
    /\ saw_loading = [t \in Threads |-> FALSE]
    /\ victim = [t \in Threads |-> None]
    /\ port = [t \in Threads |-> 0]
    /\ unloads = 0 /\ faults = 0

-----------------------------------------------------------------------------
(* ensure_model_ready: the request waits for its model.                    *)

InLine(r) == pc[r] = "wait" /\ Target[r] \notin stopping

\* The model is up: the request goes straight to the proxy.  The two reads
\* before that are one step: proxy_request looks at the status again.
ArriveReady(r) ==
    /\ pc[r] = "new"
    /\ Target[r] \notin stopping /\ is_ready_or_sleep(status[Target[r]])
    /\ Goto(r, "ready")
    /\ UNCHANGED <<registry, stopping, queue, child, cmds, queued, did_load, saw_loading, victim, port,
                   unloads, faults>>

JoinQueue(r) ==
    LET q == Join(queue, Target[r]) IN
    /\ queue' = q
    /\ Tick(status, req_count, stopping, q)
    /\ queued' = [queued EXCEPT ![r] = TRUE]
    /\ Goto(r, "wait")
    /\ UNCHANGED <<registry, child, did_load, saw_loading, victim, port, unloads, faults>>

ArriveQueued(r) ==
    /\ pc[r] = "new" /\ status[Target[r]] = "unloaded"
    /\ JoinQueue(r)

\* Somebody else is loading the model, or it is stopping: wait without a place.
ArriveWaiting(r) ==
    /\ pc[r] = "new"
    /\ status[Target[r]] = "loading" \/ (Target[r] \in stopping /\ status[Target[r]] # "unloaded")
    /\ Goto(r, "wait")
    /\ UNCHANGED <<registry, stopping, queue, child, cmds, queued, did_load, saw_loading, victim, port,
                   unloads, faults>>

\* A stopping instance takes no new request: the next instance serves it.
WaitForNext(r) ==
    /\ pc[r] = "wait" /\ Target[r] \in stopping /\ ~queued[r]
    /\ JoinQueue(r)

SeeLoading(r) ==
    /\ InLine(r) /\ status[Target[r]] = "loading" /\ ~saw_loading[r]
    /\ saw_loading' = [saw_loading EXCEPT ![r] = TRUE]
    /\ UNCHANGED <<registry, stopping, queue, child, cmds, pc, queued, did_load, victim, port, unloads, faults>>

\* Mutant: a request leaves its line and the entry still counts it.
MutantStaysCounted(r) == queue

leave_queue(r) == IF queued[r] THEN Leave(queue, Target[r]) ELSE queue

CameDown(r) == did_load[r] \/ saw_loading[r]

\* The loop ends: the model is up, or came back down and did not fail, or the
\* load someone else started fell over.  No tick() follows.
LeaveLine(r) ==
    /\ InLine(r)
    /\ \/ is_ready_or_sleep(status[Target[r]])
       \/ status[Target[r]] = "unloaded" /\ IF CameDown(r) THEN ~failed[Target[r]] ELSE ~queued[r]
    /\ queue' = leave_queue(r)
    /\ queued' = [queued EXCEPT ![r] = FALSE]
    /\ Goto(r, "ready")
    /\ UNCHANGED <<registry, stopping, child, cmds, did_load, saw_loading, victim, port, unloads, faults>>

\* The exceptional exits: a slot freed for this waiter goes to the next one.
ThrowFromLine(r) ==
    LET q == leave_queue(r) IN
    /\ queue' = q
    /\ Tick(status, req_count, stopping, q)
    /\ Finished(r)
    /\ UNCHANGED <<registry, child, victim, unloads, faults>>

LoadFailed(r) ==
    /\ InLine(r) /\ status[Target[r]] = "unloaded" /\ CameDown(r) /\ failed[Target[r]]
    /\ ThrowFromLine(r)

CancelWaiting(r) ==
    /\ r \in Cancellable /\ pc[r] = "wait"
    /\ \/ Target[r] \in stopping /\ queued[r]
       \/ InLine(r) /\ status[Target[r]] = "loading"
       \/ InLine(r) /\ status[Target[r]] = "unloaded" /\ ~CameDown(r) /\ queued[r]
    /\ ThrowFromLine(r)

\* server_models_sched::try_claim
try_claim(r) ==
    /\ queue # <<>> /\ Head(queue).model = Target[r] /\ ~Head(queue).loading
    /\ has_capacity

ClaimLoad(r) ==
    /\ InLine(r) /\ status[Target[r]] = "unloaded" /\ ~CameDown(r) /\ queued[r]
    /\ try_claim(r)
    /\ queue' = [queue EXCEPT ![1].loading = TRUE]
    /\ Goto(r, "room")
    /\ UNCHANGED <<registry, stopping, child, cmds, queued, did_load, saw_loading, victim, port, unloads, faults>>

\* claim_done after load() returned or threw; the entry of a load that went
\* through stays claimed until its waiters leave.
ClaimDone(r) ==
    LET ok == pc[r] = "loaded"
        q  == [k \in DOMAIN queue |->
                  IF queue[k].model = Target[r] /\ ~ok THEN [queue[k] EXCEPT !.loading = FALSE] ELSE queue[k]]
    IN /\ r \in Requests /\ pc[r] \in {"loaded", "threw"}
       /\ queue' = q
       /\ Tick(status, req_count, stopping, q)
       /\ did_load' = [did_load EXCEPT ![r] = @ \/ ok]
       /\ Goto(r, "wait")
       /\ UNCHANGED <<registry, child, queued, saw_loading, victim, port, unloads, faults>>

-----------------------------------------------------------------------------
(* load() and what it needs.                                               *)

\* POST /models/load refuses a model that is running.
StartLoad(t) ==
    /\ t \in Loaders /\ pc[t] = "new"
    /\ Goto(t, IF is_running(status[Target[t]]) THEN "done" ELSE "room")
    /\ UNCHANGED <<registry, stopping, queue, child, cmds, queued, did_load, saw_loading, victim, port,
                   unloads, faults>>

\* make_room, first critical section: enough room, or nobody to evict, or a victim.
MakeRoom(t) ==
    LET idle == Idle(status, req_count, stopping, queue) IN
    /\ pc[t] = "room"
    /\ \/ /\ has_capacity \/ idle = {}
          /\ Goto(t, "spawn") /\ UNCHANGED victim
       \/ /\ ~has_capacity
          /\ \E v \in idle : victim' = [victim EXCEPT ![t] = v]
          /\ Goto(t, "evict")
    /\ UNCHANGED <<registry, stopping, queue, child, cmds, queued, did_load, saw_loading, port, unloads, faults>>

Kill(i) == child' = [child EXCEPT ![i].life = "gone", ![i].clean = FALSE]

\* server_models::unload: a loading instance is killed, another one asked to exit.
Unload(m) ==
    IF is_running(status[m])
    THEN /\ IF status[m] = "loading" /\ Alive(subproc[m]) THEN Kill(subproc[m]) ELSE UNCHANGED child
         /\ stopping' = stopping \cup {m}
         /\ cmds' = cmds \o StopCommands(stopping, {m}, status[m] # "loading")
    ELSE UNCHANGED <<child, stopping, cmds>>

EvictVictim(t) ==
    /\ pc[t] = "evict"
    /\ Unload(victim[t])
    /\ Goto(t, "drain")
    /\ UNCHANGED <<registry, queue, queued, did_load, saw_loading, victim, port, unloads, faults>>

VictimGone(t) ==
    /\ pc[t] = "drain" /\ status[victim[t]] = "unloaded"
    /\ victim' = [victim EXCEPT ![t] = None]
    /\ Goto(t, "room")
    /\ UNCHANGED <<registry, stopping, queue, child, cmds, queued, did_load, saw_loading, port, unloads, faults>>

\* The last critical section of load() returns to the request's loop, or ends
\* the load call.
Return(t, how) == Goto(t, IF t \in Loaders THEN "done" ELSE how)

AlreadyUp(t) ==
    /\ pc[t] = "spawn" /\ status[Target[t]] # "unloaded"
    /\ Return(t, "loaded")
    /\ UNCHANGED <<registry, stopping, queue, child, cmds, queued, did_load, saw_loading, victim, port,
                   unloads, faults>>

\* The limit is checked again under the lock; a port or a spawn may fail.
SpawnRefused(t) ==
    /\ pc[t] = "spawn" /\ status[Target[t]] = "unloaded"
    /\ \/ ~has_capacity /\ UNCHANGED faults
       \/ has_capacity /\ faults < MaxFaults /\ faults' = faults + 1
    /\ Return(t, "threw")
    /\ UNCHANGED <<registry, stopping, queue, child, cmds, queued, did_load, saw_loading, victim, port, unloads>>

\* Mutant: load() trusts what make_room() saw before the lock was released.
MutantMaySpawnAlways == TRUE

MaySpawn == has_capacity

\* Mutant: the monitor knows the child at once, ahead of the commands queued.
MutantSpawnWatched(t) ==
    LET m == Target[t]
        i == Len(child) + 1
    IN /\ pc[t] = "spawn" /\ status[m] = "unloaded" /\ MaySpawn
       /\ child' = Append(child, [model |-> m, watched |-> TRUE, asked |-> FALSE, deadline |-> FALSE,
                                  clean |-> TRUE, life |-> "starting", out |-> <<>>])
       /\ status' = [status EXCEPT ![m] = "loading"]
       /\ subproc' = [subproc EXCEPT ![m] = i]
       /\ req_count' = [req_count EXCEPT ![m] = 0]
       /\ Return(t, "loaded")
       /\ UNCHANGED <<failed, stopping, queue, cmds, queued, did_load, saw_loading, victim, port, unloads, faults>>

Spawn(t) ==
    LET m == Target[t]
        i == Len(child) + 1
        old == IF subproc[m] # 0 /\ Alive(subproc[m])
               THEN [child EXCEPT ![subproc[m]].life = "gone", ![subproc[m]].clean = FALSE] ELSE child
    IN /\ pc[t] = "spawn" /\ status[m] = "unloaded" /\ MaySpawn
       /\ child' = Append(old, [model |-> m, watched |-> FALSE, asked |-> FALSE, deadline |-> FALSE,
                                clean |-> TRUE, life |-> "starting", out |-> <<>>])
       /\ status' = [status EXCEPT ![m] = "loading"]
       /\ subproc' = [subproc EXCEPT ![m] = i]
       /\ req_count' = [req_count EXCEPT ![m] = 0]
       /\ cmds' = Append(cmds, [type |-> "WATCH", inst |-> i])
       /\ Return(t, "loaded")
       /\ UNCHANGED <<failed, stopping, queue, queued, did_load, saw_loading, victim, port, unloads, faults>>

\* POST /models/unload
AdminUnload(m) ==
    /\ unloads < MaxUnloads /\ is_running(status[m])
    /\ unloads' = unloads + 1
    /\ Unload(m)
    /\ UNCHANGED <<registry, queue, thread, faults>>

-----------------------------------------------------------------------------
(* proxy_request.                                                          *)

\* A session request stopped while it waited for the load goes no further.
SessionStopped(r) ==
    /\ r \in Stoppable /\ pc[r] = "ready"
    /\ Finished(r)
    /\ UNCHANGED <<registry, stopping, queue, child, cmds, victim, unloads, faults>>

NotRunning(r) ==
    /\ r \in Requests /\ pc[r] = "ready" /\ ~is_running(status[Target[r]])
    /\ Finished(r)
    /\ UNCHANGED <<registry, stopping, queue, child, cmds, victim, unloads, faults>>

\* The first critical section remembers the port of the instance ...
CheckRunning(r) ==
    /\ r \in Requests /\ pc[r] = "ready" /\ is_running(status[Target[r]])
    /\ port' = [port EXCEPT ![r] = subproc[Target[r]]]
    /\ Goto(r, "checked")
    /\ UNCHANGED <<registry, stopping, queue, child, cmds, queued, did_load, saw_loading, victim, unloads, faults>>

\* Mutant: the request is proxied without being counted.
MutantUncounted(r) ==
    /\ pc[r] = "checked"
    /\ Goto(r, "proxying")
    /\ UNCHANGED <<registry, stopping, queue, child, cmds, queued, did_load, saw_loading, victim, port,
                   unloads, faults>>

\* ... the second counts the request for the instance registered by then.
CountRequest(r) ==
    /\ pc[r] = "checked"
    /\ req_count' = [req_count EXCEPT ![Target[r]] = @ + 1]
    /\ Goto(r, "proxying")
    /\ UNCHANGED <<status, failed, subproc, stopping, queue, child, cmds, queued, did_load, saw_loading, victim,
                   port, unloads, faults>>

\* Mutant: the counter goes down whatever instance it belongs to by now.
MutantFinishAlwaysDown(r) ==
    LET m  == Target[r]
        rc == [req_count EXCEPT ![m] = @ - 1]
    IN /\ pc[r] = "proxying"
       /\ req_count' = rc
       /\ IF rc[m] = 0 THEN Tick(status, rc, stopping, queue) ELSE UNCHANGED <<stopping, cmds>>
       /\ Finished(r)
       /\ UNCHANGED <<status, failed, subproc, queue, child, victim, unloads, faults>>

\* Mutant: the last request of a model ends and nobody looks at the queue.
MutantFinishNoTick(r) ==
    /\ pc[r] = "proxying"
    /\ req_count' = [req_count EXCEPT ![Target[r]] = IF @ > 0 THEN @ - 1 ELSE 0]
    /\ Finished(r)
    /\ UNCHANGED <<status, failed, subproc, stopping, queue, child, cmds, victim, unloads, faults>>

\* proxy->cleanup: the answer is complete, the child is gone or the client left.
FinishRequest(r) ==
    LET m  == Target[r]
        rc == [req_count EXCEPT ![m] = IF @ > 0 THEN @ - 1 ELSE 0]
    IN /\ pc[r] = "proxying"
       /\ req_count' = rc
       /\ IF req_count[m] = 1 THEN Tick(status, rc, stopping, queue) ELSE UNCHANGED <<stopping, cmds>>
       /\ Finished(r)
       /\ UNCHANGED <<status, failed, subproc, queue, child, victim, unloads, faults>>

-----------------------------------------------------------------------------
(* The monitor thread.                                                     *)

\* The newest child of that name the monitor still watches, or 0.
Newest(m) ==
    LET S == {i \in DOMAIN child : child[i].model = m /\ child[i].watched /\ child[i].life # "reaped"}
    IN IF S = {} THEN 0 ELSE CHOOSE i \in S : \A j \in S : j <= i

\* Mutant: the child is asked to exit and no deadline is set.
MutantNoDeadline ==
    LET c == Head(cmds)
        i == IF c.type = "WATCH" THEN c.inst ELSE Newest(c.model)
    IN /\ cmds # <<>>
       /\ child' = IF c.type = "WATCH" THEN [child EXCEPT ![i].watched = TRUE]
                   ELSE IF i = 0 THEN child
                   ELSE [child EXCEPT ![i].asked = @ \/ (c.send_exit /\ Alive(i))]
       /\ cmds' = Tail(cmds)
       /\ UNCHANGED <<registry, stopping, queue, thread, unloads, faults>>

\* STOP finds its child by name, so it must not overtake the WATCH before it.
HandleCommand ==
    LET c == Head(cmds)
        i == IF c.type = "WATCH" THEN c.inst ELSE Newest(c.model)
    IN /\ cmds # <<>>
       /\ child' = IF c.type = "WATCH" THEN [child EXCEPT ![i].watched = TRUE]
                   ELSE IF i = 0 THEN child
                   ELSE [child EXCEPT ![i].asked = @ \/ (c.send_exit /\ Alive(i)), ![i].deadline = TRUE]
       /\ cmds' = Tail(cmds)
       /\ UNCHANGED <<registry, stopping, queue, thread, unloads, faults>>

\* Mutant: a model that is down stays in stopping_models.
MutantStaysStopping(m, new, code) ==
    LET st  == [status EXCEPT ![m] = new]
    IN /\ status' = st
       /\ failed' = [failed EXCEPT ![m] = code]
       /\ Tick(st, req_count, stopping, queue)

\* update_status ends with a tick(), as a model that comes up or goes down
\* changes the count of free slots.
update_status(m, new, code) ==
    LET st  == [status EXCEPT ![m] = new]
        stp == IF new = "unloaded" THEN stopping \ {m} ELSE stopping
    IN /\ status' = st
       /\ failed' = [failed EXCEPT ![m] = code]
       /\ Tick(st, req_count, stp, queue)

\* Mutant: a child that sleeps is taken for one that is down.
MutantSleepIsDown(i) ==
    LET line == Head(child[i].out) IN
    /\ child[i].watched /\ child[i].out # <<>>
    /\ update_status(child[i].model,
                     CASE line = "ready" -> "loaded" [] line = "sleeping" -> "unloaded" [] OTHER -> line, FALSE)
    /\ child' = [child EXCEPT ![i].out = Tail(@)]
    /\ UNCHANGED <<subproc, req_count, queue, thread, unloads, faults>>

\* handle_child_state applies a line to the model of that name.
ReadLine(i) ==
    LET line == Head(child[i].out) IN
    /\ child[i].watched /\ child[i].out # <<>>
    /\ update_status(child[i].model, IF line = "ready" THEN "loaded" ELSE line, FALSE)
    /\ child' = [child EXCEPT ![i].out = Tail(@)]
    /\ UNCHANGED <<subproc, req_count, queue, thread, unloads, faults>>

\* stop_timeout is over: force-kill.
DeadlineKill(i) ==
    /\ child[i].watched /\ child[i].deadline /\ Alive(i)
    /\ child' = [child EXCEPT ![i].life = "gone", ![i].clean = FALSE, ![i].deadline = FALSE]
    /\ UNCHANGED <<registry, stopping, queue, cmds, thread, unloads, faults>>

\* The output is closed and the process is dead: on_child_exit.
Reap(i) ==
    LET m == child[i].model IN
    /\ child[i].watched /\ child[i].life = "gone" /\ child[i].out = <<>>
    /\ child' = [child EXCEPT ![i].life = "reaped"]
    /\ IF subproc[m] = i THEN update_status(m, "unloaded", ~child[i].clean)
       ELSE stopping' = stopping \ {m} /\ UNCHANGED <<status, failed, cmds>>
    /\ UNCHANGED <<subproc, req_count, queue, thread, unloads, faults>>

-----------------------------------------------------------------------------
(* A child process, as the router sees it.                                 *)

ChildReady(i) ==
    /\ child[i].life \in {"starting", "waking"}
    /\ child' = [child EXCEPT ![i].life = "up", ![i].out = Append(@, "ready")]
    /\ UNCHANGED <<registry, stopping, queue, cmds, thread, unloads, faults>>

ServedBy(i) == {r \in Requests : pc[r] = "proxying" /\ port[r] = i}

ChildSleep(i) ==
    /\ SleepEnabled /\ child[i].life = "up" /\ ServedBy(i) = {}
    /\ child' = [child EXCEPT ![i].life = "asleep", ![i].out = Append(@, "sleeping")]
    /\ UNCHANGED <<registry, stopping, queue, cmds, thread, unloads, faults>>

ChildWake(i) ==
    /\ child[i].life = "asleep" /\ ServedBy(i) # {}
    /\ child' = [child EXCEPT ![i].life = "waking", ![i].out = Append(@, "loading")]
    /\ UNCHANGED <<registry, stopping, queue, cmds, thread, unloads, faults>>

\* Asked to exit, it does so once it listens; nothing forces it to.
ChildExit(i) ==
    /\ child[i].asked /\ child[i].life \in {"up", "asleep"}
    /\ child' = [child EXCEPT ![i].life = "gone"]
    /\ UNCHANGED <<registry, stopping, queue, cmds, thread, unloads, faults>>

\* The load fails, or the process dies.
ChildCrash(i) ==
    /\ Alive(i) /\ faults < MaxFaults
    /\ Kill(i)
    /\ faults' = faults + 1
    /\ UNCHANGED <<registry, stopping, queue, cmds, thread, unloads>>

-----------------------------------------------------------------------------
Ensure(r) ==
    \/ ArriveReady(r) \/ ArriveQueued(r) \/ ArriveWaiting(r)
    \/ WaitForNext(r) \/ SeeLoading(r) \/ LeaveLine(r) \/ LoadFailed(r) \/ ClaimLoad(r) \/ ClaimDone(r)

Load(t) ==
    \/ MakeRoom(t) \/ EvictVictim(t) \/ VictimGone(t)
    \/ AlreadyUp(t) \/ SpawnRefused(t) \/ Spawn(t)

Proxy(r) == NotRunning(r) \/ CheckRunning(r) \/ CountRequest(r) \/ FinishRequest(r)

Monitor(i) == ReadLine(i) \/ DeadlineKill(i) \/ Reap(i)

Next ==
    \/ \E r \in Requests : Ensure(r) \/ CancelWaiting(r) \/ Proxy(r) \/ SessionStopped(r)
    \/ \E t \in Loaders : StartLoad(t)
    \/ \E t \in Threads : Load(t)
    \/ \E m \in Models : AdminUnload(m)
    \/ HandleCommand
    \/ \E i \in DOMAIN child :
          \/ Monitor(i)
          \/ ChildReady(i) \/ ChildSleep(i) \/ ChildWake(i) \/ ChildExit(i) \/ ChildCrash(i)

Spec == Init /\ [][Next]_vars

\* Every thread of the router is scheduled, a started child comes up or fails
\* to, and a proxied request is answered; nobody need call, cancel, or exit.
Fairness ==
    /\ \A r \in Requests : WF_vars(Ensure(r) /\ pc[r] # "new") /\ WF_vars(Proxy(r))
    /\ \A t \in Threads : WF_vars(Load(t))
    /\ WF_vars(HandleCommand)
    /\ \A i \in Instances : WF_vars(i \in DOMAIN child /\ Monitor(i)) /\ WF_vars(i \in DOMAIN child /\ ChildReady(i))

FairSpec == Spec /\ Fairness

-----------------------------------------------------------------------------
(* Properties.                                                             *)

TypeOK ==
    /\ status \in [Models -> Statuses]
    /\ failed \in [Models -> BOOLEAN]
    /\ subproc \in [Models -> 0 .. Len(child)]
    /\ req_count \in [Models -> 0 .. Cardinality(Requests)]
    /\ stopping \subseteq Models
    /\ queue \in Seq(Entry) /\ child \in Seq(Process) /\ cmds \in Seq(Command)
    /\ pc \in [Threads -> Locations]
    /\ queued \in [Threads -> BOOLEAN] /\ did_load \in [Threads -> BOOLEAN]
    /\ saw_loading \in [Threads -> BOOLEAN]
    /\ victim \in [Threads -> Models \cup {None}]
    /\ port \in [Threads -> 0 .. Len(child)]
    /\ unloads \in 0 .. MaxUnloads /\ faults \in 0 .. MaxFaults

\* Never more live child processes than --models-max, whoever loads: queued
\* requests, load calls that make room for themselves, retries.
WithinModelsMax == ModelsMax > 0 => Cardinality({i \in DOMAIN child : Alive(i)}) <= ModelsMax

\* A live child is the instance its model's entry knows, and the entry says
\* running: no process is orphaned by a stop, a failed load or a newer spawn.
NoOrphanChild ==
    \A i \in DOMAIN child : Alive(i) => subproc[child[i].model] = i /\ is_running(status[child[i].model])

\* A child told to exit, or under a kill deadline, belongs to a model that is
\* stopping: a STOP found by name never hits the instance started after it.
StopIsMeant ==
    \A i \in DOMAIN child : Alive(i) /\ (child[i].asked \/ child[i].deadline) => child[i].model \in stopping

\* A stopping model is running and its stop is under way: the command is on its
\* way, the deadline runs, or the dead process waits to be reaped.
StopUnderWay ==
    \A m \in stopping :
        /\ is_running(status[m])
        /\ \/ \E k \in DOMAIN cmds : cmds[k].type = "STOP" /\ cmds[k].model = m
           \/ child[subproc[m]].deadline \/ ~Alive(subproc[m])

\* An entry counts the requests that wait in it, on every path out of the line.
QueueAgrees ==
    /\ \A m \in Models : Cardinality({k \in DOMAIN queue : queue[k].model = m}) <= 1
    /\ \A r \in Requests : queued[r] => Target[r] \in Wanted(queue)
    /\ \A k \in DOMAIN queue :
          queue[k].n_waiters = Cardinality({r \in Requests : queued[r] /\ Target[r] = queue[k].model})

\* A model that is stopping stops, whether or not its child listens.
StopEnds == \A m \in Models : m \in stopping ~> m \notin stopping

\* Nobody is left to release the claim: the entry says one of the waiters is
\* doing the load, but none is, and the instance is not there.
Abandoned(e) ==
    /\ e.loading /\ status[e.model] = "unloaded"
    /\ \A r \in Requests : queued[r] /\ Target[r] = e.model =>
           ~CameDown(r) /\ pc[r] \notin {"room", "evict", "drain", "spawn", "loaded", "threw"}

\* The model had one instance so far: load() has not reset the counter since.
FirstInstance(m) == \A i, k \in DOMAIN child : child[i].model = m /\ child[k].model = m => i = k

\* A step in which nobody calls unload().
NoUnload == unloads' = unloads /\ \A t \in Threads : pc[t] = "evict" => pc'[t] = "evict"

\* tick() does not stop the first instance of a model under a request: until a
\* second one is started, the counter the victim is picked by is right, however
\* late a request is counted after its instance was chosen.
BusySpared ==
    [][NoUnload => \A m \in stopping' \ stopping :
          FirstInstance(m) => \A r \in Requests : pc'[r] = "proxying" => port[r] # subproc[m]]_vars

\* req_count is the number of active proxy requests (server-models.h, instance_t).
CountsActive ==
    \A m \in Models :
        Cardinality({r \in Requests : pc[r] = "proxying" /\ Target[r] = m /\ port[r] = subproc[m]}) <= req_count[m]

\* A request that waits in line ends.
RequestsEnd == \A r \in Requests : pc[r] = "wait" ~> pc[r] = "done"

\* An entry is claimed only while one of its waiters performs the load or its
\* outcome is still to be seen (server-models-sched.h, entry_t::loading).
ClaimHasLoader == \A k \in DOMAIN queue : ~Abandoned(queue[k])
=============================================================================
