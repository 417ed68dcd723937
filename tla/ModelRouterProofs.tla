--------------------------- MODULE ModelRouterProofs ---------------------------
(***************************************************************************)
(* Proofs about ModelRouter, for every set of models, requests and load    *)
(* calls and every --models-max.                                           *)
(*                                                                         *)
(* Most actions of the router leave the processes alone, ask for some to   *)
(* be stopped, and do no more: they are Calm.  Three do not: the spawn of  *)
(* a child, its reaping, and the monitor's handling of a command.          *)
(***************************************************************************)
EXTENDS ModelRouter, SequenceTheorems, FiniteSetTheorems, TLAPS

-----------------------------------------------------------------------------
(* The inductive invariant.                                                *)

\* The types without the bounds that other parts of the invariant establish.
WideEntry == [model : Models, n_waiters : Nat \ {0}, loading : BOOLEAN]
WideCommand == [type : {"WATCH"}, inst : Nat \ {0}]
               \cup [type : {"STOP"}, model : Models, send_exit : BOOLEAN]

RegistryShape ==
    /\ status \in [Models -> Statuses]
    /\ failed \in [Models -> BOOLEAN]
    /\ subproc \in [Models -> Nat]
    /\ req_count \in [Models -> Nat]

ThreadShape ==
    /\ pc \in [Threads -> Locations]
    /\ queued \in [Threads -> BOOLEAN] /\ did_load \in [Threads -> BOOLEAN]
    /\ saw_loading \in [Threads -> BOOLEAN]
    /\ victim \in [Threads -> Models \cup {None}]
    /\ port \in [Threads -> Nat]

StopShape == stopping \subseteq Models /\ cmds \in Seq(WideCommand)

BudgetShape == unloads \in 0 .. MaxUnloads /\ faults \in 0 .. MaxFaults

Shape ==
    /\ RegistryShape /\ ThreadShape /\ StopShape /\ BudgetShape
    /\ queue \in Seq(WideEntry) /\ child \in Seq(Process)

\* An instance is a process that was started, for that model.
InRange ==
    /\ \A m \in Models : subproc[m] # 0 => subproc[m] \in DOMAIN child /\ child[subproc[m]].model = m
    /\ \A t \in Threads : port[t] <= Len(child)

\* Where a thread may be with the state it has.
Where ==
    \A t \in Threads :
        /\ queued[t] => t \in Requests /\ pc[t] \in {"wait", "room", "evict", "drain", "spawn", "loaded", "threw"}
        /\ pc[t] \in {"new", "room", "evict", "drain", "spawn"} => ~did_load[t]
        /\ pc[t] \in {"evict", "drain"} => victim[t] \in Models

\* A process that is not reaped is the instance of its model, which is running,
\* and a running model has such an instance.  A reaped process has been read to
\* the end, so no line of it changes the status again.
Instance1 ==
    \A i \in DOMAIN child :
        child[i].life # "reaped" => subproc[child[i].model] = i /\ is_running(status[child[i].model])
Instance2 ==
    \A m \in Models :
        is_running(status[m]) =>
            subproc[m] \in DOMAIN child /\ child[subproc[m]].model = m /\ child[subproc[m]].life # "reaped"
ReadToTheEnd == \A i \in DOMAIN child : child[i].life = "reaped" => child[i].out = <<>>

ChildInv == Instance1 /\ Instance2 /\ ReadToTheEnd

\* The limit on running models.
RoomInv == ModelsMax > 0 => Cardinality(Running(status)) <= ModelsMax

\* A thread that is not one of these may still spawn, each of these at most once did.
Spawned == {t \in Threads : did_load[t] \/ pc[t] \in {"loaded", "ready", "checked", "proxying", "done"}}
SpawnOnce == Len(child) <= Cardinality(Spawned)

\* Requests the registry should count, or counted for an earlier instance.
InFlight(m) == {r \in Requests : pc[r] = "proxying" /\ Target[r] = m}
CountBound == \A m \in Models : req_count[m] <= Cardinality(InFlight(m))

\* The counter of a model that had one instance is exact.
PortModel ==
    \A r \in Requests : pc[r] \in {"checked", "proxying"} =>
        port[r] \in DOMAIN child /\ child[port[r]].model = Target[r]
FirstCount == \A m \in Models : FirstInstance(m) => req_count[m] = Cardinality(InFlight(m))

Waiters(m) == {r \in Requests : queued[r] /\ Target[r] = m}
QueueInv ==
    /\ \A i, k \in DOMAIN queue : queue[i].model = queue[k].model => i = k
    /\ \A r \in Requests : queued[r] => Target[r] \in Wanted(queue)
    /\ \A k \in DOMAIN queue : queue[k].n_waiters = Cardinality(Waiters(queue[k].model))

\* The commands on their way: a WATCH for each child the monitor does not know ...
IsWatch(k, i) == cmds[k].type = "WATCH" /\ cmds[k].inst = i
IsStop(k, m) == cmds[k].type = "STOP" /\ cmds[k].model = m
WatchInv ==
    /\ \A k \in DOMAIN cmds : cmds[k].type = "WATCH" => cmds[k].inst \in DOMAIN child /\ ~child[cmds[k].inst].watched
    /\ \A k, l \in DOMAIN cmds : cmds[k].type = "WATCH" /\ cmds[l].type = "WATCH" /\ cmds[k].inst = cmds[l].inst => k = l
    /\ \A i \in DOMAIN child : ~child[i].watched => \E k \in DOMAIN cmds : IsWatch(k, i)

\* ... a STOP for a model that is not stopping finds no child: every child of
\* that name is reaped, or comes later ...
StaleStop ==
    \A k \in DOMAIN cmds : \A m \in Models \ stopping :
        IsStop(k, m) => \A i \in DOMAIN child :
            child[i].model = m /\ child[i].life # "reaped" => \E l \in DOMAIN cmds : l > k /\ IsWatch(l, i)

\* ... and a stop that is under way will find its child.
Reaches(m) ==
    \E k \in DOMAIN cmds : IsStop(k, m) /\ (child[subproc[m]].watched \/ \E l \in DOMAIN cmds : l < k /\ IsWatch(l, subproc[m]))
UnderWay ==
    \A m \in stopping : is_running(status[m]) /\ (child[subproc[m]].deadline \/ ~Alive(subproc[m]) \/ Reaches(m))

StopInv == WatchInv /\ StaleStop /\ UnderWay /\ StopIsMeant

RouterInv ==
    /\ Shape /\ InRange /\ Where /\ ChildInv /\ StopInv
    /\ RoomInv /\ SpawnOnce /\ CountBound /\ QueueInv /\ PortModel /\ FirstCount

-----------------------------------------------------------------------------
(* Facts about the operators the model is built from.                      *)

\* SetToSeq lists the elements of a finite set.
LEMMA SetToSeqElements ==
    ASSUME NEW S, IsFiniteSet(S)
    PROVE  /\ SetToSeq(S) \in Seq(S)
           /\ \A x \in S : \E k \in DOMAIN SetToSeq(S) : SetToSeq(S)[k] = x
<1>. DEFINE n == Cardinality(S)
<1>1. n \in Nat /\ ExistsBijection(1 .. n, S)
  BY FS_CardinalityType
<1>2. PICK g \in Bijection(1 .. n, S) : TRUE
  BY <1>1 DEF ExistsBijection
<1>3. g \in [1 .. n -> S] /\ IsInjective(g)
  BY <1>2 DEF Bijection, Injection
<1>. DEFINE f == SetToSeq(S)
<1>4. f \in [1 .. n -> S] /\ IsInjective(f)
  BY <1>3 DEF SetToSeq
<1>. HIDE DEF f, n
<1>5. f \in Injection(1 .. n, S)
  BY <1>4 DEF Injection
<1>6. Cardinality(1 .. n) = n
  BY <1>1, FS_Interval
<1>7. f \in Surjection(1 .. n, S)
  BY <1>5, <1>6, FS_Injection DEF n
<1>. QED
  BY <1>1, <1>4, <1>7 DEF Surjection, f

\* What request_stop sends for the models of V that are not stopping yet.
LEMMA StopCommandsAre ==
    ASSUME NEW stp, NEW V \in SUBSET Models, NEW x \in BOOLEAN
    PROVE  /\ StopCommands(stp, V, x) \in Seq(WideCommand)
           /\ \A k \in DOMAIN StopCommands(stp, V, x) :
                 /\ StopCommands(stp, V, x)[k].type = "STOP"
                 /\ StopCommands(stp, V, x)[k].model \in V
           /\ \A m \in V \ stp : \E k \in DOMAIN StopCommands(stp, V, x) :
                 StopCommands(stp, V, x)[k].type = "STOP" /\ StopCommands(stp, V, x)[k].model = m
<1>. DEFINE stop(m) == [type |-> "STOP", model |-> m, send_exit |-> x]
            S == {stop(m) : m \in V \ stp}
<1>1. IsFiniteSet(V \ stp)
  BY RouterAssumption, FS_Subset
<1>2. IsFiniteSet(S)
  <2>. DEFINE f == [m \in V \ stp |-> stop(m)]
  <2>1. f \in Surjection(V \ stp, S)
    BY DEF Surjection
  <2>. QED
    BY <1>1, <2>1, FS_Surjection
<1>. DEFINE c == SetToSeq(S)
<1>3. StopCommands(stp, V, x) = c
  BY DEF StopCommands
<1>. HIDE DEF c
<1>4. c \in Seq(S) /\ \A s \in S : \E k \in DOMAIN c : c[k] = s
  BY <1>2, SetToSeqElements DEF c
<1>5. S \subseteq WideCommand
  BY DEF WideCommand
<1>6. c \in Seq(WideCommand)
  BY <1>4, <1>5
<1>7. ASSUME NEW k \in DOMAIN c PROVE c[k].type = "STOP" /\ c[k].model \in V
  <2>1. c[k] \in S
    BY <1>4
  <2>2. PICK m \in V \ stp : c[k] = stop(m)
    BY <2>1
  <2>. QED
    BY <2>2
<1>8. ASSUME NEW m \in V \ stp PROVE \E k \in DOMAIN c : c[k].type = "STOP" /\ c[k].model = m
  <2>1. PICK k \in DOMAIN c : c[k] = stop(m)
    BY <1>4
  <2>. QED
    BY <2>1
<1>. QED
  BY <1>3, <1>6, <1>7, <1>8

\* A sequence with one element replaced.
LEMMA SeqExcept ==
    ASSUME NEW S, NEW s \in Seq(S), NEW i \in DOMAIN s, NEW e \in S
    PROVE  LET t == [s EXCEPT ![i] = e]
           IN  /\ t \in Seq(S) /\ Len(t) = Len(s) /\ DOMAIN t = DOMAIN s
               /\ t[i] = e /\ \A k \in DOMAIN s : k # i => t[k] = s[k]
BY ExceptSeq

\* RemoveAt skips exactly position n.
LEMMA RemoveAtElements ==
    ASSUME NEW S, NEW s \in Seq(S), NEW n \in DOMAIN s
    PROVE  /\ RemoveAt(s, n) \in Seq(S)
           /\ Len(RemoveAt(s, n)) = Len(s) - 1
           /\ \A i \in 1 .. Len(s) - 1 : RemoveAt(s, n)[i] = IF i < n THEN s[i] ELSE s[i + 1]
<1>. DEFINE a == SubSeq(s, 1, n - 1)
            b == SubSeq(s, n + 1, Len(s))
<1>0. n \in 1 .. Len(s) /\ Len(s) \in Nat
  OBVIOUS
<1>1. a \in Seq(S) /\ Len(a) = n - 1 /\ \A i \in 1 .. n - 1 : a[i] = s[i]
  BY <1>0, SubSeqProperties
<1>2. b \in Seq(S) /\ Len(b) = Len(s) - n /\ \A i \in 1 .. Len(s) - n : b[i] = s[n + i]
  BY <1>0, SubSeqProperties
<1>3. RemoveAt(s, n) = a \o b
  BY DEF RemoveAt
<1>. HIDE DEF a, b
<1>4. /\ a \o b \in Seq(S)
      /\ Len(a \o b) = Len(a) + Len(b)
      /\ \A i \in 1 .. Len(a) + Len(b) : (a \o b)[i] = IF i <= Len(a) THEN a[i] ELSE b[i - Len(a)]
  BY <1>1, <1>2, ConcatProperties, Zenon
<1>5. ASSUME NEW i \in 1 .. Len(s) - 1
      PROVE  (a \o b)[i] = IF i < n THEN s[i] ELSE s[i + 1]
  <2>1. Len(a) + Len(b) = Len(s) - 1
    BY <1>0, <1>1, <1>2
  <2>2. (a \o b)[i] = IF i <= Len(a) THEN a[i] ELSE b[i - Len(a)]
    BY <1>4, <2>1
  <2>3. CASE i < n
    <3>1. i <= Len(a) /\ i \in 1 .. n - 1
      BY <1>0, <1>1, <2>3
    <3>. QED
      BY <1>1, <2>2, <2>3, <3>1
  <2>4. CASE ~(i < n)
    <3>1. /\ i - (n - 1) \in 1 .. Len(s) - n /\ n + (i - (n - 1)) = i + 1
          /\ ~(i <= Len(a)) /\ i - Len(a) = i - (n - 1)
      BY <1>0, <1>1, <2>4
    <3>2. b[i - (n - 1)] = s[n + (i - (n - 1))]
      BY <1>2, <3>1
    <3>. QED
      BY <2>2, <2>4, <3>1, <3>2
  <2>. QED
    BY <2>3, <2>4
<1>6. Len(a \o b) = Len(s) - 1
  BY <1>0, <1>1, <1>2, <1>4
<1>. QED
  BY <1>3, <1>4, <1>5, <1>6

\* join and leave keep the queue a sequence of entries.
LEMMA JoinLeaveType ==
    ASSUME NEW q \in Seq(WideEntry), NEW m \in Models
    PROVE  Join(q, m) \in Seq(WideEntry) /\ Leave(q, m) \in Seq(WideEntry)
<1>1. Join(q, m) \in Seq(WideEntry)
  <2>1. CASE m \in Wanted(q)
    <3>1. ASSUME NEW k \in DOMAIN q
          PROVE  q[k] \in WideEntry /\ [q[k] EXCEPT !.n_waiters = @ + 1] \in WideEntry
      <4>1. q[k] \in WideEntry
        OBVIOUS
      <4>. QED
        BY <4>1 DEF WideEntry
    <3>. QED
      BY <2>1, <3>1 DEF Join
  <2>2. CASE m \notin Wanted(q)
    BY <2>2, AppendProperties DEF Join, WideEntry
  <2>. QED
    BY <2>1, <2>2
<1>2. Leave(q, m) \in Seq(WideEntry)
  <2>. DEFINE k == CHOOSE k \in DOMAIN q : q[k].model = m
  <2>1. CASE m \in Wanted(q)
    <3>1. k \in DOMAIN q
      BY <2>1 DEF Wanted
    <3>. HIDE DEF k
    <3>5. q[k] \in WideEntry
      BY <3>1
    <3>2. q[k].n_waiters > 1 => [q[k] EXCEPT !.n_waiters = @ - 1] \in WideEntry
      BY <3>5 DEF WideEntry
    <3>3. q[k].n_waiters > 1 => [q EXCEPT ![k].n_waiters = @ - 1] \in Seq(WideEntry)
      BY <3>1, <3>2
    <3>4. RemoveAt(q, k) \in Seq(WideEntry)
      BY <3>1, RemoveAtElements
    <3>. QED
      BY <2>1, <3>3, <3>4 DEF Leave, k
  <2>2. CASE m \notin Wanted(q)
    BY <2>2 DEF Leave
  <2>. QED
    BY <2>1, <2>2
<1>. QED
  BY <1>1, <1>2

-----------------------------------------------------------------------------
(* What a step may do to the processes and the commands.                   *)

\* request_stop was called for the models of V: those that were not stopping
\* have their command.
StopsAdded(stp, V) ==
    /\ stopping' = stp \cup V
    /\ \E c \in Seq(WideCommand) :
          /\ cmds' = cmds \o c
          /\ \A k \in DOMAIN c : c[k].type = "STOP" /\ c[k].model \in V
          /\ \A m \in V \ stp : \E k \in DOMAIN c : c[k].type = "STOP" /\ c[k].model = m

\* tick() stops models that are ready or asleep.
LEMMA TickStops ==
    ASSUME NEW st, NEW rc, NEW stp, NEW q, Tick(st, rc, stp, q)
    PROVE  \E V \in SUBSET Models : StopsAdded(stp, V) /\ \A m \in V : is_running(st[m])
<1>1. PICK V \in Evictions(st, rc, stp, q) :
          stopping' = stp \cup V /\ cmds' = cmds \o StopCommands(stp, V, TRUE)
  BY DEF Tick
<1>2. V \subseteq Idle(st, rc, stp, q)
  BY DEF Evictions
<1>3. V \in SUBSET Models /\ \A m \in V : is_running(st[m])
  BY <1>2 DEF Idle, is_ready_or_sleep, is_running
<1>4. StopsAdded(stp, V)
  <2>. DEFINE c == StopCommands(stp, V, TRUE)
  <2>1. /\ c \in Seq(WideCommand)
        /\ \A k \in DOMAIN c : c[k].type = "STOP" /\ c[k].model \in V
        /\ \A m \in V \ stp : \E k \in DOMAIN c : c[k].type = "STOP" /\ c[k].model = m
    BY <1>3, StopCommandsAre
  <2>. HIDE DEF c
  <2>2. stopping' = stp \cup V /\ cmds' = cmds \o c
    BY <1>1 DEF c
  <2>. QED
    BY <2>1, <2>2 DEF StopsAdded
<1>. QED
  BY <1>3, <1>4

\* A step that stops nothing.
LEMMA NoStops ==
    ASSUME cmds \in Seq(WideCommand), NEW stp, stopping' = stp, cmds' = cmds
    PROVE  \E V \in SUBSET Models : StopsAdded(stp, V) /\ \A m \in V : is_running(status[m])
<1>1. cmds' = cmds \o << >> /\ << >> \in Seq(WideCommand)
  BY EmptySeq, ConcatEmptySeq
<1>2. StopsAdded(stp, {})
  <2>. DEFINE c == << >>
  <2>1. c \in Seq(WideCommand) /\ DOMAIN c = {}
    BY EmptySeq
  <2>. HIDE DEF c
  <2>2. cmds' = cmds \o c /\ stopping' = stp
    BY <1>1 DEF c
  <2>. QED
    BY <2>1, <2>2 DEF StopsAdded
<1>. QED
  BY <1>2

\* unload() stops a model that is running.
LEMMA UnloadStops ==
    ASSUME Shape, NEW m \in Models, Unload(m)
    PROVE  \E V \in SUBSET Models : StopsAdded(stopping, V) /\ \A v \in V : is_running(status[v])
<1>1. CASE is_running(status[m])
  <2>1. /\ stopping' = stopping \cup {m}
        /\ cmds' = cmds \o StopCommands(stopping, {m}, status[m] # "loading")
    BY <1>1 DEF Unload
  <2>. DEFINE x == status[m] # "loading"
              V == {m}
              c == StopCommands(stopping, V, x)
  <2>2. x \in BOOLEAN /\ V \in SUBSET Models /\ \A v \in V : is_running(status[v])
    BY <1>1
  <2>3. stopping' = stopping \cup V /\ cmds' = cmds \o c
    BY <2>1
  <2>. HIDE DEF x, V
  <2>4. /\ c \in Seq(WideCommand)
        /\ \A k \in DOMAIN c : c[k].type = "STOP" /\ c[k].model \in V
        /\ \A v \in V \ stopping : \E k \in DOMAIN c : c[k].type = "STOP" /\ c[k].model = v
    BY <2>2, StopCommandsAre
  <2>. HIDE DEF c
  <2>5. StopsAdded(stopping, V)
    BY <2>3, <2>4 DEF StopsAdded
  <2>. QED
    BY <2>2, <2>5
<1>2. CASE ~is_running(status[m])
  BY <1>2, NoStops DEF Unload, Shape, StopShape
<1>. QED
  BY <1>1, <1>2

\* Commands are commands, whatever is added.
LEMMA StopsAddedType ==
    ASSUME Shape, NEW stp \in SUBSET Models, NEW V \in SUBSET Models, StopsAdded(stp, V)
    PROVE  cmds' \in Seq(WideCommand) /\ stopping' \subseteq Models
BY ConcatProperties DEF StopsAdded, Shape, StopShape

-----------------------------------------------------------------------------
(* Types, part by part.                                                    *)

\* The router only lets threads and the monitor write these.
LEMMA ThreadStep == Shape /\ [Next]_vars => ThreadShape'
<1>. SUFFICES ASSUME Shape, [Next]_vars PROVE ThreadShape'
  OBVIOUS
<1>. USE DEF Shape, ThreadShape, Locations, Goto, Finished, Return
<1>1. ASSUME NEW r \in Requests, Ensure(r) \/ CancelWaiting(r) PROVE ThreadShape'
  <2>0. r \in Threads
    BY DEF Threads
  <2>1. CASE ArriveReady(r)
    BY <2>1, <2>0 DEF ArriveReady
  <2>2. CASE ArriveQueued(r)
    BY <2>2, <2>0 DEF ArriveQueued, JoinQueue
  <2>3. CASE ArriveWaiting(r)
    BY <2>3, <2>0 DEF ArriveWaiting
  <2>4. CASE WaitForNext(r)
    BY <2>4, <2>0 DEF WaitForNext, JoinQueue
  <2>5. CASE SeeLoading(r)
    BY <2>5, <2>0 DEF SeeLoading
  <2>6. CASE LeaveLine(r)
    BY <2>6, <2>0 DEF LeaveLine
  <2>7. CASE LoadFailed(r)
    BY <2>7, <2>0 DEF LoadFailed, ThrowFromLine
  <2>8. CASE CancelWaiting(r)
    BY <2>8, <2>0 DEF CancelWaiting, ThrowFromLine
  <2>9. CASE ClaimLoad(r)
    BY <2>9, <2>0 DEF ClaimLoad
  <2>10. CASE ClaimDone(r)
    BY <2>10, <2>0 DEF ClaimDone
  <2>. QED
    BY <1>1, <2>1, <2>2, <2>3, <2>4, <2>5, <2>6, <2>7, <2>8, <2>9, <2>10 DEF Ensure
<1>2. ASSUME NEW r \in Requests, Proxy(r) \/ SessionStopped(r) PROVE ThreadShape'
  <2>0. r \in Threads /\ Target[r] \in Models
    BY RouterAssumption DEF Threads
  <2>1. CASE NotRunning(r)
    BY <2>1, <2>0 DEF NotRunning, RegistryShape
  <2>2. CASE CheckRunning(r)
    BY <2>2, <2>0 DEF CheckRunning, RegistryShape
  <2>3. CASE CountRequest(r)
    BY <2>3, <2>0 DEF CountRequest, RegistryShape
  <2>4. CASE FinishRequest(r)
    BY <2>4, <2>0 DEF FinishRequest, RegistryShape
  <2>5. CASE SessionStopped(r)
    BY <2>5, <2>0 DEF SessionStopped, RegistryShape
  <2>. QED
    BY <1>2, <2>1, <2>2, <2>3, <2>4, <2>5 DEF Proxy
<1>3. ASSUME NEW t \in Threads, Load(t) \/ StartLoad(t) PROVE ThreadShape'
  BY <1>3, ZenonT(40) DEF Load, StartLoad, MakeRoom, EvictVictim, VictimGone, AlreadyUp, SpawnRefused, Spawn, Idle
<1>4. CASE UNCHANGED thread
  BY <1>4 DEF thread
<1>. QED
  BY <1>1, <1>2, <1>3, <1>4
     DEF Next, vars, Threads, AdminUnload, HandleCommand, Monitor, ReadLine, DeadlineKill, Reap,
         ChildReady, ChildSleep, ChildWake, ChildExit, ChildCrash

\* Budgets are spent one at a time.
LEMMA BudgetStep == Shape /\ [Next]_vars => BudgetShape'
<1>. SUFFICES ASSUME Shape, [Next]_vars PROVE BudgetShape'
  OBVIOUS
<1>. USE RouterAssumption DEF Shape, BudgetShape
<1>1. ASSUME NEW t \in Threads, SpawnRefused(t) PROVE BudgetShape'
  BY <1>1 DEF SpawnRefused
<1>2. ASSUME NEW m \in Models, AdminUnload(m) PROVE BudgetShape'
  BY <1>2 DEF AdminUnload
<1>3. ASSUME NEW i \in DOMAIN child, ChildCrash(i) PROVE BudgetShape'
  BY <1>3 DEF ChildCrash
<1>4. CASE UNCHANGED <<unloads, faults>>
  BY <1>4
<1>. QED
  BY <1>1, <1>2, <1>3, <1>4
     DEF Next, vars, HandleCommand, Monitor, ReadLine, DeadlineKill, Reap,
         ChildReady, ChildSleep, ChildWake, ChildExit,
         Ensure, ArriveReady, ArriveQueued, ArriveWaiting, WaitForNext, JoinQueue, SeeLoading,
         LeaveLine, LoadFailed, CancelWaiting, ThrowFromLine, ClaimLoad, ClaimDone,
         Proxy, SessionStopped, NotRunning, CheckRunning, CountRequest, FinishRequest,
         Load, StartLoad, MakeRoom, EvictVictim, VictimGone, AlreadyUp, Spawn

-----------------------------------------------------------------------------
(* Steps that leave the processes as they are, as far as the router knows. *)

StopsRunning == \E V \in SUBSET Models : StopsAdded(stopping, V) /\ \A m \in V : is_running(status[m])

\* No process and no status changes.
Quiet == UNCHANGED <<status, subproc, child>> /\ StopsRunning

\* Processes come up, go to sleep, or die, and are not reaped.
SameProcesses ==
    /\ child' \in Seq(Process) /\ Len(child') = Len(child)
    /\ \A i \in DOMAIN child :
          /\ child'[i].model = child[i].model /\ child'[i].watched = child[i].watched
          /\ child'[i].life = "reaped" <=> child[i].life = "reaped"
          /\ child[i].life = "reaped" => child'[i].out = child[i].out
          /\ child'[i].life \notin {"gone", "reaped"} =>
                /\ child[i].life \notin {"gone", "reaped"}
                /\ child'[i].asked = child[i].asked /\ child'[i].deadline = child[i].deadline

\* Nothing starts to run and nothing stops running.
Calm ==
    /\ SameProcesses
    /\ subproc' = subproc
    /\ \A m \in Models : is_running(status'[m]) = is_running(status[m])
    /\ StopsRunning

\* Requests and load calls, except where they spawn or stop a process.
LEMMA RequestQuiet ==
    ASSUME Shape, NEW r \in Requests, Ensure(r) \/ CancelWaiting(r) \/ Proxy(r) \/ SessionStopped(r)
    PROVE  Quiet
<1>0. cmds \in Seq(WideCommand)
  BY DEF Shape, StopShape
<1>. USE DEF StopsRunning
<1>1. CASE Ensure(r) \/ CancelWaiting(r) \/ Proxy(r) \/ SessionStopped(r)
  <2>1. CASE ArriveReady(r)
    BY <2>1, <1>0, NoStops DEF ArriveReady, Quiet, registry
  <2>2. CASE ArriveQueued(r)
    BY <2>2, TickStops DEF ArriveQueued, JoinQueue, Quiet, registry
  <2>3. CASE ArriveWaiting(r)
    BY <2>3, <1>0, NoStops DEF ArriveWaiting, Quiet, registry
  <2>4. CASE WaitForNext(r)
    BY <2>4, TickStops DEF WaitForNext, JoinQueue, Quiet, registry
  <2>5. CASE SeeLoading(r)
    BY <2>5, <1>0, NoStops DEF SeeLoading, Quiet, registry
  <2>6. CASE LeaveLine(r)
    BY <2>6, <1>0, NoStops DEF LeaveLine, Quiet, registry
  <2>7. CASE LoadFailed(r)
    BY <2>7, TickStops DEF LoadFailed, ThrowFromLine, Quiet, registry
  <2>8. CASE CancelWaiting(r)
    BY <2>8, TickStops DEF CancelWaiting, ThrowFromLine, Quiet, registry
  <2>9. CASE ClaimLoad(r)
    BY <2>9, <1>0, NoStops DEF ClaimLoad, Quiet, registry
  <2>10. CASE ClaimDone(r)
    BY <2>10, TickStops DEF ClaimDone, Quiet, registry
  <2>11. CASE NotRunning(r)
    BY <2>11, <1>0, NoStops DEF NotRunning, Quiet, registry
  <2>12. CASE CheckRunning(r)
    BY <2>12, <1>0, NoStops DEF CheckRunning, Quiet, registry
  <2>13. CASE CountRequest(r)
    BY <2>13, <1>0, NoStops DEF CountRequest, Quiet, registry
  <2>14. CASE FinishRequest(r)
    <3>1. CASE req_count[Target[r]] = 1
      BY <2>14, <3>1, TickStops DEF FinishRequest, Quiet
    <3>2. CASE req_count[Target[r]] # 1
      BY <2>14, <3>2, <1>0, NoStops DEF FinishRequest, Quiet
    <3>. QED
      BY <3>1, <3>2
  <2>15. CASE SessionStopped(r)
    BY <2>15, <1>0, NoStops DEF SessionStopped, Quiet, registry
  <2>. QED
    BY <1>1, <2>1, <2>2, <2>3, <2>4, <2>5, <2>6, <2>7, <2>8, <2>9, <2>10, <2>11, <2>12, <2>13, <2>14, <2>15 DEF Ensure, Proxy
<1>. QED
  BY <1>1

\* The steps of load() before the process is started change neither processes nor stops.
LEMMA LoadQuiet ==
    ASSUME Shape, NEW t \in Threads,
           MakeRoom(t) \/ VictimGone(t) \/ AlreadyUp(t) \/ SpawnRefused(t) \/ StartLoad(t)
    PROVE  Quiet
<1>1. cmds \in Seq(WideCommand)
  BY DEF Shape, StopShape
<1>2. UNCHANGED <<status, subproc, child, stopping, cmds>>
  BY DEF MakeRoom, VictimGone, AlreadyUp, SpawnRefused, StartLoad, registry
<1>. QED
  BY <1>1, <1>2, NoStops DEF Quiet, StopsRunning

\* A step that leaves the processes alone is calm.
LEMMA QuietCalm == Shape /\ Quiet => Calm
BY DEF Quiet, Calm, SameProcesses, Shape

\* One process changes and is not reaped.
LEMMA ProcessChanges ==
    ASSUME child \in Seq(Process), NEW i \in DOMAIN child, NEW p \in Process,
           child' = [child EXCEPT ![i] = p],
           p.model = child[i].model, p.watched = child[i].watched,
           child[i].life # "reaped", p.life # "reaped",
           p.life # "gone" =>
               child[i].life # "gone" /\ p.asked = child[i].asked /\ p.deadline = child[i].deadline
    PROVE  SameProcesses
<1>1. /\ child' \in Seq(Process) /\ Len(child') = Len(child)
      /\ child'[i] = p /\ \A k \in DOMAIN child : k # i => child'[k] = child[k]
  BY SeqExcept
<1>. QED
  BY <1>1 DEF SameProcesses

\* The steps of a child process, and its force-kill at the deadline.
LEMMA ProcessCalm ==
    ASSUME Shape, NEW i \in DOMAIN child,
           ChildReady(i) \/ ChildSleep(i) \/ ChildWake(i) \/ ChildExit(i) \/ ChildCrash(i) \/ DeadlineKill(i)
    PROVE  Calm
<1>0. child \in Seq(Process) /\ cmds \in Seq(WideCommand)
  BY DEF Shape, StopShape
<1>1. CASE ChildReady(i)
  <2>. DEFINE p == [child[i] EXCEPT !.life = "up", !.out = Append(@, "ready")]
  <2>1. child[i] \in Process /\ child[i].life # "reaped"
    BY <1>0, <1>1 DEF ChildReady, Alive
  <2>2. child' = [child EXCEPT ![i] = p]
    BY <1>1 DEF ChildReady
  <2>3. /\ p \in Process
        /\ p.model = child[i].model /\ p.watched = child[i].watched /\ p.life # "reaped"
        /\ p.life # "gone" =>
              child[i].life # "gone" /\ p.asked = child[i].asked /\ p.deadline = child[i].deadline
    BY <1>1, <2>1 DEF ChildReady, Process, Line
  <2>4. SameProcesses
    <3>. HIDE DEF p
    <3>. QED
      BY <1>0, <2>1, <2>2, <2>3, ProcessChanges
  <2>5. UNCHANGED <<status, subproc, stopping, cmds>>
    BY <1>1 DEF ChildReady, registry
  <2>. QED
    BY <1>0, <2>4, <2>5, NoStops DEF Calm, StopsRunning
<1>2. CASE ChildSleep(i)
  <2>. DEFINE p == [child[i] EXCEPT !.life = "asleep", !.out = Append(@, "sleeping")]
  <2>1. child[i] \in Process /\ child[i].life # "reaped"
    BY <1>0, <1>2 DEF ChildSleep, Alive
  <2>2. child' = [child EXCEPT ![i] = p]
    BY <1>2 DEF ChildSleep
  <2>3. /\ p \in Process
        /\ p.model = child[i].model /\ p.watched = child[i].watched /\ p.life # "reaped"
        /\ p.life # "gone" =>
              child[i].life # "gone" /\ p.asked = child[i].asked /\ p.deadline = child[i].deadline
    BY <1>2, <2>1 DEF ChildSleep, Process, Line
  <2>4. SameProcesses
    <3>. HIDE DEF p
    <3>. QED
      BY <1>0, <2>1, <2>2, <2>3, ProcessChanges
  <2>5. UNCHANGED <<status, subproc, stopping, cmds>>
    BY <1>2 DEF ChildSleep, registry
  <2>. QED
    BY <1>0, <2>4, <2>5, NoStops DEF Calm, StopsRunning
<1>3. CASE ChildWake(i)
  <2>. DEFINE p == [child[i] EXCEPT !.life = "waking", !.out = Append(@, "loading")]
  <2>1. child[i] \in Process /\ child[i].life # "reaped"
    BY <1>0, <1>3 DEF ChildWake, Alive
  <2>2. child' = [child EXCEPT ![i] = p]
    BY <1>3 DEF ChildWake
  <2>3. /\ p \in Process
        /\ p.model = child[i].model /\ p.watched = child[i].watched /\ p.life # "reaped"
        /\ p.life # "gone" =>
              child[i].life # "gone" /\ p.asked = child[i].asked /\ p.deadline = child[i].deadline
    BY <1>3, <2>1 DEF ChildWake, Process, Line
  <2>4. SameProcesses
    <3>. HIDE DEF p
    <3>. QED
      BY <1>0, <2>1, <2>2, <2>3, ProcessChanges
  <2>5. UNCHANGED <<status, subproc, stopping, cmds>>
    BY <1>3 DEF ChildWake, registry
  <2>. QED
    BY <1>0, <2>4, <2>5, NoStops DEF Calm, StopsRunning
<1>4. CASE ChildExit(i)
  <2>. DEFINE p == [child[i] EXCEPT !.life = "gone"]
  <2>1. child[i] \in Process /\ child[i].life # "reaped"
    BY <1>0, <1>4 DEF ChildExit, Alive
  <2>2. child' = [child EXCEPT ![i] = p]
    BY <1>4 DEF ChildExit
  <2>3. /\ p \in Process
        /\ p.model = child[i].model /\ p.watched = child[i].watched /\ p.life # "reaped"
        /\ p.life # "gone" =>
              child[i].life # "gone" /\ p.asked = child[i].asked /\ p.deadline = child[i].deadline
    BY <1>4, <2>1 DEF ChildExit, Process, Line
  <2>4. SameProcesses
    <3>. HIDE DEF p
    <3>. QED
      BY <1>0, <2>1, <2>2, <2>3, ProcessChanges
  <2>5. UNCHANGED <<status, subproc, stopping, cmds>>
    BY <1>4 DEF ChildExit, registry
  <2>. QED
    BY <1>0, <2>4, <2>5, NoStops DEF Calm, StopsRunning
<1>5. CASE ChildCrash(i)
  <2>. DEFINE p == [child[i] EXCEPT !.life = "gone", !.clean = FALSE]
  <2>1. child[i] \in Process /\ child[i].life # "reaped"
    BY <1>0, <1>5 DEF ChildCrash, Alive, Kill
  <2>2. child' = [child EXCEPT ![i] = p]
    BY <1>5 DEF ChildCrash, Kill
  <2>3. /\ p \in Process
        /\ p.model = child[i].model /\ p.watched = child[i].watched /\ p.life # "reaped"
        /\ p.life # "gone" =>
              child[i].life # "gone" /\ p.asked = child[i].asked /\ p.deadline = child[i].deadline
    BY <1>5, <2>1 DEF ChildCrash, Process, Line
  <2>4. SameProcesses
    <3>. HIDE DEF p
    <3>. QED
      BY <1>0, <2>1, <2>2, <2>3, ProcessChanges
  <2>5. UNCHANGED <<status, subproc, stopping, cmds>>
    BY <1>5 DEF ChildCrash, registry
  <2>. QED
    BY <1>0, <2>4, <2>5, NoStops DEF Calm, StopsRunning
<1>6. CASE DeadlineKill(i)
  <2>. DEFINE p == [child[i] EXCEPT !.life = "gone", !.clean = FALSE, !.deadline = FALSE]
  <2>1. child[i] \in Process /\ child[i].life # "reaped"
    BY <1>0, <1>6 DEF DeadlineKill, Alive
  <2>2. child' = [child EXCEPT ![i] = p]
    BY <1>6 DEF DeadlineKill
  <2>3. /\ p \in Process
        /\ p.model = child[i].model /\ p.watched = child[i].watched /\ p.life # "reaped"
        /\ p.life # "gone" =>
              child[i].life # "gone" /\ p.asked = child[i].asked /\ p.deadline = child[i].deadline
    BY <1>6, <2>1 DEF DeadlineKill, Process, Line
  <2>4. SameProcesses
    <3>. HIDE DEF p
    <3>. QED
      BY <1>0, <2>1, <2>2, <2>3, ProcessChanges
  <2>5. UNCHANGED <<status, subproc, stopping, cmds>>
    BY <1>6 DEF DeadlineKill, registry
  <2>. QED
    BY <1>0, <2>4, <2>5, NoStops DEF Calm, StopsRunning
<1>. QED
  BY <1>1, <1>2, <1>3, <1>4, <1>5, <1>6

\* unload() kills a child that is loading and asks any other to exit.
LEMMA UnloadCalm ==
    ASSUME Shape, ChildInv, NEW m \in Models, Unload(m), UNCHANGED registry
    PROVE  Calm
<1>0. child \in Seq(Process)
  BY DEF Shape
<1>1. StopsRunning
  BY UnloadStops DEF StopsRunning
<1>2. SameProcesses
  <2>1. CASE is_running(status[m]) /\ status[m] = "loading" /\ Alive(subproc[m])
    <3>. DEFINE i == subproc[m]
                p == [child[i] EXCEPT !.life = "gone", !.clean = FALSE]
    <3>1. i \in DOMAIN child /\ child[i] \in Process /\ child[i].life # "reaped"
      BY <1>0, <2>1 DEF ChildInv, Instance2
    <3>2. child' = [child EXCEPT ![i] = p]
      BY <2>1 DEF Unload, Kill
    <3>3. /\ p \in Process /\ p.model = child[i].model /\ p.watched = child[i].watched /\ p.life = "gone"
      BY <3>1 DEF Process
    <3>. HIDE DEF p, i
    <3>. QED
      BY <1>0, <3>1, <3>2, <3>3, ProcessChanges
  <2>2. CASE ~(is_running(status[m]) /\ status[m] = "loading" /\ Alive(subproc[m]))
    <3>1. child' = child
      BY <2>2 DEF Unload
    <3>. QED
      BY <1>0, <3>1 DEF SameProcesses
  <2>. QED
    BY <2>1, <2>2
<1>. QED
  BY <1>1, <1>2 DEF Calm, registry

\* A line of a process that is not reaped leaves its model running.
LEMMA LineCalm ==
    ASSUME Shape, ChildInv, NEW i \in DOMAIN child, ReadLine(i)
    PROVE  Calm
<1>. DEFINE m == child[i].model
            new == IF Head(child[i].out) = "ready" THEN "loaded" ELSE Head(child[i].out)
            p == [child[i] EXCEPT !.out = Tail(@)]
<1>0. child \in Seq(Process) /\ status \in [Models -> Statuses]
  BY DEF Shape, RegistryShape
<1>1. child[i] \in Process /\ child[i].life # "reaped" /\ m \in Models /\ child[i].out \in Seq(Line) /\ child[i].out # << >>
  <2>1. child[i].out # << >>
    BY DEF ReadLine
  <2>2. child[i].life # "reaped"
    BY <2>1 DEF ChildInv, ReadToTheEnd
  <2>3. child[i] \in Process
    BY <1>0
  <2>. QED
    BY <2>1, <2>2, <2>3 DEF Process
<1>2. Head(child[i].out) \in Line
  BY <1>1
<1>3. is_running(new) /\ is_running(status[m]) /\ new # "unloaded"
  BY <1>1, <1>2 DEF is_running, Line, ChildInv, Instance1
<1>4. p \in Process /\ p.model = m /\ p.watched = child[i].watched /\ p.life = child[i].life
      /\ p.asked = child[i].asked /\ p.deadline = child[i].deadline
  BY <1>1 DEF Process
<1>5. child' = [child EXCEPT ![i] = p]
  BY DEF ReadLine
<1>6. SameProcesses
  <2>. HIDE DEF p
  <2>. QED
    BY <1>0, <1>1, <1>4, <1>5, ProcessChanges
<1>7. update_status(m, new, FALSE) /\ subproc' = subproc
  BY DEF ReadLine
<1>. HIDE DEF new, p
<1>8. \A v \in Models : is_running(status'[v]) = is_running(status[v])
  BY <1>0, <1>1, <1>3, <1>7 DEF update_status
<1>9. StopsRunning
  <2>1. Tick([status EXCEPT ![m] = new], req_count, stopping, queue)
    BY <1>3, <1>7 DEF update_status
  <2>2. \A v \in Models : is_running([status EXCEPT ![m] = new][v]) = is_running(status[v])
    BY <1>0, <1>1, <1>3
  <2>3. \E V \in SUBSET Models : StopsAdded(stopping, V) /\ \A v \in V : is_running([status EXCEPT ![m] = new][v])
    BY <2>1, TickStops
  <2>. QED
    BY <2>2, <2>3 DEF StopsRunning
<1>. QED
  BY <1>6, <1>7, <1>8, <1>9 DEF Calm

-----------------------------------------------------------------------------
(* Processes: what a calm step preserves.                                  *)

\* A calm step keeps ChildInv.
LEMMA CalmChild == Shape /\ ChildInv /\ Calm => ChildInv'
<1>. SUFFICES ASSUME Shape, ChildInv, Calm PROVE ChildInv'
  OBVIOUS
<1>0. DOMAIN child' = DOMAIN child
  BY DEF Calm, SameProcesses, Shape
<1>1. ASSUME NEW i \in DOMAIN child PROVE child[i].model \in Models
  <2>1. child[i] \in Process
    BY DEF Shape
  <2>. QED
    BY <2>1 DEF Process
<1>2. Instance1'
  BY <1>0, <1>1 DEF ChildInv, Instance1, Calm, SameProcesses
<1>3. Instance2'
  BY <1>0 DEF ChildInv, Instance2, Calm, SameProcesses
<1>4. ReadToTheEnd'
  BY <1>0 DEF ChildInv, ReadToTheEnd, Calm, SameProcesses
<1>. QED
  BY <1>2, <1>3, <1>4 DEF ChildInv

\* A calm step keeps RoomInv: the running models are the same.
LEMMA CalmRoom == RoomInv /\ Calm => RoomInv'
<1>. SUFFICES ASSUME RoomInv, Calm PROVE RoomInv'
  OBVIOUS
<1>1. Running(status') = Running(status)
  BY DEF Calm, Running
<1>. QED
  BY <1>1 DEF RoomInv


\* Stops go to the end of the commands.
LEMMA StopsAppended ==
    ASSUME Shape, NEW stp, NEW V \in SUBSET Models, StopsAdded(stp, V)
    PROVE  /\ DOMAIN cmds \subseteq DOMAIN cmds' /\ \A k \in DOMAIN cmds : cmds'[k] = cmds[k]
           /\ \A k \in DOMAIN cmds' : k \in DOMAIN cmds \/ (cmds'[k].type = "STOP" /\ cmds'[k].model \in V)
           /\ \A m \in V \ stp : \E n \in DOMAIN cmds' : IsStop(n, m)' /\ \A l \in DOMAIN cmds : l < n
<1>1. cmds \in Seq(WideCommand) /\ Len(cmds) \in Nat /\ DOMAIN cmds = 1 .. Len(cmds)
  BY DEF Shape, StopShape
<1>2. PICK c \in Seq(WideCommand) :
          /\ cmds' = cmds \o c
          /\ \A k \in DOMAIN c : c[k].type = "STOP" /\ c[k].model \in V
          /\ \A m \in V \ stp : \E k \in DOMAIN c : c[k].type = "STOP" /\ c[k].model = m
  BY DEF StopsAdded
<1>3. Len(c) \in Nat /\ DOMAIN c = 1 .. Len(c)
  OBVIOUS
<1>4. /\ DOMAIN cmds' = 1 .. Len(cmds) + Len(c)
      /\ \A k \in 1 .. Len(cmds) : cmds'[k] = cmds[k]
      /\ \A k \in 1 .. Len(c) : cmds'[Len(cmds) + k] = c[k]
  <2>1. \A k \in 1 .. Len(cmds) + Len(c) : (cmds \o c)[k] = IF k <= Len(cmds) THEN cmds[k] ELSE c[k - Len(cmds)]
    BY <1>1, ConcatProperties
  <2>2. Len(cmds \o c) = Len(cmds) + Len(c) /\ cmds \o c \in Seq(WideCommand)
    BY <1>1, ConcatProperties
  <2>. QED
    BY <1>1, <1>2, <1>3, <2>1, <2>2
<1>5. ASSUME NEW k \in DOMAIN cmds'
      PROVE  k \in DOMAIN cmds \/ (cmds'[k].type = "STOP" /\ cmds'[k].model \in V)
  <2>1. CASE k <= Len(cmds)
    BY <1>1, <1>4, <2>1
  <2>2. CASE ~(k <= Len(cmds))
    <3>1. k - Len(cmds) \in 1 .. Len(c) /\ Len(cmds) + (k - Len(cmds)) = k
      BY <1>1, <1>3, <1>4, <2>2
    <3>. QED
      BY <1>2, <1>3, <1>4, <3>1
  <2>. QED
    BY <2>1, <2>2
<1>6. ASSUME NEW m \in V \ stp
      PROVE  \E n \in DOMAIN cmds' : IsStop(n, m)' /\ \A l \in DOMAIN cmds : l < n
  <2>1. PICK k \in DOMAIN c : c[k].type = "STOP" /\ c[k].model = m
    BY <1>2
  <2>2. PICK n \in Nat : n = Len(cmds) + k
    BY <1>1, <1>3
  <2>3. n \in DOMAIN cmds' /\ cmds'[n] = c[k] /\ \A l \in DOMAIN cmds : l < n
    BY <1>1, <1>3, <1>4, <2>2
  <2>. QED
    BY <2>1, <2>3 DEF IsStop
<1>. QED
  BY <1>1, <1>3, <1>4, <1>5, <1>6

\* Stops do not touch the WATCHes, nor a stop that is under way ...
LEMMA StopsKeepWatch ==
    ASSUME Shape, WatchInv, NEW stp, NEW V \in SUBSET Models, StopsAdded(stp, V),
           DOMAIN child' = DOMAIN child, \A i \in DOMAIN child : child'[i].watched = child[i].watched
    PROVE  WatchInv'
<1>1. /\ DOMAIN cmds \subseteq DOMAIN cmds' /\ \A k \in DOMAIN cmds : cmds'[k] = cmds[k]
      /\ \A k \in DOMAIN cmds' : k \in DOMAIN cmds \/ cmds'[k].type = "STOP"
  BY StopsAppended
<1>2. ASSUME NEW k \in DOMAIN cmds', cmds'[k].type = "WATCH"
      PROVE  k \in DOMAIN cmds /\ cmds'[k] = cmds[k]
  BY <1>1, <1>2
<1>. QED
  BY <1>1, <1>2 DEF WatchInv, IsWatch

\* Commands are only appended, so that a stop still reaches its instance.
LEMMA StopsKeepReach ==
    ASSUME Shape, NEW stp, NEW V \in SUBSET Models, StopsAdded(stp, V),
           NEW m \in Models, subproc' = subproc, child'[subproc[m]].watched = child[subproc[m]].watched,
           Reaches(m)
    PROVE  Reaches(m)'
<1>1. DOMAIN cmds \subseteq DOMAIN cmds' /\ \A k \in DOMAIN cmds : cmds'[k] = cmds[k]
  BY StopsAppended
<1>. QED
  BY <1>1 DEF Reaches, IsStop, IsWatch

\* ... and a new one comes after the WATCH of its child.
LEMMA NewStopReaches ==
    ASSUME Shape, WatchInv, NEW stp, NEW V \in SUBSET Models, StopsAdded(stp, V),
           NEW m \in V \ stp, subproc[m] \in DOMAIN child,
           subproc' = subproc, child'[subproc[m]].watched = child[subproc[m]].watched
    PROVE  Reaches(m)'
<1>. DEFINE s == subproc[m]
<1>1. DOMAIN cmds \subseteq DOMAIN cmds' /\ \A k \in DOMAIN cmds : cmds'[k] = cmds[k]
  BY StopsAppended
<1>2. PICK n \in DOMAIN cmds' : IsStop(n, m)' /\ \A l \in DOMAIN cmds : l < n
  BY StopsAppended
<1>3. child[s].watched \/ \E l \in DOMAIN cmds : IsWatch(l, s)
  BY DEF WatchInv
<1>. QED
  BY <1>1, <1>2, <1>3 DEF Reaches, IsWatch

\* A stop that was sent earlier was sent for a model that is still stopping.
LEMMA OldStop ==
    ASSUME Shape, NEW stp, NEW V \in SUBSET Models, StopsAdded(stp, V),
           NEW k \in DOMAIN cmds', NEW m \in Models \ stopping', IsStop(k, m)'
    PROVE  k \in DOMAIN cmds /\ IsStop(k, m) /\ m \notin stp
<1>1. stopping' = stp \cup V
  BY DEF StopsAdded
<1>2. k \in DOMAIN cmds
  BY <1>1, StopsAppended DEF IsStop
<1>. QED
  BY <1>1, <1>2, StopsAppended DEF IsStop

\* A calm step keeps what is known of commands and stops.
LEMMA CalmStop == Shape /\ ChildInv /\ StopInv /\ Calm => StopInv'
<1>. SUFFICES ASSUME Shape, ChildInv, StopInv, Calm PROVE StopInv'
  OBVIOUS
<1>1. DOMAIN child' = DOMAIN child
  BY DEF Calm, SameProcesses, Shape
<1>2. PICK V \in SUBSET Models : StopsAdded(stopping, V) /\ \A m \in V : is_running(status[m])
  BY DEF Calm, StopsRunning
<1>3. stopping' = stopping \cup V
  BY <1>2 DEF StopsAdded
<1>4. WatchInv'
  BY <1>1, <1>2, StopsKeepWatch DEF StopInv, Calm, SameProcesses
<1>5. StaleStop'
  <2>. SUFFICES ASSUME NEW k \in DOMAIN cmds', NEW m \in Models \ stopping', IsStop(k, m)',
                       NEW i \in DOMAIN child, child[i].model = m, child[i].life # "reaped"
                PROVE  \E l \in DOMAIN cmds' : l > k /\ IsWatch(l, i)'
    BY <1>1 DEF StaleStop, Calm, SameProcesses
  <2>1. k \in DOMAIN cmds /\ IsStop(k, m) /\ m \in Models \ stopping
    BY <1>2, OldStop
  <2>2. PICK l \in DOMAIN cmds : l > k /\ IsWatch(l, i)
    BY <2>1 DEF StopInv, StaleStop
  <2>. QED
    BY <1>2, <2>2, StopsAppended DEF IsWatch
<1>6. UnderWay'
  <2>. SUFFICES ASSUME NEW m \in stopping'
                PROVE  is_running(status'[m]) /\ (child'[subproc[m]].deadline \/ ~Alive(subproc[m])' \/ Reaches(m)')
    BY DEF UnderWay, Calm
  <2>. DEFINE s == subproc[m]
  <2>1. m \in Models /\ is_running(status[m])
    BY <1>3, <1>2 DEF StopInv, UnderWay, Shape, StopShape
  <2>2. is_running(status'[m]) /\ subproc' = subproc
    BY <2>1 DEF Calm
  <2>3. s \in DOMAIN child /\ child'[s].watched = child[s].watched
    BY <2>1 DEF ChildInv, Instance2, Calm, SameProcesses
  <2>4. CASE m \in stopping /\ (child[s].deadline \/ ~Alive(s))
    BY <2>2, <2>3, <2>4 DEF Calm, SameProcesses, Alive
  <2>5. CASE m \in stopping /\ Reaches(m)
    BY <1>2, <2>1, <2>2, <2>3, <2>5, StopsKeepReach
  <2>6. CASE m \notin stopping
    BY <1>2, <1>3, <2>2, <2>3, <2>6, NewStopReaches DEF StopInv
  <2>. QED
    BY <2>2, <2>4, <2>5, <2>6 DEF StopInv, UnderWay
<1>7. StopIsMeant'
  BY <1>1, <1>3 DEF StopInv, StopIsMeant, Calm, SameProcesses, Alive
<1>. QED
  BY <1>4, <1>5, <1>6, <1>7 DEF StopInv

-----------------------------------------------------------------------------
(* The reaping of a child: its model is down, and every child of it is      *)
(* reaped by now.                                                           *)

\* What Reap does, once it is known that only the last instance of a model can be alive.
LEMMA Reaped ==
    ASSUME Shape, ChildInv, NEW i \in DOMAIN child, Reap(i)
    PROVE  LET m == child[i].model
           IN  /\ m \in Models /\ subproc[m] = i /\ subproc' = subproc /\ is_running(status[m])
               /\ status' = [status EXCEPT ![m] = "unloaded"]
               /\ \E V \in SUBSET Models : StopsAdded(stopping \ {m}, V) /\ \A v \in V : v # m /\ is_running(status[v])
               /\ child' \in Seq(Process) /\ DOMAIN child' = DOMAIN child
               /\ child'[i] = [child[i] EXCEPT !.life = "reaped"]
               /\ \A k \in DOMAIN child : k # i => child'[k] = child[k]
               /\ \A k \in DOMAIN child : child[k].model = m => child'[k].life = "reaped"
<1>. DEFINE m == child[i].model
            st == [status EXCEPT ![m] = "unloaded"]
            p == [child[i] EXCEPT !.life = "reaped"]
<1>0. child \in Seq(Process) /\ status \in [Models -> Statuses]
  BY DEF Shape, RegistryShape
<1>1. child[i] \in Process /\ child[i].life = "gone"
  BY <1>0 DEF Reap
<1>2. m \in Models /\ p \in Process
  BY <1>1 DEF Process
<1>3. subproc[m] = i /\ is_running(status[m])
  BY <1>1 DEF ChildInv, Instance1
<1>4. subproc' = subproc /\ child' = [child EXCEPT ![i] = p]
  BY DEF Reap
<1>5. /\ child' \in Seq(Process) /\ DOMAIN child' = DOMAIN child
      /\ child'[i] = p /\ \A k \in DOMAIN child : k # i => child'[k] = child[k]
  <2>. HIDE DEF p
  <2>. QED
    BY <1>0, <1>2, <1>4, SeqExcept
<1>6. ASSUME NEW k \in DOMAIN child, child[k].model = m PROVE child'[k].life = "reaped"
  <2>1. CASE k = i
    <3>1. p.life = "reaped"
      BY <1>1 DEF Process
    <3>. QED
      BY <1>5, <2>1, <3>1
  <2>2. CASE k # i
    BY <1>3, <1>5, <1>6, <2>2 DEF ChildInv, Instance1
  <2>. QED
    BY <2>1, <2>2
<1>7. status' = st /\ Tick(st, req_count, stopping \ {m}, queue)
  BY <1>3 DEF Reap, update_status
<1>8. \E V \in SUBSET Models : StopsAdded(stopping \ {m}, V) /\ \A v \in V : v # m /\ is_running(status[v])
  <2>1. PICK V \in SUBSET Models : StopsAdded(stopping \ {m}, V) /\ \A v \in V : is_running(st[v])
    BY <1>7, TickStops
  <2>2. ASSUME NEW v \in V PROVE v # m /\ is_running(status[v])
    BY <1>0, <1>2, <2>1, <2>2 DEF is_running
  <2>. QED
    BY <2>1, <2>2
<1>. QED
  BY <1>2, <1>3, <1>4, <1>5, <1>6, <1>7, <1>8

\* Only the last instance of a model can be alive after a process was reaped.
LEMMA ReapChild ==
    ASSUME Shape, ChildInv, NEW i \in DOMAIN child, Reap(i)
    PROVE  ChildInv'
<1>. DEFINE m == child[i].model
<1>0. child[i] \in Process /\ status \in [Models -> Statuses]
  BY DEF Shape, RegistryShape
<1>1. /\ m \in Models /\ subproc[m] = i /\ subproc' = subproc
      /\ status' = [status EXCEPT ![m] = "unloaded"]
      /\ DOMAIN child' = DOMAIN child
      /\ child'[i] = [child[i] EXCEPT !.life = "reaped"]
      /\ \A k \in DOMAIN child : k # i => child'[k] = child[k]
      /\ \A k \in DOMAIN child : child[k].model = m => child'[k].life = "reaped"
  BY Reaped
<1>2. child'[i].model = m /\ child'[i].out = << >>
  BY <1>0, <1>1 DEF Process, Reap
<1>3. Instance1'
  <2>. SUFFICES ASSUME NEW k \in DOMAIN child, child'[k].life # "reaped"
                PROVE  subproc[child'[k].model] = k /\ is_running(status'[child'[k].model])
    BY <1>1 DEF Instance1
  <2>1. k # i /\ child'[k] = child[k] /\ child[k].model # m
    BY <1>1
  <2>. QED
    BY <1>0, <1>1, <2>1 DEF ChildInv, Instance1
<1>4. Instance2'
  <2>. SUFFICES ASSUME NEW n \in Models, is_running(status'[n])
                PROVE  subproc[n] \in DOMAIN child /\ child'[subproc[n]].model = n /\ child'[subproc[n]].life # "reaped"
    BY <1>1 DEF Instance2
  <2>1. n # m /\ status'[n] = status[n]
    BY <1>0, <1>1 DEF is_running
  <2>2. subproc[n] \in DOMAIN child /\ child[subproc[n]].model = n /\ child[subproc[n]].life # "reaped"
    BY <2>1 DEF ChildInv, Instance2
  <2>. QED
    BY <1>1, <2>1, <2>2
<1>5. ReadToTheEnd'
  BY <1>1, <1>2 DEF ChildInv, ReadToTheEnd
<1>. QED
  BY <1>3, <1>4, <1>5 DEF ChildInv

\* A reaped process takes the stops of its model with it.
LEMMA ReapStop ==
    ASSUME Shape, ChildInv, StopInv, NEW i \in DOMAIN child, Reap(i)
    PROVE  StopInv'
<1>. DEFINE m == child[i].model
<1>0. child[i] \in Process /\ status \in [Models -> Statuses]
  BY DEF Shape, RegistryShape
<1>1. /\ m \in Models /\ subproc[m] = i /\ subproc' = subproc
      /\ status' = [status EXCEPT ![m] = "unloaded"]
      /\ DOMAIN child' = DOMAIN child
      /\ child'[i] = [child[i] EXCEPT !.life = "reaped"]
      /\ \A k \in DOMAIN child : k # i => child'[k] = child[k]
      /\ \A k \in DOMAIN child : child[k].model = m => child'[k].life = "reaped"
  BY Reaped
<1>2. PICK V \in SUBSET Models : StopsAdded(stopping \ {m}, V) /\ \A v \in V : v # m /\ is_running(status[v])
  BY Reaped
<1>3. stopping' = (stopping \ {m}) \cup V
  BY <1>2 DEF StopsAdded
<1>4. child'[i].watched = child[i].watched /\ child'[i].model = m
  BY <1>0, <1>1 DEF Process
<1>5. WatchInv'
  <2>1. \A k \in DOMAIN child : child'[k].watched = child[k].watched
    BY <1>1, <1>4
  <2>. QED
    BY <1>1, <1>2, <2>1, StopsKeepWatch DEF StopInv
<1>6. StaleStop'
  <2>. SUFFICES ASSUME NEW k \in DOMAIN cmds', NEW n \in Models \ stopping', IsStop(k, n)',
                       NEW j \in DOMAIN child, child'[j].model = n, child'[j].life # "reaped"
                PROVE  \E l \in DOMAIN cmds' : l > k /\ IsWatch(l, j)'
    BY <1>1 DEF StaleStop
  <2>1. k \in DOMAIN cmds /\ IsStop(k, n) /\ n \notin stopping \ {m}
    BY <1>2, OldStop
  <2>2. j # i /\ child'[j] = child[j] /\ n # m
    BY <1>1
  <2>3. PICK l \in DOMAIN cmds : l > k /\ IsWatch(l, j)
    BY <2>1, <2>2 DEF StopInv, StaleStop
  <2>. QED
    BY <1>2, <2>3, StopsAppended DEF IsWatch
<1>7. UnderWay'
  <2>. SUFFICES ASSUME NEW n \in stopping'
                PROVE  is_running(status'[n]) /\ (child'[subproc[n]].deadline \/ ~Alive(subproc[n])' \/ Reaches(n)')
    BY <1>1 DEF UnderWay
  <2>. DEFINE s == subproc[n]
  <2>1. n \in Models /\ n # m /\ is_running(status[n])
    BY <1>2, <1>3 DEF StopInv, UnderWay, Shape, StopShape
  <2>2. status'[n] = status[n]
    BY <1>0, <1>1, <2>1
  <2>3. s \in DOMAIN child /\ child'[s] = child[s]
    BY <1>1, <2>1 DEF ChildInv, Instance2
  <2>4. CASE n \in stopping /\ (child[s].deadline \/ ~Alive(s))
    BY <1>1, <2>1, <2>2, <2>3, <2>4 DEF Alive
  <2>5. CASE n \in stopping /\ Reaches(n)
    BY <1>1, <1>2, <2>1, <2>2, <2>3, <2>5, StopsKeepReach
  <2>6. CASE n \notin stopping
    BY <1>1, <1>2, <1>3, <2>1, <2>2, <2>3, <2>6, NewStopReaches DEF StopInv
  <2>. QED
    BY <2>4, <2>5, <2>6 DEF StopInv, UnderWay
<1>8. StopIsMeant'
  <2>. SUFFICES ASSUME NEW j \in DOMAIN child, Alive(j)', child'[j].asked \/ child'[j].deadline
                PROVE  child'[j].model \in stopping'
    BY <1>1 DEF StopIsMeant
  <2>1. child'[j] = child[j] /\ child[j].model # m
    BY <1>1 DEF Alive
  <2>. QED
    BY <1>3, <2>1 DEF StopInv, StopIsMeant, Alive
<1>. QED
  BY <1>5, <1>6, <1>7, <1>8 DEF StopInv

\* A reaped process makes room.
LEMMA ReapRoom ==
    ASSUME Shape, ChildInv, RoomInv, NEW i \in DOMAIN child, Reap(i)
    PROVE  RoomInv'
<1>. DEFINE m == child[i].model
<1>1. m \in Models /\ status' = [status EXCEPT ![m] = "unloaded"] /\ status \in [Models -> Statuses]
  BY Reaped DEF Shape, RegistryShape
<1>2. Running(status') \subseteq Running(status)
  BY <1>1 DEF Running, is_running
<1>3. IsFiniteSet(Running(status))
  BY RouterAssumption, FS_Subset DEF Running
<1>4. /\ Cardinality(Running(status')) <= Cardinality(Running(status))
      /\ Cardinality(Running(status')) \in Nat /\ Cardinality(Running(status)) \in Nat
  BY <1>2, <1>3, FS_Subset, FS_CardinalityType
<1>. QED
  BY <1>4, RouterAssumption DEF RoomInv

-----------------------------------------------------------------------------
(* The spawn of a child: the instance before it, if any, is reaped.         *)

NewChild(m) ==
    [model |-> m, watched |-> FALSE, asked |-> FALSE, deadline |-> FALSE,
     clean |-> TRUE, life |-> "starting", out |-> <<>>]

\* What Spawn does: a new process, registered, that the monitor has yet to watch.
LEMMA SpawnedChild ==
    ASSUME Shape, InRange, ChildInv, NEW t \in Threads, Spawn(t)
    PROVE  LET m == Target[t]
               n == Len(child) + 1
           IN  /\ m \in Models /\ ~is_running(status[m]) /\ has_capacity
               /\ n \in Nat \ {0} /\ n \notin DOMAIN child
               /\ child' \in Seq(Process) /\ DOMAIN child' = DOMAIN child \cup {n}
               /\ child'[n] = NewChild(m) /\ \A k \in DOMAIN child : child'[k] = child[k]
               /\ status' = [status EXCEPT ![m] = "loading"]
               /\ subproc' = [subproc EXCEPT ![m] = n]
               /\ stopping' = stopping
               /\ cmds' = Append(cmds, [type |-> "WATCH", inst |-> n])
<1>. DEFINE m == Target[t]
            n == Len(child) + 1
            p == NewChild(m)
<1>0. child \in Seq(Process) /\ Len(child) \in Nat /\ subproc \in [Models -> Nat]
  BY DEF Shape, RegistryShape
<1>1. m \in Models /\ status[m] = "unloaded" /\ has_capacity
  BY RouterAssumption DEF Spawn, MaySpawn
<1>2. ~is_running(status[m])
  BY <1>1 DEF is_running
<1>3. ~(subproc[m] # 0 /\ Alive(subproc[m]))
  BY <1>1, <1>2 DEF InRange, ChildInv, Instance1, Alive
<1>4. child' = Append(child, p)
  BY <1>3 DEF Spawn, NewChild
<1>5. p \in Process
  BY <1>1, EmptySeq DEF NewChild, Process
<1>. HIDE DEF p
<1>6. /\ Append(child, p) \in Seq(Process) /\ Len(Append(child, p)) = Len(child) + 1
      /\ \A k \in 1 .. Len(child) : Append(child, p)[k] = child[k]
      /\ Append(child, p)[Len(child) + 1] = p
  BY <1>0, <1>5, AppendProperties
<1>7. /\ child' \in Seq(Process) /\ DOMAIN child' = DOMAIN child \cup {n} /\ n \notin DOMAIN child
      /\ child'[n] = p /\ \A k \in DOMAIN child : child'[k] = child[k]
  <2>1. DOMAIN child = 1 .. Len(child) /\ DOMAIN child' = 1 .. Len(child) + 1
    BY <1>0, <1>4, <1>6
  <2>. QED
    BY <1>0, <1>4, <1>6, <2>1
<1>8. /\ status' = [status EXCEPT ![m] = "loading"]
      /\ subproc' = [subproc EXCEPT ![m] = n]
      /\ stopping' = stopping
      /\ cmds' = Append(cmds, [type |-> "WATCH", inst |-> n])
  BY DEF Spawn
<1>. QED
  BY <1>0, <1>1, <1>2, <1>7, <1>8 DEF p

\* The process that is started is the last instance of its model.
LEMMA SpawnChild ==
    ASSUME Shape, InRange, ChildInv, NEW t \in Threads, Spawn(t)
    PROVE  ChildInv'
<1>. DEFINE m == Target[t]
            n == Len(child) + 1
<1>0. status \in [Models -> Statuses] /\ subproc \in [Models -> Nat] /\ \A k \in DOMAIN child : child[k] \in Process
  BY DEF Shape, RegistryShape
<1>1. /\ m \in Models /\ ~is_running(status[m])
      /\ n \notin DOMAIN child /\ DOMAIN child' = DOMAIN child \cup {n}
      /\ child'[n] = NewChild(m) /\ \A k \in DOMAIN child : child'[k] = child[k]
      /\ status' = [status EXCEPT ![m] = "loading"]
      /\ subproc' = [subproc EXCEPT ![m] = n]
  BY SpawnedChild
<1>. HIDE DEF m, n
<1>2. child'[n].model = m /\ child'[n].life = "starting"
  BY <1>1 DEF NewChild
<1>3. subproc'[m] = n /\ is_running(status'[m])
  BY <1>0, <1>1 DEF is_running
<1>4. \A v \in Models : v # m => subproc'[v] = subproc[v] /\ status'[v] = status[v]
  BY <1>0, <1>1
<1>5. \A k \in DOMAIN child : child[k].model \in Models
  BY <1>0 DEF Process
<1>6. Instance1'
  BY <1>1, <1>2, <1>3, <1>4, <1>5 DEF Instance1, ChildInv
<1>7. Instance2'
  BY <1>1, <1>2, <1>3, <1>4 DEF Instance2, ChildInv
<1>8. ReadToTheEnd'
  BY <1>1, <1>2 DEF ReadToTheEnd, ChildInv
<1>. QED
  BY <1>6, <1>7, <1>8 DEF ChildInv

\* The monitor is told of the new process behind the stops of earlier instances.
LEMMA SpawnStop ==
    ASSUME Shape, InRange, ChildInv, StopInv, NEW t \in Threads, Spawn(t)
    PROVE  StopInv'
<1>. DEFINE m == Target[t]
            n == Len(child) + 1
            w == Len(cmds) + 1
<1>0. /\ status \in [Models -> Statuses] /\ subproc \in [Models -> Nat] /\ \A k \in DOMAIN child : child[k] \in Process
      /\ cmds \in Seq(WideCommand) /\ Len(cmds) \in Nat /\ DOMAIN cmds = 1 .. Len(cmds) /\ stopping \subseteq Models
  BY DEF Shape, RegistryShape, StopShape
<1>1. /\ m \in Models /\ ~is_running(status[m]) /\ n \in Nat \ {0}
      /\ n \notin DOMAIN child /\ DOMAIN child' = DOMAIN child \cup {n}
      /\ child'[n] = NewChild(m) /\ \A k \in DOMAIN child : child'[k] = child[k]
      /\ status' = [status EXCEPT ![m] = "loading"]
      /\ subproc' = [subproc EXCEPT ![m] = n]
      /\ stopping' = stopping
      /\ cmds' = Append(cmds, [type |-> "WATCH", inst |-> n])
  BY SpawnedChild
<1>2. PICK i : i = n
  OBVIOUS
<1>3. PICK z : z = w
  OBVIOUS
<1>4. /\ DOMAIN cmds' = DOMAIN cmds \cup {z} /\ z \notin DOMAIN cmds /\ \A k \in DOMAIN cmds : k < z
      /\ cmds'[z] = [type |-> "WATCH", inst |-> i] /\ \A k \in DOMAIN cmds : cmds'[k] = cmds[k]
  <2>. DEFINE e == [type |-> "WATCH", inst |-> n]
  <2>1. e \in WideCommand
    BY <1>1 DEF WideCommand
  <2>. HIDE DEF e
  <2>2. /\ Append(cmds, e) \in Seq(WideCommand) /\ Len(Append(cmds, e)) = Len(cmds) + 1
        /\ \A k \in 1 .. Len(cmds) : Append(cmds, e)[k] = cmds[k]
        /\ Append(cmds, e)[Len(cmds) + 1] = e
    BY <1>0, <2>1, AppendProperties
  <2>3. cmds' = Append(cmds, e)
    BY <1>1 DEF e
  <2>4. DOMAIN cmds' = 1 .. Len(cmds) + 1
    BY <1>0, <2>2, <2>3
  <2>. QED
    BY <1>0, <1>2, <1>3, <2>2, <2>3, <2>4 DEF e
<1>. HIDE DEF w
<1>5. /\ i \notin DOMAIN child /\ DOMAIN child' = DOMAIN child \cup {i}
      /\ child'[i].model = m /\ child'[i].life = "starting" /\ ~child'[i].watched /\ ~child'[i].asked /\ ~child'[i].deadline
      /\ subproc' = [subproc EXCEPT ![m] = i]
  BY <1>1, <1>2 DEF NewChild
<1>. HIDE DEF m, n
<1>6. cmds'[z].type = "WATCH" /\ cmds'[z].inst = i
  BY <1>4
<1>7. \A v \in Models : v # m => subproc'[v] = subproc[v] /\ status'[v] = status[v]
  BY <1>0, <1>1, <1>5
<1>8. WatchInv'
  <2>1. \A k \in DOMAIN cmds' : cmds'[k].type = "WATCH" => cmds'[k].inst \in DOMAIN child' /\ ~child'[cmds'[k].inst].watched
    BY <1>1, <1>4, <1>5, <1>6 DEF StopInv, WatchInv
  <2>2. \A k \in DOMAIN cmds : cmds[k].type = "WATCH" => cmds[k].inst # i
    BY <1>5 DEF StopInv, WatchInv
  <2>3. ASSUME NEW k \in DOMAIN cmds', NEW l \in DOMAIN cmds',
               cmds'[k].type = "WATCH", cmds'[l].type = "WATCH", cmds'[k].inst = cmds'[l].inst
        PROVE  k = l
    BY <1>4, <1>6, <2>2, <2>3 DEF StopInv, WatchInv
  <2>4. ASSUME NEW j \in DOMAIN child', ~child'[j].watched
        PROVE  \E k \in DOMAIN cmds' : cmds'[k].type = "WATCH" /\ cmds'[k].inst = j
    <3>1. CASE j = i
      BY <1>4, <1>6, <3>1
    <3>2. CASE j # i
      BY <1>1, <1>4, <1>5, <2>4, <3>2 DEF StopInv, WatchInv, IsWatch
    <3>. QED
      BY <3>1, <3>2
  <2>. QED
    BY <2>1, <2>3, <2>4 DEF WatchInv, IsWatch
<1>9. StaleStop'
  <2>. SUFFICES ASSUME NEW k \in DOMAIN cmds', NEW v \in Models \ stopping, IsStop(k, v)',
                       NEW j \in DOMAIN child', child'[j].model = v, child'[j].life # "reaped"
                PROVE  \E l \in DOMAIN cmds' : l > k /\ IsWatch(l, j)'
    BY <1>1 DEF StaleStop
  <2>1. k \in DOMAIN cmds /\ IsStop(k, v) /\ k < z
    BY <1>4, <1>6 DEF IsStop
  <2>2. CASE j = i
    BY <1>0, <1>3, <1>4, <1>6, <2>1, <2>2 DEF IsWatch, w
  <2>3. CASE j # i
    <3>1. j \in DOMAIN child /\ child'[j] = child[j]
      BY <1>1, <1>5, <2>3
    <3>2. PICK l \in DOMAIN cmds : l > k /\ IsWatch(l, j)
      BY <2>1, <3>1 DEF StopInv, StaleStop
    <3>. QED
      BY <1>4, <3>2 DEF IsWatch
  <2>. QED
    BY <2>2, <2>3
<1>10. UnderWay'
  <2>. SUFFICES ASSUME NEW v \in stopping
                PROVE  /\ is_running(status'[v])
                       /\ child'[subproc[v]].deadline \/ ~Alive(subproc[v])' \/ Reaches(v)'
                       /\ subproc'[v] = subproc[v]
    BY <1>1 DEF UnderWay, Alive
  <2>1. v \in Models /\ v # m /\ is_running(status[v])
    BY <1>0, <1>1 DEF StopInv, UnderWay
  <2>2. is_running(status'[v]) /\ subproc'[v] = subproc[v]
    BY <1>7, <2>1
  <2>3. subproc[v] \in DOMAIN child /\ child'[subproc[v]] = child[subproc[v]]
    BY <1>1, <2>1 DEF ChildInv, Instance2
  <2>4. CASE child[subproc[v]].deadline \/ ~Alive(subproc[v])
    BY <1>7, <2>1, <2>2, <2>3, <2>4 DEF Alive
  <2>5. CASE Reaches(v)
    BY <1>4, <2>2, <2>3, <2>5 DEF Reaches, IsStop, IsWatch
  <2>. QED
    BY <2>2, <2>4, <2>5 DEF StopInv, UnderWay
<1>11. StopIsMeant'
  BY <1>1, <1>5 DEF StopInv, StopIsMeant, Alive
<1>. QED
  BY <1>8, <1>9, <1>10, <1>11 DEF StopInv

\* load() starts a process only where there is room for it.
LEMMA SpawnRoom ==
    ASSUME Shape, InRange, ChildInv, RoomInv, NEW t \in Threads, Spawn(t)
    PROVE  RoomInv'
<1>. DEFINE m == Target[t]
<1>0. status \in [Models -> Statuses]
  BY DEF Shape, RegistryShape
<1>1. /\ m \in Models /\ ~is_running(status[m]) /\ has_capacity
      /\ status' = [status EXCEPT ![m] = "loading"]
  BY SpawnedChild
<1>. HIDE DEF m
<1>2. Running(status') = Running(status) \cup {m} /\ m \notin Running(status)
  BY <1>0, <1>1 DEF Running, is_running
<1>3. IsFiniteSet(Running(status)) /\ Cardinality(Running(status)) \in Nat
  BY RouterAssumption, FS_Subset, FS_CardinalityType DEF Running
<1>4. Cardinality(Running(status')) = Cardinality(Running(status)) + 1
  BY <1>2, <1>3, FS_AddElement
<1>. QED
  BY <1>1, <1>3, <1>4, RouterAssumption DEF RoomInv, has_capacity

-----------------------------------------------------------------------------
(* The monitor handles a command.                                           *)

\* The child a STOP finds: the instance of its model, once it is watched.
LEMMA NewestIs ==
    ASSUME Shape, ChildInv, NEW m \in Models
    PROVE  /\ Newest(m) # 0 =>
                  /\ Newest(m) \in DOMAIN child /\ child[Newest(m)].model = m
                  /\ child[Newest(m)].watched /\ child[Newest(m)].life # "reaped"
           /\ is_running(status[m]) /\ child[subproc[m]].watched => Newest(m) = subproc[m] /\ Newest(m) # 0
<1>. DEFINE S == {i \in DOMAIN child : child[i].model = m /\ child[i].watched /\ child[i].life # "reaped"}
<1>1. Newest(m) = IF S = {} THEN 0 ELSE CHOOSE i \in S : \A j \in S : j <= i
  BY DEF Newest
<1>2. S \subseteq {subproc[m]}
  BY DEF ChildInv, Instance1
<1>3. DOMAIN child \subseteq Nat \ {0}
  BY DEF Shape
<1>4. ASSUME S # {} PROVE Newest(m) = subproc[m] /\ Newest(m) \in S /\ Newest(m) # 0
  <2>1. S = {subproc[m]}
    BY <1>2, <1>4
  <2>2. subproc[m] \in Nat \ {0}
    BY <1>3, <2>1
  <2>3. \A j \in S : j <= subproc[m]
    BY <2>1, <2>2
  <2>. QED
    BY <1>1, <2>1, <2>2, <2>3
<1>5. is_running(status[m]) /\ child[subproc[m]].watched => S # {}
  BY DEF ChildInv, Instance2
<1>. QED
  BY <1>1, <1>4, <1>5

\* The commands after the first keep their order.
LEMMA TailIs ==
    ASSUME Shape, cmds # << >>, cmds' = Tail(cmds)
    PROVE  /\ cmds' \in Seq(WideCommand) /\ cmds[1] \in WideCommand /\ Head(cmds) = cmds[1] /\ 1 \in DOMAIN cmds
           /\ \A k \in DOMAIN cmds' : k \in Nat \ {0} /\ k + 1 \in DOMAIN cmds /\ cmds'[k] = cmds[k + 1]
           /\ \A k \in DOMAIN cmds : k \in Nat /\ (k # 1 => k - 1 \in DOMAIN cmds' /\ cmds'[k - 1] = cmds[k])
<1>1. cmds \in Seq(WideCommand) /\ Len(cmds) \in Nat \ {0}
  BY DEF Shape, StopShape
<1>. QED
  BY <1>1, HeadTailProperties

\* What handling the first command does to the processes.
LEMMA Handled ==
    ASSUME Shape, ChildInv, StopInv, HandleCommand
    PROVE  /\ child' \in Seq(Process) /\ DOMAIN child' = DOMAIN child
           /\ \A i \in DOMAIN child :
                 child'[i].model = child[i].model /\ child'[i].life = child[i].life /\ child'[i].out = child[i].out
           /\ UNCHANGED <<registry, stopping>>
           /\ \/ /\ cmds[1].type = "WATCH" /\ cmds[1].inst \in DOMAIN child
                 /\ child'[cmds[1].inst].watched
                 /\ \A i \in DOMAIN child :
                       /\ i # cmds[1].inst => child'[i].watched = child[i].watched
                       /\ child'[i].asked = child[i].asked /\ child'[i].deadline = child[i].deadline
              \/ /\ cmds[1].type = "STOP" /\ cmds[1].model \in Models
                 /\ \A i \in DOMAIN child :
                       /\ child'[i].watched = child[i].watched
                       /\ i # Newest(cmds[1].model) => child'[i].asked = child[i].asked
                       /\ child'[i].deadline = (child[i].deadline \/ i = Newest(cmds[1].model))
<1>. DEFINE c == cmds[1]
<1>0. child \in Seq(Process) /\ \A k \in DOMAIN child : child[k] \in Process
  BY DEF Shape
<1>1. c \in WideCommand /\ Head(cmds) = c /\ 1 \in DOMAIN cmds
  BY TailIs DEF HandleCommand
<1>2. UNCHANGED <<registry, stopping>>
  BY DEF HandleCommand
<1>3. CASE c.type = "WATCH"
  <2>. DEFINE i == c.inst
              p == [child[i] EXCEPT !.watched = TRUE]
  <2>1. i \in DOMAIN child
    BY <1>1, <1>3 DEF StopInv, WatchInv
  <2>2. child' = [child EXCEPT ![i] = p]
    BY <1>1, <1>3 DEF HandleCommand
  <2>3. /\ p \in Process /\ p.watched /\ p.model = child[i].model /\ p.life = child[i].life
        /\ p.out = child[i].out /\ p.asked = child[i].asked /\ p.deadline = child[i].deadline
    BY <1>0, <2>1 DEF Process
  <2>. HIDE DEF p
  <2>4. /\ child' \in Seq(Process) /\ DOMAIN child' = DOMAIN child
        /\ child'[i] = p /\ \A k \in DOMAIN child : k # i => child'[k] = child[k]
    BY <1>0, <2>1, <2>2, <2>3, SeqExcept
  <2>. QED
    BY <1>2, <1>3, <2>1, <2>3, <2>4
<1>4. CASE c.type = "STOP"
  <2>. DEFINE i == Newest(c.model)
              p == [child[i] EXCEPT !.asked = @ \/ (c.send_exit /\ Alive(i)), !.deadline = TRUE]
  <2>1. c.model \in Models /\ c.send_exit \in BOOLEAN
    BY <1>1, <1>4 DEF WideCommand
  <2>2. child' = IF i = 0 THEN child ELSE [child EXCEPT ![i] = p]
    BY <1>1, <1>4 DEF HandleCommand
  <2>3. CASE i = 0
    <3>1. child' = child /\ i \notin DOMAIN child
      BY <1>0, <2>2, <2>3
    <3>2. \A k \in DOMAIN child : child[k].deadline \in BOOLEAN
      BY <1>0 DEF Process
    <3>. QED
      BY <1>0, <1>2, <1>4, <2>1, <3>1, <3>2
  <2>4. CASE i # 0
    <3>1. i \in DOMAIN child
      BY <2>1, <2>4, NewestIs
    <3>2. /\ p.model = child[i].model /\ p.life = child[i].life
          /\ p.out = child[i].out /\ p.watched = child[i].watched /\ p.deadline = TRUE
      BY <1>0, <3>1 DEF Process
    <3>3. p \in Process
      <4>. DEFINE a == child[i].asked \/ (c.send_exit /\ Alive(i))
      <4>1. a \in BOOLEAN
        OBVIOUS
      <4>2. p = [child[i] EXCEPT !.asked = a, !.deadline = TRUE]
        OBVIOUS
      <4>. HIDE DEF a, p
      <4>. QED
        BY <1>0, <3>1, <4>1, <4>2 DEF Process
    <3>. HIDE DEF p
    <3>4. /\ child' \in Seq(Process) /\ DOMAIN child' = DOMAIN child
          /\ child'[i] = p /\ \A k \in DOMAIN child : k # i => child'[k] = child[k]
      BY <1>0, <2>2, <2>4, <3>1, <3>3, SeqExcept
    <3>5. \A k \in DOMAIN child : child[k].deadline \in BOOLEAN
      BY <1>0 DEF Process
    <3>. QED
      BY <1>2, <1>4, <2>1, <3>1, <3>2, <3>4, <3>5
  <2>. QED
    BY <2>3, <2>4
<1>. QED
  BY <1>1, <1>3, <1>4 DEF WideCommand

\* The monitor handles a command without starting or reaping a process.
LEMMA HandleChild == Shape /\ ChildInv /\ StopInv /\ HandleCommand => ChildInv'
<1>. SUFFICES ASSUME Shape, ChildInv, StopInv, HandleCommand PROVE ChildInv'
  OBVIOUS
<1>1. /\ DOMAIN child' = DOMAIN child /\ UNCHANGED registry
      /\ \A i \in DOMAIN child :
            child'[i].model = child[i].model /\ child'[i].life = child[i].life /\ child'[i].out = child[i].out
  BY Handled
<1>. QED
  BY <1>1 DEF ChildInv, Instance1, Instance2, ReadToTheEnd, registry

\* The command at the head is carried out; the others move up by one.
LEMMA HandleStop == Shape /\ ChildInv /\ StopInv /\ HandleCommand => StopInv'
<1>. SUFFICES ASSUME Shape, ChildInv, StopInv, HandleCommand PROVE StopInv'
  OBVIOUS
<1>0. \A k \in DOMAIN child : child[k] \in Process
  BY DEF Shape
<1>1. /\ 1 \in DOMAIN cmds
      /\ \A k \in DOMAIN cmds' : k \in Nat \ {0} /\ k + 1 \in DOMAIN cmds /\ cmds'[k] = cmds[k + 1]
      /\ \A k \in DOMAIN cmds : k \in Nat /\ (k # 1 => k - 1 \in DOMAIN cmds' /\ cmds'[k - 1] = cmds[k])
  BY TailIs DEF HandleCommand
<1>2. /\ DOMAIN child' = DOMAIN child /\ UNCHANGED <<registry, stopping>>
      /\ \A i \in DOMAIN child : child'[i].model = child[i].model /\ child'[i].life = child[i].life
  BY Handled
<1>3. UNCHANGED <<status, subproc, stopping>>
  BY <1>2 DEF registry
<1>4. \A i \in DOMAIN child : Alive(i)' = Alive(i)
  BY <1>2 DEF Alive
<1>5. StaleStop'
  <2>. SUFFICES ASSUME NEW k \in DOMAIN cmds', NEW m \in Models \ stopping, IsStop(k, m)',
                       NEW i \in DOMAIN child, child[i].model = m, child[i].life # "reaped"
                PROVE  \E l \in DOMAIN cmds' : l > k /\ IsWatch(l, i)'
    BY <1>2, <1>3 DEF StaleStop
  <2>1. PICK j \in DOMAIN cmds : j = k + 1 /\ IsStop(j, m)
    BY <1>1 DEF IsStop
  <2>2. PICK l \in DOMAIN cmds : l > j /\ IsWatch(l, i)
    BY <2>1 DEF StopInv, StaleStop
  <2>3. PICK n \in DOMAIN cmds' : n = l - 1 /\ cmds'[n] = cmds[l] /\ n > k
    BY <1>1, <2>1, <2>2
  <2>. QED
    BY <2>2, <2>3 DEF IsWatch
<1>6. CASE cmds[1].type = "WATCH"
  <2>. DEFINE w == cmds[1].inst
  <2>1. /\ w \in DOMAIN child /\ child'[w].watched
        /\ \A i \in DOMAIN child :
              /\ i # w => child'[i].watched = child[i].watched
              /\ child'[i].asked = child[i].asked /\ child'[i].deadline = child[i].deadline
    BY <1>6, Handled
  <2>2. WatchInv'
    <3>1. ASSUME NEW k \in DOMAIN cmds', cmds'[k].type = "WATCH"
          PROVE  cmds'[k].inst \in DOMAIN child /\ ~child'[cmds'[k].inst].watched
      <4>1. PICK j \in DOMAIN cmds : j = k + 1 /\ cmds'[k] = cmds[j] /\ j # 1
        BY <1>1
      <4>2. cmds[j].inst # w
        BY <1>1, <1>6, <3>1, <4>1 DEF StopInv, WatchInv
      <4>. QED
        BY <2>1, <3>1, <4>1, <4>2 DEF StopInv, WatchInv
    <3>2. ASSUME NEW k \in DOMAIN cmds', NEW l \in DOMAIN cmds',
                 cmds'[k].type = "WATCH", cmds'[l].type = "WATCH", cmds'[k].inst = cmds'[l].inst
          PROVE  k = l
      <4>1. k + 1 = l + 1 /\ k \in Nat /\ l \in Nat
        BY <1>1, <3>2 DEF StopInv, WatchInv
      <4>. QED
        BY <4>1
    <3>3. ASSUME NEW i \in DOMAIN child, ~child'[i].watched
          PROVE  \E k \in DOMAIN cmds' : cmds'[k].type = "WATCH" /\ cmds'[k].inst = i
      <4>1. i # w /\ ~child[i].watched
        BY <2>1, <3>3
      <4>2. PICK j \in DOMAIN cmds : IsWatch(j, i)
        BY <4>1 DEF StopInv, WatchInv
      <4>. QED
        BY <1>1, <4>1, <4>2 DEF IsWatch
    <3>. QED
      BY <1>2, <3>1, <3>2, <3>3 DEF WatchInv, IsWatch
  <2>3. UnderWay'
    <3>. SUFFICES ASSUME NEW m \in stopping, ~child[subproc[m]].deadline, Alive(subproc[m]), subproc[m] \in DOMAIN child
                  PROVE  Reaches(m)'
      BY <1>2, <1>3, <1>4, <2>1 DEF UnderWay, StopInv, ChildInv, Instance2, Shape, StopShape, Alive
    <3>. DEFINE s == subproc[m]
    <3>1. PICK k \in DOMAIN cmds :
              IsStop(k, m) /\ (child[s].watched \/ \E l \in DOMAIN cmds : l < k /\ IsWatch(l, s))
      BY DEF StopInv, UnderWay, Reaches
    <3>2. k # 1
      BY <1>6, <3>1 DEF IsStop
    <3>3. PICK n \in DOMAIN cmds' : n = k - 1 /\ cmds'[n] = cmds[k]
      BY <1>1, <3>2
    <3>4. child'[s].watched \/ \E l \in DOMAIN cmds' : l < n /\ cmds'[l].type = "WATCH" /\ cmds'[l].inst = s
      <4>1. CASE child[s].watched
        BY <2>1, <4>1
      <4>2. ASSUME NEW l \in DOMAIN cmds, l < k, IsWatch(l, s)
            PROVE  child'[s].watched \/ \E j \in DOMAIN cmds' : j < n /\ cmds'[j].type = "WATCH" /\ cmds'[j].inst = s
        <5>1. CASE l = 1
          BY <2>1, <4>2, <5>1 DEF IsWatch
        <5>2. CASE l # 1
          <6>1. PICK j \in DOMAIN cmds' : j = l - 1 /\ cmds'[j] = cmds[l] /\ j < n
            BY <1>1, <3>3, <4>2, <5>2
          <6>. QED
            BY <4>2, <6>1 DEF IsWatch
        <5>. QED
          BY <5>1, <5>2
      <4>. QED
        BY <3>1, <4>1, <4>2
    <3>. QED
      BY <1>3, <3>1, <3>3, <3>4 DEF Reaches, IsStop, IsWatch
  <2>4. StopIsMeant'
    BY <1>2, <1>3, <1>4, <2>1 DEF StopInv, StopIsMeant
  <2>. QED
    BY <1>5, <2>2, <2>3, <2>4 DEF StopInv
<1>7. CASE cmds[1].type = "STOP" /\ cmds[1].model \in Models
  <2>. DEFINE v == cmds[1].model
              w == Newest(v)
  <2>1. \A i \in DOMAIN child :
              /\ child'[i].watched = child[i].watched
              /\ i # w => child'[i].asked = child[i].asked
              /\ child'[i].deadline = (child[i].deadline \/ i = w)
    BY <1>7, Handled
  <2>2. WatchInv'
    <3>1. ASSUME NEW k \in DOMAIN cmds', cmds'[k].type = "WATCH"
          PROVE  cmds'[k].inst \in DOMAIN child /\ ~child'[cmds'[k].inst].watched
      BY <1>1, <2>1, <3>1 DEF StopInv, WatchInv
    <3>2. ASSUME NEW k \in DOMAIN cmds', NEW l \in DOMAIN cmds',
                 cmds'[k].type = "WATCH", cmds'[l].type = "WATCH", cmds'[k].inst = cmds'[l].inst
          PROVE  k = l
      <4>1. k + 1 = l + 1 /\ k \in Nat /\ l \in Nat
        BY <1>1, <3>2 DEF StopInv, WatchInv
      <4>. QED
        BY <4>1
    <3>3. ASSUME NEW i \in DOMAIN child, ~child'[i].watched
          PROVE  \E k \in DOMAIN cmds' : cmds'[k].type = "WATCH" /\ cmds'[k].inst = i
      <4>1. PICK j \in DOMAIN cmds : IsWatch(j, i)
        BY <2>1, <3>3 DEF StopInv, WatchInv
      <4>. QED
        BY <1>1, <1>7, <4>1 DEF IsWatch
    <3>. QED
      BY <1>2, <3>1, <3>2, <3>3 DEF WatchInv, IsWatch
  <2>3. UnderWay'
    <3>. SUFFICES ASSUME NEW m \in stopping, m \in Models, is_running(status[m]), Alive(subproc[m]),
                         ~child'[subproc[m]].deadline, ~child[subproc[m]].deadline, subproc[m] \in DOMAIN child
                  PROVE  Reaches(m)'
      <4>1. \A m \in stopping : m \in Models /\ is_running(status[m]) /\ subproc[m] \in DOMAIN child
        BY DEF StopInv, UnderWay, ChildInv, Instance2, Shape, StopShape
      <4>. QED
        BY <1>2, <1>3, <1>4, <2>1, <4>1 DEF UnderWay, StopInv, Alive
    <3>. DEFINE s == subproc[m]
    <3>1. PICK k \in DOMAIN cmds :
              IsStop(k, m) /\ (child[s].watched \/ \E l \in DOMAIN cmds : l < k /\ IsWatch(l, s))
      BY DEF StopInv, UnderWay, Reaches
    <3>2. k # 1
      <4>. SUFFICES ASSUME k = 1 PROVE FALSE
        OBVIOUS
      <4>1. m = v /\ child[s].watched
        BY <1>1, <3>1 DEF IsStop
      <4>2. s = w
        BY <4>1, NewestIs
      <4>. QED
        BY <2>1, <4>2
    <3>3. PICK n \in DOMAIN cmds' : n = k - 1 /\ cmds'[n] = cmds[k]
      BY <1>1, <3>2
    <3>4. child'[s].watched \/ \E l \in DOMAIN cmds' : l < n /\ cmds'[l].type = "WATCH" /\ cmds'[l].inst = s
      <4>1. CASE child[s].watched
        BY <2>1, <4>1
      <4>2. ASSUME NEW l \in DOMAIN cmds, l < k, IsWatch(l, s)
            PROVE  \E j \in DOMAIN cmds' : j < n /\ cmds'[j].type = "WATCH" /\ cmds'[j].inst = s
        <5>1. l # 1
          BY <1>7, <4>2 DEF IsWatch
        <5>2. PICK j \in DOMAIN cmds' : j = l - 1 /\ cmds'[j] = cmds[l] /\ j < n
          BY <1>1, <3>3, <4>2, <5>1
        <5>. QED
          BY <4>2, <5>2 DEF IsWatch
      <4>. QED
        BY <3>1, <4>1, <4>2
    <3>. QED
      BY <1>3, <3>1, <3>3, <3>4 DEF Reaches, IsStop, IsWatch
  <2>4. StopIsMeant'
    <3>. SUFFICES ASSUME NEW j \in DOMAIN child, Alive(j), child'[j].asked \/ child'[j].deadline
                  PROVE  child[j].model \in stopping
      BY <1>2, <1>3, <1>4 DEF StopIsMeant
    <3>1. CASE j # w
      BY <2>1, <3>1 DEF StopInv, StopIsMeant
    <3>2. CASE j = w
      <4>1. j # 0
        BY DEF Shape
      <4>2. child[j].model = v /\ child[j].watched /\ child[j].life # "reaped"
        BY <1>7, <3>2, <4>1, NewestIs
      <4>3. ASSUME v \notin stopping PROVE FALSE
        <5>1. PICK l \in DOMAIN cmds : IsWatch(l, j)
          BY <1>1, <1>7, <4>2, <4>3 DEF StopInv, StaleStop, IsStop
        <5>. QED
          BY <4>2, <5>1 DEF StopInv, WatchInv, IsWatch
      <4>. QED
        BY <4>2, <4>3
    <3>. QED
      BY <3>1, <3>2
  <2>. QED
    BY <1>5, <2>2, <2>3, <2>4 DEF StopInv
<1>. QED
  BY <1>6, <1>7, Handled

-----------------------------------------------------------------------------
(* Every step is one of these.                                              *)

\* A step starts a process, reaps one, handles a command, or does neither.
LEMMA StepKinds ==
    ASSUME Shape, Where, ChildInv, [Next]_vars
    PROVE  \/ Calm
           \/ HandleCommand
           \/ \E t \in Threads : Spawn(t)
           \/ \E i \in DOMAIN child : Reap(i)
<1>1. CASE UNCHANGED vars
  BY <1>1, NoStops, QuietCalm DEF vars, registry, Quiet, StopsRunning, Shape, StopShape
<1>2. ASSUME NEW r \in Requests, Ensure(r) \/ CancelWaiting(r) \/ Proxy(r) \/ SessionStopped(r) PROVE Calm
  BY <1>2, RequestQuiet, QuietCalm
<1>3. ASSUME NEW t \in Threads, Load(t), ~Spawn(t) PROVE Calm
  <2>1. CASE EvictVictim(t)
    <3>1. victim[t] \in Models
      BY <2>1 DEF EvictVictim, Where
    <3>. QED
      BY <2>1, <3>1, UnloadCalm DEF EvictVictim
  <2>. QED
    BY <1>3, <2>1, LoadQuiet, QuietCalm DEF Load
<1>4. ASSUME NEW t \in Loaders, StartLoad(t) PROVE Calm
  BY <1>4, LoadQuiet, QuietCalm DEF Threads
<1>5. ASSUME NEW m \in Models, AdminUnload(m) PROVE Calm
  BY <1>5, UnloadCalm DEF AdminUnload
<1>6. ASSUME NEW i \in DOMAIN child,
             \/ ReadLine(i) \/ DeadlineKill(i)
             \/ ChildReady(i) \/ ChildSleep(i) \/ ChildWake(i) \/ ChildExit(i) \/ ChildCrash(i)
      PROVE  Calm
  BY <1>6, LineCalm, ProcessCalm
<1>. QED
  BY <1>1, <1>2, <1>3, <1>4, <1>5, <1>6 DEF Next, Monitor

\* The registry.
LEMMA RegistryStep == Shape /\ ChildInv /\ [Next]_vars => RegistryShape'
<1>. SUFFICES ASSUME Shape, ChildInv, [Next]_vars PROVE RegistryShape'
  OBVIOUS
<1>. USE DEF Shape, RegistryShape, Statuses
<1>1. ASSUME NEW t \in Threads, Spawn(t) PROVE RegistryShape'
  <2>1. Target[t] \in Models /\ Len(child) \in Nat
    BY RouterAssumption
  <2>. QED
    BY <1>1, <2>1 DEF Spawn
<1>2. ASSUME NEW i \in DOMAIN child, ReadLine(i) PROVE RegistryShape'
  <2>1. child[i] \in Process /\ child[i].out # << >>
    BY <1>2 DEF ReadLine
  <2>2. child[i].model \in Models /\ Head(child[i].out) \in Line
    BY <2>1 DEF Process
  <2>. QED
    BY <1>2, <2>2 DEF ReadLine, update_status, Line
<1>3. ASSUME NEW i \in DOMAIN child, Reap(i) PROVE RegistryShape'
  <2>1. child[i] \in Process
    OBVIOUS
  <2>2. child[i].model \in Models /\ child[i].clean \in BOOLEAN
    BY <2>1 DEF Process
  <2>3. status' = status \/ status' = [status EXCEPT ![child[i].model] = "unloaded"]
    BY <1>3 DEF Reap, update_status
  <2>4. failed' = failed \/ failed' = [failed EXCEPT ![child[i].model] = ~child[i].clean]
    BY <1>3 DEF Reap, update_status
  <2>5. UNCHANGED <<subproc, req_count>>
    BY <1>3 DEF Reap
  <2>. QED
    BY <2>2, <2>3, <2>4, <2>5
<1>4. ASSUME NEW r \in Requests, CountRequest(r) \/ FinishRequest(r) PROVE RegistryShape'
  <2>1. Target[r] \in Models
    BY RouterAssumption DEF Threads
  <2>. QED
    BY <1>4, <2>1 DEF CountRequest, FinishRequest
<1>5. CASE UNCHANGED registry
  BY <1>5 DEF registry
<1>. QED
  BY <1>1, <1>2, <1>3, <1>4, <1>5
     DEF Next, vars, HandleCommand, Monitor, DeadlineKill,
         ChildReady, ChildSleep, ChildWake, ChildExit, ChildCrash, AdminUnload,
         Ensure, ArriveReady, ArriveQueued, ArriveWaiting, WaitForNext, JoinQueue, SeeLoading,
         LeaveLine, LoadFailed, CancelWaiting, ThrowFromLine, ClaimLoad, ClaimDone,
         Proxy, SessionStopped, NotRunning, CheckRunning,
         Load, StartLoad, MakeRoom, EvictVictim, VictimGone, AlreadyUp, SpawnRefused

\* The stops, the commands and the processes.
LEMMA StopStep == Shape /\ Where /\ InRange /\ ChildInv /\ StopInv /\ [Next]_vars => StopShape' /\ child' \in Seq(Process)
<1>. SUFFICES ASSUME Shape, Where, InRange, ChildInv, StopInv, [Next]_vars PROVE StopShape' /\ child' \in Seq(Process)
  OBVIOUS
<1>1. CASE Calm
  <2>1. stopping \in SUBSET Models
    BY DEF Shape, StopShape
  <2>. QED
    BY <1>1, <2>1, StopsAddedType DEF Calm, StopsRunning, SameProcesses, StopShape
<1>2. CASE HandleCommand
  BY <1>2, Handled, TailIs DEF HandleCommand, Shape, StopShape
<1>3. ASSUME NEW t \in Threads, Spawn(t) PROVE StopShape' /\ child' \in Seq(Process)
  <2>. DEFINE n == Len(child) + 1
              e == [type |-> "WATCH", inst |-> n]
  <2>1. n \in Nat \ {0} /\ cmds' = Append(cmds, e) /\ stopping' = stopping /\ child' \in Seq(Process)
    BY <1>3, SpawnedChild
  <2>2. e \in WideCommand
    BY <2>1 DEF WideCommand
  <2>. HIDE DEF e
  <2>. QED
    BY <2>1, <2>2, AppendProperties DEF Shape, StopShape
<1>4. ASSUME NEW i \in DOMAIN child, Reap(i) PROVE StopShape' /\ child' \in Seq(Process)
  <2>. DEFINE S == stopping \ {child[i].model}
  <2>1. S \in SUBSET Models
    BY DEF Shape, StopShape
  <2>2. child' \in Seq(Process) /\ \E V \in SUBSET Models : StopsAdded(S, V)
    BY <1>4, Reaped
  <2>. HIDE DEF S
  <2>. QED
    BY <2>1, <2>2, StopsAddedType DEF StopShape
<1>. QED
  BY <1>1, <1>2, <1>3, <1>4, StepKinds

\* The queue.
LEMMA QueueStep == Shape /\ [Next]_vars => queue' \in Seq(WideEntry)
<1>. SUFFICES ASSUME Shape, [Next]_vars PROVE queue' \in Seq(WideEntry)
  OBVIOUS
<1>0. queue \in Seq(WideEntry)
  BY DEF Shape
<1>1. ASSUME NEW r \in Requests, JoinQueue(r) \/ LeaveLine(r) \/ ThrowFromLine(r) PROVE queue' \in Seq(WideEntry)
  <2>1. Target[r] \in Models
    BY RouterAssumption DEF Threads
  <2>. QED
    BY <1>0, <1>1, <2>1, JoinLeaveType DEF JoinQueue, LeaveLine, ThrowFromLine, leave_queue
<1>2. ASSUME NEW r \in Requests, ClaimLoad(r) PROVE queue' \in Seq(WideEntry)
  <2>. DEFINE e == [queue[1] EXCEPT !.loading = TRUE]
  <2>1. 1 \in DOMAIN queue /\ queue[1] \in WideEntry
    BY <1>0, <1>2 DEF ClaimLoad, try_claim
  <2>2. e \in WideEntry /\ queue' = [queue EXCEPT ![1] = e]
    BY <1>2, <2>1 DEF ClaimLoad, WideEntry
  <2>. HIDE DEF e
  <2>. QED
    BY <1>0, <2>1, <2>2, SeqExcept
<1>3. ASSUME NEW r \in Requests, ClaimDone(r) PROVE queue' \in Seq(WideEntry)
  <2>1. ASSUME NEW k \in DOMAIN queue
        PROVE  queue[k] \in WideEntry /\ [queue[k] EXCEPT !.loading = FALSE] \in WideEntry
    <3>1. queue[k] \in WideEntry
      BY <1>0
    <3>. QED
      BY <3>1 DEF WideEntry
  <2>. QED
    BY <1>0, <1>3, <2>1 DEF ClaimDone
<1>4. CASE UNCHANGED queue
  BY <1>0, <1>4
<1>. QED
  BY <1>1, <1>2, <1>3, <1>4
     DEF Next, vars, HandleCommand, Monitor, ReadLine, DeadlineKill, Reap,
         ChildReady, ChildSleep, ChildWake, ChildExit, ChildCrash, AdminUnload,
         Ensure, ArriveReady, ArriveQueued, ArriveWaiting, WaitForNext, SeeLoading, LoadFailed, CancelWaiting,
         Proxy, SessionStopped, NotRunning, CheckRunning, CountRequest, FinishRequest,
         Load, StartLoad, MakeRoom, EvictVictim, VictimGone, AlreadyUp, SpawnRefused, Spawn

\* Every step keeps the types.
LEMMA ShapeStep == Shape /\ Where /\ InRange /\ ChildInv /\ StopInv /\ [Next]_vars => Shape'
BY RegistryStep, ThreadStep, StopStep, BudgetStep, QueueStep DEF Shape

-----------------------------------------------------------------------------
(* Where a thread may go.                                                   *)

\* Every step keeps each thread at a place its code reaches.
LEMMA WhereStep == Shape /\ Where /\ [Next]_vars => Where'
<1>. SUFFICES ASSUME Shape, Where, [Next]_vars PROVE Where'
  OBVIOUS
<1>. USE DEF Shape, ThreadShape, Where, Goto, Finished, Return
<1>1. ASSUME NEW r \in Requests, Ensure(r) \/ CancelWaiting(r) \/ Proxy(r) \/ SessionStopped(r) PROVE Where'
  <2>0. r \in Threads
    BY DEF Threads
  <2>1. CASE ArriveReady(r)
    BY <2>1, <2>0 DEF ArriveReady
  <2>2. CASE ArriveQueued(r)
    BY <2>2, <2>0 DEF ArriveQueued, JoinQueue
  <2>3. CASE ArriveWaiting(r)
    BY <2>3, <2>0 DEF ArriveWaiting
  <2>4. CASE WaitForNext(r)
    BY <2>4, <2>0 DEF WaitForNext, JoinQueue
  <2>5. CASE SeeLoading(r)
    BY <2>5, <2>0 DEF SeeLoading
  <2>6. CASE LeaveLine(r)
    BY <2>6, <2>0 DEF LeaveLine
  <2>7. CASE LoadFailed(r)
    BY <2>7, <2>0 DEF LoadFailed, ThrowFromLine
  <2>8. CASE CancelWaiting(r)
    BY <2>8, <2>0 DEF CancelWaiting, ThrowFromLine
  <2>9. CASE ClaimLoad(r)
    BY <2>9, <2>0 DEF ClaimLoad, InLine, CameDown
  <2>10. CASE ClaimDone(r)
    BY <2>10, <2>0 DEF ClaimDone
  <2>11. CASE NotRunning(r)
    BY <2>11, <2>0 DEF NotRunning
  <2>12. CASE CheckRunning(r)
    BY <2>12, <2>0 DEF CheckRunning
  <2>13. CASE CountRequest(r)
    BY <2>13, <2>0 DEF CountRequest
  <2>14. CASE FinishRequest(r)
    BY <2>14, <2>0 DEF FinishRequest
  <2>15. CASE SessionStopped(r)
    BY <2>15, <2>0 DEF SessionStopped
  <2>. QED
    BY <1>1, <2>1, <2>2, <2>3, <2>4, <2>5, <2>6, <2>7, <2>8, <2>9, <2>10, <2>11, <2>12, <2>13, <2>14, <2>15 DEF Ensure, Proxy
<1>2. ASSUME NEW t \in Threads, Load(t) \/ StartLoad(t) PROVE Where'
  <2>1. CASE MakeRoom(t)
    BY <2>1, <1>2 DEF MakeRoom, Idle
  <2>2. CASE EvictVictim(t)
    BY <2>2, <1>2 DEF EvictVictim
  <2>3. CASE VictimGone(t)
    BY <2>3, <1>2 DEF VictimGone
  <2>4. CASE AlreadyUp(t)
    BY <2>4, <1>2, RouterAssumption DEF AlreadyUp
  <2>5. CASE SpawnRefused(t)
    BY <2>5, <1>2, RouterAssumption DEF SpawnRefused
  <2>6. CASE Spawn(t)
    BY <2>6, <1>2, RouterAssumption DEF Spawn
  <2>7. CASE StartLoad(t)
    BY <2>7, <1>2 DEF StartLoad
  <2>. QED
    BY <1>2, <2>1, <2>2, <2>3, <2>4, <2>5, <2>6, <2>7 DEF Load
<1>3. CASE UNCHANGED thread
  BY <1>3 DEF thread
<1>. QED
  BY <1>1, <1>2, <1>3
     DEF Next, vars, Threads, AdminUnload, HandleCommand, Monitor, ReadLine, DeadlineKill, Reap,
         ChildReady, ChildSleep, ChildWake, ChildExit, ChildCrash, thread

\* A thread that has loaded, or has ended, never spawns again.
LEMMA SpawnedGrows == Shape /\ Where /\ [Next]_vars => Spawned \subseteq Spawned'
<1>. SUFFICES ASSUME Shape, Where, [Next]_vars PROVE Spawned \subseteq Spawned'
  OBVIOUS
<1>. USE DEF Shape, ThreadShape, Where, Goto, Finished, Return, Spawned
<1>1. ASSUME NEW r \in Requests, Ensure(r) \/ CancelWaiting(r) \/ Proxy(r) \/ SessionStopped(r)
      PROVE  Spawned \subseteq Spawned'
  <2>0. r \in Threads
    BY DEF Threads
  <2>1. CASE ArriveReady(r)
    BY <2>1, <2>0 DEF ArriveReady
  <2>2. CASE ArriveQueued(r)
    BY <2>2, <2>0 DEF ArriveQueued, JoinQueue
  <2>3. CASE ArriveWaiting(r)
    BY <2>3, <2>0 DEF ArriveWaiting
  <2>4. CASE WaitForNext(r)
    BY <2>4, <2>0 DEF WaitForNext, JoinQueue
  <2>5. CASE SeeLoading(r)
    BY <2>5, <2>0 DEF SeeLoading
  <2>6. CASE LeaveLine(r)
    BY <2>6, <2>0 DEF LeaveLine
  <2>7. CASE LoadFailed(r)
    BY <2>7, <2>0 DEF LoadFailed, ThrowFromLine
  <2>8. CASE CancelWaiting(r)
    BY <2>8, <2>0 DEF CancelWaiting, ThrowFromLine
  <2>9. CASE ClaimLoad(r)
    BY <2>9, <2>0 DEF ClaimLoad, InLine, CameDown
  <2>10. CASE ClaimDone(r)
    BY <2>10, <2>0 DEF ClaimDone
  <2>11. CASE NotRunning(r)
    BY <2>11, <2>0 DEF NotRunning
  <2>12. CASE CheckRunning(r)
    BY <2>12, <2>0 DEF CheckRunning
  <2>13. CASE CountRequest(r)
    BY <2>13, <2>0 DEF CountRequest
  <2>14. CASE FinishRequest(r)
    BY <2>14, <2>0 DEF FinishRequest
  <2>15. CASE SessionStopped(r)
    BY <2>15, <2>0 DEF SessionStopped
  <2>. QED
    BY <1>1, <2>1, <2>2, <2>3, <2>4, <2>5, <2>6, <2>7, <2>8, <2>9, <2>10, <2>11, <2>12, <2>13, <2>14, <2>15 DEF Ensure, Proxy
<1>2. ASSUME NEW t \in Threads, Load(t) \/ StartLoad(t) PROVE Spawned \subseteq Spawned'
  <2>1. CASE MakeRoom(t)
    BY <2>1, <1>2 DEF MakeRoom
  <2>2. CASE EvictVictim(t)
    BY <2>2, <1>2 DEF EvictVictim
  <2>3. CASE VictimGone(t)
    BY <2>3, <1>2 DEF VictimGone
  <2>4. CASE AlreadyUp(t)
    BY <2>4, <1>2 DEF AlreadyUp
  <2>5. CASE SpawnRefused(t)
    BY <2>5, <1>2 DEF SpawnRefused
  <2>6. CASE Spawn(t)
    BY <2>6, <1>2 DEF Spawn
  <2>7. CASE StartLoad(t)
    BY <2>7, <1>2 DEF StartLoad
  <2>. QED
    BY <1>2, <2>1, <2>2, <2>3, <2>4, <2>5, <2>6, <2>7 DEF Load
<1>3. CASE UNCHANGED thread
  BY <1>3 DEF thread
<1>. QED
  BY <1>1, <1>2, <1>3
     DEF Next, vars, Threads, AdminUnload, HandleCommand, Monitor, ReadLine, DeadlineKill, Reap,
         ChildReady, ChildSleep, ChildWake, ChildExit, ChildCrash, thread

\* A request talks to an instance that its model had.
LEMMA PortStep ==
    Shape /\ [Next]_vars =>
        \A t \in Threads : port'[t] = port[t] \/ port'[t] = 0 \/ port'[t] = subproc[Target[t]]
<1>. SUFFICES ASSUME Shape, [Next]_vars
              PROVE  \A t \in Threads : port'[t] = port[t] \/ port'[t] = 0 \/ port'[t] = subproc[Target[t]]
  OBVIOUS
<1>. USE DEF Shape, ThreadShape, Finished
<1>1. ASSUME NEW r \in Requests, ThrowFromLine(r) \/ SessionStopped(r) \/ NotRunning(r) \/ FinishRequest(r)
      PROVE  \A t \in Threads : port'[t] = port[t] \/ port'[t] = 0
  BY <1>1 DEF ThrowFromLine, SessionStopped, NotRunning, FinishRequest
<1>2. ASSUME NEW r \in Requests, CheckRunning(r)
      PROVE  \A t \in Threads : port'[t] = port[t] \/ port'[t] = subproc[Target[t]]
  BY <1>2 DEF CheckRunning
<1>3. CASE UNCHANGED port
  BY <1>3
<1>. QED
  BY <1>1, <1>2, <1>3
     DEF Next, vars, thread, HandleCommand, Monitor, ReadLine, DeadlineKill, Reap,
         ChildReady, ChildSleep, ChildWake, ChildExit, ChildCrash, AdminUnload,
         Ensure, ArriveReady, ArriveQueued, ArriveWaiting, WaitForNext, JoinQueue, SeeLoading, LeaveLine,
         LoadFailed, CancelWaiting, ClaimLoad, ClaimDone, Proxy, CountRequest,
         Load, StartLoad, MakeRoom, EvictVictim, VictimGone, AlreadyUp, SpawnRefused, Spawn

\* Instances stay, and keep their model.
LEMMA RangeStep == Shape /\ Where /\ InRange /\ ChildInv /\ StopInv /\ [Next]_vars => InRange'
<1>. SUFFICES ASSUME Shape, Where, InRange, ChildInv, StopInv, [Next]_vars PROVE InRange'
  OBVIOUS
<1>0. /\ child \in Seq(Process) /\ Len(child) \in Nat /\ DOMAIN child = 1 .. Len(child)
      /\ subproc \in [Models -> Nat] /\ port \in [Threads -> Nat] /\ port' \in [Threads -> Nat]
  BY ThreadStep DEF Shape, RegistryShape, ThreadShape
<1>1. child' \in Seq(Process) /\ Len(child') \in Nat /\ DOMAIN child' = 1 .. Len(child')
  BY StopStep
<1>2. /\ DOMAIN child \subseteq DOMAIN child'
      /\ \A m \in Models : subproc'[m] # 0 => subproc'[m] \in DOMAIN child' /\ child'[subproc'[m]].model = m
  <2>1. CASE Calm
    BY <1>0, <2>1 DEF Calm, SameProcesses, InRange
  <2>2. CASE HandleCommand
    BY <2>2, Handled DEF registry, InRange
  <2>3. ASSUME NEW t \in Threads, Spawn(t)
        PROVE  /\ DOMAIN child \subseteq DOMAIN child'
               /\ \A m \in Models : subproc'[m] # 0 => subproc'[m] \in DOMAIN child' /\ child'[subproc'[m]].model = m
    <3>. DEFINE v == Target[t]
                n == Len(child) + 1
    <3>1. /\ v \in Models /\ DOMAIN child' = DOMAIN child \cup {n}
          /\ child'[n] = NewChild(v) /\ \A k \in DOMAIN child : child'[k] = child[k]
          /\ subproc' = [subproc EXCEPT ![v] = n]
      BY <2>3, SpawnedChild
    <3>2. child'[n].model = v
      BY <3>1 DEF NewChild
    <3>. HIDE DEF v, n
    <3>. QED
      BY <1>0, <3>1, <3>2 DEF InRange
  <2>4. ASSUME NEW i \in DOMAIN child, Reap(i)
        PROVE  /\ DOMAIN child \subseteq DOMAIN child'
               /\ \A m \in Models : subproc'[m] # 0 => subproc'[m] \in DOMAIN child' /\ child'[subproc'[m]].model = m
    <3>1. /\ subproc' = subproc /\ DOMAIN child' = DOMAIN child
          /\ child'[i] = [child[i] EXCEPT !.life = "reaped"]
          /\ \A k \in DOMAIN child : k # i => child'[k] = child[k]
      BY <2>4, Reaped
    <3>2. child'[i].model = child[i].model
      <4>1. child[i] \in Process
        BY <1>0
      <4>. QED
        BY <3>1, <4>1 DEF Process
    <3>. QED
      BY <3>1, <3>2 DEF InRange
  <2>. QED
    BY <2>1, <2>2, <2>3, <2>4, StepKinds
<1>3. Len(child) <= Len(child')
  <2>1. CASE Len(child) = 0
    BY <1>1, <2>1
  <2>2. CASE Len(child) # 0
    <3>1. Len(child) \in DOMAIN child
      BY <1>0, <2>2
    <3>. QED
      BY <1>0, <1>1, <1>2, <3>1
  <2>. QED
    BY <2>1, <2>2
<1>4. ASSUME NEW t \in Threads PROVE port'[t] <= Len(child')
  <2>1. Target[t] \in Models
    BY RouterAssumption
  <2>2. subproc[Target[t]] \in Nat /\ subproc[Target[t]] <= Len(child)
    BY <1>0, <2>1 DEF InRange
  <2>3. port[t] \in Nat /\ port[t] <= Len(child)
    BY <1>0 DEF InRange
  <2>4. port'[t] = port[t] \/ port'[t] = 0 \/ port'[t] = subproc[Target[t]]
    BY PortStep
  <2>. QED
    BY <1>0, <1>1, <1>3, <2>2, <2>3, <2>4
<1>. QED
  BY <1>2, <1>4 DEF InRange

\* Each thread starts one process at most.
LEMMA SpawnOnceStep == Shape /\ Where /\ InRange /\ ChildInv /\ StopInv /\ SpawnOnce /\ [Next]_vars => SpawnOnce'
<1>. SUFFICES ASSUME Shape, Where, InRange, ChildInv, StopInv, SpawnOnce, [Next]_vars PROVE SpawnOnce'
  OBVIOUS
<1>0. Len(child) \in Nat
  BY DEF Shape
<1>1. /\ IsFiniteSet(Spawned) /\ IsFiniteSet(Spawned')
      /\ Cardinality(Spawned) \in Nat /\ Cardinality(Spawned') \in Nat
  BY RouterAssumption, FS_Subset, FS_CardinalityType DEF Spawned
<1>2. Cardinality(Spawned) <= Cardinality(Spawned')
  BY <1>1, SpawnedGrows, FS_Subset
<1>3. CASE Len(child') = Len(child)
  BY <1>0, <1>1, <1>2, <1>3 DEF SpawnOnce
<1>4. ASSUME NEW t \in Threads, Spawn(t) PROVE SpawnOnce'
  <2>1. t \notin Spawned
    BY <1>4 DEF Spawn, Spawned, Where
  <2>2. t \in Spawned'
    BY <1>4 DEF Spawn, Spawned, Return, Goto, Shape, ThreadShape
  <2>3. Cardinality(Spawned \cup {t}) = Cardinality(Spawned) + 1 /\ IsFiniteSet(Spawned \cup {t})
    BY <1>1, <2>1, FS_AddElement
  <2>4. Cardinality(Spawned \cup {t}) <= Cardinality(Spawned')
    BY <1>1, <2>2, SpawnedGrows, FS_Subset
  <2>5. Len(child') = Len(child) + 1
    <3>1. child' \in Seq(Process) /\ DOMAIN child' = DOMAIN child \cup {Len(child) + 1}
      BY <1>4, SpawnedChild
    <3>2. Len(child') \in Nat /\ 1 .. Len(child') = 1 .. Len(child) + 1
      BY <1>0, <3>1 DEF Shape
    <3>. QED
      BY <1>0, <3>2
  <2>. QED
    BY <1>0, <1>1, <2>3, <2>4, <2>5 DEF SpawnOnce
<1>5. CASE Calm \/ HandleCommand
  <2>1. child' \in Seq(Process) /\ child \in Seq(Process) /\ DOMAIN child' = DOMAIN child
    BY <1>5, Handled DEF Calm, SameProcesses, Shape
  <2>. QED
    BY <1>0, <1>3, <2>1
<1>6. ASSUME NEW i \in DOMAIN child, Reap(i) PROVE SpawnOnce'
  <2>1. child' \in Seq(Process) /\ child \in Seq(Process) /\ DOMAIN child' = DOMAIN child
    BY <1>6, Reaped DEF Shape
  <2>. QED
    BY <1>0, <1>3, <2>1
<1>. QED
  BY <1>4, <1>5, <1>6, StepKinds

-----------------------------------------------------------------------------
(* The counter of requests in flight.                                       *)

SameFlights ==
    /\ \A r \in Requests : pc'[r] = "proxying" <=> pc[r] = "proxying"
    /\ req_count' = req_count \/ \E t \in Threads : Spawn(t)

\* Only CountRequest and FinishRequest change what is in flight.
LEMMA Flights ==
    ASSUME Shape, [Next]_vars
    PROVE  SameFlights \/ \E r \in Requests : CountRequest(r) \/ FinishRequest(r)
<1>. USE DEF Shape, RegistryShape, ThreadShape, Goto, Finished, Return, SameFlights
<1>1. ASSUME NEW r \in Requests, Ensure(r) \/ CancelWaiting(r) \/ NotRunning(r) \/ CheckRunning(r) \/ SessionStopped(r)
      PROVE  SameFlights
  <2>0. r \in Threads
    BY DEF Threads
  <2>1. CASE ArriveReady(r)
    BY <2>1, <2>0 DEF ArriveReady, registry
  <2>2. CASE ArriveQueued(r)
    BY <2>2, <2>0 DEF ArriveQueued, JoinQueue, registry
  <2>3. CASE ArriveWaiting(r)
    BY <2>3, <2>0 DEF ArriveWaiting, registry
  <2>4. CASE WaitForNext(r)
    BY <2>4, <2>0 DEF WaitForNext, JoinQueue, registry
  <2>5. CASE SeeLoading(r)
    BY <2>5, <2>0 DEF SeeLoading, registry
  <2>6. CASE LeaveLine(r)
    BY <2>6, <2>0 DEF LeaveLine, InLine, registry
  <2>7. CASE LoadFailed(r)
    BY <2>7, <2>0 DEF LoadFailed, InLine, ThrowFromLine, registry
  <2>8. CASE CancelWaiting(r)
    BY <2>8, <2>0 DEF CancelWaiting, ThrowFromLine, registry
  <2>9. CASE ClaimLoad(r)
    BY <2>9, <2>0 DEF ClaimLoad, InLine, registry
  <2>10. CASE ClaimDone(r)
    BY <2>10, <2>0 DEF ClaimDone, registry
  <2>11. CASE NotRunning(r)
    BY <2>11, <2>0 DEF NotRunning, registry
  <2>12. CASE CheckRunning(r)
    BY <2>12, <2>0 DEF CheckRunning, registry
  <2>13. CASE SessionStopped(r)
    BY <2>13, <2>0 DEF SessionStopped, registry
  <2>. QED
    BY <1>1, <2>1, <2>2, <2>3, <2>4, <2>5, <2>6, <2>7, <2>8, <2>9, <2>10, <2>11, <2>12, <2>13 DEF Ensure
<1>2. ASSUME NEW t \in Threads, Spawn(t) PROVE SameFlights
  <2>1. Target[t] \in Models
    BY RouterAssumption
  <2>. QED
    BY <1>2, <2>1 DEF Spawn, Threads
<1>4. ASSUME NEW t \in Threads, Load(t) \/ StartLoad(t), ~Spawn(t) PROVE SameFlights
  <2>1. CASE MakeRoom(t)
    BY <2>1, <1>4 DEF MakeRoom, registry, Threads
  <2>2. CASE EvictVictim(t)
    BY <2>2, <1>4 DEF EvictVictim, registry
  <2>3. CASE VictimGone(t)
    BY <2>3, <1>4 DEF VictimGone, registry
  <2>4. CASE AlreadyUp(t)
    BY <2>4, <1>4 DEF AlreadyUp, registry
  <2>5. CASE SpawnRefused(t)
    BY <2>5, <1>4 DEF SpawnRefused, registry
  <2>6. CASE StartLoad(t)
    BY <2>6, <1>4 DEF StartLoad, registry
  <2>. QED
    BY <1>4, <2>1, <2>2, <2>3, <2>4, <2>5, <2>6 DEF Load
<1>5. CASE UNCHANGED <<pc, req_count>>
  BY <1>5
<1>. QED
  BY <1>1, <1>2, <1>4, <1>5
     DEF Next, vars, registry, thread, Threads, Proxy, AdminUnload, HandleCommand, Monitor, ReadLine, DeadlineKill, Reap,
         ChildReady, ChildSleep, ChildWake, ChildExit, ChildCrash

\* Every step keeps the counters at or below the requests in flight.
LEMMA CountStep == Shape /\ CountBound /\ [Next]_vars => CountBound'
<1>. SUFFICES ASSUME Shape, CountBound, [Next]_vars, NEW m \in Models
              PROVE  req_count'[m] <= Cardinality(InFlight(m)')
  BY DEF CountBound
<1>0. req_count \in [Models -> Nat] /\ pc \in [Threads -> Locations]
  BY DEF Shape, RegistryShape, ThreadShape
<1>1. /\ IsFiniteSet(InFlight(m)) /\ IsFiniteSet(InFlight(m)')
      /\ Cardinality(InFlight(m)) \in Nat /\ Cardinality(InFlight(m)') \in Nat
  BY RouterAssumption, FS_Subset, FS_CardinalityType DEF InFlight, Threads
<1>2. req_count[m] <= Cardinality(InFlight(m))
  BY DEF CountBound
<1>3. CASE SameFlights
  <2>1. InFlight(m)' = InFlight(m)
    BY <1>3 DEF SameFlights, InFlight
  <2>2. req_count'[m] = req_count[m] \/ req_count'[m] = 0
    BY <1>0, <1>3 DEF SameFlights, Spawn
  <2>. QED
    BY <1>1, <1>2, <2>1, <2>2
<1>4. ASSUME NEW r \in Requests, CountRequest(r) PROVE req_count'[m] <= Cardinality(InFlight(m)')
  <2>1. /\ pc' = [pc EXCEPT ![r] = "proxying"] /\ pc[r] = "checked"
        /\ req_count' = [req_count EXCEPT ![Target[r]] = @ + 1] /\ r \in Threads
    BY <1>4 DEF CountRequest, Goto, Threads
  <2>2. CASE Target[r] = m
    <3>1. r \notin InFlight(m) /\ InFlight(m)' = InFlight(m) \cup {r}
      BY <1>0, <2>1, <2>2 DEF InFlight, Threads
    <3>2. Cardinality(InFlight(m)') = Cardinality(InFlight(m)) + 1
      BY <1>1, <3>1, FS_AddElement
    <3>. QED
      BY <1>0, <1>1, <1>2, <2>1, <2>2, <3>2
  <2>3. CASE Target[r] # m
    <3>1. InFlight(m)' = InFlight(m)
      BY <1>0, <2>1, <2>3 DEF InFlight, Threads
    <3>. QED
      BY <1>0, <1>2, <2>1, <2>3, <3>1
  <2>. QED
    BY <2>2, <2>3
<1>5. ASSUME NEW r \in Requests, FinishRequest(r) PROVE req_count'[m] <= Cardinality(InFlight(m)')
  <2>1. /\ pc' = [pc EXCEPT ![r] = "done"] /\ pc[r] = "proxying"
        /\ req_count' = [req_count EXCEPT ![Target[r]] = IF @ > 0 THEN @ - 1 ELSE 0] /\ r \in Threads
    BY <1>5 DEF FinishRequest, Finished, Goto, Threads
  <2>2. CASE Target[r] = m
    <3>1. r \in InFlight(m) /\ InFlight(m)' = InFlight(m) \ {r}
      BY <1>0, <2>1, <2>2 DEF InFlight, Threads
    <3>2. Cardinality(InFlight(m)') = Cardinality(InFlight(m)) - 1
      BY <1>1, <3>1, FS_RemoveElement
    <3>. QED
      BY <1>0, <1>1, <1>2, <2>1, <2>2, <3>2
  <2>3. CASE Target[r] # m
    <3>1. InFlight(m)' = InFlight(m)
      BY <1>0, <2>1, <2>3 DEF InFlight, Threads
    <3>. QED
      BY <1>0, <1>2, <2>1, <2>3, <3>1
  <2>. QED
    BY <2>2, <2>3
<1>. QED
  BY <1>3, <1>4, <1>5, Flights

-----------------------------------------------------------------------------
(* The queue and who waits in it.                                           *)

Unique(q) == \A i, k \in DOMAIN q : q[i].model = q[k].model => i = k

\* join counts one more request in the entry of its model, new or not.
LEMMA JoinEffect ==
    ASSUME NEW q \in Seq(WideEntry), Unique(q), NEW m \in Models
    PROVE  LET j == Join(q, m)
           IN  /\ Unique(j) /\ Wanted(j) = Wanted(q) \cup {m}
               /\ \A k \in DOMAIN j :
                     \/ m \notin Wanted(q) /\ j[k].model = m /\ j[k].n_waiters = 1
                     \/ /\ k \in DOMAIN q /\ j[k].model = q[k].model
                        /\ j[k].n_waiters = IF q[k].model = m THEN q[k].n_waiters + 1 ELSE q[k].n_waiters
<1>. DEFINE j == Join(q, m)
<1>0. Len(q) \in Nat /\ DOMAIN q = 1 .. Len(q) /\ \A k \in DOMAIN q : q[k] \in WideEntry
  OBVIOUS
<1>1. CASE m \in Wanted(q)
  <2>1. j = [k \in DOMAIN q |-> IF q[k].model = m THEN [q[k] EXCEPT !.n_waiters = @ + 1] ELSE q[k]]
    BY <1>1 DEF Join
  <2>. HIDE DEF j
  <2>2. DOMAIN j = DOMAIN q
    BY <2>1
  <2>3. \A k \in DOMAIN q : /\ j[k].model = q[k].model
                            /\ j[k].n_waiters = IF q[k].model = m THEN q[k].n_waiters + 1 ELSE q[k].n_waiters
    BY <1>0, <2>1 DEF WideEntry
  <2>4. Wanted(j) = Wanted(q)
    BY <2>2, <2>3 DEF Wanted
  <2>. QED
    BY <1>1, <2>2, <2>3, <2>4 DEF Unique, j
<1>2. CASE m \notin Wanted(q)
  <2>. DEFINE e == [model |-> m, n_waiters |-> 1, loading |-> FALSE]
              z == Len(q) + 1
  <2>1. j = Append(q, e) /\ e \in WideEntry
    BY <1>2 DEF Join, WideEntry
  <2>2. e.model = m /\ e.n_waiters = 1
    OBVIOUS
  <2>. HIDE DEF j, e
  <2>3. DOMAIN j = DOMAIN q \cup {z} /\ z \notin DOMAIN q /\ j[z] = e /\ \A k \in DOMAIN q : j[k] = q[k]
    <3>1. /\ Len(Append(q, e)) = Len(q) + 1 /\ Append(q, e) \in Seq(WideEntry)
          /\ \A k \in 1 .. Len(q) : Append(q, e)[k] = q[k] /\ Append(q, e)[Len(q) + 1] = e
      BY <2>1, AppendProperties
    <3>2. Append(q, e)[Len(q) + 1] = e
      BY <2>1, AppendProperties
    <3>. QED
      BY <1>0, <2>1, <3>1, <3>2
  <2>. HIDE DEF z
  <2>4. \A k \in DOMAIN q : q[k].model # m
    BY <1>2 DEF Wanted
  <2>5. Unique(j)
    BY <2>2, <2>3, <2>4 DEF Unique
  <2>6. Wanted(j) = Wanted(q) \cup {m}
    BY <2>2, <2>3 DEF Wanted
  <2>7. \A k \in DOMAIN j :
           \/ j[k].model = m /\ j[k].n_waiters = 1
           \/ k \in DOMAIN q /\ j[k].model = q[k].model /\ j[k].n_waiters = q[k].n_waiters /\ q[k].model # m
    BY <2>2, <2>3, <2>4
  <2>. QED
    BY <1>2, <2>5, <2>6, <2>7 DEF j
<1>. QED
  BY <1>1, <1>2

\* leave counts one request less, and takes the entry away with the last one.
LEMMA LeaveEffect ==
    ASSUME NEW q \in Seq(WideEntry), Unique(q), NEW m \in Wanted(q)
    PROVE  LET j == Leave(q, m)
           IN  /\ Unique(j)
               /\ \A k \in DOMAIN j : \E i \in DOMAIN q :
                     /\ j[k].model = q[i].model
                     /\ j[k].n_waiters = IF q[i].model = m THEN q[i].n_waiters - 1 ELSE q[i].n_waiters
               /\ \A i \in DOMAIN q : q[i].model # m \/ q[i].n_waiters > 1 => q[i].model \in Wanted(j)
<1>. DEFINE j == Leave(q, m)
            c == CHOOSE k \in DOMAIN q : q[k].model = m
<1>0. Len(q) \in Nat /\ DOMAIN q = 1 .. Len(q) /\ \A k \in DOMAIN q : q[k] \in WideEntry
  OBVIOUS
<1>1. c \in DOMAIN q /\ q[c].model = m
  BY DEF Wanted
<1>2. j = IF q[c].n_waiters > 1 THEN [q EXCEPT ![c].n_waiters = @ - 1] ELSE RemoveAt(q, c)
  BY DEF Leave
<1>. HIDE DEF c, j
<1>3. \A k \in DOMAIN q : q[k].model = m => k = c
  BY <1>1 DEF Unique
<1>4. CASE q[c].n_waiters > 1
  <2>1. DOMAIN j = DOMAIN q /\ \A k \in DOMAIN q : k # c => j[k] = q[k]
    BY <1>2, <1>4
  <2>2. j[c].model = m /\ j[c].n_waiters = q[c].n_waiters - 1
    BY <1>0, <1>1, <1>2, <1>4 DEF WideEntry
  <2>3. \A k \in DOMAIN q : /\ j[k].model = q[k].model
                            /\ j[k].n_waiters = IF q[k].model = m THEN q[k].n_waiters - 1 ELSE q[k].n_waiters
    BY <1>1, <1>3, <2>1, <2>2
  <2>. QED
    BY <2>1, <2>3 DEF Unique, Wanted, j
<1>5. CASE ~(q[c].n_waiters > 1)
  <2>1. j = RemoveAt(q, c)
    BY <1>2, <1>5
  <2>2. /\ j \in Seq(WideEntry) /\ Len(j) = Len(q) - 1
        /\ \A i \in 1 .. Len(q) - 1 : j[i] = IF i < c THEN q[i] ELSE q[i + 1]
    BY <1>1, <2>1, RemoveAtElements
  <2>3. DOMAIN j = 1 .. Len(q) - 1
    BY <2>2
  <2>. DEFINE old(k) == IF k < c THEN k ELSE k + 1
              new(i) == IF i < c THEN i ELSE i - 1
  <2>4. \A k \in DOMAIN j : old(k) \in DOMAIN q /\ old(k) # c /\ j[k] = q[old(k)]
    BY <1>0, <1>1, <2>2, <2>3
  <2>5. \A i \in DOMAIN q : i # c => new(i) \in DOMAIN j /\ j[new(i)] = q[i]
    <3>. TAKE i \in DOMAIN q
    <3>. HAVE i # c
    <3>1. i \in 1 .. Len(q) /\ c \in 1 .. Len(q)
      BY <1>0, <1>1
    <3>2. new(i) \in 1 .. Len(q) - 1
      BY <1>0, <3>1
    <3>3. CASE i < c
      BY <2>2, <2>3, <3>2, <3>3
    <3>4. CASE ~(i < c)
      <4>1. new(i) = i - 1 /\ ~(i - 1 < c) /\ (i - 1) + 1 = i
        BY <3>1, <3>4
      <4>. QED
        BY <2>2, <2>3, <3>2, <4>1
    <3>. QED
      BY <3>3, <3>4
  <2>6. \A k, l \in DOMAIN j : old(k) = old(l) => k = l
    BY <1>0, <1>1, <2>3
  <2>. HIDE DEF old, new
  <2>7. Unique(j)
    BY <2>4, <2>6 DEF Unique
  <2>8. \A k \in DOMAIN j : j[k].model = q[old(k)].model /\ j[k].n_waiters = q[old(k)].n_waiters /\ q[old(k)].model # m
    BY <1>3, <2>4
  <2>9. \A i \in DOMAIN q : q[i].model # m \/ q[i].n_waiters > 1 => q[i].model \in Wanted(j)
    BY <1>1, <1>5, <2>5 DEF Wanted
  <2>10. \A k \in DOMAIN j : \E i \in DOMAIN q :
              j[k].model = q[i].model /\ j[k].n_waiters = IF q[i].model = m THEN q[i].n_waiters - 1 ELSE q[i].n_waiters
    BY <2>4, <2>8
  <2>. QED
    BY <2>7, <2>9, <2>10 DEF j
<1>. QED
  BY <1>4, <1>5

\* The entries count what they counted.
SameLine ==
    /\ \A r \in Requests : queued'[r] = queued[r]
    /\ DOMAIN queue' = DOMAIN queue
    /\ \A k \in DOMAIN queue : queue'[k].model = queue[k].model /\ queue'[k].n_waiters = queue[k].n_waiters
Joins(r) == ~queued[r] /\ queue' = Join(queue, Target[r]) /\ queued' = [queued EXCEPT ![r] = TRUE]
Leaves(r) == queued[r] /\ queue' = Leave(queue, Target[r]) /\ queued' = [queued EXCEPT ![r] = FALSE]

\* Only a request that joins or leaves changes the line.
LEMMA QueueKinds ==
    ASSUME Shape, Where, [Next]_vars
    PROVE  SameLine \/ \E r \in Requests : Joins(r) \/ Leaves(r)
<1>0. /\ queue \in Seq(WideEntry) /\ \A k \in DOMAIN queue : queue[k] \in WideEntry
      /\ queued \in [Threads -> BOOLEAN]
  BY DEF Shape, ThreadShape
<1>1. ASSUME NEW r \in Requests, Ensure(r) \/ CancelWaiting(r) \/ Proxy(r) \/ SessionStopped(r)
      PROVE  SameLine \/ Joins(r) \/ Leaves(r)
  <2>0. r \in Threads /\ queued \in [Threads -> BOOLEAN] /\ Requests \subseteq Threads
    BY <1>0 DEF Threads
  <2>. USE DEF SameLine, Finished, Where
  <2>1. CASE ArriveReady(r)
    BY <2>1, <2>0 DEF ArriveReady
  <2>2. CASE ArriveWaiting(r)
    BY <2>2, <2>0 DEF ArriveWaiting
  <2>3. CASE SeeLoading(r)
    BY <2>3, <2>0 DEF SeeLoading
  <2>4. CASE NotRunning(r)
    BY <2>4, <2>0 DEF NotRunning
  <2>5. CASE CheckRunning(r)
    BY <2>5, <2>0 DEF CheckRunning
  <2>6. CASE CountRequest(r)
    BY <2>6, <2>0 DEF CountRequest
  <2>7. CASE FinishRequest(r)
    BY <2>7, <2>0 DEF FinishRequest
  <2>8. CASE SessionStopped(r)
    BY <2>8, <2>0 DEF SessionStopped
  <2>9. CASE ArriveQueued(r) \/ WaitForNext(r)
    BY <2>0, <2>9 DEF ArriveQueued, WaitForNext, JoinQueue, Joins
  <2>10. CASE LeaveLine(r) \/ LoadFailed(r) \/ CancelWaiting(r)
    <3>1. queue' = leave_queue(r) /\ queued' = [queued EXCEPT ![r] = FALSE]
      BY <2>10 DEF LeaveLine, LoadFailed, CancelWaiting, ThrowFromLine
    <3>. QED
      BY <2>0, <3>1 DEF leave_queue, Leaves
  <2>11. CASE ClaimLoad(r)
    <3>1. 1 \in DOMAIN queue
      BY <1>0, <2>11 DEF ClaimLoad, try_claim
    <3>2. queue' = [queue EXCEPT ![1].loading = TRUE] /\ queued' = queued
      BY <2>11 DEF ClaimLoad
    <3>3. queue'[1].model = queue[1].model /\ queue'[1].n_waiters = queue[1].n_waiters
      BY <1>0, <3>1, <3>2 DEF WideEntry
    <3>. QED
      BY <3>1, <3>2, <3>3
  <2>12. CASE ClaimDone(r)
    <3>1. /\ DOMAIN queue' = DOMAIN queue /\ queued' = queued
          /\ \A k \in DOMAIN queue : queue'[k] = queue[k] \/ queue'[k] = [queue[k] EXCEPT !.loading = FALSE]
      BY <2>12 DEF ClaimDone
    <3>2. \A k \in DOMAIN queue : queue'[k].model = queue[k].model /\ queue'[k].n_waiters = queue[k].n_waiters
      BY <1>0, <3>1 DEF WideEntry
    <3>. QED
      BY <3>1, <3>2
  <2>. QED
    BY <1>1, <2>1, <2>2, <2>3, <2>4, <2>5, <2>6, <2>7, <2>8, <2>9, <2>10, <2>11, <2>12 DEF Ensure, Proxy
<1>2. CASE UNCHANGED <<queue, queued>>
  BY <1>2 DEF SameLine
<1>. QED
  BY <1>1, <1>2
     DEF Next, vars, thread, AdminUnload, HandleCommand, Monitor, ReadLine, DeadlineKill, Reap,
         ChildReady, ChildSleep, ChildWake, ChildExit, ChildCrash,
         Load, StartLoad, MakeRoom, EvictVictim, VictimGone, AlreadyUp, SpawnRefused, Spawn

\* Every step keeps the line and its members in agreement.
LEMMA QueueInvStep == Shape /\ Where /\ QueueInv /\ [Next]_vars => QueueInv'
<1>. SUFFICES ASSUME Shape, Where, QueueInv, [Next]_vars PROVE QueueInv'
  OBVIOUS
<1>0. /\ queue \in Seq(WideEntry) /\ queued \in [Threads -> BOOLEAN] /\ Requests \subseteq Threads
      /\ \A k \in DOMAIN queue : queue[k].n_waiters \in Nat
  <2>1. \A k \in DOMAIN queue : queue[k] \in WideEntry
    BY DEF Shape
  <2>. QED
    BY <2>1 DEF Shape, ThreadShape, WideEntry, Threads
<1>1. \A m : IsFiniteSet(Waiters(m)) /\ Cardinality(Waiters(m)) \in Nat
  BY RouterAssumption, FS_Subset, FS_CardinalityType DEF Waiters, Threads
<1>2. Unique(queue)
  BY DEF QueueInv, Unique
<1>3. CASE SameLine
  <2>1. \A m : Waiters(m)' = Waiters(m)
    BY <1>3 DEF SameLine, Waiters
  <2>2. Wanted(queue)' = Wanted(queue)
    BY <1>3 DEF SameLine, Wanted
  <2>3. \A i, k \in DOMAIN queue' : queue'[i].model = queue'[k].model => i = k
    BY <1>3 DEF SameLine, QueueInv
  <2>4. \A r \in Requests : queued'[r] => Target[r] \in Wanted(queue)'
    BY <1>3, <2>2 DEF SameLine, QueueInv
  <2>5. ASSUME NEW k \in DOMAIN queue', NEW v, v = queue'[k].model
        PROVE  queue'[k].n_waiters = Cardinality(Waiters(v)')
    BY <1>3, <2>1, <2>5 DEF SameLine, QueueInv
  <2>. QED
    BY <2>3, <2>4, <2>5 DEF QueueInv, Waiters
<1>4. ASSUME NEW r \in Requests, Joins(r) PROVE QueueInv'
  <2>. DEFINE m == Target[r]
  <2>0. m \in Models
    BY <1>0, RouterAssumption
  <2>1. /\ Unique(queue') /\ Wanted(queue') = Wanted(queue) \cup {m}
        /\ \A k \in DOMAIN queue' :
              \/ m \notin Wanted(queue) /\ queue'[k].model = m /\ queue'[k].n_waiters = 1
              \/ /\ k \in DOMAIN queue /\ queue'[k].model = queue[k].model
                 /\ queue'[k].n_waiters = IF queue[k].model = m THEN queue[k].n_waiters + 1 ELSE queue[k].n_waiters
    BY <1>0, <1>2, <1>4, <2>0, JoinEffect DEF Joins
  <2>2. queued' = [queued EXCEPT ![r] = TRUE] /\ ~queued[r]
    BY <1>4 DEF Joins
  <2>. HIDE DEF m
  <2>3. Waiters(m)' = Waiters(m) \cup {r} /\ r \notin Waiters(m)
    BY <1>0, <2>2 DEF Waiters, m
  <2>4. Cardinality(Waiters(m)') = Cardinality(Waiters(m)) + 1
    BY <1>1, <2>3, FS_AddElement
  <2>5. \A v : v # m => Waiters(v)' = Waiters(v)
    BY <1>0, <2>2 DEF Waiters, m
  <2>6. m \notin Wanted(queue) => Cardinality(Waiters(m)) = 0
    <3>1. m \notin Wanted(queue) => Waiters(m) = {}
      BY DEF QueueInv, Waiters
    <3>. QED
      BY <3>1, FS_EmptySet
  <2>7. ASSUME NEW q \in Requests, queued'[q] PROVE Target[q] \in Wanted(queue')
    BY <1>0, <2>1, <2>2, <2>7 DEF QueueInv, m
  <2>8. ASSUME NEW k \in DOMAIN queue', NEW v, v = queue'[k].model
        PROVE  queue'[k].n_waiters = Cardinality(Waiters(v)')
    <3>1. CASE m \notin Wanted(queue) /\ queue'[k].model = m /\ queue'[k].n_waiters = 1
      BY <1>1, <2>4, <2>6, <2>8, <3>1
    <3>2. CASE /\ k \in DOMAIN queue /\ queue'[k].model = queue[k].model
               /\ queue'[k].n_waiters = IF queue[k].model = m THEN queue[k].n_waiters + 1 ELSE queue[k].n_waiters
      BY <2>4, <2>5, <2>8, <3>2 DEF QueueInv
    <3>. QED
      BY <2>1, <3>1, <3>2
  <2>. QED
    BY <2>1, <2>7, <2>8 DEF QueueInv, Unique, Waiters
<1>5. ASSUME NEW r \in Requests, Leaves(r) PROVE QueueInv'
  <2>. DEFINE m == Target[r]
  <2>0. m \in Wanted(queue)
    BY <1>5 DEF Leaves, QueueInv
  <2>1. /\ Unique(queue')
        /\ \A k \in DOMAIN queue' : \E i \in DOMAIN queue :
              /\ queue'[k].model = queue[i].model
              /\ queue'[k].n_waiters = IF queue[i].model = m THEN queue[i].n_waiters - 1 ELSE queue[i].n_waiters
        /\ \A i \in DOMAIN queue : queue[i].model # m \/ queue[i].n_waiters > 1 => queue[i].model \in Wanted(queue')
    BY <1>0, <1>2, <1>5, <2>0, LeaveEffect DEF Leaves
  <2>2. queued' = [queued EXCEPT ![r] = FALSE] /\ queued[r]
    BY <1>5 DEF Leaves
  <2>. HIDE DEF m
  <2>3. Waiters(m)' = Waiters(m) \ {r} /\ r \in Waiters(m)
    BY <1>0, <2>2 DEF Waiters, m
  <2>4. /\ Cardinality(Waiters(m)') = Cardinality(Waiters(m)) - 1
        /\ IsFiniteSet(Waiters(m)') /\ Cardinality(Waiters(m)') \in Nat
    BY <1>1, <2>3, FS_RemoveElement, FS_CardinalityType
  <2>5. \A v : v # m => Waiters(v)' = Waiters(v)
    BY <1>0, <2>2 DEF Waiters, m
  <2>6. ASSUME NEW q \in Requests, queued'[q] PROVE Target[q] \in Wanted(queue')
    <3>1. queued[q]
      BY <1>0, <2>2, <2>6
    <3>2. PICK i \in DOMAIN queue : queue[i].model = Target[q]
      BY <3>1 DEF QueueInv, Wanted
    <3>3. CASE Target[q] # m
      BY <2>1, <3>2, <3>3
    <3>4. CASE Target[q] = m
      <4>1. q \in Waiters(m)'
        BY <2>6, <3>4 DEF Waiters
      <4>2. Cardinality(Waiters(m)') # 0
        BY <2>4, <4>1, FS_EmptySet
      <4>3. queue[i].n_waiters > 1
        BY <1>1, <2>4, <3>2, <3>4, <4>2 DEF QueueInv
      <4>. QED
        BY <2>1, <3>2, <4>3
    <3>. QED
      BY <3>3, <3>4
  <2>7. ASSUME NEW k \in DOMAIN queue', NEW v, v = queue'[k].model
        PROVE  queue'[k].n_waiters = Cardinality(Waiters(v)')
    <3>1. PICK i \in DOMAIN queue :
              /\ queue'[k].model = queue[i].model
              /\ queue'[k].n_waiters = IF queue[i].model = m THEN queue[i].n_waiters - 1 ELSE queue[i].n_waiters
      BY <2>1
    <3>. QED
      BY <2>4, <2>5, <2>7, <3>1 DEF QueueInv
  <2>. QED
    BY <2>1, <2>6, <2>7 DEF QueueInv, Unique, Waiters
<1>. QED
  BY <1>3, <1>4, <1>5, QueueKinds

-----------------------------------------------------------------------------
(* The counter is exact as long as a model has its first instance.          *)

\* Processes are never forgotten, and keep their model.
LEMMA ModelsKept ==
    ASSUME Shape, Where, InRange, ChildInv, StopInv, [Next]_vars
    PROVE  /\ DOMAIN child \subseteq DOMAIN child'
           /\ \A i \in DOMAIN child : child'[i].model = child[i].model
           /\ DOMAIN child' = DOMAIN child \/ \E t \in Threads : Spawn(t)
<1>0. \A i \in DOMAIN child : child[i] \in Process
  BY DEF Shape
<1>1. CASE Calm
  BY <1>1 DEF Calm, SameProcesses, Shape
<1>2. CASE HandleCommand
  BY <1>2, Handled
<1>3. ASSUME NEW t \in Threads, Spawn(t)
      PROVE  DOMAIN child \subseteq DOMAIN child' /\ \A i \in DOMAIN child : child'[i].model = child[i].model
  BY <1>3, SpawnedChild
<1>4. ASSUME NEW i \in DOMAIN child, Reap(i)
      PROVE  DOMAIN child' = DOMAIN child /\ \A k \in DOMAIN child : child'[k].model = child[k].model
  <2>1. /\ DOMAIN child' = DOMAIN child
        /\ child'[i] = [child[i] EXCEPT !.life = "reaped"]
        /\ \A k \in DOMAIN child : k # i => child'[k] = child[k]
    BY <1>4, Reaped
  <2>2. child'[i].model = child[i].model
    BY <1>0, <2>1 DEF Process
  <2>. QED
    BY <2>1, <2>2
<1>. QED
  BY <1>1, <1>2, <1>3, <1>4, StepKinds

\* Only CheckRunning chooses the instance a request talks to.
LEMMA PortKinds ==
    ASSUME Shape, [Next]_vars
    PROVE  \A v \in Requests : pc'[v] \in {"checked", "proxying"} =>
               CheckRunning(v) \/ (pc[v] \in {"checked", "proxying"} /\ port'[v] = port[v])
<1>. USE DEF Shape, ThreadShape, Goto, Finished, Return
<1>. SUFFICES ASSUME NEW v \in Requests, pc'[v] \in {"checked", "proxying"}
              PROVE  CheckRunning(v) \/ (pc[v] \in {"checked", "proxying"} /\ port'[v] = port[v])
  OBVIOUS
<1>1. ASSUME NEW r \in Requests, Ensure(r) \/ CancelWaiting(r) \/ Proxy(r) \/ SessionStopped(r)
      PROVE  CheckRunning(v) \/ (pc[v] \in {"checked", "proxying"} /\ port'[v] = port[v])
  <2>0. r \in Threads /\ v \in Threads
    BY DEF Threads
  <2>1. CASE ArriveReady(r)
    BY <2>1, <2>0 DEF ArriveReady
  <2>2. CASE ArriveQueued(r)
    BY <2>2, <2>0 DEF ArriveQueued, JoinQueue
  <2>3. CASE ArriveWaiting(r)
    BY <2>3, <2>0 DEF ArriveWaiting
  <2>4. CASE WaitForNext(r)
    BY <2>4, <2>0 DEF WaitForNext, JoinQueue
  <2>5. CASE SeeLoading(r)
    BY <2>5, <2>0 DEF SeeLoading
  <2>6. CASE LeaveLine(r)
    BY <2>6, <2>0 DEF LeaveLine, InLine
  <2>7. CASE LoadFailed(r)
    BY <2>7, <2>0 DEF LoadFailed, InLine, ThrowFromLine
  <2>8. CASE CancelWaiting(r)
    BY <2>8, <2>0 DEF CancelWaiting, ThrowFromLine
  <2>9. CASE ClaimLoad(r)
    BY <2>9, <2>0 DEF ClaimLoad, InLine
  <2>10. CASE ClaimDone(r)
    BY <2>10, <2>0 DEF ClaimDone
  <2>11. CASE NotRunning(r)
    BY <2>11, <2>0 DEF NotRunning
  <2>12. CASE CountRequest(r)
    BY <2>12, <2>0 DEF CountRequest
  <2>13. CASE FinishRequest(r)
    BY <2>13, <2>0 DEF FinishRequest
  <2>14. CASE SessionStopped(r)
    BY <2>14, <2>0 DEF SessionStopped
  <2>15. CASE CheckRunning(r)
    BY <2>0, <2>15 DEF CheckRunning
  <2>. QED
    BY <1>1, <2>1, <2>2, <2>3, <2>4, <2>5, <2>6, <2>7, <2>8, <2>9, <2>10, <2>11, <2>12, <2>13, <2>14, <2>15 DEF Ensure, Proxy
<1>2. ASSUME NEW t \in Threads, Load(t) \/ StartLoad(t)
      PROVE  pc[v] \in {"checked", "proxying"} /\ port'[v] = port[v]
  <2>0. v \in Threads
    BY DEF Threads
  <2>1. CASE MakeRoom(t)
    BY <2>1, <1>2, <2>0 DEF MakeRoom
  <2>2. CASE EvictVictim(t)
    BY <2>2, <1>2, <2>0 DEF EvictVictim
  <2>3. CASE VictimGone(t)
    BY <2>3, <1>2, <2>0 DEF VictimGone
  <2>4. CASE AlreadyUp(t)
    BY <2>4, <1>2, <2>0 DEF AlreadyUp
  <2>5. CASE SpawnRefused(t)
    BY <2>5, <1>2, <2>0 DEF SpawnRefused
  <2>6. CASE Spawn(t)
    BY <2>6, <1>2, <2>0 DEF Spawn
  <2>7. CASE StartLoad(t)
    BY <2>7, <1>2, <2>0 DEF StartLoad
  <2>. QED
    BY <1>2, <2>1, <2>2, <2>3, <2>4, <2>5, <2>6, <2>7 DEF Load
<1>3. CASE UNCHANGED <<pc, port>>
  BY <1>3
<1>. QED
  BY <1>1, <1>2, <1>3
     DEF Next, vars, Threads, AdminUnload, HandleCommand, Monitor, ReadLine, DeadlineKill, Reap,
         ChildReady, ChildSleep, ChildWake, ChildExit, ChildCrash, thread

\* A request goes to an instance of the model it asked for.
LEMMA PortModelStep == Shape /\ Where /\ InRange /\ ChildInv /\ StopInv /\ PortModel /\ [Next]_vars => PortModel'
<1>. SUFFICES ASSUME Shape, Where, InRange, ChildInv, StopInv, PortModel, [Next]_vars,
                     NEW r \in Requests, pc'[r] \in {"checked", "proxying"}
              PROVE  port'[r] \in DOMAIN child' /\ child'[port'[r]].model = Target[r]
  BY DEF PortModel
<1>1. port'[r] \in DOMAIN child /\ child[port'[r]].model = Target[r]
  <2>1. CASE CheckRunning(r)
    <3>1. r \in Threads /\ Target[r] \in Models /\ is_running(status[Target[r]])
      BY <2>1, RouterAssumption DEF CheckRunning, Threads
    <3>2. port'[r] = subproc[Target[r]]
      BY <2>1, <3>1 DEF CheckRunning, Shape, ThreadShape
    <3>. QED
      BY <3>1, <3>2 DEF ChildInv, Instance2
  <2>2. CASE pc[r] \in {"checked", "proxying"} /\ port'[r] = port[r]
    BY <2>2 DEF PortModel
  <2>. QED
    BY <2>1, <2>2, PortKinds
<1>. QED
  BY <1>1, ModelsKept

\* Every step keeps the counter of a first instance exact.
LEMMA FirstCountStep ==
    Shape /\ Where /\ InRange /\ ChildInv /\ StopInv /\ PortModel /\ FirstCount /\ [Next]_vars => FirstCount'
<1>. SUFFICES ASSUME Shape, Where, InRange, ChildInv, StopInv, PortModel, FirstCount, [Next]_vars,
                     NEW m \in Models, FirstInstance(m)'
              PROVE  req_count'[m] = Cardinality(InFlight(m)')
  BY DEF FirstCount
<1>0. req_count \in [Models -> Nat] /\ pc \in [Threads -> Locations]
  BY DEF Shape, RegistryShape, ThreadShape
<1>1. /\ IsFiniteSet(InFlight(m)) /\ IsFiniteSet(InFlight(m)')
      /\ Cardinality(InFlight(m)) \in Nat /\ Cardinality(InFlight(m)') \in Nat
  BY RouterAssumption, FS_Subset, FS_CardinalityType DEF InFlight, Threads
<1>2. FirstInstance(m)
  BY ModelsKept DEF FirstInstance
<1>3. req_count[m] = Cardinality(InFlight(m))
  BY <1>2 DEF FirstCount
<1>4. CASE SameFlights
  <2>1. InFlight(m)' = InFlight(m)
    BY <1>4 DEF SameFlights, InFlight
  <2>2. CASE req_count' = req_count
    BY <1>3, <2>1, <2>2
  <2>3. ASSUME NEW t \in Threads, Spawn(t) PROVE req_count'[m] = Cardinality(InFlight(m)')
    <3>1. req_count' = [req_count EXCEPT ![Target[t]] = 0]
      BY <2>3 DEF Spawn
    <3>2. CASE Target[t] # m
      BY <1>0, <1>3, <2>1, <3>1, <3>2
    <3>3. CASE Target[t] = m
      <4>. DEFINE n == Len(child) + 1
      <4>1. /\ n \notin DOMAIN child /\ DOMAIN child' = DOMAIN child \cup {n} /\ child'[n] = NewChild(m)
            /\ \A k \in DOMAIN child : child'[k] = child[k]
        BY <2>3, <3>3, SpawnedChild
      <4>2. child'[n].model = m
        BY <4>1 DEF NewChild
      <4>. HIDE DEF n
      <4>3. \A k \in DOMAIN child : child[k].model # m
        BY <4>1, <4>2 DEF FirstInstance
      <4>4. InFlight(m) = {}
        BY <4>3 DEF InFlight, PortModel
      <4>5. req_count'[m] = 0
        BY <1>0, <3>1, <3>3
      <4>. QED
        BY <2>1, <4>4, <4>5, FS_EmptySet
    <3>. QED
      BY <3>2, <3>3
  <2>. QED
    BY <1>4, <2>2, <2>3 DEF SameFlights
<1>5. ASSUME NEW r \in Requests, CountRequest(r) PROVE req_count'[m] = Cardinality(InFlight(m)')
  <2>1. /\ pc' = [pc EXCEPT ![r] = "proxying"] /\ pc[r] = "checked"
        /\ req_count' = [req_count EXCEPT ![Target[r]] = @ + 1] /\ r \in Threads
    BY <1>5 DEF CountRequest, Goto, Threads
  <2>2. CASE Target[r] = m
    <3>1. r \notin InFlight(m) /\ InFlight(m)' = InFlight(m) \cup {r}
      BY <1>0, <2>1, <2>2 DEF InFlight, Threads
    <3>2. Cardinality(InFlight(m)') = Cardinality(InFlight(m)) + 1
      BY <1>1, <3>1, FS_AddElement
    <3>. QED
      BY <1>0, <1>1, <1>3, <2>1, <2>2, <3>2
  <2>3. CASE Target[r] # m
    <3>1. InFlight(m)' = InFlight(m)
      BY <1>0, <2>1, <2>3 DEF InFlight, Threads
    <3>. QED
      BY <1>0, <1>3, <2>1, <2>3, <3>1
  <2>. QED
    BY <2>2, <2>3
<1>6. ASSUME NEW r \in Requests, FinishRequest(r) PROVE req_count'[m] = Cardinality(InFlight(m)')
  <2>1. /\ pc' = [pc EXCEPT ![r] = "done"] /\ pc[r] = "proxying"
        /\ req_count' = [req_count EXCEPT ![Target[r]] = IF @ > 0 THEN @ - 1 ELSE 0] /\ r \in Threads
    BY <1>6 DEF FinishRequest, Finished, Goto, Threads
  <2>2. CASE Target[r] = m
    <3>1. r \in InFlight(m) /\ InFlight(m)' = InFlight(m) \ {r}
      BY <1>0, <2>1, <2>2 DEF InFlight, Threads
    <3>2. Cardinality(InFlight(m)') = Cardinality(InFlight(m)) - 1
      BY <1>1, <3>1, FS_RemoveElement
    <3>. QED
      BY <1>0, <1>1, <1>3, <2>1, <2>2, <3>2
  <2>3. CASE Target[r] # m
    <3>1. InFlight(m)' = InFlight(m)
      BY <1>0, <2>1, <2>3 DEF InFlight, Threads
    <3>. QED
      BY <1>0, <1>3, <2>1, <2>3, <3>1
  <2>. QED
    BY <2>2, <2>3
<1>. QED
  BY <1>4, <1>5, <1>6, Flights

-----------------------------------------------------------------------------
(* The invariant.                                                           *)

\* The router starts with no process and no request.
LEMMA RouterInvInit == Init => RouterInv
<1>. SUFFICES ASSUME Init PROVE RouterInv
  OBVIOUS
<1>. USE RouterAssumption DEF Init
<1>1. Shape
  BY EmptySeq DEF Shape, RegistryShape, ThreadShape, StopShape, BudgetShape, Statuses, Locations
<1>2. InRange /\ Where /\ ChildInv
  BY DEF InRange, Where, ChildInv, Instance1, Instance2, ReadToTheEnd, is_running
<1>3. StopInv
  BY DEF StopInv, WatchInv, StaleStop, UnderWay, StopIsMeant
<1>4. RoomInv
  <2>1. Running(status) = {}
    BY DEF Running, is_running
  <2>2. Cardinality(Running(status)) = 0
    BY <2>1, FS_EmptySet
  <2>. QED
    BY <2>2 DEF RoomInv
<1>5. SpawnOnce
  <2>1. Cardinality(Spawned) \in Nat
    BY FS_Subset, FS_CardinalityType DEF Spawned
  <2>. QED
    BY <2>1 DEF SpawnOnce
<1>6. CountBound /\ FirstCount /\ PortModel
  <2>1. \A m \in Models : InFlight(m) = {} /\ req_count[m] = 0
    BY DEF InFlight, Threads
  <2>2. PortModel
    BY DEF PortModel, Threads
  <2>3. \A m \in Models : Cardinality(InFlight(m)) = 0
    BY <2>1, FS_EmptySet
  <2>. QED
    BY <2>1, <2>2, <2>3 DEF CountBound, FirstCount
<1>7. QueueInv
  BY DEF QueueInv, Threads
<1>. QED
  BY <1>1, <1>2, <1>3, <1>4, <1>5, <1>6, <1>7 DEF RouterInv

\* Every step keeps the invariant.
LEMMA RouterInvStep == RouterInv /\ [Next]_vars => RouterInv'
<1>. SUFFICES ASSUME RouterInv, [Next]_vars PROVE RouterInv'
  OBVIOUS
<1>0. /\ Shape /\ InRange /\ Where /\ ChildInv /\ StopInv
      /\ RoomInv /\ SpawnOnce /\ CountBound /\ QueueInv /\ PortModel /\ FirstCount
  BY DEF RouterInv
<1>1. ChildInv' /\ StopInv' /\ RoomInv'
  <2>1. CASE Calm
    BY <1>0, <2>1, CalmChild, CalmStop, CalmRoom
  <2>2. CASE HandleCommand
    <3>1. RoomInv'
      BY <1>0, <2>2 DEF HandleCommand, registry, RoomInv
    <3>. QED
      BY <1>0, <2>2, <3>1, HandleChild, HandleStop
  <2>3. ASSUME NEW t \in Threads, Spawn(t) PROVE ChildInv' /\ StopInv' /\ RoomInv'
    BY <1>0, <2>3, SpawnChild, SpawnStop, SpawnRoom
  <2>4. ASSUME NEW i \in DOMAIN child, Reap(i) PROVE ChildInv' /\ StopInv' /\ RoomInv'
    BY <1>0, <2>4, ReapChild, ReapStop, ReapRoom
  <2>. QED
    BY <1>0, <2>1, <2>2, <2>3, <2>4, StepKinds
<1>2. Shape' /\ InRange' /\ Where'
  BY <1>0, ShapeStep, RangeStep, WhereStep
<1>3. SpawnOnce' /\ CountBound' /\ QueueInv' /\ PortModel' /\ FirstCount'
  BY <1>0, SpawnOnceStep, CountStep, QueueInvStep, PortModelStep, FirstCountStep
<1>. QED
  BY <1>1, <1>2, <1>3 DEF RouterInv

\* In every reachable state.
LEMMA RouterInvariant == Spec => []RouterInv
BY RouterInvInit, RouterInvStep, PTL DEF Spec

-----------------------------------------------------------------------------
(* The theorems.                                                            *)

\* The variables hold what their types say: every instance a command, a request
\* or the registry names was started, no thread starts two, and no counter
\* exceeds the requests there are.
THEOREM RouterTypeCorrect == Spec => []TypeOK
<1>1. RouterInv => TypeOK
  <2>. SUFFICES ASSUME RouterInv PROVE TypeOK
    OBVIOUS
  <2>0. Shape /\ InRange /\ SpawnOnce /\ CountBound /\ QueueInv /\ WatchInv
    BY DEF RouterInv, StopInv
  <2>1. /\ IsFiniteSet(Threads) /\ Cardinality(Threads) \in Nat
        /\ IsFiniteSet(Requests) /\ Cardinality(Requests) \in Nat
        /\ Cardinality(Requests) <= Cardinality(Threads)
    BY RouterAssumption, FS_Subset, FS_CardinalityType DEF Threads
  <2>2. Cardinality(Spawned) <= Cardinality(Threads) /\ Cardinality(Spawned) \in Nat
    BY <2>1, FS_Subset, FS_CardinalityType DEF Spawned
  <2>3. Len(child) \in Nat /\ DOMAIN child = 1 .. Len(child) /\ Len(child) <= Cardinality(Threads)
    BY <2>0, <2>1, <2>2 DEF Shape, SpawnOnce
  <2>4. subproc \in [Models -> 0 .. Len(child)]
    BY <2>0, <2>3 DEF Shape, RegistryShape, InRange
  <2>5. req_count \in [Models -> 0 .. Cardinality(Requests)]
    <3>1. \A m \in Models : Cardinality(InFlight(m)) <= Cardinality(Requests) /\ Cardinality(InFlight(m)) \in Nat
      BY <2>1, FS_Subset, FS_CardinalityType DEF InFlight
    <3>. QED
      BY <2>0, <2>1, <3>1 DEF Shape, RegistryShape, CountBound
  <2>6. queue \in Seq(Entry)
    <3>1. ASSUME NEW k \in DOMAIN queue PROVE queue[k] \in Entry
      <4>1. queue[k] \in WideEntry
        BY <2>0 DEF Shape
      <4>. DEFINE W == Waiters(queue[k].model)
      <4>2. queue[k].n_waiters = Cardinality(W)
        BY <2>0 DEF QueueInv
      <4>3. Cardinality(W) <= Cardinality(Requests) /\ Cardinality(W) \in Nat
        BY <2>1, FS_Subset, FS_CardinalityType DEF Waiters
      <4>. HIDE DEF W
      <4>4. queue[k].n_waiters \in Instances
        BY <2>1, <4>1, <4>2, <4>3 DEF WideEntry, Instances
      <4>. QED
        BY <4>1, <4>4 DEF WideEntry, Entry
    <3>. QED
      BY <2>0, <3>1 DEF Shape
  <2>7. cmds \in Seq(Command)
    <3>1. ASSUME NEW k \in DOMAIN cmds PROVE cmds[k] \in Command
      <4>1. cmds[k] \in WideCommand
        BY <2>0 DEF Shape, StopShape
      <4>2. CASE cmds[k].type = "WATCH"
        <5>1. cmds[k].inst \in Instances
          BY <2>0, <2>1, <2>3, <4>2 DEF WatchInv, Instances
        <5>. QED
          BY <4>1, <4>2, <5>1 DEF WideCommand, Command
      <4>3. CASE cmds[k].type # "WATCH"
        BY <4>1, <4>3 DEF WideCommand, Command
      <4>. QED
        BY <4>2, <4>3
    <3>. QED
      BY <2>0, <3>1 DEF Shape, StopShape
  <2>8. port \in [Threads -> 0 .. Len(child)]
    BY <2>0, <2>3 DEF Shape, ThreadShape, InRange
  <2>. QED
    BY <2>0, <2>4, <2>5, <2>6, <2>7, <2>8
       DEF TypeOK, Shape, RegistryShape, ThreadShape, StopShape, BudgetShape
<1>. QED
  BY <1>1, RouterInvariant, PTL

\* At most --models-max child processes are alive, however requests, load calls,
\* failures and stops interleave.
THEOREM RouterLimitHolds == Spec => []WithinModelsMax
<1>1. RouterInv => WithinModelsMax
  <2>. SUFFICES ASSUME RouterInv, ModelsMax > 0
                PROVE  Cardinality({i \in DOMAIN child : Alive(i)}) <= ModelsMax
    BY DEF WithinModelsMax
  <2>. DEFINE L == {i \in DOMAIN child : Alive(i)}
              R == Running(status)
  <2>0. Instance1 /\ Cardinality(R) <= ModelsMax
    BY DEF RouterInv, ChildInv, RoomInv
  <2>1. IsFiniteSet(R) /\ Cardinality(R) \in Nat
    BY RouterAssumption, FS_Subset, FS_CardinalityType DEF Running
  <2>2. \A i \in L : child[i].model \in R /\ subproc[child[i].model] = i
    <3>. SUFFICES ASSUME NEW i \in L PROVE child[i].model \in R /\ subproc[child[i].model] = i
      OBVIOUS
    <3>1. child[i] \in Process
      BY DEF RouterInv, Shape
    <3>. QED
      BY <2>0, <3>1 DEF Instance1, Alive, Running, Process
  <2>. DEFINE f == [i \in L |-> child[i].model]
  <2>. HIDE DEF L, R
  <2>3. f \in Injection(L, R)
    BY <2>2 DEF Injection, IsInjective
  <2>4. IsFiniteSet(L) /\ Cardinality(L) <= Cardinality(R)
    BY <2>1, <2>3, FS_Injection
  <2>5. Cardinality(L) \in Nat
    BY <2>4, FS_CardinalityType
  <2>6. Cardinality(L) <= ModelsMax
    BY <2>0, <2>1, <2>4, <2>5, RouterAssumption
  <2>. QED
    BY <2>6 DEF L
<1>. QED
  BY <1>1, RouterInvariant, PTL

\* A live process is the instance the registry knows for its model.
THEOREM RouterKeepsChildren == Spec => []NoOrphanChild
<1>1. RouterInv => NoOrphanChild
  BY DEF RouterInv, ChildInv, Instance1, NoOrphanChild, Alive
<1>. QED
  BY <1>1, RouterInvariant, PTL

\* STOP looks its child up by name, and still never hits a later instance.
THEOREM RouterStopsMeant == Spec => []StopIsMeant
<1>1. RouterInv => StopIsMeant
  BY DEF RouterInv, StopInv
<1>. QED
  BY <1>1, RouterInvariant, PTL

\* A model that is stopping has a stop that will reach it, or is dead.
THEOREM RouterStopUnderWay == Spec => []StopUnderWay
<1>1. RouterInv => StopUnderWay
  BY DEF RouterInv, StopInv, UnderWay, StopUnderWay, Reaches, IsStop
<1>. QED
  BY <1>1, RouterInvariant, PTL

\* The queue has one entry per model, which counts exactly those who wait in it.
THEOREM RouterQueueAgrees == Spec => []QueueAgrees
<1>1. RouterInv => QueueAgrees
  <2>. SUFFICES ASSUME RouterInv PROVE QueueAgrees
    OBVIOUS
  <2>1. QueueInv
    BY DEF RouterInv
  <2>2. ASSUME NEW m \in Models
        PROVE  Cardinality({k \in DOMAIN queue : queue[k].model = m}) <= 1
    <3>. DEFINE S == {k \in DOMAIN queue : queue[k].model = m}
    <3>1. \A i, k \in S : i = k
      BY <2>1 DEF QueueInv
    <3>. HIDE DEF S
    <3>2. S = {} => Cardinality(S) = 0
      BY FS_EmptySet
    <3>3. ASSUME NEW k \in S PROVE Cardinality(S) = 1
      <4>1. S = {k}
        BY <3>1
      <4>. QED
        BY <4>1, FS_Singleton
    <3>4. Cardinality(S) = 0 \/ Cardinality(S) = 1
      BY <3>2, <3>3
    <3>5. Cardinality(S) \in Int /\ Cardinality(S) <= 1
      BY <3>4
    <3>. QED
      BY <3>5 DEF S
  <2>. QED
    BY <2>1, <2>2 DEF QueueInv, QueueAgrees, Waiters
<1>. QED
  BY <1>1, RouterInvariant, PTL

\* tick() picks models whose counter is 0.
LEMMA TickIdle ==
    ASSUME NEW st, NEW rc, NEW stp, NEW q, Tick(st, rc, stp, q), NEW m \in stopping' \ stp
    PROVE  rc[m] = 0
<1>1. PICK V \in Evictions(st, rc, stp, q) : stopping' = stp \cup V
  BY DEF Tick
<1>. QED
  BY <1>1 DEF Evictions, Idle

\* Whom a step stops, when nobody calls unload(), has no request in flight.
LEMMA StoppedIdle ==
    ASSUME Shape, [Next]_vars, NoUnload, NEW m \in stopping' \ stopping
    PROVE  req_count'[m] = 0
<1>1. ASSUME NEW r \in Requests, JoinQueue(r) \/ ThrowFromLine(r) \/ ClaimDone(r) PROVE req_count'[m] = 0
  BY <1>1, TickIdle DEF JoinQueue, ThrowFromLine, ClaimDone, registry
<1>2. ASSUME NEW r \in Requests, FinishRequest(r) PROVE req_count'[m] = 0
  <2>1. CASE req_count[Target[r]] = 1
    <3>1. Tick(status, req_count', stopping, queue)
      BY <1>2, <2>1 DEF FinishRequest
    <3>. QED
      BY <3>1, TickIdle
  <2>2. CASE req_count[Target[r]] # 1
    BY <1>2, <2>2 DEF FinishRequest
  <2>. QED
    BY <2>1, <2>2
<1>3. ASSUME NEW i \in DOMAIN child, ReadLine(i) \/ Reap(i) PROVE req_count'[m] = 0
  <2>1. req_count' = req_count
    BY <1>3 DEF ReadLine, Reap
  <2>2. ASSUME NEW v, NEW new, NEW code, update_status(v, new, code) PROVE req_count[m] = 0
    <3>. DEFINE st == [status EXCEPT ![v] = new]
                stp == IF new = "unloaded" THEN stopping \ {v} ELSE stopping
    <3>1. Tick(st, req_count, stp, queue)
      BY <2>2 DEF update_status
    <3>2. m \in stopping' \ stp
      OBVIOUS
    <3>. HIDE DEF st, stp
    <3>. QED
      BY <3>1, <3>2, TickIdle
  <2>. QED
    BY <1>3, <2>1, <2>2 DEF ReadLine, Reap
<1>4. ASSUME NEW t \in Threads, EvictVictim(t) PROVE FALSE
  BY <1>4 DEF EvictVictim, Goto, NoUnload, Shape, ThreadShape
<1>5. ASSUME NEW v \in Models, AdminUnload(v) PROVE FALSE
  BY <1>5 DEF AdminUnload, NoUnload, Shape, BudgetShape
<1>6. CASE UNCHANGED stopping
  BY <1>6
<1>. QED
  BY <1>1, <1>2, <1>3, <1>4, <1>5, <1>6
     DEF Next, vars, HandleCommand, Monitor, DeadlineKill,
         ChildReady, ChildSleep, ChildWake, ChildExit, ChildCrash,
         Ensure, ArriveReady, ArriveQueued, ArriveWaiting, WaitForNext, SeeLoading, LeaveLine,
         LoadFailed, CancelWaiting, ClaimLoad,
         Proxy, SessionStopped, NotRunning, CheckRunning, CountRequest,
         Load, StartLoad, MakeRoom, VictimGone, AlreadyUp, SpawnRefused, Spawn

\* tick() spares the first instance of a model while a request is in flight on it.
THEOREM RouterSparesBusy == Spec => BusySpared
<1>1. RouterInv /\ RouterInv' /\ [Next]_vars =>
          [NoUnload => \A m \in stopping' \ stopping :
              FirstInstance(m) => \A r \in Requests : pc'[r] = "proxying" => port[r] # subproc[m]]_vars
  <2>. SUFFICES ASSUME RouterInv, RouterInv', [Next]_vars, NoUnload,
                       NEW m \in stopping' \ stopping, FirstInstance(m),
                       NEW r \in Requests, pc'[r] = "proxying", port[r] = subproc[m]
                PROVE  FALSE
    OBVIOUS
  <2>0. /\ Shape /\ InRange /\ Where /\ ChildInv /\ StopInv /\ PortModel
        /\ Shape' /\ ChildInv' /\ StopInv' /\ PortModel' /\ FirstCount'
    BY DEF RouterInv
  <2>1. m \in Models /\ is_running(status'[m])
    BY <2>0 DEF Shape, StopShape, StopInv, UnderWay
  <2>2. req_count'[m] = 0
    BY <2>0, StoppedIdle
  <2>3. ~\E t \in Threads : Spawn(t)
    BY DEF Spawn
  <2>4. DOMAIN child' = DOMAIN child /\ \A i \in DOMAIN child : child'[i].model = child[i].model
    BY <2>0, <2>3, ModelsKept
  <2>5. FirstInstance(m)'
    BY <2>4 DEF FirstInstance
  <2>6. InFlight(m)' = {}
    <3>1. Cardinality(InFlight(m)') = 0
      BY <2>0, <2>1, <2>2, <2>5 DEF FirstCount
    <3>2. IsFiniteSet(InFlight(m)')
      BY RouterAssumption, FS_Subset DEF InFlight, Threads
    <3>. QED
      BY <3>1, <3>2, FS_EmptySet
  <2>7. Target[r] # m
    BY <2>6 DEF InFlight
  <2>8. port'[r] \in DOMAIN child' /\ child'[port'[r]].model = Target[r]
    BY <2>0 DEF PortModel
  <2>9. port'[r] = port[r]
    <3>1. CASE CheckRunning(r)
      BY <2>0, <3>1 DEF CheckRunning
    <3>. QED
      BY <2>0, <3>1, PortKinds
  <2>10. child[subproc[m]].model = Target[r] /\ subproc[m] \in DOMAIN child
    BY <2>4, <2>8, <2>9
  <2>11. subproc[m] # 0
    BY <2>0, <2>10 DEF Shape
  <2>. QED
    BY <2>0, <2>1, <2>7, <2>10, <2>11 DEF InRange
<1>. QED
  BY <1>1, RouterInvariant, PTL DEF Spec, BusySpared
=============================================================================
