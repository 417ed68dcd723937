---------------------------- MODULE StreamSession ----------------------------
(***************************************************************************)
(* Resumable streams of the llama server (tools/server/server-stream.cpp). *)
(* A request that carries a conversation id tees what it generates into a  *)
(* session, a ring buffer of Cap bytes that outlives the client's          *)
(* connection.  The manager maps a conversation to its one session; a new  *)
(* request of the conversation replaces it, DELETE cancels it, the         *)
(* collector drops it some time after it completed.  Readers (GET) replay  *)
(* it from an offset and then follow it.                                   *)
(*                                                                         *)
(* The map, each session and each flag have a lock of their own, so        *)
(* retiring a session takes several steps: out of the map, cancel,         *)
(* finalize.  A byte is its position in the generation.                    *)
(***************************************************************************)
EXTENDS Naturals, Sequences, FiniteSets

CONSTANTS
    Requests,  \* generations; each owns the session it creates
    Stops,     \* DELETE /v1/stream calls
    Readers,   \* GET /v1/stream calls
    Convs,     \* conversation ids
    Conv,      \* the conversation of each call
    Cap,       \* STREAM_SESSION_MAX_BYTES
    MaxBytes,  \* bound: bytes a generation makes
    MaxFrom,   \* bound: offset a reader asks for
    None

Threads == Requests \cup Stops

ASSUME StreamAssumption ==
    /\ Conv \in [Threads \cup Readers -> Convs]
    /\ Requests \cap Stops = {}
    /\ Cap \in Nat \ {0} /\ MaxBytes \in Nat /\ MaxFrom \in Nat
    /\ None \notin Requests

VARIABLES
    sessions,  \* the manager's map: the live session of a conversation
    buffer, prefix_dropped, done, cancelled,   \* the fields of each session
    pc, hold,  \* where each thread is, the session it has yet to retire
    made,      \* bytes the generation made so far, until it ends
    pending,   \* bytes of the chunk next_orig() returned and write() has not seen
    rpc, rsess, from, got,  \* each reader: location, its session, its offset, what it received
    down       \* the server is shutting down; the sessions stop_gc() has yet to finalize

session == <<buffer, prefix_dropped, done, cancelled>>
reader == <<rpc, rsess, from, got>>
vars == <<sessions, session, pc, hold, made, pending, reader, down>>

Init ==
    /\ sessions = [c \in Convs |-> None]
    /\ buffer = [s \in Requests |-> <<>>]
    /\ prefix_dropped = [s \in Requests |-> 0]
    /\ done = [s \in Requests |-> FALSE]
    /\ cancelled = [s \in Requests |-> FALSE]
    /\ pc = [t \in Threads |-> "new"]
    /\ hold = [t \in Threads |-> None]
    /\ made = [p \in Requests |-> 0]
    /\ pending = [p \in Requests |-> 0]
    /\ rpc = [r \in Readers |-> "new"]
    /\ rsess = [r \in Readers |-> None]
    /\ from = [r \in Readers |-> 0]
    /\ got = [r \in Readers |-> <<>>]
    /\ down = [begun |-> FALSE, left |-> {}]

Goto(t, to) == pc' = [pc EXCEPT ![t] = to]

total_size(s) == prefix_dropped[s] + Len(buffer[s])

\* The bytes a generation makes after the first k.
Bytes(k, n) == [i \in 1 .. n |-> k + i]

-----------------------------------------------------------------------------
(* stream_session.                                                         *)

\* Mutant: the ring drops one byte too few.
MutantDropTooFew(s, k, n) ==
    LET skip == n - Cap
        drop == Len(buffer[s]) + n - Cap - 1
    IN IF done[s] THEN UNCHANGED <<buffer, prefix_dropped>>
       ELSE IF n >= Cap
       THEN /\ prefix_dropped' = [prefix_dropped EXCEPT ![s] = @ + Len(buffer[s]) + skip]
            /\ buffer' = [buffer EXCEPT ![s] = Bytes(k + skip, Cap)]
       ELSE IF Len(buffer[s]) + n > Cap
       THEN /\ prefix_dropped' = [prefix_dropped EXCEPT ![s] = @ + drop]
            /\ buffer' = [buffer EXCEPT ![s] = SubSeq(@, drop + 1, Len(@)) \o Bytes(k, n)]
       ELSE /\ buffer' = [buffer EXCEPT ![s] = @ \o Bytes(k, n)]
            /\ UNCHANGED prefix_dropped

\* Mutant: the skipped head of a large chunk is not counted as dropped.
MutantSkipUncounted(s, k, n) ==
    LET skip == n - Cap
        drop == Len(buffer[s]) + n - Cap
    IN IF done[s] THEN UNCHANGED <<buffer, prefix_dropped>>
       ELSE IF n >= Cap
       THEN /\ prefix_dropped' = [prefix_dropped EXCEPT ![s] = @ + Len(buffer[s])]
            /\ buffer' = [buffer EXCEPT ![s] = Bytes(k + skip, Cap)]
       ELSE IF Len(buffer[s]) + n > Cap
       THEN /\ prefix_dropped' = [prefix_dropped EXCEPT ![s] = @ + drop]
            /\ buffer' = [buffer EXCEPT ![s] = SubSeq(@, drop + 1, Len(@)) \o Bytes(k, n)]
       ELSE /\ buffer' = [buffer EXCEPT ![s] = @ \o Bytes(k, n)]
            /\ UNCHANGED prefix_dropped

\* Mutant: a finalized session still takes bytes.
MutantAppendAfterDone(s, k, n) ==
    LET skip == n - Cap
        drop == Len(buffer[s]) + n - Cap
    IN IF n >= Cap
       THEN /\ prefix_dropped' = [prefix_dropped EXCEPT ![s] = @ + Len(buffer[s]) + skip]
            /\ buffer' = [buffer EXCEPT ![s] = Bytes(k + skip, Cap)]
       ELSE IF Len(buffer[s]) + n > Cap
       THEN /\ prefix_dropped' = [prefix_dropped EXCEPT ![s] = @ + drop]
            /\ buffer' = [buffer EXCEPT ![s] = SubSeq(@, drop + 1, Len(@)) \o Bytes(k, n)]
       ELSE /\ buffer' = [buffer EXCEPT ![s] = @ \o Bytes(k, n)]
            /\ UNCHANGED prefix_dropped

\* append() of the n bytes after the first k; refused once the session is done.
append(s, k, n) ==
    LET skip == n - Cap
        drop == Len(buffer[s]) + n - Cap
    IN IF done[s] THEN UNCHANGED <<buffer, prefix_dropped>>
       ELSE IF n >= Cap
       THEN /\ prefix_dropped' = [prefix_dropped EXCEPT ![s] = @ + Len(buffer[s]) + skip]
            /\ buffer' = [buffer EXCEPT ![s] = Bytes(k + skip, Cap)]
       ELSE IF Len(buffer[s]) + n > Cap
       THEN /\ prefix_dropped' = [prefix_dropped EXCEPT ![s] = @ + drop]
            /\ buffer' = [buffer EXCEPT ![s] = SubSeq(@, drop + 1, Len(@)) \o Bytes(k, n)]
       ELSE /\ buffer' = [buffer EXCEPT ![s] = @ \o Bytes(k, n)]
            /\ UNCHANGED prefix_dropped

finalize(s) == done' = [done EXCEPT ![s] = TRUE]

-----------------------------------------------------------------------------
(* A request: server_res_spipe around the generation.                      *)

\* Mutant: the session that was there is left alone.
MutantReplaceForgets(p) ==
    /\ pc[p] = "new"
    /\ sessions' = [sessions EXCEPT ![Conv[p]] = p]
    /\ Goto(p, "start")
    /\ UNCHANGED <<session, hold, made, pending, reader, down>>

\* set_req, create_or_replace: the map is swapped under its lock, the session
\* that was there is cancelled and finalized after.  The HTTP server is stopped after
\* the manager: a session may come after the shutdown's snapshot.
SetReq(p) ==
    LET previous == sessions[Conv[p]] IN
    /\ pc[p] = "new"
    /\ sessions' = [sessions EXCEPT ![Conv[p]] = p]
    /\ hold' = [hold EXCEPT ![p] = previous]
    /\ Goto(p, IF previous = None THEN "start" ELSE "cancel")
    /\ UNCHANGED <<session, made, pending, reader, down>>

\* evict_and_cancel
Delete(t) ==
    LET s == sessions[Conv[t]] IN
    /\ t \in Stops /\ pc[t] = "new"
    /\ sessions' = [sessions EXCEPT ![Conv[t]] = None]
    /\ hold' = [hold EXCEPT ![t] = s]
    /\ Goto(t, IF s = None THEN "done" ELSE "cancel")
    /\ UNCHANGED <<session, made, pending, reader, down>>

CancelHeld(t) ==
    /\ pc[t] = "cancel"
    /\ cancelled' = [cancelled EXCEPT ![hold[t]] = TRUE]
    /\ Goto(t, "finalize")
    /\ UNCHANGED <<sessions, buffer, prefix_dropped, done, hold, made, pending, reader, down>>

FinalizeHeld(t) ==
    /\ pc[t] = "finalize"
    /\ finalize(hold[t])
    /\ hold' = [hold EXCEPT ![t] = None]
    /\ Goto(t, IF t \in Stops THEN "done" ELSE "start")
    /\ UNCHANGED <<sessions, buffer, prefix_dropped, cancelled, made, pending, reader, down>>

\* The first result is there: set_next.
StartStream(p) ==
    /\ pc[p] = "start"
    /\ Goto(p, "stream")
    /\ UNCHANGED <<sessions, session, hold, made, pending, reader, down>>

\* on_complete without set_next: the request failed, its client left before the
\* first result, or it does not stream.  evict() finds the session by
\* conversation id.
EndBeforeStream(p) ==
    LET s == sessions[Conv[p]] IN
    /\ pc[p] = "start"
    /\ sessions' = [sessions EXCEPT ![Conv[p]] = None]
    /\ hold' = [hold EXCEPT ![p] = s]
    /\ Goto(p, IF s = None THEN "over" ELSE "evict")
    /\ UNCHANGED <<session, made, pending, reader, down>>

FinalizeEvicted(p) ==
    /\ pc[p] = "evict"
    /\ finalize(hold[p])
    /\ hold' = [hold EXCEPT ![p] = None]
    /\ Goto(p, "over")
    /\ UNCHANGED <<sessions, buffer, prefix_dropped, cancelled, made, pending, reader, down>>

\* next_orig() returns a chunk, unless should_stop sees the cancellation.
NextChunk(p) ==
    /\ pc[p] \in {"stream", "drain"} /\ pending[p] = 0 /\ ~cancelled[p]
    /\ \E n \in 1 .. MaxBytes - made[p] : pending' = [pending EXCEPT ![p] = n]
    /\ UNCHANGED <<sessions, session, pc, hold, made, reader, down>>

\* The tee, and the drain loop of on_complete, write it into the session.
WriteChunk(p) ==
    /\ pc[p] \in {"stream", "drain"} /\ pending[p] > 0
    /\ append(p, made[p], pending[p])
    /\ made' = [made EXCEPT ![p] = @ + pending[p]]
    /\ pending' = [pending EXCEPT ![p] = 0]
    /\ UNCHANGED <<sessions, done, cancelled, pc, hold, reader, down>>

\* The client's connection breaks: on_complete goes on pulling the generation.
Disconnect(p) ==
    /\ pc[p] = "stream" /\ pending[p] = 0
    /\ Goto(p, "drain")
    /\ UNCHANGED <<sessions, session, hold, made, pending, reader, down>>

\* next_orig() reports the end: out of tokens, an error, or cancelled.
NextEnds(p) ==
    /\ pc[p] \in {"stream", "drain"} /\ pending[p] = 0
    /\ Goto(p, "over")
    /\ UNCHANGED <<sessions, session, hold, made, pending, reader, down>>

\* Mutant: the producer end goes away without finalizing the session.
MutantNoFinalize(p) ==
    /\ pc[p] = "over"
    /\ made' = [made EXCEPT ![p] = 0]
    /\ Goto(p, "done")
    /\ UNCHANGED <<sessions, session, hold, pending, reader, down>>

\* The response is destroyed, and with it the producer end of the pipe.
DestroyPipe(p) ==
    /\ pc[p] = "over"
    /\ finalize(p)
    /\ made' = [made EXCEPT ![p] = 0]
    /\ Goto(p, "done")
    /\ UNCHANGED <<sessions, buffer, prefix_dropped, cancelled, hold, pending, reader, down>>

-----------------------------------------------------------------------------
(* The manager: collector and shutdown.                                    *)

\* gc_loop: STREAM_SESSION_TTL_SECONDS after a session completed.
Collect(c) ==
    /\ ~down.begun /\ sessions[c] # None /\ done[sessions[c]]
    /\ sessions' = [sessions EXCEPT ![c] = None]
    /\ UNCHANGED <<session, pc, hold, made, pending, reader, down>>

\* stop_gc: snapshot and clear the map, then finalize one session after another.
StopGc ==
    /\ ~down.begun
    /\ down' = [begun |-> TRUE, left |-> {sessions[c] : c \in Convs} \ {None}]
    /\ sessions' = [c \in Convs |-> None]
    /\ UNCHANGED <<session, pc, hold, made, pending, reader>>

FinalizeLeft ==
    \E s \in down.left :
        /\ finalize(s)
        /\ down' = [down EXCEPT !.left = @ \ {s}]
        /\ UNCHANGED <<sessions, buffer, prefix_dropped, cancelled, pc, hold, made, pending, reader>>

-----------------------------------------------------------------------------
(* A reader: the GET handler and its next closure.                         *)

LookUp(r) ==
    /\ rpc[r] = "new" /\ sessions[Conv[r]] # None
    /\ rsess' = [rsess EXCEPT ![r] = sessions[Conv[r]]]
    /\ \E o \in 0 .. MaxFrom : from' = [from EXCEPT ![r] = o]
    /\ rpc' = [rpc EXCEPT ![r] = "check"]
    /\ UNCHANGED <<sessions, session, pc, hold, made, pending, got, down>>

NotFound(r) ==
    /\ rpc[r] = "new" /\ sessions[Conv[r]] = None
    /\ rpc' = [rpc EXCEPT ![r] = "refused"]
    /\ UNCHANGED <<sessions, session, pc, hold, made, pending, rsess, from, got, down>>

CheckOffset(r) ==
    /\ rpc[r] = "check"
    /\ rpc' = [rpc EXCEPT ![r] = IF from[r] < prefix_dropped[rsess[r]] THEN "refused" ELSE "read"]
    /\ UNCHANGED <<sessions, session, pc, hold, made, pending, rsess, from, got, down>>

Offset(r) == from[r] + Len(got[r])

\* read_from copies what is available from the reader's offset on.
ReadAvailable(r) ==
    LET s == rsess[r]
        local_off == Offset(r) - prefix_dropped[s]
    IN /\ rpc[r] = "read"
       /\ prefix_dropped[s] <= Offset(r) /\ Offset(r) < total_size(s)
       /\ got' = [got EXCEPT ![r] = @ \o SubSeq(buffer[s], local_off + 1, Len(buffer[s]))]
       /\ UNCHANGED <<sessions, session, pc, hold, made, pending, rpc, rsess, from, down>>

ReadComplete(r) ==
    /\ rpc[r] = "read" /\ Offset(r) >= total_size(rsess[r]) /\ done[rsess[r]]
    /\ rpc' = [rpc EXCEPT ![r] = "complete"]
    /\ UNCHANGED <<sessions, session, pc, hold, made, pending, rsess, from, got, down>>

\* The bytes at the offset are gone: the closure returns no data, which ends the
\* response without an error.
ReadLost(r) ==
    /\ rpc[r] = "read" /\ Offset(r) < prefix_dropped[rsess[r]]
    /\ rpc' = [rpc EXCEPT ![r] = "lost"]
    /\ UNCHANGED <<sessions, session, pc, hold, made, pending, rsess, from, got, down>>

\* should_stop: the reader's client is gone.
ReaderLeaves(r) ==
    /\ rpc[r] = "read"
    /\ rpc' = [rpc EXCEPT ![r] = "left"]
    /\ UNCHANGED <<sessions, session, pc, hold, made, pending, rsess, from, got, down>>

-----------------------------------------------------------------------------
Retire(t) == CancelHeld(t) \/ FinalizeHeld(t)

Generate(p) == FinalizeEvicted(p) \/ NextChunk(p) \/ WriteChunk(p) \/ NextEnds(p) \/ DestroyPipe(p)

Read(r) == CheckOffset(r) \/ ReadAvailable(r) \/ ReadComplete(r) \/ ReadLost(r)

Next ==
    \/ \E p \in Requests : SetReq(p) \/ StartStream(p) \/ EndBeforeStream(p) \/ Disconnect(p) \/ Generate(p)
    \/ \E t \in Stops : Delete(t)
    \/ \E t \in Threads : Retire(t)
    \/ \E r \in Readers : LookUp(r) \/ NotFound(r) \/ Read(r) \/ ReaderLeaves(r)
    \/ \E c \in Convs : Collect(c)
    \/ StopGc \/ FinalizeLeft

Spec == Init /\ [][Next]_vars

\* The thread of a request goes on: it retires the session it replaced, and its
\* generation makes progress and ends.  So does the thread of a DELETE, and a
\* reader's thread polls every STREAM_READ_WAKE_INTERVAL_MS.
Fairness ==
    /\ \A p \in Requests : WF_vars(Retire(p) \/ StartStream(p) \/ EndBeforeStream(p) \/ Generate(p))
    /\ \A t \in Stops : WF_vars(Retire(t))
    /\ \A r \in Readers : WF_vars(Read(r))

FairSpec == Spec /\ Fairness

-----------------------------------------------------------------------------
(* Properties.                                                             *)

Byte == 1 .. MaxBytes

\* Types, and the bound on memory: a session never holds more than Cap bytes.
TypeOK ==
    /\ sessions \in [Convs -> Requests \cup {None}]
    /\ buffer \in [Requests -> Seq(Byte)] /\ \A s \in Requests : Len(buffer[s]) <= Cap
    /\ prefix_dropped \in [Requests -> 0 .. MaxBytes]
    /\ done \in [Requests -> BOOLEAN] /\ cancelled \in [Requests -> BOOLEAN]
    /\ pc \in [Threads -> {"new", "cancel", "finalize", "start", "stream", "drain", "evict", "over", "done"}]
    /\ hold \in [Threads -> Requests \cup {None}]
    /\ made \in [Requests -> 0 .. MaxBytes] /\ pending \in [Requests -> 0 .. MaxBytes]
    /\ rpc \in [Readers -> {"new", "check", "read", "complete", "lost", "left", "refused"}]
    /\ rsess \in [Readers -> Requests \cup {None}] /\ from \in [Readers -> 0 .. MaxFrom]
    /\ got \in [Readers -> Seq(Byte)]
    /\ down \in [begun : BOOLEAN, left : SUBSET Requests]

\* What a reader received is a run of the generation's bytes that starts at its
\* offset: the ring drops, replays and chunk boundaries lose and repeat nothing.
ReplayContiguous == \A r \in Readers : got[r] = Bytes(from[r], Len(got[r]))

\* A session that still takes bytes is the one its conversation maps to, or some
\* thread is about to finalize it: one live session per conversation.
OneLivePerConv ==
    \A s \in Requests : pc[s] # "new" /\ ~done[s] =>
        \/ sessions[Conv[s]] = s
        \/ \E t \in Threads : hold[t] = s
        \/ s \in down.left \/ pc[s] = "over"

\* A request that ends before its stream starts evicts the session it installed
\* itself (on_complete: "evict the session installed by set_req()").
EvictsOwn == \A p \in Requests : pc[p] = "evict" => hold[p] = p

\* A reader does not hang: its session is finalized on every path.
ReadersEnd == \A r \in Readers : rpc[r] = "read" ~> rpc[r] # "read"

-----------------------------------------------------------------------------
(* The sessions implement the log of StreamLog: the bytes that were dropped *)
(* are still part of it.                                                   *)

LogOf(s) ==
    [k \in 1 .. total_size(s) |-> IF k <= prefix_dropped[s] THEN k ELSE buffer[s][k - prefix_dropped[s]]]

EndOf(r) ==
    CASE rpc[r] = "complete" -> "complete"
      [] rpc[r] \in {"lost", "left", "refused"} -> "cut"
      [] OTHER -> "no"

Log == INSTANCE StreamLog WITH
    Sessions <- Requests,
    log <- [s \in Requests |-> LogOf(s)],
    closed <- {s \in Requests : done[s]},
    follows <- rsess,
    ended <- [r \in Readers |-> EndOf(r)]

\* Every behaviour of the ring buffers is one of append-only logs whose readers
\* receive each byte once, in order, and all of them before "complete".
ImplementsLog == Log!Spec
=============================================================================
