------------------------------ MODULE StreamLog ------------------------------
(***************************************************************************)
(* What a replay session promises (server-stream.h: "streaming buffer for  *)
(* one generation ... the producer appends SSE bytes, readers drain from   *)
(* any offset"): a session is a log that only grows and, once closed, does *)
(* not change; a reader attached at an offset receives the bytes of that   *)
(* one log from there on, each of them once and in order, and is told the  *)
(* stream is complete only when it has all of a closed log.  A reader may  *)
(* be cut off at any time.                                                 *)
(***************************************************************************)
EXTENDS Naturals, Sequences

CONSTANTS Sessions, Readers, None

VARIABLES
    log,     \* the bytes of each session
    closed,  \* sessions that take no more bytes
    follows, \* the session a reader is attached to
    from,    \* the offset it asked for
    got,     \* the bytes it received
    ended    \* "no", "complete" or "cut"

logVars == <<log, closed, follows, from, got, ended>>

Init ==
    /\ log = [s \in Sessions |-> <<>>]
    /\ closed = {}
    /\ follows = [r \in Readers |-> None]
    /\ from = [r \in Readers |-> 0]
    /\ got = [r \in Readers |-> <<>>]
    /\ ended = [r \in Readers |-> "no"]

\* The log grows at its end, by any bytes.
Write(s) ==
    /\ s \notin closed
    /\ log' = [log EXCEPT ![s] = log'[s]]
    /\ Len(log[s]) < Len(log'[s])
    /\ \A k \in 1 .. Len(log[s]) : log'[s][k] = log[s][k]
    /\ UNCHANGED <<closed, follows, from, got, ended>>

Close(s) ==
    /\ closed' = closed \cup {s}
    /\ UNCHANGED <<log, follows, from, got, ended>>

Attach(r, s) ==
    /\ follows[r] = None /\ ended[r] = "no"
    /\ follows' = [follows EXCEPT ![r] = s]
    /\ from' = [from EXCEPT ![r] = from'[r]] /\ from'[r] \in Nat
    /\ UNCHANGED <<log, closed, got, ended>>

\* Everything between the reader's position and the end of its log.
Deliver(r) ==
    LET s   == follows[r]
        pos == from[r] + Len(got[r])
    IN /\ s # None /\ ended[r] = "no" /\ pos < Len(log[s])
       /\ got' = [got EXCEPT ![r] = @ \o SubSeq(log[s], pos + 1, Len(log[s]))]
       /\ UNCHANGED <<log, closed, follows, from, ended>>

Complete(r) ==
    /\ follows[r] \in closed /\ ended[r] = "no"
    /\ Len(log[follows[r]]) <= from[r] + Len(got[r])
    /\ ended' = [ended EXCEPT ![r] = "complete"]
    /\ UNCHANGED <<log, closed, follows, from, got>>

Cut(r) ==
    /\ ended[r] = "no"
    /\ ended' = [ended EXCEPT ![r] = "cut"]
    /\ UNCHANGED <<log, closed, follows, from, got>>

Next ==
    \/ \E s \in Sessions : Write(s) \/ Close(s)
    \/ \E r \in Readers : Deliver(r) \/ Complete(r) \/ Cut(r) \/ \E s \in Sessions : Attach(r, s)

Spec == Init /\ [][Next]_logVars
=============================================================================
