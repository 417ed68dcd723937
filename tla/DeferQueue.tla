----------------------------- MODULE DeferQueue -----------------------------
(***************************************************************************)
(* The in-memory queue of deferred training jobs (trainingDeferQueue,      *)
(* server/training_defer_queue.go).  A submit that policy rejects is       *)
(* parked under a defer-* id; a worker goroutine polls the queue, hands    *)
(* the oldest due job to the Python worker and records the outcome.        *)
(*                                                                         *)
(* q.mu protects the map and the order, but it is released around          *)
(* SubmitTrainingJobDirect, so a DELETE of the job may run between the     *)
(* moment the drain goroutine has decided to submit a job and the moment   *)
(* it records what became of it.                                           *)
(***************************************************************************)
EXTENDS Naturals, FiniteSets, Sequences, SequencesExt

CONSTANTS
    Jobs,       \* the defer-* ids; an id is drawn at random and never reused
    MaxDepth,   \* ZEROLLAMA_TRAINING_QUEUE_MAX; 0 means unlimited
    RetryMax,   \* ZEROLLAMA_TRAINING_QUEUE_RETRY_MAX; 0 means never retry
    NoJob       \* the empty id ""

ASSUME DeferAssumption ==
    /\ MaxDepth \in Nat
    /\ RetryMax \in Nat
    /\ NoJob \notin Jobs

VARIABLES
    state,      \* q.items[id].state; "none" before enqueue, "gone" once evicted
    order,      \* q.order
    retryCount, \* q.items[id].retryCount
    backoff,    \* the jobs whose nextRetryAt lies in the future
    drain,      \* the drain goroutine: where it is and its local id
    accepted    \* how often the Python worker has accepted each id

vars == <<state, order, retryCount, backoff, drain, accepted>>

States == {"none", "waiting", "promoted", "failed", "cancelled", "gone"}

Terminal == {"promoted", "failed", "cancelled"}

TypeOK ==
    /\ state \in [Jobs -> States]
    /\ order \in Seq(Jobs)
    /\ retryCount \in [Jobs -> 0..RetryMax]
    /\ backoff \subseteq Jobs
    /\ drain \in [pc : {"idle", "picked", "submit", "record"}, id : Jobs \cup {NoJob}]
    /\ accepted \in [Jobs -> Nat]

Init ==
    /\ state = [j \in Jobs |-> "none"]
    /\ order = <<>>
    /\ retryCount = [j \in Jobs |-> 0]
    /\ backoff = {}
    /\ drain = [pc |-> "idle", id |-> NoJob]
    /\ accepted = [j \in Jobs |-> 0]

-----------------------------------------------------------------------------
\* removeFromOrderLocked drops the first occurrence; by OrderListsWaiting there
\* is at most one.
RemoveFromOrder(s, id) ==
    IF \E i \in DOMAIN s : s[i] = id
    THEN RemoveAt(s, CHOOSE i \in DOMAIN s : s[i] = id)
    ELSE s

\* The jobs enqueue counts against the depth limit.
Waiting == {j \in Jobs : state[j] = "waiting"}

\* enqueue: a job that fits under the limit is appended.
Enqueue(j) ==
    /\ state[j] = "none"
    /\ MaxDepth > 0 => Cardinality(Waiting) < MaxDepth
    /\ state' = [state EXCEPT ![j] = "waiting"]
    /\ order' = Append(order, j)
    /\ UNCHANGED <<retryCount, backoff, drain, accepted>>

\* cancel: a waiting job leaves the order at once; DELETE has succeeded.  In
\* every other state cancel changes nothing (it reports success again for a
\* cancelled job and an error otherwise).
Cancel(j) ==
    /\ state[j] = "waiting"
    /\ state' = [state EXCEPT ![j] = "cancelled"]
    /\ order' = RemoveFromOrder(order, j)
    /\ UNCHANGED <<retryCount, backoff, drain, accepted>>

\* nextRetryAt of a job that waits for its next attempt passes.
RetryDue(j) ==
    /\ j \in backoff
    /\ backoff' = backoff \ {j}
    /\ UNCHANGED <<state, order, retryCount, drain, accepted>>

-----------------------------------------------------------------------------
\* The positions of jobs that are due, and the one nextPendingID returns: the
\* first in order.
Due == {i \in DOMAIN order : state[order[i]] = "waiting" /\ order[i] \notin backoff}

NextPendingID(i) == i \in Due /\ \A k \in Due : i <= k

Drain(pc, id) == drain' = [pc |-> pc, id |-> id]

\* drainOnce, head of the loop: nothing due ends the pass.
DrainPick ==
    /\ drain.pc = "idle"
    /\ \E i \in DOMAIN order : NextPendingID(i) /\ Drain("picked", order[i])
    /\ UNCHANGED <<state, order, retryCount, backoff, accepted>>

\* The allowed window, the inference backlog and the cross-queue FIFO are
\* consulted without q.mu; any of them ends the pass.
DrainGateClosed ==
    /\ drain.pc = "picked"
    /\ Drain("idle", NoJob)
    /\ UNCHANGED <<state, order, retryCount, backoff, accepted>>

\* With the gates open the job is looked up again under q.mu: a job cancelled
\* in the meantime is skipped, any other goes to the worker.
DrainGateOpen ==
    /\ drain.pc = "picked"
    /\ IF state[drain.id] = "waiting"
       THEN Drain("submit", drain.id)
       ELSE Drain("idle", NoJob)
    /\ UNCHANGED <<state, order, retryCount, backoff, accepted>>

\* SubmitTrainingJobDirect returns: the worker has taken the job ...
SubmitAccepted ==
    /\ drain.pc = "submit"
    /\ accepted' = [accepted EXCEPT ![drain.id] = @ + 1]
    /\ Drain("record", drain.id)
    /\ UNCHANGED <<state, order, retryCount, backoff>>

\* ... or it is busy with another one, which ends the pass ...
SubmitConflict ==
    /\ drain.pc = "submit"
    /\ Drain("idle", NoJob)
    /\ UNCHANGED <<state, order, retryCount, backoff, accepted>>

MutantRetryWithoutLimit ==
    /\ drain.pc = "submit"
    /\ LET j == drain.id IN
       /\ retryCount' = [retryCount EXCEPT ![j] = @ + 1]
       /\ state' = [state EXCEPT ![j] = "waiting"]
       /\ backoff' = backoff \cup {j}
       /\ order' = IF j \in ToSet(order) THEN order ELSE Append(order, j)
    /\ Drain("idle", NoJob)
    /\ UNCHANGED accepted

MutantSubmitFailedAlwaysAppends ==
    /\ drain.pc = "submit"
    /\ LET j == drain.id IN
       \/ /\ retryCount[j] < RetryMax
          /\ retryCount' = [retryCount EXCEPT ![j] = @ + 1]
          /\ state' = [state EXCEPT ![j] = "waiting"]
          /\ backoff' = backoff \cup {j}
          /\ order' = Append(order, j)
       \/ /\ ~(retryCount[j] < RetryMax)
          /\ state' = [state EXCEPT ![j] = "failed"]
          /\ order' = RemoveFromOrder(order, j)
          /\ UNCHANGED <<retryCount, backoff>>
    /\ Drain("idle", NoJob)
    /\ UNCHANGED accepted

\* ... or it failed: markFailedOrRetryLocked puts the job back in the queue
\* while attempts are left.
SubmitFailed ==
    /\ drain.pc = "submit"
    /\ LET j == drain.id IN
       \/ /\ retryCount[j] < RetryMax
          /\ retryCount' = [retryCount EXCEPT ![j] = @ + 1]
          /\ state' = [state EXCEPT ![j] = "waiting"]
          /\ backoff' = backoff \cup {j}
          /\ order' = IF j \in ToSet(order) THEN order ELSE Append(order, j)
       \/ /\ ~(retryCount[j] < RetryMax)
          /\ state' = [state EXCEPT ![j] = "failed"]
          /\ order' = RemoveFromOrder(order, j)
          /\ UNCHANGED <<retryCount, backoff>>
    /\ Drain("idle", NoJob)
    /\ UNCHANGED accepted

MutantMarkPromotedKeepsWaiting ==
    /\ drain.pc = "record"
    /\ Drain("idle", NoJob)
    /\ UNCHANGED <<state, order, retryCount, backoff, accepted>>

MutantMarkPromotedUnlessCancelled ==
    /\ drain.pc = "record"
    /\ state' = [state EXCEPT ![drain.id] = IF @ = "cancelled" THEN @ ELSE "promoted"]
    /\ order' = RemoveFromOrder(order, drain.id)
    /\ Drain("idle", NoJob)
    /\ UNCHANGED <<retryCount, backoff, accepted>>

\* markPromotedLocked, whatever state the record is in by now.
MarkPromoted ==
    /\ drain.pc = "record"
    /\ state' = [state EXCEPT ![drain.id] = "promoted"]
    /\ order' = RemoveFromOrder(order, drain.id)
    /\ Drain("idle", NoJob)
    /\ UNCHANGED <<retryCount, backoff, accepted>>

MutantEvictWaiting(j) ==
    /\ drain.pc = "idle"
    /\ state[j] \in Terminal \cup {"waiting"}
    /\ state' = [state EXCEPT ![j] = "gone"]
    /\ order' = RemoveFromOrder(order, j)
    /\ UNCHANGED <<retryCount, backoff, drain, accepted>>

\* evictExpired runs on the drain goroutine between two passes, so never while
\* a submit is in flight: a tombstone past its TTL is dropped.
EvictExpired(j) ==
    /\ drain.pc = "idle"
    /\ state[j] \in Terminal
    /\ state' = [state EXCEPT ![j] = "gone"]
    /\ order' = RemoveFromOrder(order, j)
    /\ UNCHANGED <<retryCount, backoff, drain, accepted>>

Next ==
    \/ \E j \in Jobs : Enqueue(j) \/ Cancel(j) \/ RetryDue(j) \/ EvictExpired(j)
    \/ DrainPick \/ DrainGateClosed \/ DrainGateOpen
    \/ SubmitAccepted \/ SubmitConflict \/ SubmitFailed \/ MarkPromoted

Spec == Init /\ [][Next]_vars

\* The drain goroutine keeps ticking and the Go runtime schedules it; a retry
\* time passes.  The gates are the rest of the server: they open again and
\* again, and the worker does not stay busy or broken for ever.
FairSpec ==
    /\ Spec
    /\ WF_vars(DrainPick) /\ WF_vars(MarkPromoted)
    /\ SF_vars(DrainGateOpen) /\ SF_vars(SubmitAccepted)
    /\ \A j \in Jobs : WF_vars(RetryDue(j))
-----------------------------------------------------------------------------
\* The order slice and the map agree: q.order lists exactly the waiting jobs,
\* each once.  cancel, markPromotedLocked, markFailedOrRetryLocked and
\* evictExpired each touch both, in different critical sections; a stale entry
\* would be submitted twice or hold a depth slot for ever.
OrderListsWaiting ==
    /\ ToSet(order) = Waiting
    /\ \A i, k \in DOMAIN order : order[i] = order[k] => i = k

\* drainOnce hands an id to the Python worker at most once, whatever
\* cancellations, conflicts and retries happen around the unlocked submit.
AcceptedOnce == \A j \in Jobs : accepted[j] <= 1

\* The record tells the truth about the worker: between two passes, a job is
\* promoted (or was, and its tombstone expired) exactly when the worker has it.
PromotedIffAccepted ==
    drain.pc = "idle" =>
        \A j \in Jobs : /\ state[j] = "promoted" => accepted[j] = 1
                       /\ accepted[j] = 1 => state[j] \in {"promoted", "gone"}

\* A DELETE that succeeded is final: a cancelled job stays cancelled until its
\* tombstone expires.
CancelIsFinal ==
    [][\A j \in Jobs : state[j] = "cancelled" => state'[j] \in {"cancelled", "gone"}]_vars

\* Every deferred job is eventually promoted, failed or cancelled: drainOnce
\* does not let a job behind a retrying head starve, and evictExpired does not
\* drop one that waits.
EventuallySettled ==
    \A j \in Jobs : state[j] = "waiting" ~> state[j] \in Terminal
=============================================================================
