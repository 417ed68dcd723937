-------------------------- MODULE DeferQueueProofs --------------------------
(***************************************************************************)
(* Proofs about DeferQueue, for every set of jobs, depth and retry limit.  *)
(* The inductive invariant adds to the type invariant what the drain       *)
(* goroutine knows while q.mu is released: the job it is submitting has    *)
(* not been accepted, the job it is about to record has.                   *)
(***************************************************************************)
EXTENDS DeferQueue, SequenceTheorems, TLAPS

\* removeFromOrderLocked keeps the order a sequence of jobs.
LEMMA RemoveFromOrderType ==
    ASSUME NEW S, NEW s \in Seq(S), NEW e
    PROVE  RemoveFromOrder(s, e) \in Seq(S)
<1>1. ASSUME NEW i \in DOMAIN s PROVE RemoveAt(s, i) \in Seq(S)
  <2>1. SubSeq(s, 1, i-1) \in Seq(S)
    OBVIOUS
  <2>2. SubSeq(s, i+1, Len(s)) \in Seq(S)
    OBVIOUS
  <2>. QED
    BY <2>1, <2>2 DEF RemoveAt
<1>. QED
  BY <1>1 DEF RemoveFromOrder

-----------------------------------------------------------------------------
\* The id the drain goroutine works on is a job.
DrainHasJob == drain.pc # "idle" => drain.id \in Jobs

\* A job is accepted at most once, and then it is promoted, evicted after a
\* promotion, or about to be recorded.
AcceptedAccounted ==
    \A j \in Jobs :
        \/ accepted[j] = 0
        \/ /\ accepted[j] = 1
           /\ state[j] \in {"promoted", "gone"} \/ (drain.pc = "record" /\ drain.id = j)

\* What the drain goroutine relies on while q.mu is released.
DrainKnows ==
    /\ drain.pc = "submit" => accepted[drain.id] = 0
    /\ drain.pc = "record" => accepted[drain.id] = 1

PromotedWasAccepted == \A j \in Jobs : state[j] = "promoted" => accepted[j] = 1

IInv == TypeOK /\ DrainHasJob /\ AcceptedAccounted /\ DrainKnows /\ PromotedWasAccepted

\* The invariant holds of the empty queue.
LEMMA InitIInv == Init => IInv
BY DeferAssumption, EmptySeq
   DEF Init, IInv, TypeOK, States, DrainHasJob, AcceptedAccounted, DrainKnows, PromotedWasAccepted

\* One step per action of the queue, its clients and the drain goroutine.
LEMMA StepIInv == IInv /\ [Next]_vars => IInv'
<1>. SUFFICES ASSUME IInv, [Next]_vars
              PROVE  IInv'
  OBVIOUS
<1>. USE DeferAssumption DEF IInv, DrainHasJob, AcceptedAccounted, DrainKnows, PromotedWasAccepted
<1>1. ASSUME NEW j \in Jobs, Enqueue(j) PROVE IInv'
  <2>1. order' \in Seq(Jobs)
    BY <1>1, AppendProperties DEF Enqueue, TypeOK
  <2>. QED
    BY <1>1, <2>1 DEF Enqueue, TypeOK, States
<1>2. ASSUME NEW j \in Jobs, Cancel(j) PROVE IInv'
  <2>1. order' \in Seq(Jobs)
    BY <1>2, RemoveFromOrderType DEF Cancel, TypeOK
  <2>. QED
    BY <1>2, <2>1 DEF Cancel, TypeOK, States
<1>3. ASSUME NEW j \in Jobs, RetryDue(j) PROVE IInv'
  BY <1>3 DEF RetryDue, TypeOK
<1>4. ASSUME NEW j \in Jobs, EvictExpired(j) PROVE IInv'
  <2>1. order' \in Seq(Jobs)
    BY <1>4, RemoveFromOrderType DEF EvictExpired, TypeOK
  <2>. QED
    BY <1>4, <2>1 DEF EvictExpired, Terminal, TypeOK, States
<1>5. CASE DrainPick
  <2>1. PICK i \in DOMAIN order : NextPendingID(i) /\ Drain("picked", order[i])
    BY <1>5 DEF DrainPick
  <2>2. order[i] \in Jobs
    BY <2>1 DEF TypeOK
  <2>. QED
    BY <1>5, <2>1, <2>2 DEF DrainPick, Drain, TypeOK
<1>6. CASE DrainGateClosed
  BY <1>6 DEF DrainGateClosed, Drain, TypeOK
<1>7. CASE DrainGateOpen
  <2>1. drain.id \in Jobs
    BY <1>7 DEF DrainGateOpen
  <2>2. CASE state[drain.id] = "waiting"
    <3>1. accepted[drain.id] = 0
      BY <1>7, <2>1, <2>2 DEF DrainGateOpen, TypeOK
    <3>. QED
      BY <1>7, <2>1, <2>2, <3>1 DEF DrainGateOpen, Drain, TypeOK
  <2>3. CASE state[drain.id] # "waiting"
    BY <1>7, <2>3 DEF DrainGateOpen, Drain, TypeOK
  <2>. QED
    BY <2>2, <2>3
<1>8. CASE SubmitAccepted
  BY <1>8 DEF SubmitAccepted, Drain, TypeOK
<1>9. CASE SubmitConflict
  BY <1>9 DEF SubmitConflict, Drain, TypeOK
<1>10. CASE SubmitFailed
  <2>. DEFINE j == drain.id
  <2>1. j \in Jobs /\ drain' = [pc |-> "idle", id |-> NoJob] /\ accepted' = accepted
    BY <1>10 DEF SubmitFailed, Drain
  <2>2. CASE retryCount[j] < RetryMax
    <3>1. /\ retryCount' = [retryCount EXCEPT ![j] = @ + 1]
          /\ state' = [state EXCEPT ![j] = "waiting"]
          /\ backoff' = backoff \cup {j}
          /\ order' = IF j \in ToSet(order) THEN order ELSE Append(order, j)
      BY <1>10, <2>2 DEF SubmitFailed
    <3>2. order' \in Seq(Jobs)
      BY <2>1, <3>1, AppendProperties DEF TypeOK
    <3>3. retryCount' \in [Jobs -> 0..RetryMax]
      BY <2>1, <2>2, <3>1 DEF TypeOK
    <3>. QED
      BY <1>10, <2>1, <3>1, <3>2, <3>3 DEF SubmitFailed, TypeOK, States
  <2>3. CASE ~(retryCount[j] < RetryMax)
    <3>1. /\ state' = [state EXCEPT ![j] = "failed"]
          /\ order' = RemoveFromOrder(order, j)
          /\ UNCHANGED <<retryCount, backoff>>
      BY <1>10, <2>3 DEF SubmitFailed
    <3>2. order' \in Seq(Jobs)
      BY <3>1, RemoveFromOrderType DEF TypeOK
    <3>. QED
      BY <1>10, <2>1, <3>1, <3>2 DEF SubmitFailed, TypeOK, States
  <2>. QED
    BY <2>2, <2>3
<1>11. CASE MarkPromoted
  <2>1. order' \in Seq(Jobs)
    BY <1>11, RemoveFromOrderType DEF MarkPromoted, TypeOK
  <2>. QED
    BY <1>11, <2>1 DEF MarkPromoted, Drain, TypeOK, States
<1>12. CASE UNCHANGED vars
  BY <1>12 DEF vars, TypeOK
<1>. QED
  BY <1>1, <1>2, <1>3, <1>4, <1>5, <1>6, <1>7, <1>8, <1>9, <1>10, <1>11, <1>12 DEF Next

\* The inductive invariant holds in every reachable state.
LEMMA IInvAlways == Spec => []IInv
BY InitIInv, StepIInv, PTL DEF Spec

\* The defer queue's state is well typed: order stays a list of jobs and no job
\* is retried more than ZEROLLAMA_TRAINING_QUEUE_RETRY_MAX times.
THEOREM DeferTypeCorrect == Spec => []TypeOK
BY IInvAlways, PTL DEF IInv

\* No defer id is ever handed to the Python worker twice, although drainOnce
\* submits without holding q.mu and failed submits are retried.
THEOREM DeferAcceptedOnce == Spec => []AcceptedOnce
<1>1. IInv => AcceptedOnce
  <2>1. ASSUME AcceptedAccounted, NEW j \in Jobs PROVE accepted[j] <= 1
    BY <2>1 DEF AcceptedAccounted
  <2>. QED
    BY <2>1 DEF IInv, AcceptedOnce
<1>. QED
  BY <1>1, IInvAlways, PTL

\* Between two passes the record agrees with the worker: promoted means
\* accepted, and an accepted job is promoted or its tombstone has expired.
THEOREM DeferPromotedIffAccepted == Spec => []PromotedIffAccepted
<1>1. IInv => PromotedIffAccepted
  BY DEF IInv, AcceptedAccounted, PromotedWasAccepted, PromotedIffAccepted, TypeOK
<1>. QED
  BY <1>1, IInvAlways, PTL

-----------------------------------------------------------------------------
(* The order slice and the map.                                            *)

Distinct(s) == \A i, k \in DOMAIN s : s[i] = s[k] => i = k

\* RemoveAt skips exactly position n.
LEMMA RemoveAtElements ==
    ASSUME NEW S, NEW s \in Seq(S), NEW n \in 1 .. Len(s)
    PROVE  /\ RemoveAt(s, n) \in Seq(S)
           /\ Len(RemoveAt(s, n)) = Len(s) - 1
           /\ \A i \in 1 .. Len(s) - 1 : RemoveAt(s, n)[i] = IF i < n THEN s[i] ELSE s[i + 1]
<1>. DEFINE a == SubSeq(s, 1, n - 1)
            b == SubSeq(s, n + 1, Len(s))
<1>1. a \in Seq(S) /\ Len(a) = n - 1 /\ \A i \in 1 .. n - 1 : a[i] = s[i]
  BY SubSeqProperties
<1>2. b \in Seq(S) /\ Len(b) = Len(s) - n /\ \A i \in 1 .. Len(s) - n : b[i] = s[n + i]
  BY SubSeqProperties
<1>3. RemoveAt(s, n) = a \o b
  BY DEF RemoveAt
<1>. HIDE DEF a, b
<1>4. /\ a \o b \in Seq(S)
      /\ Len(a \o b) = Len(a) + Len(b)
      /\ \A i \in 1 .. Len(a) + Len(b) : (a \o b)[i] = IF i <= Len(a) THEN a[i] ELSE b[i - Len(a)]
  BY <1>1, <1>2, ConcatProperties, Zenon
<1>5. Len(s) \in Nat
  OBVIOUS
<1>6. ASSUME NEW i \in 1 .. Len(s) - 1
      PROVE  (a \o b)[i] = IF i < n THEN s[i] ELSE s[i + 1]
  <2>1. Len(a) + Len(b) = Len(s) - 1
    BY <1>1, <1>2, <1>5
  <2>2. (a \o b)[i] = IF i <= Len(a) THEN a[i] ELSE b[i - Len(a)]
    BY <1>4, <2>1
  <2>3. CASE i < n
    <3>1. i <= Len(a) /\ i \in 1 .. n - 1
      BY <1>1, <1>5, <2>3
    <3>. QED
      BY <1>1, <2>2, <2>3, <3>1
  <2>4. CASE ~(i < n)
    <3>1. /\ i - (n - 1) \in 1 .. Len(s) - n /\ n + (i - (n - 1)) = i + 1
          /\ ~(i <= Len(a)) /\ i - Len(a) = i - (n - 1)
      BY <1>1, <1>5, <2>4
    <3>2. b[i - (n - 1)] = s[n + (i - (n - 1))]
      BY <1>2, <3>1
    <3>. QED
      BY <2>2, <2>4, <3>1, <3>2
  <2>. QED
    BY <2>3, <2>4
<1>. QED
  BY <1>1, <1>2, <1>3, <1>4, <1>5, <1>6

\* removeFromOrderLocked takes an id out of a list without repetitions and
\* leaves the others, each once.
LEMMA RemoveFromOrderEffect ==
    ASSUME NEW S, NEW s \in Seq(S), Distinct(s), NEW e
    PROVE  /\ Distinct(RemoveFromOrder(s, e))
           /\ ToSet(RemoveFromOrder(s, e)) = ToSet(s) \ {e}
<1>1. CASE \A i \in DOMAIN s : s[i] # e
  BY <1>1 DEF RemoveFromOrder, ToSet
<1>2. CASE \E i \in DOMAIN s : s[i] = e
  <2>. DEFINE n == CHOOSE i \in DOMAIN s : s[i] = e
              r == RemoveAt(s, n)
  <2>1. n \in DOMAIN s /\ s[n] = e
    BY <1>2
  <2>2. RemoveFromOrder(s, e) = r
    BY <1>2 DEF RemoveFromOrder
  <2>. HIDE DEF n
  <2>3. n \in 1 .. Len(s) /\ Len(s) \in Nat
    BY <2>1
  <2>4. /\ r \in Seq(S) /\ Len(r) = Len(s) - 1
        /\ \A i \in 1 .. Len(s) - 1 : r[i] = IF i < n THEN s[i] ELSE s[i + 1]
    BY <2>3, RemoveAtElements
  <2>. HIDE DEF r
  <2>5. \A i, k \in 1 .. Len(s) : s[i] = s[k] => i = k
    BY DEF Distinct
  <2>6. DOMAIN r = 1 .. Len(s) - 1 /\ DOMAIN s = 1 .. Len(s)
    BY <2>3, <2>4
  <2>7. Distinct(r)
    BY <2>3, <2>4, <2>5, <2>6 DEF Distinct
  <2>8. ASSUME NEW x \in ToSet(r) PROVE x \in ToSet(s) /\ x # e
    <3>1. PICK i \in 1 .. Len(s) - 1 : x = r[i]
      BY <2>6, <2>8 DEF ToSet
    <3>2. PICK k \in 1 .. Len(s) : k # n /\ x = s[k]
      BY <2>3, <2>4, <3>1
    <3>. QED
      BY <2>1, <2>3, <2>5, <2>6, <3>2 DEF ToSet
  <2>9. ASSUME NEW x \in ToSet(s), x # e PROVE x \in ToSet(r)
    <3>1. PICK k \in 1 .. Len(s) : x = s[k]
      BY <2>6 DEF ToSet
    <3>2. k # n
      BY <2>1, <2>9, <3>1
    <3>3. CASE k < n
      <4>1. k \in 1 .. Len(s) - 1 /\ r[k] = x
        BY <2>3, <2>4, <3>1, <3>3
      <4>. QED
        BY <2>6, <4>1 DEF ToSet
    <3>4. CASE k > n
      <4>1. k - 1 \in 1 .. Len(s) - 1 /\ r[k - 1] = x
        BY <2>3, <2>4, <3>1, <3>4
      <4>. QED
        BY <2>6, <4>1 DEF ToSet
    <3>. QED
      BY <2>3, <3>2, <3>3, <3>4
  <2>. QED
    BY <2>2, <2>7, <2>8, <2>9
<1>. QED
  BY <1>1, <1>2

\* Appending an id that is not listed keeps the ids distinct.
LEMMA AppendEffect ==
    ASSUME NEW S, NEW s \in Seq(S), Distinct(s), NEW e \in S, e \notin ToSet(s)
    PROVE  /\ Distinct(Append(s, e))
           /\ ToSet(Append(s, e)) = ToSet(s) \cup {e}
<1>1. /\ Append(s, e) \in Seq(S)
      /\ Len(Append(s, e)) = Len(s) + 1
      /\ \A i \in 1 .. Len(s) : Append(s, e)[i] = s[i]
      /\ Append(s, e)[Len(s) + 1] = e
  BY AppendProperties
<1>. DEFINE a == Append(s, e)
<1>. HIDE DEF a
<1>2. Len(s) \in Nat /\ DOMAIN s = 1 .. Len(s) /\ DOMAIN a = 1 .. Len(s) + 1
  BY <1>1 DEF a
<1>3. /\ \A i \in 1 .. Len(s) : a[i] = s[i]
      /\ a[Len(s) + 1] = e
  BY <1>1 DEF a
<1>4. \A i \in 1 .. Len(s) : s[i] # e
  BY <1>2 DEF ToSet
<1>5. Distinct(a)
  BY <1>2, <1>3, <1>4 DEF Distinct
<1>6. ToSet(a) = ToSet(s) \cup {e}
  <2>1. ASSUME NEW i \in 1 .. Len(s) + 1 PROVE a[i] \in ToSet(s) \cup {e}
    <3>1. CASE i = Len(s) + 1
      BY <1>3, <3>1
    <3>2. CASE i # Len(s) + 1
      <4>1. i \in 1 .. Len(s)
        BY <1>2, <3>2
      <4>. QED
        BY <1>2, <1>3, <4>1 DEF ToSet
    <3>. QED
      BY <3>1, <3>2
  <2>2. \A i \in 1 .. Len(s) : s[i] \in ToSet(a)
    <3>. TAKE i \in 1 .. Len(s)
    <3>1. i \in DOMAIN a /\ a[i] = s[i]
      BY <1>2, <1>3
    <3>. QED
      BY <3>1 DEF ToSet
  <2>3. e \in ToSet(a)
    <3>1. Len(s) + 1 \in DOMAIN a
      BY <1>2
    <3>. QED
      BY <1>3, <3>1 DEF ToSet
  <2>. QED
    BY <1>2, <2>1, <2>2, <2>3 DEF ToSet
<1>. QED
  BY <1>5, <1>6 DEF a

\* OrderListsWaiting in the terms of the two lemmas.
LEMMA OrderInv == OrderListsWaiting <=> ToSet(order) = Waiting /\ Distinct(order)
BY DEF OrderListsWaiting, Distinct

\* A job that waits leaves the order with its state; one that does not wait is
\* not in the order, and removing it changes nothing.
LEMMA LeaveOrder ==
    ASSUME TypeOK, OrderListsWaiting, NEW j \in Jobs, NEW st \in States \ {"waiting"},
           state' = [state EXCEPT ![j] = st], order' = RemoveFromOrder(order, j)
    PROVE  OrderListsWaiting'
<1>1. Distinct(order)' /\ ToSet(order') = ToSet(order) \ {j}
  BY RemoveFromOrderEffect, OrderInv DEF TypeOK
<1>2. Waiting' = Waiting \ {j}
  BY DEF Waiting, TypeOK
<1>3. ToSet(order) = Waiting
  BY OrderInv
<1>. QED
  BY <1>1, <1>2, <1>3 DEF OrderListsWaiting, Distinct

\* A job that starts to wait is appended, unless the order has it.
LEMMA EnterOrder ==
    ASSUME TypeOK, OrderListsWaiting, NEW j \in Jobs,
           state' = [state EXCEPT ![j] = "waiting"],
           order' = IF j \in ToSet(order) THEN order ELSE Append(order, j)
    PROVE  OrderListsWaiting'
<1>1. Waiting' = Waiting \cup {j}
  BY DEF Waiting, TypeOK
<1>2. ToSet(order) = Waiting /\ Distinct(order)
  BY OrderInv
<1>3. ToSet(order') = ToSet(order) \cup {j} /\ Distinct(order')
  <2>1. CASE j \in ToSet(order)
    BY <1>2, <2>1
  <2>2. CASE j \notin ToSet(order)
    BY <1>2, <2>2, AppendEffect DEF TypeOK
  <2>. QED
    BY <2>1, <2>2
<1>. QED
  BY <1>1, <1>2, <1>3 DEF OrderListsWaiting, Distinct

\* q.order and q.items agree after every step of the queue.
LEMMA StepOrder == IInv /\ OrderListsWaiting /\ [Next]_vars => OrderListsWaiting'
<1>. SUFFICES ASSUME IInv, OrderListsWaiting, [Next]_vars
              PROVE  OrderListsWaiting'
  OBVIOUS
<1>0. TypeOK /\ DrainHasJob
  BY DEF IInv
<1>1. ASSUME NEW j \in Jobs, Enqueue(j) PROVE OrderListsWaiting'
  <2>1. j \notin ToSet(order)
    BY <1>1 DEF Enqueue, OrderListsWaiting, Waiting
  <2>. QED
    BY <1>0, <1>1, <2>1, EnterOrder DEF Enqueue
<1>2. ASSUME NEW j \in Jobs, Cancel(j) PROVE OrderListsWaiting'
  BY <1>0, <1>2, LeaveOrder DEF Cancel, States
<1>3. ASSUME NEW j \in Jobs, EvictExpired(j) PROVE OrderListsWaiting'
  BY <1>0, <1>3, LeaveOrder DEF EvictExpired, States
<1>4. CASE SubmitFailed
  <2>. DEFINE j == drain.id
  <2>1. j \in Jobs
    BY <1>0, <1>4 DEF SubmitFailed, DrainHasJob
  <2>2. CASE retryCount[j] < RetryMax
    BY <1>0, <1>4, <2>1, <2>2, EnterOrder DEF SubmitFailed
  <2>3. CASE ~(retryCount[j] < RetryMax)
    <3>1. state' = [state EXCEPT ![j] = "failed"] /\ order' = RemoveFromOrder(order, j)
      BY <1>4, <2>3 DEF SubmitFailed
    <3>. QED
      BY <1>0, <2>1, <3>1, LeaveOrder DEF States
  <2>. QED
    BY <2>2, <2>3
<1>5. CASE MarkPromoted
  <2>1. drain.id \in Jobs
    BY <1>0, <1>5 DEF MarkPromoted, DrainHasJob
  <2>. QED
    BY <1>0, <1>5, <2>1, LeaveOrder DEF MarkPromoted, States
<1>6. CASE UNCHANGED <<state, order>>
  BY <1>6 DEF OrderListsWaiting, Waiting
<1>. QED
  BY <1>1, <1>2, <1>3, <1>4, <1>5, <1>6
     DEF Next, vars, RetryDue, DrainPick, DrainGateClosed, DrainGateOpen, SubmitAccepted, SubmitConflict

\* q.order lists the waiting jobs, each once: cancellations, retries, outcomes
\* of submits and evicted tombstones each change the order and the map, and no
\* order of them leaves a stale or a double entry.
THEOREM DeferOrderListsWaiting == Spec => []OrderListsWaiting
<1>1. Init => OrderListsWaiting
  BY DEF Init, OrderListsWaiting, Waiting, ToSet
<1>. QED
  BY <1>1, StepOrder, IInvAlways, PTL DEF Spec
=============================================================================
