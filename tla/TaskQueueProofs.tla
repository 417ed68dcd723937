-------------------------- MODULE TaskQueueProofs --------------------------
(***************************************************************************)
(* Proofs about TaskQueue, for every set of clients and slots and every    *)
(* cadence.                                                                *)
(*                                                                         *)
(* The queue moves a task between three queues, two threads and the slots. *)
(* The proof that it is accounted for counts: Matches(q, X) is the number  *)
(* of elements of q that are in X, and what each operation on a sequence   *)
(* does to that number is a lemma.  The same is done for the order of the  *)
(* elements (InOrder), for the property that none are reordered.           *)
(***************************************************************************)
EXTENDS TaskQueue, SequenceTheorems, FiniteSetTheorems, WellFoundedInduction, TLAPS

---------------------------------------------------------------------------
(* The inductive invariant.                                                *)

Matches(q, X) == Cardinality({i \in DOMAIN q : q[i] \in X})
One(t, X) == IF t \in X THEN 1 ELSE 0

\* Where the two threads are with what they hold.  The worker is at work only
\* during a yield, and what it declined is put back before the yield returns.
ThreadInv ==
    /\ hand["main"] # NoTask <=> main = "handle"
    /\ hand["worker"] # NoTask <=> worker = "handle"
    /\ worker \in {"process", "handle", "check", "wait", "finish"} => busy
    /\ busy => main \in {"decode", "join"}
    /\ unhandled # <<>> => main \in {"decode", "join"}
    /\ main \in {"abort", "post"} => todo \subseteq Busy
    /\ sleeping => main = "asleep" \/ (~running /\ main \in {"process", "exit"})
    /\ main = "asleep" => sleeping

\* The server gets tired only if it may sleep, and only sessions wait for audio.
RestInv == idle \/ sleeping => SleepEnabled
WaitInv == \A s \in Slots : slot[s].wait => slot[s].task \in Realtime

\* The slots with something to do.
AtWork == Busy \ Waiting

\* As long as a slot has work, a NEXT_RESPONSE is in the queue, in the worker's
\* hand or among the tasks it declined, so that the loop comes round.
Nexts ==
    Matches(tasks, {NextResponse}) + Matches(unhandled, {NextResponse})
    + One(hand["worker"], {NextResponse})
LoopGoesOn ==
    main \in {"predecode", "abort", "decode", "join", "post", "requeue", "idle", "asleep"} =>
        AtWork = {} \/ Nexts >= 1

\* Whose results are kept, and that nothing follows an answer.
AnswerInv ==
    /\ waiting = {c \in Clients : pc[c] = "recv"}
    /\ NoOrphanResult
    /\ \A c \in Clients : \A i \in DOMAIN results[c] : i < Len(results[c]) => results[c][i] = "partial"

\* How many tasks of X are in the queues and in the threads' hands.
Held(X) ==
    Matches(tasks, X) + Matches(deferred, X) + Matches(unhandled, X)
    + One(hand["main"], X) + One(hand["worker"], X)

\* A CANCEL is somewhere only when its client has posted it.
CancelInv == \A c \in Clients : pc[c] # "gone" => Held({CancelOf(c)}) = 0

TaskQueueInv ==
    /\ TypeOK /\ ThreadInv /\ RestInv /\ WaitInv /\ LoopGoesOn /\ SleepsIdle
    /\ CancelInv /\ AnswerInv /\ TaskAccounted

---------------------------------------------------------------------------
(* The least element of a set of slots or positions.                       *)

\* The order of the naturals is well founded.
LEMMA LessWellFounded == IsWellFoundedOn({p \in Nat \X Nat : p[1] < p[2]}, Nat)
BY NatLessThanWellFounded DEF OpToRel

\* First picks the least element.
LEMMA FirstIsLeast ==
    ASSUME NEW S \in SUBSET Nat, S # {}
    PROVE  First(S) \in S /\ \A r \in S : First(S) <= r
<1>. DEFINE R == {p \in Nat \X Nat : p[1] < p[2]}
<1>1. \E s \in S : \A r \in S : ~(<<r, s>> \in R)
  <2>. HIDE DEF R
  <2>. QED
    BY LessWellFounded, WFMin DEF R
<1>2. PICK s \in S : \A r \in S : ~(<<r, s>> \in R)
  BY <1>1
<1>3. ASSUME NEW r \in S PROVE s <= r
  <2>1. ~(r < s)
    BY <1>2
  <2>. QED
    BY <2>1
<1>. QED
  BY <1>2, <1>3 DEF First

---------------------------------------------------------------------------
(* Counting the elements of a sequence.                                    *)

\* The positions that match are finitely many.
LEMMA MatchesNat ==
    ASSUME NEW S, NEW q \in Seq(S), NEW X
    PROVE  IsFiniteSet({i \in DOMAIN q : q[i] \in X}) /\ Matches(q, X) \in Nat
<1>1. IsFiniteSet(1 .. Len(q)) /\ {i \in DOMAIN q : q[i] \in X} \in SUBSET (1 .. Len(q))
  BY FS_Interval
<1>2. IsFiniteSet({i \in DOMAIN q : q[i] \in X})
  BY <1>1, FS_Subset
<1>. QED
  BY <1>2, FS_CardinalityType DEF Matches

\* None matches when the count is 0, one at most when it is at most 1.
LEMMA MatchesFound ==
    ASSUME NEW S, NEW q \in Seq(S), NEW X
    PROVE  /\ Matches(q, X) = 0 <=> \A i \in DOMAIN q : q[i] \notin X
           /\ Matches(q, X) <= 1 => \A i, j \in DOMAIN q : q[i] \in X /\ q[j] \in X => i = j
<1>. DEFINE I == {i \in DOMAIN q : q[i] \in X}
<1>1. IsFiniteSet(I) /\ Matches(q, X) = Cardinality(I) /\ Cardinality(I) \in Nat
  BY MatchesNat DEF Matches
<1>2. Cardinality(I) = 0 <=> I = {}
  <2>. HIDE DEF I
  <2>. QED
    BY <1>1, FS_EmptySet
<1>3. Cardinality(I) = 1 => \E x : I = {x}
  <2>. HIDE DEF I
  <2>. QED
    BY <1>1, FS_Singleton
<1>4. ASSUME Matches(q, X) <= 1, NEW i \in I, NEW j \in I PROVE i = j
  <2>. HIDE DEF I
  <2>1. Cardinality(I) = 1
    BY <1>1, <1>2, <1>4
  <2>. QED
    BY <1>3, <2>1
<1>. QED
  BY <1>1, <1>2, <1>4

\* Of the empty sequence and of one element.
LEMMA MatchesSmall ==
    ASSUME NEW t, NEW X
    PROVE  Matches(<<>>, X) = 0 /\ Matches(<<t>>, X) = One(t, X)
<1>1. {i \in DOMAIN <<>> : <<>>[i] \in X} = {}
  OBVIOUS
<1>2. Matches(<<>>, X) = 0
  BY <1>1, FS_EmptySet DEF Matches
<1>3. DOMAIN <<t>> = {1} /\ <<t>>[1] = t
  OBVIOUS
<1>4. CASE t \in X
  <2>1. {i \in DOMAIN <<t>> : <<t>>[i] \in X} = {1}
    BY <1>3, <1>4
  <2>2. Cardinality({1}) = 1
    BY FS_Singleton
  <2>. QED
    BY <1>2, <1>4, <2>1, <2>2 DEF Matches, One
<1>5. CASE t \notin X
  <2>1. {i \in DOMAIN <<t>> : <<t>>[i] \in X} = {}
    BY <1>3, <1>5
  <2>2. Cardinality({}) = 0
    BY FS_EmptySet
  <2>. QED
    BY <1>2, <1>5, <2>1, <2>2 DEF Matches, One
<1>. QED
  BY <1>4, <1>5

\* The positions of the second part, moved behind the first, are as many.
LEMMA ShiftCardinality ==
    ASSUME NEW J \in SUBSET Nat, IsFiniteSet(J), NEW n \in Nat
    PROVE  LET K == {j + n : j \in J} IN IsFiniteSet(K) /\ Cardinality(K) = Cardinality(J)
<1>. DEFINE K == {j + n : j \in J}
            f == [j \in J |-> j + n]
<1>1. f \in Bijection(J, K)
  <2>1. f \in [J -> K] /\ \A k \in K : \E j \in J : f[j] = k
    OBVIOUS
  <2>2. \A i, j \in J : f[i] = f[j] => i = j
    OBVIOUS
  <2>. HIDE DEF f, K
  <2>. QED
    BY <2>1, <2>2 DEF Bijection, Injection, Surjection, IsInjective
<1>2. ExistsBijection(J, K)
  BY <1>1 DEF ExistsBijection
<1>. HIDE DEF K
<1>3. IsFiniteSet(K) /\ Cardinality(K) = Cardinality(J)
  BY <1>2, FS_Bijection
<1>. QED
  BY <1>3 DEF K

\* Of two sequences, one after the other.
LEMMA MatchesConcat ==
    ASSUME NEW S, NEW p \in Seq(S), NEW q \in Seq(S), NEW X
    PROVE  Matches(p \o q, X) = Matches(p, X) + Matches(q, X)
<1>. DEFINE I == {i \in DOMAIN p : p[i] \in X}
            J == {j \in DOMAIN q : q[j] \in X}
            n == Len(p)
            K == {j + n : j \in J}
            C == {k \in DOMAIN (p \o q) : (p \o q)[k] \in X}
<1>0. n \in Nat /\ DOMAIN q = 1 .. Len(q)
  OBVIOUS
<1>1. IsFiniteSet(I) /\ IsFiniteSet(J) /\ n \in Nat /\ J \in SUBSET Nat
  <2>1. J \in SUBSET Nat
    BY <1>0
  <2>. QED
    BY <1>0, <2>1, MatchesNat
<1>2. IsFiniteSet(K) /\ Cardinality(K) = Cardinality(J)
  <2>. HIDE DEF J, n
  <2>. QED
    BY <1>1, ShiftCardinality
<1>3. /\ p \o q \in Seq(S) /\ Len(p \o q) = n + Len(q)
      /\ \A i \in 1 .. n + Len(q) : (p \o q)[i] = IF i <= n THEN p[i] ELSE q[i - n]
  BY ConcatProperties
<1>4. C = I \cup K
  <2>0. DOMAIN (p \o q) = 1 .. n + Len(q) /\ DOMAIN p = 1 .. n /\ DOMAIN q = 1 .. Len(q) /\ Len(q) \in Nat
    BY <1>3
  <2>1. ASSUME NEW k \in C PROVE k \in I \cup K
    <3>1. k \in 1 .. n + Len(q) /\ (p \o q)[k] \in X
      BY <2>0
    <3>2. CASE k <= n
      BY <1>1, <1>3, <2>0, <3>1, <3>2
    <3>3. CASE ~(k <= n)
      <4>1. k - n \in 1 .. Len(q) /\ k = (k - n) + n
        BY <1>1, <2>0, <3>1, <3>3
      <4>2. q[k - n] \in X
        BY <1>3, <3>1, <3>3
      <4>3. k - n \in J
        BY <2>0, <4>1, <4>2
      <4>. QED
        BY <4>1, <4>3
    <3>. QED
      BY <3>2, <3>3
  <2>2. ASSUME NEW k \in I PROVE k \in C
    <3>1. k \in 1 .. n /\ k \in 1 .. n + Len(q) /\ p[k] \in X
      BY <1>1, <2>0
    <3>. QED
      BY <1>1, <1>3, <2>0, <3>1
  <2>3. ASSUME NEW j \in J PROVE j + n \in C
    <3>1. /\ j + n \in 1 .. n + Len(q) /\ ~(j + n <= n) /\ (j + n) - n = j
          /\ q[j] \in X
      BY <1>1, <2>0
    <3>2. (p \o q)[j + n] = q[(j + n) - n]
      BY <1>3, <3>1
    <3>. QED
      BY <2>0, <3>1, <3>2
  <2>. QED
    BY <2>1, <2>2, <2>3
<1>5. I \cap K = {}
  BY <1>1
<1>. HIDE DEF I, J, K, C, n
<1>6. Cardinality(C) = Cardinality(I) + Cardinality(K) - Cardinality({})
  BY <1>1, <1>2, <1>4, <1>5, FS_Union
<1>7. Cardinality({}) = 0 /\ Cardinality(I) \in Nat /\ Cardinality(K) \in Nat
  BY <1>1, <1>2, FS_EmptySet, FS_CardinalityType
<1>8. Cardinality(C) = Cardinality(I) + Cardinality(J)
  BY <1>2, <1>6, <1>7
<1>. QED
  BY <1>8 DEF Matches, I, J, C

\* Of a sequence with one element more, at either end.
LEMMA MatchesAppend ==
    ASSUME NEW S, NEW q \in Seq(S), NEW t \in S, NEW X
    PROVE  /\ Append(q, t) \in Seq(S) /\ Matches(Append(q, t), X) = Matches(q, X) + One(t, X)
           /\ <<t>> \o q \in Seq(S) /\ Matches(<<t>> \o q, X) = Matches(q, X) + One(t, X)
<1>1. <<t>> \in Seq(S) /\ Append(q, t) = q \o <<t>>
  BY AppendIsConcat
<1>2. q \o <<t>> \in Seq(S) /\ <<t>> \o q \in Seq(S)
  BY <1>1, ConcatProperties
<1>. DEFINE u == <<t>>
<1>3. Matches(q \o u, X) = Matches(q, X) + Matches(u, X) /\ Matches(u \o q, X) = Matches(u, X) + Matches(q, X)
  <2>1. u \in Seq(S)
    BY <1>1
  <2>. HIDE DEF u
  <2>2. Matches(q \o u, X) = Matches(q, X) + Matches(u, X)
    BY <2>1, MatchesConcat, Zenon
  <2>3. Matches(u \o q, X) = Matches(u, X) + Matches(q, X)
    BY <2>1, MatchesConcat, Zenon
  <2>. QED
    BY <2>2, <2>3
<1>4. Matches(<<t>>, X) = One(t, X) /\ Matches(<<t>>, X) \in Nat /\ Matches(q, X) \in Nat
  BY <1>1, MatchesSmall, MatchesNat
<1>. QED
  BY <1>1, <1>2, <1>3, <1>4

\* The same for a queue of tasks, one fact at a time.
LEMMA TaskAppended ==
    ASSUME NEW q \in Seq(Tasks), NEW t \in Tasks, NEW X
    PROVE  Matches(Append(q, t), X) = Matches(q, X) + One(t, X)
BY MatchesAppend, ZenonT(40)

\* A task put in front of a queue.
LEMMA TaskPrepended ==
    ASSUME NEW q \in Seq(Tasks), NEW t \in Tasks, NEW X
    PROVE  Matches(<<t>> \o q, X) = Matches(q, X) + One(t, X)
BY MatchesAppend, ZenonT(40)

\* A queue with a task more is a queue.
LEMMA QueueGrown ==
    ASSUME NEW q \in Seq(Tasks), NEW t \in Tasks
    PROVE  Append(q, t) \in Seq(Tasks) /\ <<t>> \o q \in Seq(Tasks)
BY MatchesAppend, ZenonT(40)

\* One queue put behind another.
LEMMA TasksJoined ==
    ASSUME NEW p \in Seq(Tasks), NEW q \in Seq(Tasks), NEW X
    PROVE  Matches(p \o q, X) = Matches(p, X) + Matches(q, X)
BY MatchesConcat, ZenonT(40)

\* Taking the head.
LEMMA MatchesTail ==
    ASSUME NEW S, NEW q \in Seq(S), q # <<>>, NEW X
    PROVE  /\ Head(q) \in S /\ Tail(q) \in Seq(S)
           /\ Matches(q, X) = Matches(Tail(q), X) + One(Head(q), X)
<1>. DEFINE h == Head(q)
            r == Tail(q)
<1>1. h \in S /\ r \in Seq(S) /\ q = <<h>> \o r
  BY HeadTailProperties, ConcatSimplifications
<1>. HIDE DEF h, r
<1>2. Matches(<<h>> \o r, X) = Matches(r, X) + One(h, X)
  BY <1>1, MatchesAppend
<1>3. h \in S /\ r \in Seq(S) /\ Matches(q, X) = Matches(r, X) + One(h, X)
  BY <1>1, <1>2
<1>. QED
  BY <1>3 DEF h, r

\* erase(it)
LEMMA MatchesRemoveAt ==
    ASSUME NEW S, NEW q \in Seq(S), NEW k \in DOMAIN q, NEW X
    PROVE  /\ RemoveAt(q, k) \in Seq(S)
           /\ Matches(q, X) = Matches(RemoveAt(q, k), X) + One(q[k], X)
<1>. DEFINE a == SubSeq(q, 1, k - 1)
            b == SubSeq(q, k + 1, Len(q))
            e == q[k]
<1>0. k \in 1 .. Len(q) /\ Len(q) \in Nat /\ e \in S
  OBVIOUS
<1>1. a \in Seq(S) /\ b \in Seq(S)
  BY <1>0, SubSeqProperties
<1>2. RemoveAt(q, k) = a \o b
  BY DEF RemoveAt
<1>3. q = a \o (<<e>> \o b)
  <2>1. <<e>> \o b = SubSeq(q, k, Len(q))
    <3>1. k \in 1 .. Len(q) /\ Len(q) \in k .. Len(q)
      BY <1>0
    <3>2. SubSeq(q, k, Len(q)) = <<q[k]>> \o SubSeq(q, k + 1, Len(q))
      BY <3>1, SubSeqRecursiveFirst
    <3>. QED
      BY <3>2, Zenon
  <2>3. a \o SubSeq(q, k, Len(q)) = SubSeq(q, 1, Len(q))
    BY <1>0, ConcatAdjacentSubSeq, SMTT(30)
  <2>4. SubSeq(q, 1, Len(q)) = q
    BY SubSeqFull
  <2>. HIDE DEF a, b, e
  <2>. QED
    BY <2>1, <2>3, <2>4
<1>. HIDE DEF a, b, e
<1>4. <<e>> \o b \in Seq(S) /\ Matches(<<e>> \o b, X) = Matches(b, X) + One(e, X)
  BY <1>0, <1>1, MatchesAppend
<1>5. Matches(q, X) = Matches(a, X) + (Matches(b, X) + One(e, X))
  <2>1. Matches(a \o (<<e>> \o b), X) = Matches(a, X) + Matches(<<e>> \o b, X)
    BY <1>1, <1>4, MatchesConcat, ZenonT(40)
  <2>2. Matches(q, X) = Matches(a, X) + Matches(<<e>> \o b, X)
    BY <1>3, <2>1, Zenon
  <2>. QED
    BY <1>4, <2>2
<1>6. a \o b \in Seq(S) /\ Matches(a \o b, X) = Matches(a, X) + Matches(b, X)
  BY <1>1, ConcatProperties, MatchesConcat
<1>7. Matches(a, X) \in Nat /\ Matches(b, X) \in Nat
  BY <1>1, MatchesNat
<1>8. Matches(q, X) = Matches(a \o b, X) + One(e, X)
  BY <1>5, <1>6, <1>7 DEF One
<1>. QED
  BY <1>2, <1>6, <1>8 DEF e

---------------------------------------------------------------------------
(* The tasks of a client.                                                  *)

\* A task is the client's own exactly when it is the one it posted.
LEMMA OwnTask ==
    ASSUME NEW t \in Tasks \cup {NoTask}, NEW c \in Clients
    PROVE  IsTaskOf(t, c) <=> t \in {TaskOf(c)}
<1>1. /\ c # Nobody /\ TypeOf(c) \notin {"cancel", "audio"}
      /\ TaskOf(c).of = c /\ TaskOf(c).type = TypeOf(c)
  BY ClientsAssumption DEF TaskOf, TypeOf
<1>2. IsTaskOf(TaskOf(c), c)
  BY <1>1 DEF IsTaskOf
<1>3. ASSUME IsTaskOf(t, c) PROVE t = TaskOf(c)
  <2>1. t.of = c /\ t.type \notin {"cancel", "audio"}
    BY <1>3 DEF IsTaskOf
  <2>2. \A d \in Clients : TaskOf(d).of = d
    BY DEF TaskOf
  <2>3. \A d \in Clients : CancelOf(d).type = "cancel" /\ AudioOf(d).type = "audio"
    BY DEF CancelOf, AudioOf
  <2>4. NextResponse.of = Nobody /\ NoTask.of = Nobody
    BY DEF NextResponse, NoTask
  <2>. QED
    BY <1>1, <2>1, <2>2, <2>3, <2>4, ClientsAssumption DEF Tasks, Clients
<1>. QED
  BY <1>2, <1>3

\* The number of tasks of a client, as the model counts it.
LEMMA CountIsMatches ==
    ASSUME NEW q \in Seq(Tasks), NEW c \in Clients
    PROVE  Count(q, c) = Matches(q, {TaskOf(c)})
<1>1. \A i \in DOMAIN q : q[i] \in Tasks
  OBVIOUS
<1>2. {i \in DOMAIN q : IsTaskOf(q[i], c)} = {i \in DOMAIN q : q[i] \in {TaskOf(c)}}
  BY <1>1, OwnTask
<1>. QED
  BY <1>2 DEF Count, Matches

\* A deferred task moves to the front of the queue.
LEMMA PopDeferredEffect ==
    ASSUME tasks \in Seq(Tasks), deferred \in Seq(Tasks), NEW s, PopDeferred(s), NEW X
    PROVE  /\ tasks' \in Seq(Tasks) /\ deferred' \in Seq(Tasks) /\ unhandled' = unhandled
           /\ idle' = FALSE /\ cv' \subseteq cv
           /\ Matches(tasks', X) + Matches(deferred', X) = Matches(tasks, X) + Matches(deferred, X)
           /\ Matches(tasks', X) >= Matches(tasks, X)
<1>1. unhandled' = unhandled /\ idle' = FALSE /\ cv' \subseteq cv
  BY DEF PopDeferred, NotifyOne
<1>2. Matches(tasks, X) \in Nat /\ Matches(deferred, X) \in Nat
  BY MatchesNat
<1>3. CASE deferred = <<>>
  BY <1>1, <1>2, <1>3 DEF PopDeferred
<1>4. CASE deferred # <<>>
  <2>. DEFINE fits == {i \in DOMAIN deferred : WantsSlot(deferred[i], s)}
  <2>0. DOMAIN deferred = 1 .. Len(deferred) /\ Len(deferred) \in Nat \ {0}
    BY <1>4
  <2>1. IF fits = {} THEN 1 \in DOMAIN deferred ELSE First(fits) \in DOMAIN deferred
    <3>1. fits \in SUBSET Nat
      BY <2>0
    <3>2. fits # {} => First(fits) \in fits
      <4>. HIDE DEF fits
      <4>. QED
        BY <3>1, FirstIsLeast
    <3>. QED
      BY <2>0, <3>2
  <2>2. PICK i \in DOMAIN deferred : tasks' = <<deferred[i]>> \o tasks /\ deferred' = RemoveAt(deferred, i)
    <3>1. CASE fits = {}
      BY <1>4, <2>1, <3>1 DEF PopDeferred
    <3>2. CASE fits # {}
      BY <1>4, <2>1, <3>2 DEF PopDeferred
    <3>. QED
      BY <3>1, <3>2
  <2>3. deferred[i] \in Tasks
    BY <2>2
  <2>4. tasks' \in Seq(Tasks) /\ Matches(tasks', X) = Matches(tasks, X) + One(deferred[i], X)
    BY <2>2, <2>3, MatchesAppend
  <2>5. deferred' \in Seq(Tasks) /\ Matches(deferred, X) = Matches(deferred', X) + One(deferred[i], X)
    BY <2>2, MatchesRemoveAt
  <2>6. Matches(deferred', X) \in Nat /\ One(deferred[i], X) \in {0, 1}
    BY <2>5, MatchesNat DEF One
  <2>7. PICK n \in {0, 1} : n = One(deferred[i], X)
    BY <2>6
  <2>8. /\ Matches(tasks', X) = Matches(tasks, X) + n
        /\ Matches(deferred, X) = Matches(deferred', X) + n
    BY <2>4, <2>5, <2>7
  <2>9. /\ Matches(tasks', X) + Matches(deferred', X) = Matches(tasks, X) + Matches(deferred, X)
        /\ Matches(tasks', X) >= Matches(tasks, X)
    BY <1>2, <2>6, <2>7, <2>8
  <2>. QED
    BY <1>1, <2>4, <2>5, <2>9
<1>. QED
  BY <1>3, <1>4

\* cleanup_pending_task() takes the target out of a queue and nothing else.
LEMMA CleanupEffect ==
    ASSUME NEW q \in Seq(Tasks), NEW c \in Clients
    PROVE  /\ Cleanup(q, c) \in Seq(Tasks)
           /\ \A X : TaskOf(c) \notin X => Matches(Cleanup(q, c), X) = Matches(q, X)
           /\ Matches(q, {TaskOf(c)}) <= 1 => Matches(Cleanup(q, c), {TaskOf(c)}) = 0
<1>. DEFINE found == {i \in DOMAIN q : IsTaskOf(q[i], c)}
            T == {TaskOf(c)}
<1>0. \A i \in DOMAIN q : q[i] \in Tasks
  OBVIOUS
<1>1. found = {i \in DOMAIN q : q[i] \in T}
  BY <1>0, OwnTask
<1>2. Matches(q, T) \in Nat
  BY MatchesNat
<1>3. CASE found = {}
  <2>1. Cleanup(q, c) = q
    BY <1>3 DEF Cleanup
  <2>2. \A i \in DOMAIN q : q[i] \notin T
    BY <1>1, <1>3
  <2>3. Matches(q, T) = 0
    <3>. HIDE DEF T
    <3>. QED
      BY <2>2, MatchesFound
  <2>. QED
    BY <2>1, <2>3
<1>4. CASE found # {}
  <2>1. PICK k \in found : Cleanup(q, c) = RemoveAt(q, k)
    <3>1. found \in SUBSET Nat
      OBVIOUS
    <3>2. First(found) \in found
      <4>. HIDE DEF found
      <4>. QED
        BY <1>4, <3>1, FirstIsLeast
    <3>. QED
      BY <1>4, <3>2 DEF Cleanup
  <2>2. k \in DOMAIN q /\ q[k] = TaskOf(c)
    BY <1>1, <2>1
  <2>3. ASSUME NEW X, TaskOf(c) \notin X PROVE Matches(RemoveAt(q, k), X) = Matches(q, X)
    <3>1. Matches(q, X) = Matches(RemoveAt(q, k), X) + One(q[k], X) /\ RemoveAt(q, k) \in Seq(Tasks)
      BY <2>2, MatchesRemoveAt
    <3>2. One(q[k], X) = 0 /\ Matches(RemoveAt(q, k), X) \in Nat
      BY <2>2, <2>3, <3>1, MatchesNat DEF One
    <3>. QED
      BY <3>1, <3>2
  <2>4. Matches(q, T) = Matches(RemoveAt(q, k), T) + 1 /\ RemoveAt(q, k) \in Seq(Tasks)
    <3>1. Matches(q, T) = Matches(RemoveAt(q, k), T) + One(q[k], T) /\ RemoveAt(q, k) \in Seq(Tasks)
      BY <2>2, MatchesRemoveAt
    <3>2. One(q[k], T) = 1
      BY <2>2 DEF One
    <3>. QED
      BY <3>1, <3>2
  <2>5. Matches(RemoveAt(q, k), T) \in Nat
    BY <2>4, MatchesNat
  <2>. HIDE DEF T
  <2>6. Matches(q, T) <= 1 => Matches(RemoveAt(q, k), T) = 0
    BY <1>2, <2>4, <2>5
  <2>. QED
    BY <2>1, <2>3, <2>4, <2>6 DEF T
<1>. QED
  BY <1>3, <1>4

---------------------------------------------------------------------------
(* Which steps change what.                                                *)

\* The steps that change the queues.
LEMMA QueueMoves ==
    [Next]_vars =>
        \/ UNCHANGED queueVars
        \/ MainPop \/ DeferTask \/ HandleCancel \/ PostNextResponse \/ PreDecodeError \/ AbortSlot
        \/ AudioStep \/ JoinWorker \/ PostDecode \/ RequeueDeferred \/ WorkerPop \/ WorkerHandle
        \/ \E c \in Clients : ClientPost(c) \/ ClientCancel(c) \/ ClientAudio(c)
BY Zenon DEF Next, MainStep, ProcessSingleTask, WorkerStep, ClientStep, vars, queueVars, loopVars,
             yieldVars, slotVars, resultVars, MainDrained, LaunchTask, Processed, LaunchFails, Send,
             ServeAtOnce, HandleAudio, HandleNextResponse, AllIdle, PreDecodeThrows, EmptyBatch, BeginYield,
             EndYield, PostDecodeDone, IdleOver, EnterSleep, LeaveSleep, NotifyAll, WaitAgain,
             WorkerStart, WorkerDrained, WorkerCheck, WorkerWoken, WorkerFinish, IdleTimeout,
             Terminate, ClientStart, ClientWoken, ClientReceive, StopWaiting, ClientGivesUp

\* The steps that change the slots.
LEMMA SlotMoves ==
    [Next]_vars =>
        \/ UNCHANGED slotVars
        \/ LaunchTask \/ HandleCancel \/ HandleAudio \/ PreDecodeError \/ AudioStep \/ PreDecodeThrows
        \/ AbortSlot \/ LeaveSleep \/ EmptyBatch \/ JoinWorker \/ PostDecode \/ PostDecodeDone \/ RequeueDeferred
BY Zenon DEF Next, MainStep, ProcessSingleTask, WorkerStep, ClientStep, vars, queueVars, loopVars,
             yieldVars, slotVars, resultVars, MainPop, PopTask, MainDrained, LaunchFails, Processed,
             Send, DeferTask, Defer, NotifyOne, ServeAtOnce, HandleNextResponse, AllIdle,
             PostNextResponse, Post, BeginYield, EndYield, IdleOver, EnterSleep,
             NotifyAll, WaitAgain, WorkerStart, WorkerPop, WorkerDrained, WorkerHandle, WorkerCheck,
             WorkerWoken, WorkerFinish, IdleTimeout, Terminate, ClientStart, ClientWoken,
             ClientPost, ClientReceive, StopWaiting, ClientCancel, ClientGivesUp, ClientAudio

\* The steps that change what a thread holds.
LEMMA HandMoves ==
    [Next]_vars =>
        \/ UNCHANGED hand
        \/ MainPop \/ LaunchTask \/ LaunchFails \/ DeferTask \/ ServeAtOnce \/ HandleCancel
        \/ HandleAudio \/ HandleNextResponse \/ WorkerPop \/ WorkerHandle
BY Zenon DEF Next, MainStep, ProcessSingleTask, WorkerStep, ClientStep, vars, queueVars, loopVars,
             yieldVars, slotVars, resultVars, MainDrained, AllIdle, PostNextResponse, Post,
             NotifyOne, PreDecodeError, AudioStep, FailSlot, Release, Send, PreDecodeThrows, AbortSlot,
             EmptyBatch, BeginYield, EndYield, JoinWorker, PutBackUnhandled, WaitAgain, PostDecode,
             PostDecodeDone, RequeueDeferred, IdleOver, EnterSleep, LeaveSleep, NotifyAll,
             WorkerStart, WorkerDrained, WorkerCheck, WorkerWoken, WorkerFinish, IdleTimeout,
             Terminate, ClientStart, ClientWoken, ClientPost, ClientReceive, StopWaiting,
             ClientCancel, ClientGivesUp, ClientAudio

\* The steps that change the results.
LEMMA ResultMoves ==
    [Next]_vars =>
        \/ UNCHANGED resultVars
        \/ LaunchTask \/ LaunchFails \/ ServeAtOnce \/ PreDecodeError \/ AudioStep \/ AbortSlot \/ PostDecode \/ WorkerHandle
        \/ \E c \in Clients : ClientPost(c) \/ ClientReceive(c) \/ ClientGivesUp(c)
BY Zenon DEF Next, MainStep, ProcessSingleTask, WorkerStep, ClientStep, vars, queueVars, loopVars,
             yieldVars, slotVars, resultVars, MainPop, PopTask, MainDrained, Processed,
             DeferTask, Defer, NotifyOne, HandleCancel, Release, HandleAudio, HandleNextResponse, AllIdle,
             PostNextResponse, Post, PreDecodeThrows, EmptyBatch, BeginYield, EndYield, JoinWorker,
             PutBackUnhandled, WaitAgain, PostDecodeDone, RequeueDeferred, IdleOver, EnterSleep,
             LeaveSleep, NotifyAll, WorkerStart, WorkerPop, WorkerDrained, WorkerCheck, WorkerWoken,
             WorkerFinish, IdleTimeout, Terminate, ClientStart, ClientWoken, ClientCancel, ClientAudio

\* The steps that change where a client is.
LEMMA ClientMoves ==
    [Next]_vars =>
        \/ UNCHANGED pc
        \/ \E c \in Clients : ClientStart(c) \/ ClientWoken(c) \/ ClientPost(c) \/ ClientReceive(c) \/ ClientCancel(c) \/ ClientGivesUp(c)
BY Zenon DEF Next, MainStep, ProcessSingleTask, WorkerStep, ClientStep, vars, queueVars, loopVars,
             yieldVars, slotVars, resultVars, MainPop, PopTask, MainDrained, LaunchTask, Processed,
             LaunchFails, Send, DeferTask, Defer, NotifyOne, ServeAtOnce, HandleCancel, Release,
             HandleAudio, HandleNextResponse, AllIdle, PostNextResponse, Post, PreDecodeError, AudioStep, FailSlot,
             PreDecodeThrows, AbortSlot, EmptyBatch, BeginYield, EndYield, JoinWorker,
             PutBackUnhandled, WaitAgain, PostDecode, PostDecodeDone, RequeueDeferred, IdleOver,
             EnterSleep, LeaveSleep, NotifyAll, WorkerStart, WorkerPop, WorkerDrained, WorkerHandle,
             WorkerCheck, WorkerWoken, WorkerFinish, IdleTimeout, Terminate, ClientAudio

---------------------------------------------------------------------------
(* Types.                                                                  *)

QueueShape == tasks \in Seq(Tasks) /\ deferred \in Seq(Tasks) /\ unhandled \in Seq(Tasks)
FlagShape == {running, sleeping, wakeReq, idle, busy, yielding} \subseteq BOOLEAN
PlaceShape ==
    /\ cv \subseteq Threads
    /\ main \in {"process", "handle", "update", "predecode", "abort", "decode", "join", "post",
                 "requeue", "idle", "asleep", "exit"}
    /\ worker \in {"rest", "process", "handle", "check", "wait", "finish", "stopped"}
HandShape == hand \in [{"main", "worker"} -> Tasks \cup {NoTask}]
SlotStates == [task : Gens \cup {Nobody}, left : 0 .. Tokens + Prompt, wait : BOOLEAN]
SlotShape ==
    /\ slot \in [Slots -> SlotStates]
    /\ todo \subseteq Slots /\ since \in Nat
ResultShape == waiting \subseteq Clients /\ results \in [Clients -> Seq({"partial", "final", "error"})]
ClientShape == pc \in [Clients -> {"new", "asleep", "ready", "recv", "cancel", "done", "gone"}]

\* The type invariant, part by part.
LEMMA TypeParts ==
    TypeOK <=> /\ QueueShape /\ FlagShape /\ PlaceShape /\ HandShape
               /\ SlotShape /\ ResultShape /\ ClientShape
BY DEF TypeOK, QueueShape, FlagShape, PlaceShape, HandShape, SlotShape, SlotStates, ResultShape, ClientShape

\* A result that is queued is one of the three kinds.
LEMMA SendTypes ==
    ASSUME ResultShape, NEW c, NEW r \in {"partial", "final", "error"}, Send(c, r)
    PROVE  ResultShape' /\ waiting' = waiting
<1>1. CASE c \in waiting
  <2>1. c \in Clients /\ results[c] \in Seq({"partial", "final", "error"})
    BY <1>1 DEF ResultShape
  <2>2. Append(results[c], r) \in Seq({"partial", "final", "error"})
    BY <2>1
  <2>3. results' = [results EXCEPT ![c] = Append(results[c], r)] /\ waiting' = waiting
    BY <1>1 DEF Send
  <2>. QED
    BY <2>2, <2>3 DEF ResultShape
<1>2. CASE c \notin waiting
  BY <1>2 DEF Send, ResultShape
<1>. QED
  BY <1>1, <1>2

\* A slot that fails is released.
LEMMA FailSlotEffect ==
    ASSUME QueueShape, ResultShape, NEW s, FailSlot(s)
    PROVE  QueueShape' /\ ResultShape' /\ slot' = [slot EXCEPT ![s] = FreeSlot]
<1>1. Send(slot[s].task, "error") /\ Release(s)
  BY DEF FailSlot
<1>2. QueueShape'
  BY <1>1, PopDeferredEffect DEF Release, QueueShape
<1>3. ResultShape'
  BY <1>1, SendTypes
<1>. QED
  BY <1>1, <1>2, <1>3 DEF Release

\* A thread that handles has a task in hand.
LEMMA HandedTask ==
    ASSUME HandShape, ThreadInv
    PROVE  /\ main = "handle" => hand["main"] \in Tasks
           /\ worker = "handle" => hand["worker"] \in Tasks
BY DEF HandShape, ThreadInv

\* A task for a slot is that of a generation.
LEMMA GenInHand == ASSUME NEW t \in Tasks, t.type = "gen" PROVE t.of \in Gens
<1>1. \A d \in Clients : TaskOf(d).type = "gen" => TaskOf(d).of \in Gens
  BY DEF TaskOf, TypeOf
<1>2. (\A d \in Clients : CancelOf(d).type # "gen" /\ AudioOf(d).type # "gen") /\ NextResponse.type # "gen"
  BY DEF CancelOf, AudioOf, NextResponse
<1>. QED
  BY <1>1, <1>2, ClientsAssumption DEF Tasks, Clients

\* Every step keeps the three queues sequences of tasks.
LEMMA QueueTypes == TypeOK /\ ThreadInv /\ [Next]_vars => QueueShape'
<1>. SUFFICES ASSUME TypeOK, ThreadInv, [Next]_vars PROVE QueueShape'
  OBVIOUS
<1>0. QueueShape /\ ResultShape /\ HandShape
  BY TypeParts
<1>1. CASE UNCHANGED queueVars
  BY <1>0, <1>1 DEF QueueShape, queueVars
<1>2. CASE MainPop \/ WorkerPop
  <2>1. tasks # <<>> /\ tasks' = Tail(tasks) /\ deferred' = deferred /\ unhandled' = unhandled
    BY <1>2 DEF MainPop, WorkerPop, PopTask
  <2>. QED
    BY <1>0, <2>1, HeadTailProperties DEF QueueShape
<1>3. CASE DeferTask
  BY <1>0, <1>3, HandedTask DEF DeferTask, Processed, Defer, QueueShape
<1>4. CASE HandleCancel
  <2>1. CASE UNCHANGED queueVars
    BY <1>0, <2>1 DEF QueueShape, queueVars
  <2>2. ASSUME NEW s, Release(s) PROVE QueueShape'
    BY <1>0, <2>2, PopDeferredEffect DEF Release, QueueShape
  <2>. QED
    BY <1>4, <2>1, <2>2 DEF HandleCancel
<1>5. CASE PostNextResponse
  <2>1. NextResponse \in Tasks
    BY DEF Tasks
  <2>. QED
    BY <1>0, <1>5, <2>1 DEF PostNextResponse, Post, QueueShape
<1>6. CASE PreDecodeError
  BY <1>0, <1>6, FailSlotEffect DEF PreDecodeError
<1>7. CASE AbortSlot
  <2>1. UNCHANGED queueVars \/ \E s : FailSlot(s)
    BY <1>7 DEF AbortSlot
  <2>. QED
    BY <1>0, <1>1, <2>1, FailSlotEffect
<1>8. CASE JoinWorker
  <2>1. CASE busy
    BY <1>0, <1>8, <2>1 DEF JoinWorker, QueueShape, queueVars
  <2>2. CASE ~busy
    <3>1. tasks' = unhandled \o tasks /\ unhandled' = <<>> /\ deferred' = deferred
      BY <1>8, <2>2 DEF JoinWorker, PutBackUnhandled
    <3>. QED
      BY <1>0, <3>1, ConcatProperties DEF QueueShape
  <2>. QED
    BY <2>1, <2>2
<1>9. CASE PostDecode
  <2>1. UNCHANGED queueVars \/ (\E s : Release(s)) \/ \E s : FailSlot(s)
    BY <1>9 DEF PostDecode
  <2>2. ASSUME NEW s, Release(s) PROVE QueueShape'
    BY <1>0, <2>2, PopDeferredEffect DEF Release, QueueShape
  <2>. QED
    BY <1>0, <1>1, <2>1, <2>2, FailSlotEffect
<1>10. CASE RequeueDeferred
  <2>1. UNCHANGED queueVars \/ \E s : PopDeferred(s)
    BY <1>10 DEF RequeueDeferred
  <2>. QED
    BY <1>0, <1>1, <2>1, PopDeferredEffect DEF QueueShape
<1>11. CASE WorkerHandle
  <2>1. hand["worker"] \in Tasks
    BY <1>0, <1>11, HandedTask DEF WorkerHandle
  <2>2. /\ tasks' = tasks /\ deferred' = deferred
        /\ unhandled' = unhandled \/ unhandled' = Append(unhandled, hand["worker"])
    BY <1>11 DEF WorkerHandle
  <2>. QED
    BY <1>0, <2>1, <2>2, QueueGrown DEF QueueShape
<1>12. ASSUME NEW c \in Clients, ClientPost(c) PROVE QueueShape'
  <2>1. TaskOf(c) \in Tasks
    BY DEF Tasks
  <2>2. \/ tasks' = <<TaskOf(c)>> \o tasks
        \/ tasks' = Append(tasks, TaskOf(c))
    BY <1>12 DEF ClientPost, Post
  <2>. QED
    BY <1>0, <1>12, <2>1, <2>2, QueueGrown DEF ClientPost, QueueShape
<1>13. ASSUME NEW c \in Clients, ClientCancel(c) PROVE QueueShape'
  <2>1. CancelOf(c) \in Tasks
    BY DEF Tasks
  <2>2. Cleanup(tasks, c) \in Seq(Tasks) /\ Cleanup(deferred, c) \in Seq(Tasks) /\ Cleanup(unhandled, c) \in Seq(Tasks)
    BY <1>0, CleanupEffect DEF QueueShape
  <2>3. <<CancelOf(c)>> \o Cleanup(tasks, c) \in Seq(Tasks)
    BY <2>1, <2>2, QueueGrown, Zenon
  <2>. QED
    BY <1>13, <2>2, <2>3 DEF ClientCancel, QueueShape
<1>14. CASE AudioStep
  <2>1. UNCHANGED queueVars \/ \E s : Release(s)
    BY <1>14 DEF AudioStep
  <2>2. ASSUME NEW s, Release(s) PROVE QueueShape'
    BY <1>0, <2>2, PopDeferredEffect DEF Release, QueueShape
  <2>. QED
    BY <1>1, <2>1, <2>2
<1>15. ASSUME NEW c \in Clients, ClientAudio(c) PROVE QueueShape'
  <2>1. AudioOf(c) \in Tasks
    BY <1>15 DEF ClientAudio, Tasks
  <2>2. tasks' = Append(tasks, AudioOf(c))
    BY <1>15 DEF ClientAudio, Post
  <2>. QED
    BY <1>0, <1>15, <2>1, <2>2, QueueGrown DEF ClientAudio, QueueShape
<1>. QED
  BY <1>1, <1>2, <1>3, <1>4, <1>5, <1>6, <1>7, <1>8, <1>9, <1>10, <1>11, <1>12, <1>13, <1>14, <1>15,
     QueueMoves

\* Releasing a slot leaves it well typed, whichever it is.
LEMMA ReleasedTypes ==
    ASSUME SlotShape, NEW s, slot' = [slot EXCEPT ![s] = FreeSlot], todo' \subseteq Slots, since' \in Nat
    PROVE  SlotShape'
<1>1. FreeSlot \in SlotStates
  BY BoundsAssumption DEF FreeSlot, SlotStates
<1>. QED
  BY <1>1 DEF SlotShape

\* A slot that begins is well typed.
LEMMA LaunchedTypes ==
    ASSUME NEW c \in Gens, NEW l \in Launched(c)
    PROVE  l \in SlotStates /\ l.task = c /\ (l.wait => c \in Realtime)
<1>0. Tokens \in 0 .. Tokens + Prompt /\ Tokens .. Tokens + Prompt \subseteq 0 .. Tokens + Prompt
  BY BoundsAssumption
<1>1. CASE c \in Realtime
  BY <1>0, <1>1 DEF Launched, SlotStates
<1>2. CASE c \notin Realtime
  BY <1>0, <1>2 DEF Launched, SlotStates
<1>. QED
  BY <1>1, <1>2

\* Every step keeps the types of the slots.
LEMMA SlotTypes == TypeOK /\ ThreadInv /\ [Next]_vars => SlotShape'
<1>. SUFFICES ASSUME TypeOK, ThreadInv, [Next]_vars PROVE SlotShape'
  OBVIOUS
<1>0. QueueShape /\ ResultShape /\ HandShape /\ SlotShape
  BY TypeParts
<1>1. CASE UNCHANGED slotVars
  BY <1>0, <1>1 DEF SlotShape, slotVars
<1>2. CASE LaunchTask
  <2>. DEFINE c == hand["main"].of
  <2>1. c \in Gens
    <3>1. hand["main"] \in Tasks /\ hand["main"].type = "gen"
      BY <1>0, <1>2, HandedTask DEF LaunchTask, Processed
    <3>. QED
      BY <3>1, GenInHand
  <2>2. PICK s \in Available(c), l \in Launched(c) : slot' = [slot EXCEPT ![s] = l]
    BY <1>2 DEF LaunchTask
  <2>3. l \in SlotStates
    <3>. HIDE DEF c
    <3>. QED
      BY <2>1, LaunchedTypes
  <2>4. todo' = todo /\ since' = 0
    BY <1>2 DEF LaunchTask, Processed
  <2>. QED
    BY <1>0, <2>2, <2>3, <2>4 DEF SlotShape
<1>3. CASE HandleCancel
  BY <1>0, <1>3, ReleasedTypes DEF HandleCancel, Processed, Release, SlotShape
<1>4. CASE PreDecodeError
  <2>1. PICK s : FailSlot(s)
    BY <1>4 DEF PreDecodeError
  <2>. QED
    BY <1>0, <1>4, <2>1, FailSlotEffect, ReleasedTypes DEF PreDecodeError, SlotShape
<1>5. CASE PreDecodeThrows \/ EmptyBatch \/ PostDecodeDone \/ JoinWorker
  BY <1>0, <1>5 DEF PreDecodeThrows, EmptyBatch, PostDecodeDone, JoinWorker, Busy, Idle, SlotShape
<1>6. CASE AbortSlot
  <2>1. todo' \subseteq Slots /\ since' \in Nat
    BY <1>0, <1>6 DEF AbortSlot, SlotShape
  <2>2. CASE slot' = slot
    BY <1>0, <2>1, <2>2 DEF SlotShape
  <2>3. ASSUME NEW s, FailSlot(s) PROVE SlotShape'
    BY <1>0, <2>1, <2>3, FailSlotEffect, ReleasedTypes
  <2>. QED
    BY <1>6, <2>2, <2>3 DEF AbortSlot
<1>7. CASE PostDecode
  <2>1. todo' \subseteq Slots /\ since' \in Nat
    BY <1>0, <1>7 DEF PostDecode, SlotShape
  <2>2. ASSUME NEW s, slot[s].left > 1, slot' = [slot EXCEPT ![s].left = @ - 1] PROVE SlotShape'
    <3>1. CASE s \in Slots
      <4>1. slot[s] \in SlotStates
        BY <1>0, <3>1 DEF SlotShape
      <4>2. [slot[s] EXCEPT !.left = @ - 1] \in SlotStates
        BY <2>2, <4>1, BoundsAssumption DEF SlotStates
      <4>. QED
        BY <1>0, <2>1, <2>2, <3>1, <4>2 DEF SlotShape
    <3>2. CASE s \notin Slots
      BY <1>0, <2>1, <2>2, <3>2 DEF SlotShape
    <3>. QED
      BY <3>1, <3>2
  <2>3. ASSUME NEW s, Release(s) PROVE SlotShape'
    BY <1>0, <2>1, <2>3, ReleasedTypes DEF Release
  <2>. QED
    BY <1>7, <2>2, <2>3 DEF PostDecode, FailSlot
<1>8. CASE RequeueDeferred
  BY <1>0, <1>8 DEF RequeueDeferred, SlotShape
<1>9. CASE HandleAudio
  <2>2. \A s \in Slots : [slot[s] EXCEPT !.wait = FALSE] \in SlotStates
    BY <1>0 DEF SlotShape, SlotStates
  <2>3. \A s \in Slots : slot'[s] \in SlotStates
    BY <1>0, <1>9, <2>2 DEF HandleAudio, SlotShape
  <2>4. slot' = [s \in Slots |-> slot'[s]] /\ todo' = todo /\ since' = since
    BY <1>9 DEF HandleAudio, Processed
  <2>. QED
    BY <1>0, <2>3, <2>4 DEF SlotShape
<1>10. CASE AudioStep
  <2>1. todo' \subseteq Slots /\ since' \in Nat
    BY <1>0, <1>10 DEF AudioStep, SlotShape
  <2>2. ASSUME NEW s \in Slots, slot' = [slot EXCEPT ![s].wait = TRUE] PROVE SlotShape'
    <3>1. [slot[s] EXCEPT !.wait = TRUE] \in SlotStates
      BY <1>0 DEF SlotShape, SlotStates
    <3>. QED
      BY <1>0, <2>1, <2>2, <3>1 DEF SlotShape
  <2>3. ASSUME NEW s, Release(s) PROVE SlotShape'
    BY <1>0, <2>1, <2>3, ReleasedTypes DEF Release
  <2>. QED
    BY <1>10, <2>2, <2>3 DEF AudioStep, Busy
<1>11. CASE LeaveSleep
  <2>1. FreeSlot \in SlotStates
    BY BoundsAssumption DEF FreeSlot, SlotStates
  <2>. QED
    BY <1>0, <1>11, <2>1 DEF LeaveSleep, ReloadSlots, SlotShape
<1>. QED
  BY <1>1, <1>2, <1>3, <1>4, <1>5, <1>6, <1>7, <1>8, <1>9, <1>10, <1>11, SlotMoves

\* Every step keeps the types of what the threads have in hand.
LEMMA HandTypes == TypeOK /\ [Next]_vars => HandShape'
<1>. SUFFICES ASSUME TypeOK, [Next]_vars PROVE HandShape'
  OBVIOUS
<1>0. QueueShape /\ HandShape
  BY TypeParts
<1>1. CASE UNCHANGED hand
  BY <1>0, <1>1 DEF HandShape
<1>2. CASE MainPop \/ WorkerPop
  <2>1. tasks # <<>> /\ \E t \in {"main", "worker"} : hand' = [hand EXCEPT ![t] = Head(tasks)]
    BY <1>2 DEF MainPop, WorkerPop, PopTask
  <2>2. Head(tasks) \in Tasks
    BY <1>0, <2>1, HeadTailProperties DEF QueueShape
  <2>. QED
    BY <1>0, <2>1, <2>2 DEF HandShape
<1>3. CASE \/ LaunchTask \/ LaunchFails \/ DeferTask \/ ServeAtOnce \/ HandleCancel \/ HandleAudio
           \/ HandleNextResponse
  BY <1>0, <1>3 DEF LaunchTask, LaunchFails, DeferTask, ServeAtOnce, HandleCancel, HandleAudio,
                    HandleNextResponse, Processed, HandShape
<1>4. CASE WorkerHandle
  BY <1>0, <1>4 DEF WorkerHandle, HandShape
<1>. QED
  BY <1>1, <1>2, <1>3, <1>4, HandMoves

\* Every step keeps the types of the results.
LEMMA ResultTypes == TypeOK /\ [Next]_vars => ResultShape'
<1>. SUFFICES ASSUME TypeOK, [Next]_vars PROVE ResultShape'
  OBVIOUS
<1>0. QueueShape /\ ResultShape
  BY TypeParts
<1>1. CASE UNCHANGED resultVars
  BY <1>0, <1>1 DEF ResultShape, resultVars
<1>2. CASE LaunchFails
  BY <1>0, <1>2, SendTypes DEF LaunchFails
<1>3. CASE ServeAtOnce
  BY <1>0, <1>3, SendTypes DEF ServeAtOnce
<1>4. CASE PreDecodeError
  BY <1>0, <1>4, FailSlotEffect DEF PreDecodeError
<1>5. CASE AbortSlot
  <2>1. UNCHANGED resultVars \/ \E s : FailSlot(s)
    BY <1>5 DEF AbortSlot
  <2>. QED
    BY <1>0, <1>1, <2>1, FailSlotEffect
<1>6. CASE PostDecode
  <2>1. UNCHANGED resultVars \/ (\E c : \E r \in {"partial", "final"} : Send(c, r)) \/ \E s : FailSlot(s)
    BY <1>6 DEF PostDecode
  <2>. QED
    BY <1>0, <1>1, <2>1, SendTypes, FailSlotEffect
<1>7. CASE WorkerHandle
  <2>1. UNCHANGED resultVars \/ \E c : Send(c, "final")
    BY <1>7 DEF WorkerHandle
  <2>. QED
    BY <1>0, <1>1, <2>1, SendTypes
<1>8. ASSUME NEW c \in Clients, ClientPost(c) PROVE ResultShape'
  BY <1>0, <1>8 DEF ClientPost, ResultShape
<1>9. ASSUME NEW c \in Clients, ClientReceive(c) \/ ClientGivesUp(c) PROVE ResultShape'
  <2>1. results[c] \in Seq({"partial", "final", "error"})
    BY <1>0 DEF ResultShape
  <2>2. results[c] # <<>> => Tail(results[c]) \in Seq({"partial", "final", "error"})
    BY <2>1, HeadTailProperties
  <2>3. \/ results' = [results EXCEPT ![c] = <<>>]
        \/ results[c] # <<>> /\ results' = [results EXCEPT ![c] = Tail(results[c])]
    BY <1>9 DEF ClientReceive, ClientGivesUp, StopWaiting
  <2>4. waiting' \subseteq waiting
    BY <1>9 DEF ClientReceive, ClientGivesUp, StopWaiting
  <2>5. <<>> \in Seq({"partial", "final", "error"})
    OBVIOUS
  <2>6. PICK q \in Seq({"partial", "final", "error"}) : results' = [results EXCEPT ![c] = q]
    BY <2>2, <2>3, <2>5, Zenon
  <2>. QED
    BY <1>0, <2>4, <2>6 DEF ResultShape
<1>10. CASE LaunchTask \/ AudioStep
  <2>1. UNCHANGED resultVars \/ \E c : \E r \in {"partial", "final"} : Send(c, r)
    BY <1>10 DEF LaunchTask, AudioStep
  <2>. QED
    BY <1>0, <1>1, <2>1, SendTypes
<1>. QED
  BY <1>1, <1>2, <1>3, <1>4, <1>5, <1>6, <1>7, <1>8, <1>9, <1>10, ResultMoves

\* Every step keeps the places of the clients.
LEMMA ClientTypes == TypeOK /\ [Next]_vars => ClientShape'
<1>. SUFFICES ASSUME TypeOK, [Next]_vars PROVE ClientShape'
  OBVIOUS
<1>0. ClientShape
  BY TypeParts
<1>1. CASE UNCHANGED pc
  BY <1>0, <1>1 DEF ClientShape
<1>2. ASSUME NEW c \in Clients,
             ClientStart(c) \/ ClientWoken(c) \/ ClientPost(c) \/ ClientReceive(c) \/ ClientCancel(c) \/ ClientGivesUp(c)
      PROVE  pc' = pc \/ \E l \in {"asleep", "ready", "recv", "cancel", "done", "gone"} : pc' = [pc EXCEPT ![c] = l]
  BY <1>2 DEF ClientStart, ClientWoken, ClientPost, ClientReceive, ClientCancel, ClientGivesUp
<1>. QED
  BY <1>0, <1>1, <1>2, ClientMoves DEF ClientShape

\* The steps that change a flag.
LEMMA FlagMoves ==
    [Next]_vars =>
        \/ UNCHANGED <<loopVars, yieldVars>>
        \/ DeferTask \/ HandleCancel \/ PostNextResponse \/ PreDecodeError \/ AudioStep \/ AbortSlot
        \/ BeginYield \/ EndYield \/ JoinWorker \/ PostDecode \/ RequeueDeferred \/ IdleTimeout
        \/ EnterSleep \/ LeaveSleep \/ WorkerFinish \/ Terminate
        \/ \E c \in Clients : ClientStart(c) \/ ClientPost(c) \/ ClientCancel(c) \/ ClientAudio(c)
BY Zenon DEF Next, MainStep, ProcessSingleTask, WorkerStep, ClientStep, vars, queueVars, loopVars,
             yieldVars, slotVars, resultVars, MainPop, PopTask, MainDrained, LaunchTask, Processed,
             LaunchFails, Send, ServeAtOnce, HandleAudio, HandleNextResponse, AllIdle, PreDecodeThrows,
             EmptyBatch, PostDecodeDone, IdleOver, WorkerStart, WorkerPop, WorkerDrained,
             WorkerHandle, WorkerCheck, WaitAgain, WorkerWoken, ClientWoken, ClientReceive,
             StopWaiting, ClientGivesUp

\* cv and the places of the two server threads.
LEMMA PlaceTypes == TypeOK /\ [Next]_vars => PlaceShape'
<1>. SUFFICES ASSUME TypeOK, [Next]_vars PROVE PlaceShape'
  OBVIOUS
<1>0. QueueShape /\ PlaceShape /\ "main" \in Threads /\ "worker" \in Threads /\ Clients \subseteq Threads
  BY TypeParts DEF Threads
<1>. USE DEF PlaceShape
<1>1. CASE MainPop
  BY <1>0, <1>1 DEF MainPop, PopTask
<1>2. CASE MainDrained
  BY <1>0, <1>2 DEF MainDrained
<1>3. CASE LaunchTask
  BY <1>0, <1>3 DEF LaunchTask, Processed
<1>4. CASE LaunchFails
  BY <1>0, <1>4 DEF LaunchFails, Processed, Send
<1>5. CASE DeferTask
  BY <1>0, <1>5 DEF DeferTask, Processed, Defer, NotifyOne
<1>6. CASE ServeAtOnce
  BY <1>0, <1>6 DEF ServeAtOnce, Processed, Send
<1>7. CASE HandleCancel
  <2>1. main' = "process" /\ worker' = worker /\ (cv' = cv \/ \E s : PopDeferred(s))
    BY <1>7 DEF HandleCancel, Processed, Release
  <2>2. cv' \subseteq cv
    BY <2>1 DEF PopDeferred, NotifyOne
  <2>. QED
    BY <1>0, <2>1, <2>2
<1>8. CASE HandleNextResponse
  BY <1>0, <1>8 DEF HandleNextResponse, Processed
<1>9. CASE AllIdle
  BY <1>0, <1>9 DEF AllIdle
<1>10. CASE PostNextResponse
  BY <1>0, <1>10 DEF PostNextResponse, Post, NotifyOne
<1>11. CASE PreDecodeError
  <2>1. main' = main /\ worker' = worker /\ (cv' = cv \/ \E s : PopDeferred(s))
    BY <1>11 DEF PreDecodeError, FailSlot, Release
  <2>2. cv' \subseteq cv
    BY <2>1 DEF PopDeferred, NotifyOne
  <2>. QED
    BY <1>0, <2>1, <2>2
<1>12. CASE PreDecodeThrows
  BY <1>0, <1>12 DEF PreDecodeThrows
<1>13. CASE AbortSlot
  <2>1. main' \in {main, "idle"} /\ worker' = worker /\ (cv' = cv \/ \E s : PopDeferred(s))
    BY <1>13 DEF AbortSlot, FailSlot, Release
  <2>2. cv' \subseteq cv
    BY <2>1 DEF PopDeferred, NotifyOne
  <2>. QED
    BY <1>0, <2>1, <2>2
<1>14. CASE EmptyBatch
  BY <1>0, <1>14 DEF EmptyBatch
<1>15. CASE BeginYield
  BY <1>0, <1>15 DEF BeginYield
<1>16. CASE EndYield
  BY <1>0, <1>16 DEF EndYield
<1>17. CASE JoinWorker
  BY <1>0, <1>17 DEF JoinWorker, PutBackUnhandled, WaitAgain
<1>18. CASE PostDecode
  <2>1. main' = main /\ worker' = worker /\ (cv' = cv \/ \E s : PopDeferred(s))
    BY <1>18 DEF PostDecode, FailSlot, Release
  <2>2. cv' \subseteq cv
    BY <2>1 DEF PopDeferred, NotifyOne
  <2>. QED
    BY <1>0, <2>1, <2>2
<1>19. CASE PostDecodeDone
  BY <1>0, <1>19 DEF PostDecodeDone
<1>20. CASE RequeueDeferred
  <2>1. main' \in {main, "idle"} /\ worker' = worker /\ (cv' = cv \/ \E s : PopDeferred(s))
    BY <1>20 DEF RequeueDeferred
  <2>2. cv' \subseteq cv
    BY <2>1 DEF PopDeferred, NotifyOne
  <2>. QED
    BY <1>0, <2>1, <2>2
<1>21. CASE IdleOver
  BY <1>0, <1>21 DEF IdleOver
<1>22. CASE EnterSleep
  BY <1>0, <1>22 DEF EnterSleep
<1>23. CASE LeaveSleep
  BY <1>0, <1>23 DEF LeaveSleep, NotifyAll, WaitAgain
<1>24. CASE WorkerStart
  BY <1>0, <1>24 DEF WorkerStart
<1>25. CASE WorkerPop
  BY <1>0, <1>25 DEF WorkerPop, PopTask
<1>26. CASE WorkerDrained
  BY <1>0, <1>26 DEF WorkerDrained
<1>27. CASE WorkerHandle
  BY <1>0, <1>27 DEF WorkerHandle, Send
<1>28. CASE WorkerCheck
  BY <1>0, <1>28 DEF WorkerCheck, WaitAgain
<1>29. CASE WorkerWoken
  BY <1>0, <1>29 DEF WorkerWoken, WaitAgain
<1>30. CASE WorkerFinish
  BY <1>0, <1>30 DEF WorkerFinish, NotifyAll
<1>31. CASE IdleTimeout
  BY <1>0, <1>31 DEF IdleTimeout
<1>32. CASE Terminate
  BY <1>0, <1>32 DEF Terminate, NotifyAll
<1>33. ASSUME NEW c \in Clients, ClientStart(c) PROVE PlaceShape'
  BY <1>0, <1>33 DEF ClientStart
<1>34. ASSUME NEW c \in Clients, ClientWoken(c) PROVE PlaceShape'
  BY <1>0, <1>34 DEF ClientWoken, WaitAgain
<1>35. ASSUME NEW c \in Clients, ClientPost(c) PROVE PlaceShape'
  BY <1>0, <1>35 DEF ClientPost, Post, NotifyOne
<1>36. ASSUME NEW c \in Clients, ClientReceive(c) PROVE PlaceShape'
  BY <1>0, <1>36 DEF ClientReceive, StopWaiting
<1>37. ASSUME NEW c \in Clients, ClientCancel(c) PROVE PlaceShape'
  BY <1>0, <1>37 DEF ClientCancel, NotifyOne
<1>38. ASSUME NEW c \in Clients, ClientGivesUp(c) PROVE PlaceShape'
  BY <1>0, <1>38 DEF ClientGivesUp, StopWaiting
<1>39. CASE UNCHANGED vars
  BY <1>0, <1>39 DEF vars
<1>40. CASE HandleAudio
  BY <1>0, <1>40 DEF HandleAudio, Processed
<1>41. CASE AudioStep
  <2>1. main' = main /\ worker' = worker /\ (cv' = cv \/ \E s : PopDeferred(s))
    BY <1>41 DEF AudioStep, Release
  <2>2. cv' \subseteq cv
    BY <2>1 DEF PopDeferred, NotifyOne
  <2>. QED
    BY <1>0, <2>1, <2>2
<1>42. ASSUME NEW c \in Clients, ClientAudio(c) PROVE PlaceShape'
  BY <1>0, <1>42 DEF ClientAudio, Post, NotifyOne
<1>. HIDE DEF PlaceShape
<1>. QED
  BY <1>1, <1>2, <1>3, <1>4, <1>5, <1>6, <1>7, <1>8, <1>9, <1>10, <1>11, <1>12, <1>13, <1>14, <1>15,
     <1>16, <1>17, <1>18, <1>19, <1>20, <1>21, <1>22, <1>23, <1>24, <1>25, <1>26, <1>27, <1>28,
     <1>29, <1>30, <1>31, <1>32, <1>33, <1>34, <1>35, <1>36, <1>37, <1>38, <1>39, <1>40, <1>41, <1>42 DEF Next, MainStep,
     ProcessSingleTask, WorkerStep, ClientStep

\* Every step keeps the types of the flags.
LEMMA FlagTypes == TypeOK /\ [Next]_vars => FlagShape'
<1>. SUFFICES ASSUME TypeOK, [Next]_vars PROVE FlagShape'
  OBVIOUS
<1>0. /\ running \in BOOLEAN /\ sleeping \in BOOLEAN /\ wakeReq \in BOOLEAN /\ idle \in BOOLEAN
      /\ busy \in BOOLEAN /\ yielding \in BOOLEAN
  BY TypeParts, Zenon DEF FlagShape
<1>1. CASE UNCHANGED <<loopVars, yieldVars>>
  BY <1>0, <1>1, Zenon DEF loopVars, yieldVars, FlagShape
<1>2. CASE DeferTask
  BY <1>0, <1>2, Zenon DEF DeferTask, Processed, Defer, loopVars, yieldVars, FlagShape
<1>3. CASE HandleCancel
  BY <1>0, <1>3, Zenon DEF HandleCancel, Processed, Release, PopDeferred, loopVars, yieldVars,
           FlagShape
<1>4. CASE PostNextResponse
  BY <1>0, <1>4, Zenon DEF PostNextResponse, Post, loopVars, yieldVars, FlagShape
<1>5. CASE PreDecodeError
  BY <1>0, <1>5, Zenon DEF PreDecodeError, FailSlot, Release, PopDeferred, loopVars, yieldVars,
           FlagShape
<1>6. CASE AbortSlot
  BY <1>0, <1>6, Zenon DEF AbortSlot, FailSlot, Release, PopDeferred, loopVars, yieldVars, FlagShape
<1>7. CASE BeginYield
  BY <1>0, <1>7, Zenon DEF BeginYield, loopVars, yieldVars, FlagShape
<1>8. CASE EndYield
  BY <1>0, <1>8, Zenon DEF EndYield, loopVars, yieldVars, FlagShape
<1>9. CASE JoinWorker
  BY <1>0, <1>9, Zenon DEF JoinWorker, loopVars, yieldVars, FlagShape
<1>10. CASE PostDecode
  BY <1>0, <1>10, Zenon DEF PostDecode, FailSlot, Release, PopDeferred, loopVars, yieldVars,
           FlagShape
<1>11. CASE RequeueDeferred
  BY <1>0, <1>11, Zenon DEF RequeueDeferred, PopDeferred, loopVars, yieldVars, FlagShape
<1>12. CASE IdleTimeout
  BY <1>0, <1>12, Zenon DEF IdleTimeout, loopVars, yieldVars, FlagShape
<1>13. CASE EnterSleep
  BY <1>0, <1>13, Zenon DEF EnterSleep, loopVars, yieldVars, FlagShape
<1>14. CASE LeaveSleep
  BY <1>0, <1>14, Zenon DEF LeaveSleep, loopVars, yieldVars, FlagShape
<1>15. CASE WorkerFinish
  BY <1>0, <1>15, Zenon DEF WorkerFinish, loopVars, yieldVars, FlagShape
<1>16. CASE Terminate
  BY <1>0, <1>16, Zenon DEF Terminate, loopVars, yieldVars, FlagShape
<1>17. ASSUME NEW c \in Clients, ClientStart(c) PROVE FlagShape'
  <2>1. /\ running' = running /\ sleeping' = sleeping /\ wakeReq' \in BOOLEAN /\ idle' \in BOOLEAN
        /\ busy' = busy /\ yielding' = yielding
    BY <1>0, <1>17 DEF ClientStart, loopVars, yieldVars
  <2>. QED
    BY <1>0, <2>1, Zenon DEF FlagShape
<1>18. ASSUME NEW c \in Clients, ClientPost(c) PROVE FlagShape'
  <2>1. /\ running' = running /\ sleeping' = sleeping /\ wakeReq' \in BOOLEAN /\ idle' \in BOOLEAN
        /\ busy' = busy /\ yielding' = yielding
    BY <1>0, <1>18 DEF ClientPost, Post, loopVars, yieldVars
  <2>. QED
    BY <1>0, <2>1, Zenon DEF FlagShape
<1>19. ASSUME NEW c \in Clients, ClientCancel(c) PROVE FlagShape'
  <2>1. /\ running' = running /\ sleeping' = sleeping /\ wakeReq' \in BOOLEAN /\ idle' \in BOOLEAN
        /\ busy' = busy /\ yielding' = yielding
    BY <1>0, <1>19 DEF ClientCancel, loopVars, yieldVars
  <2>. QED
    BY <1>0, <2>1, Zenon DEF FlagShape
<1>20. CASE AudioStep
  BY <1>0, <1>20, Zenon DEF AudioStep, Release, PopDeferred, loopVars, yieldVars, FlagShape
<1>21. ASSUME NEW c \in Clients, ClientAudio(c) PROVE FlagShape'
  <2>1. /\ running' = running /\ sleeping' = sleeping /\ wakeReq' \in BOOLEAN /\ idle' \in BOOLEAN
        /\ busy' = busy /\ yielding' = yielding
    BY <1>0, <1>21 DEF ClientAudio, Post, loopVars, yieldVars
  <2>. QED
    BY <1>0, <2>1, Zenon DEF FlagShape
<1>. QED
  BY <1>1, <1>2, <1>3, <1>4, <1>5, <1>6, <1>7, <1>8, <1>9, <1>10, <1>11, <1>12, <1>13, <1>14, <1>15,
     <1>16, <1>17, <1>18, <1>19, <1>20, <1>21, FlagMoves

\* Every step keeps the type invariant.
LEMMA TypeStep == TypeOK /\ ThreadInv /\ [Next]_vars => TypeOK'
BY QueueTypes, FlagTypes, PlaceTypes, HandTypes, SlotTypes, ResultTypes, ClientTypes, TypeParts
   DEF TypeOK, QueueShape, FlagShape, PlaceShape, HandShape, SlotShape, SlotStates, ResultShape, ClientShape

---------------------------------------------------------------------------
(* Where the threads are.                                                  *)

\* An empty hand is told apart from every task.
LEMMA NoTaskApart == NoTask \notin Tasks
BY DEF NoTask, Tasks, TaskOf, CancelOf, AudioOf, NextResponse, TypeOf

\* Releasing a slot leaves the set of declined tasks and the other slots alone.
LEMMA ReleaseFrame ==
    ASSUME NEW s, Release(s)
    PROVE  unhandled' = unhandled /\ slot' = [slot EXCEPT ![s] = FreeSlot]
BY DEF Release, PopDeferred

\* Working through todo in one of the two loops, a busy slot at a time.
LEMMA TodoShrinks ==
    ASSUME SlotShape, todo \subseteq Busy, NEW s, todo' = todo \ {s},
           \A r \in Slots \ {s} : slot'[r] = slot[r]
    PROVE  (todo \subseteq Busy)'
BY DEF SlotShape, Busy, Processing

ThreadsHold ==
    /\ hand["main"] # NoTask <=> main = "handle"
    /\ hand["worker"] # NoTask <=> worker = "handle"
YieldHolds ==
    /\ worker \in {"process", "handle", "check", "wait", "finish"} => busy
    /\ busy => main \in {"decode", "join"}
    /\ unhandled # <<>> => main \in {"decode", "join"}
TodoHolds == main \in {"abort", "post"} => todo \subseteq Busy
SleepHolds ==
    /\ sleeping => main = "asleep" \/ (~running /\ main \in {"process", "exit"})
    /\ main = "asleep" => sleeping

\* ThreadInv, part by part.
LEMMA ThreadParts == ThreadInv <=> ThreadsHold /\ YieldHolds /\ TodoHolds /\ SleepHolds
BY DEF ThreadInv, ThreadsHold, YieldHolds, TodoHolds, SleepHolds

\* A thread has a task in hand exactly while it handles one.
LEMMA HoldStep == TypeOK /\ ThreadInv /\ [Next]_vars => ThreadsHold'
<1>. SUFFICES ASSUME TypeOK, ThreadInv, [Next]_vars PROVE ThreadsHold'
  OBVIOUS
<1>0. ThreadsHold /\ QueueShape /\ HandShape
  BY TypeParts, ThreadParts
<1>1. CASE MainPop
  <2>1. tasks # <<>> /\ hand' = [hand EXCEPT !["main"] = Head(tasks)] /\ main' = "handle" /\ worker' = worker
    BY <1>1 DEF MainPop, PopTask
  <2>2. Head(tasks) \in Tasks
    BY <1>0, <2>1, HeadTailProperties DEF QueueShape
  <2>. QED
    BY <1>0, <1>1, <2>1, <2>2, NoTaskApart DEF MainPop, HandShape, ThreadsHold
<1>2. CASE MainDrained
  BY <1>0, <1>2 DEF MainDrained, ThreadsHold, HandShape
<1>3. CASE LaunchTask
  BY <1>0, <1>3 DEF LaunchTask, Processed, ThreadsHold, HandShape
<1>4. CASE LaunchFails
  BY <1>0, <1>4 DEF LaunchFails, Processed, ThreadsHold, HandShape
<1>5. CASE DeferTask
  BY <1>0, <1>5 DEF DeferTask, Processed, Defer, ThreadsHold, HandShape
<1>6. CASE ServeAtOnce
  BY <1>0, <1>6 DEF ServeAtOnce, Processed, ThreadsHold, HandShape
<1>7. CASE HandleCancel
  BY <1>0, <1>7, ReleaseFrame DEF HandleCancel, Processed, ThreadsHold, HandShape
<1>8. CASE HandleNextResponse
  BY <1>0, <1>8 DEF HandleNextResponse, Processed, ThreadsHold, HandShape
<1>9. CASE AllIdle
  BY <1>0, <1>9 DEF AllIdle, ThreadsHold, HandShape
<1>10. CASE PostNextResponse
  BY <1>0, <1>10 DEF PostNextResponse, Post, ThreadsHold, HandShape
<1>11. CASE PreDecodeError
  BY <1>0, <1>11, ReleaseFrame DEF PreDecodeError, FailSlot, ThreadsHold, HandShape
<1>12. CASE PreDecodeThrows
  BY <1>0, <1>12 DEF PreDecodeThrows, ThreadsHold, HandShape
<1>13. CASE AbortSlot
  BY <1>0, <1>13, ReleaseFrame DEF AbortSlot, FailSlot, ThreadsHold, HandShape
<1>14. CASE EmptyBatch
  BY <1>0, <1>14 DEF EmptyBatch, ThreadsHold, HandShape
<1>15. CASE BeginYield
  BY <1>0, <1>15 DEF BeginYield, ThreadsHold, HandShape
<1>16. CASE EndYield
  BY <1>0, <1>16 DEF EndYield, ThreadsHold, HandShape
<1>17. CASE JoinWorker
  BY <1>0, <1>17 DEF JoinWorker, PutBackUnhandled, ThreadsHold, HandShape
<1>18. CASE PostDecode
  BY <1>0, <1>18, ReleaseFrame DEF PostDecode, FailSlot, ThreadsHold, HandShape
<1>19. CASE PostDecodeDone
  BY <1>0, <1>19 DEF PostDecodeDone, ThreadsHold, HandShape
<1>20. CASE RequeueDeferred
  BY <1>0, <1>20 DEF RequeueDeferred, ThreadsHold, HandShape
<1>21. CASE IdleOver
  BY <1>0, <1>21 DEF IdleOver, ThreadsHold, HandShape
<1>22. CASE EnterSleep
  BY <1>0, <1>22 DEF EnterSleep, ThreadsHold, HandShape
<1>23. CASE LeaveSleep
  BY <1>0, <1>23 DEF LeaveSleep, ThreadsHold, HandShape
<1>24. CASE WorkerStart
  BY <1>0, <1>24 DEF WorkerStart, ThreadsHold, HandShape
<1>25. CASE WorkerPop
  <2>1. tasks # <<>> /\ hand' = [hand EXCEPT !["worker"] = Head(tasks)] /\ main' = main /\ worker' = "handle"
    BY <1>25 DEF WorkerPop, PopTask
  <2>2. Head(tasks) \in Tasks
    BY <1>0, <2>1, HeadTailProperties DEF QueueShape
  <2>. QED
    BY <1>0, <1>25, <2>1, <2>2, NoTaskApart DEF WorkerPop, HandShape, ThreadsHold
<1>26. CASE WorkerDrained
  BY <1>0, <1>26 DEF WorkerDrained, ThreadsHold, HandShape
<1>27. CASE WorkerHandle
  BY <1>0, <1>27 DEF WorkerHandle, ThreadsHold, HandShape
<1>28. CASE WorkerCheck
  BY <1>0, <1>28 DEF WorkerCheck, ThreadsHold, HandShape
<1>29. CASE WorkerWoken
  BY <1>0, <1>29 DEF WorkerWoken, ThreadsHold, HandShape
<1>30. CASE WorkerFinish
  BY <1>0, <1>30 DEF WorkerFinish, ThreadsHold, HandShape
<1>31. CASE IdleTimeout
  BY <1>0, <1>31 DEF IdleTimeout, ThreadsHold, HandShape
<1>32. CASE Terminate
  BY <1>0, <1>32 DEF Terminate, ThreadsHold, HandShape
<1>33. CASE \E c \in Clients : ClientStep(c) \/ ClientGivesUp(c) \/ ClientAudio(c)
  BY <1>0, <1>33 DEF ClientStep, ClientStart, ClientWoken, ClientPost, Post, ClientReceive,
           StopWaiting, ClientCancel, ClientGivesUp, ClientAudio, ThreadsHold, HandShape, loopVars, yieldVars,
           slotVars
<1>34. CASE UNCHANGED vars
  BY <1>0, <1>34 DEF vars, ThreadsHold, HandShape, loopVars, yieldVars, slotVars, queueVars
<1>35. CASE HandleAudio
  BY <1>0, <1>35 DEF HandleAudio, Processed, ThreadsHold, HandShape
<1>36. CASE AudioStep
  BY <1>0, <1>36, ReleaseFrame DEF AudioStep, ThreadsHold, HandShape
<1>. QED
  BY <1>1, <1>2, <1>3, <1>4, <1>5, <1>6, <1>7, <1>8, <1>9, <1>10, <1>11, <1>12, <1>13, <1>14, <1>15,
     <1>16, <1>17, <1>18, <1>19, <1>20, <1>21, <1>22, <1>23, <1>24, <1>25, <1>26, <1>27, <1>28,
     <1>29, <1>30, <1>31, <1>32, <1>33, <1>34, <1>35, <1>36 DEF Next, MainStep, ProcessSingleTask, WorkerStep

\* The worker is at work only while the main thread has lent it the queue.
LEMMA YieldStep == TypeOK /\ ThreadInv /\ [Next]_vars => YieldHolds'
<1>. SUFFICES ASSUME TypeOK, ThreadInv, [Next]_vars PROVE YieldHolds'
  OBVIOUS
<1>0. YieldHolds /\ FlagShape /\ PlaceShape /\ QueueShape /\ HandShape
  BY TypeParts, ThreadParts
<1>1. CASE MainPop
  BY <1>0, <1>1 DEF MainPop, PopTask, YieldHolds, queueVars, yieldVars
<1>2. CASE MainDrained
  BY <1>0, <1>2 DEF MainDrained, YieldHolds, queueVars, yieldVars
<1>3. CASE LaunchTask
  BY <1>0, <1>3 DEF LaunchTask, Processed, YieldHolds, queueVars, yieldVars
<1>4. CASE LaunchFails
  BY <1>0, <1>4 DEF LaunchFails, Processed, YieldHolds, queueVars, yieldVars
<1>5. CASE DeferTask
  BY <1>0, <1>5 DEF DeferTask, Processed, Defer, YieldHolds, queueVars, yieldVars
<1>6. CASE ServeAtOnce
  BY <1>0, <1>6 DEF ServeAtOnce, Processed, YieldHolds, queueVars, yieldVars
<1>7. CASE HandleCancel
  BY <1>0, <1>7, ReleaseFrame DEF HandleCancel, Processed, YieldHolds, queueVars, yieldVars
<1>8. CASE HandleNextResponse
  BY <1>0, <1>8 DEF HandleNextResponse, Processed, YieldHolds, queueVars, yieldVars
<1>9. CASE AllIdle
  BY <1>0, <1>9 DEF AllIdle, YieldHolds, queueVars, yieldVars
<1>10. CASE PostNextResponse
  BY <1>0, <1>10 DEF PostNextResponse, Post, YieldHolds, queueVars, yieldVars
<1>11. CASE PreDecodeError
  BY <1>0, <1>11, ReleaseFrame DEF PreDecodeError, FailSlot, YieldHolds, queueVars, yieldVars
<1>12. CASE PreDecodeThrows
  BY <1>0, <1>12 DEF PreDecodeThrows, YieldHolds, queueVars, yieldVars
<1>13. CASE AbortSlot
  BY <1>0, <1>13, ReleaseFrame DEF AbortSlot, FailSlot, YieldHolds, queueVars, yieldVars
<1>14. CASE EmptyBatch
  BY <1>0, <1>14 DEF EmptyBatch, YieldHolds, queueVars, yieldVars
<1>15. CASE BeginYield
  BY <1>0, <1>15 DEF BeginYield, YieldHolds, queueVars, yieldVars
<1>16. CASE EndYield
  BY <1>0, <1>16 DEF EndYield, YieldHolds, queueVars, yieldVars
<1>17. CASE JoinWorker
  BY <1>0, <1>17 DEF JoinWorker, PutBackUnhandled, YieldHolds, queueVars, yieldVars
<1>18. CASE PostDecode
  BY <1>0, <1>18, ReleaseFrame DEF PostDecode, FailSlot, YieldHolds, queueVars, yieldVars
<1>19. CASE PostDecodeDone
  BY <1>0, <1>19 DEF PostDecodeDone, YieldHolds, queueVars, yieldVars
<1>20. CASE RequeueDeferred
  BY <1>0, <1>20 DEF RequeueDeferred, PopDeferred, YieldHolds, queueVars, yieldVars
<1>21. CASE IdleOver
  BY <1>0, <1>21 DEF IdleOver, YieldHolds, queueVars, yieldVars
<1>22. CASE EnterSleep
  BY <1>0, <1>22 DEF EnterSleep, YieldHolds, queueVars, yieldVars
<1>23. CASE LeaveSleep
  BY <1>0, <1>23 DEF LeaveSleep, YieldHolds, queueVars, yieldVars
<1>24. CASE WorkerStart
  BY <1>0, <1>24 DEF WorkerStart, YieldHolds, queueVars, yieldVars
<1>25. CASE WorkerPop
  BY <1>0, <1>25 DEF WorkerPop, PopTask, YieldHolds, queueVars, yieldVars
<1>26. CASE WorkerDrained
  BY <1>0, <1>26 DEF WorkerDrained, YieldHolds, queueVars, yieldVars
<1>27. CASE WorkerHandle
  BY <1>0, <1>27 DEF WorkerHandle, YieldHolds, queueVars, yieldVars
<1>28. CASE WorkerCheck
  BY <1>0, <1>28 DEF WorkerCheck, YieldHolds, queueVars, yieldVars
<1>29. CASE WorkerWoken
  BY <1>0, <1>29 DEF WorkerWoken, YieldHolds, queueVars, yieldVars
<1>30. CASE WorkerFinish
  BY <1>0, <1>30 DEF WorkerFinish, YieldHolds, queueVars, yieldVars
<1>31. CASE IdleTimeout
  BY <1>0, <1>31 DEF IdleTimeout, YieldHolds, queueVars, yieldVars
<1>32. CASE Terminate
  BY <1>0, <1>32 DEF Terminate, YieldHolds, queueVars, yieldVars
<1>33. CASE \E c \in Clients : ClientStep(c) \/ ClientGivesUp(c) \/ ClientAudio(c)
  <2>1. main' = main /\ worker' = worker /\ busy' = busy
    BY <1>33 DEF ClientStep, ClientStart, ClientWoken, ClientPost, ClientReceive, ClientCancel,
                ClientGivesUp, ClientAudio, yieldVars
  <2>2. unhandled' = unhandled \/ \E c \in Clients : unhandled' = Cleanup(unhandled, c)
    BY <1>33 DEF ClientStep, ClientStart, ClientWoken, ClientPost, ClientReceive, ClientCancel,
                ClientGivesUp, ClientAudio, queueVars
  <2>3. \A c \in Clients : Cleanup(<<>>, c) = <<>>
    BY DEF Cleanup
  <2>. QED
    BY <1>0, <2>1, <2>2, <2>3 DEF YieldHolds
<1>34. CASE UNCHANGED vars
  BY <1>0, <1>34 DEF vars, YieldHolds, queueVars, yieldVars, loopVars, yieldVars, slotVars, queueVars
<1>35. CASE HandleAudio
  BY <1>0, <1>35 DEF HandleAudio, Processed, YieldHolds, queueVars, yieldVars
<1>36. CASE AudioStep
  BY <1>0, <1>36, ReleaseFrame DEF AudioStep, YieldHolds, queueVars, yieldVars
<1>. QED
  BY <1>1, <1>2, <1>3, <1>4, <1>5, <1>6, <1>7, <1>8, <1>9, <1>10, <1>11, <1>12, <1>13, <1>14, <1>15,
     <1>16, <1>17, <1>18, <1>19, <1>20, <1>21, <1>22, <1>23, <1>24, <1>25, <1>26, <1>27, <1>28,
     <1>29, <1>30, <1>31, <1>32, <1>33, <1>34, <1>35, <1>36 DEF Next, MainStep, ProcessSingleTask, WorkerStep

\* The server sleeps only with its main thread asleep or on its way out.
LEMMA SleepStep == TypeOK /\ ThreadInv /\ [Next]_vars => SleepHolds'
<1>. SUFFICES ASSUME TypeOK, ThreadInv, [Next]_vars PROVE SleepHolds'
  OBVIOUS
<1>0. SleepHolds
  BY ThreadParts
<1>1. CASE MainPop
  BY <1>0, <1>1 DEF MainPop, PopTask, SleepHolds, loopVars
<1>2. CASE MainDrained
  BY <1>0, <1>2 DEF MainDrained, SleepHolds, loopVars
<1>3. CASE LaunchTask
  BY <1>0, <1>3 DEF LaunchTask, Processed, SleepHolds, loopVars
<1>4. CASE LaunchFails
  BY <1>0, <1>4 DEF LaunchFails, Processed, SleepHolds, loopVars
<1>5. CASE DeferTask
  BY <1>0, <1>5 DEF DeferTask, Processed, Defer, SleepHolds, loopVars
<1>6. CASE ServeAtOnce
  BY <1>0, <1>6 DEF ServeAtOnce, Processed, SleepHolds, loopVars
<1>7. CASE HandleCancel
  BY <1>0, <1>7, ReleaseFrame DEF HandleCancel, Processed, SleepHolds, loopVars
<1>8. CASE HandleNextResponse
  BY <1>0, <1>8 DEF HandleNextResponse, Processed, SleepHolds, loopVars
<1>9. CASE AllIdle
  BY <1>0, <1>9 DEF AllIdle, SleepHolds, loopVars
<1>10. CASE PostNextResponse
  BY <1>0, <1>10 DEF PostNextResponse, Post, SleepHolds, loopVars
<1>11. CASE PreDecodeError
  BY <1>0, <1>11, ReleaseFrame DEF PreDecodeError, FailSlot, SleepHolds, loopVars
<1>12. CASE PreDecodeThrows
  BY <1>0, <1>12 DEF PreDecodeThrows, SleepHolds, loopVars
<1>13. CASE AbortSlot
  BY <1>0, <1>13, ReleaseFrame DEF AbortSlot, FailSlot, SleepHolds, loopVars
<1>14. CASE EmptyBatch
  BY <1>0, <1>14 DEF EmptyBatch, SleepHolds, loopVars
<1>15. CASE BeginYield
  BY <1>0, <1>15 DEF BeginYield, SleepHolds, loopVars
<1>16. CASE EndYield
  BY <1>0, <1>16 DEF EndYield, SleepHolds, loopVars
<1>17. CASE JoinWorker
  BY <1>0, <1>17 DEF JoinWorker, PutBackUnhandled, SleepHolds, loopVars
<1>18. CASE PostDecode
  BY <1>0, <1>18, ReleaseFrame DEF PostDecode, FailSlot, SleepHolds, loopVars
<1>19. CASE PostDecodeDone
  BY <1>0, <1>19 DEF PostDecodeDone, SleepHolds, loopVars
<1>20. CASE RequeueDeferred
  BY <1>0, <1>20 DEF RequeueDeferred, SleepHolds, loopVars
<1>21. CASE IdleOver
  BY <1>0, <1>21 DEF IdleOver, SleepHolds, loopVars
<1>22. CASE EnterSleep
  BY <1>0, <1>22 DEF EnterSleep, SleepHolds, loopVars
<1>23. CASE LeaveSleep
  <2>1. running' = running
    BY <1>23 DEF LeaveSleep
  <2>2. \/ main' = "process" /\ ~sleeping'
        \/ main' = "process" /\ ~running
        \/ main' = main /\ sleeping' = sleeping
    BY <1>23, Zenon DEF LeaveSleep
  <2>. QED
    BY <1>0, <2>1, <2>2 DEF SleepHolds
<1>24. CASE WorkerStart
  BY <1>0, <1>24 DEF WorkerStart, SleepHolds, loopVars
<1>25. CASE WorkerPop
  BY <1>0, <1>25 DEF WorkerPop, PopTask, SleepHolds, loopVars
<1>26. CASE WorkerDrained
  BY <1>0, <1>26 DEF WorkerDrained, SleepHolds, loopVars
<1>27. CASE WorkerHandle
  BY <1>0, <1>27 DEF WorkerHandle, SleepHolds, loopVars
<1>28. CASE WorkerCheck
  BY <1>0, <1>28 DEF WorkerCheck, SleepHolds, loopVars
<1>29. CASE WorkerWoken
  BY <1>0, <1>29 DEF WorkerWoken, SleepHolds, loopVars
<1>30. CASE WorkerFinish
  BY <1>0, <1>30 DEF WorkerFinish, SleepHolds, loopVars
<1>31. CASE IdleTimeout
  BY <1>0, <1>31 DEF IdleTimeout, SleepHolds, loopVars
<1>32. CASE Terminate
  BY <1>0, <1>32 DEF Terminate, SleepHolds, loopVars
<1>33. CASE \E c \in Clients : ClientStep(c) \/ ClientGivesUp(c) \/ ClientAudio(c)
  BY <1>0, <1>33 DEF ClientStep, ClientStart, ClientWoken, ClientPost, Post, ClientReceive,
           StopWaiting, ClientCancel, ClientGivesUp, ClientAudio, SleepHolds, loopVars, loopVars, yieldVars,
           slotVars
<1>34. CASE UNCHANGED vars
  BY <1>0, <1>34 DEF vars, SleepHolds, loopVars, loopVars, yieldVars, slotVars, queueVars
<1>35. CASE HandleAudio
  BY <1>0, <1>35 DEF HandleAudio, Processed, SleepHolds, loopVars
<1>36. CASE AudioStep
  BY <1>0, <1>36, ReleaseFrame DEF AudioStep, SleepHolds, loopVars
<1>. QED
  BY <1>1, <1>2, <1>3, <1>4, <1>5, <1>6, <1>7, <1>8, <1>9, <1>10, <1>11, <1>12, <1>13, <1>14, <1>15,
     <1>16, <1>17, <1>18, <1>19, <1>20, <1>21, <1>22, <1>23, <1>24, <1>25, <1>26, <1>27, <1>28,
     <1>29, <1>30, <1>31, <1>32, <1>33, <1>34, <1>35, <1>36 DEF Next, MainStep, ProcessSingleTask, WorkerStep

\* In the loops over running slots, the slots still to visit are running.
LEMMA TodoStep == TypeOK /\ ThreadInv /\ [Next]_vars => TodoHolds'
<1>. SUFFICES ASSUME TypeOK, ThreadInv, [Next]_vars PROVE TodoHolds'
  OBVIOUS
<1>0. TodoHolds /\ SlotShape
  BY TypeParts, ThreadParts
<1>1. CASE MainPop
  BY <1>1 DEF MainPop, PopTask, TodoHolds
<1>2. CASE MainDrained
  BY <1>2 DEF MainDrained, TodoHolds
<1>3. CASE LaunchTask
  BY <1>3 DEF LaunchTask, Processed, TodoHolds
<1>4. CASE LaunchFails
  BY <1>4 DEF LaunchFails, Processed, TodoHolds
<1>5. CASE DeferTask
  BY <1>5 DEF DeferTask, Processed, TodoHolds
<1>6. CASE ServeAtOnce
  BY <1>6 DEF ServeAtOnce, Processed, TodoHolds
<1>7. CASE HandleCancel
  BY <1>7 DEF HandleCancel, Processed, TodoHolds
<1>8. CASE HandleNextResponse
  BY <1>8 DEF HandleNextResponse, Processed, TodoHolds
<1>9. CASE AllIdle
  BY <1>9 DEF AllIdle, TodoHolds
<1>10. CASE PostNextResponse
  BY <1>10 DEF PostNextResponse, TodoHolds
<1>11. CASE PreDecodeError
  BY <1>11 DEF PreDecodeError, TodoHolds
<1>12. CASE PreDecodeThrows
  BY <1>0, <1>12 DEF PreDecodeThrows, TodoHolds, Busy, Processing
<1>13. CASE AbortSlot
  <2>. DEFINE s == First(todo)
  <2>1. CASE todo = {}
    BY <1>0, <1>13, <2>1 DEF AbortSlot, TodoHolds, Busy, Processing
  <2>2. CASE todo # {}
    <3>1. /\ main' = "abort" /\ main = "abort" /\ todo' = todo \ {s}
          /\ slot' = [slot EXCEPT ![s] = FreeSlot] \/ slot' = [slot EXCEPT ![s].left = @ - 1]
      BY <1>13, <2>2, ReleaseFrame DEF AbortSlot, FailSlot
    <3>2. \A r \in Slots \ {s} : slot'[r] = slot[r]
      BY <1>0, <3>1 DEF SlotShape
    <3>3. todo \subseteq Busy
      BY <1>0, <3>1 DEF TodoHolds
    <3>4. (todo \subseteq Busy)'
      <4>. HIDE DEF s
      <4>. QED
        BY <1>0, <3>1, <3>2, <3>3, TodoShrinks
    <3>. QED
      BY <3>4 DEF TodoHolds
  <2>. QED
    BY <2>1, <2>2
<1>14. CASE EmptyBatch
  BY <1>14 DEF EmptyBatch, TodoHolds
<1>15. CASE BeginYield
  BY <1>15 DEF BeginYield, TodoHolds
<1>16. CASE EndYield
  BY <1>16 DEF EndYield, TodoHolds
<1>17. CASE JoinWorker
  BY <1>0, <1>17 DEF JoinWorker, TodoHolds, Busy, Processing
<1>18. CASE PostDecode
  <2>. DEFINE s == First(todo)
  <2>1. CASE todo = {}
    BY <1>0, <1>18, <2>1 DEF PostDecode, TodoHolds, Busy, Processing
  <2>2. CASE todo # {}
    <3>1. /\ main' = "post" /\ main = "post" /\ todo' = todo \ {s}
          /\ slot' = [slot EXCEPT ![s] = FreeSlot] \/ slot' = [slot EXCEPT ![s].left = @ - 1]
      BY <1>18, <2>2, ReleaseFrame DEF PostDecode, FailSlot
    <3>2. \A r \in Slots \ {s} : slot'[r] = slot[r]
      BY <1>0, <3>1 DEF SlotShape
    <3>3. todo \subseteq Busy
      BY <1>0, <3>1 DEF TodoHolds
    <3>4. (todo \subseteq Busy)'
      <4>. HIDE DEF s
      <4>. QED
        BY <1>0, <3>1, <3>2, <3>3, TodoShrinks
    <3>. QED
      BY <3>4 DEF TodoHolds
  <2>. QED
    BY <2>1, <2>2
<1>19. CASE PostDecodeDone
  BY <1>19 DEF PostDecodeDone, TodoHolds
<1>20. CASE RequeueDeferred
  BY <1>20 DEF RequeueDeferred, TodoHolds
<1>21. CASE IdleOver
  BY <1>21 DEF IdleOver, TodoHolds
<1>22. CASE EnterSleep
  BY <1>22 DEF EnterSleep, TodoHolds
<1>23. CASE LeaveSleep
  BY <1>23 DEF LeaveSleep, TodoHolds
<1>24. CASE WorkerStart
  BY <1>0, <1>24 DEF WorkerStart, slotVars, TodoHolds, Busy, Processing
<1>25. CASE WorkerPop
  BY <1>0, <1>25 DEF WorkerPop, PopTask, slotVars, TodoHolds, Busy, Processing
<1>26. CASE WorkerDrained
  BY <1>0, <1>26 DEF WorkerDrained, slotVars, TodoHolds, Busy, Processing
<1>27. CASE WorkerHandle
  BY <1>0, <1>27 DEF WorkerHandle, slotVars, TodoHolds, Busy, Processing
<1>28. CASE WorkerCheck
  BY <1>0, <1>28 DEF WorkerCheck, slotVars, TodoHolds, Busy, Processing
<1>29. CASE WorkerWoken
  BY <1>0, <1>29 DEF WorkerWoken, slotVars, TodoHolds, Busy, Processing
<1>30. CASE WorkerFinish
  BY <1>0, <1>30 DEF WorkerFinish, slotVars, TodoHolds, Busy, Processing
<1>31. CASE IdleTimeout
  BY <1>0, <1>31 DEF IdleTimeout, slotVars, TodoHolds, Busy, Processing
<1>32. CASE Terminate
  BY <1>0, <1>32 DEF Terminate, slotVars, TodoHolds, Busy, Processing
<1>33. CASE \E c \in Clients : ClientStep(c) \/ ClientGivesUp(c) \/ ClientAudio(c)
  <2>1. main' = main /\ slot' = slot /\ todo' = todo
    BY <1>33 DEF ClientStep, ClientStart, ClientWoken, ClientPost, ClientReceive, ClientCancel,
                ClientGivesUp, ClientAudio, slotVars
  <2>. QED
    BY <1>0, <2>1 DEF TodoHolds, Busy, Processing
<1>34. CASE UNCHANGED vars
  BY <1>0, <1>34 DEF vars, TodoHolds, Busy, Processing, loopVars, yieldVars, slotVars, queueVars
<1>35. CASE HandleAudio \/ AudioStep
  BY <1>35 DEF HandleAudio, Processed, AudioStep, TodoHolds
<1>. QED
  BY <1>1, <1>2, <1>3, <1>4, <1>5, <1>6, <1>7, <1>8, <1>9, <1>10, <1>11, <1>12, <1>13, <1>14, <1>15,
     <1>16, <1>17, <1>18, <1>19, <1>20, <1>21, <1>22, <1>23, <1>24, <1>25, <1>26, <1>27, <1>28,
     <1>29, <1>30, <1>31, <1>32, <1>33, <1>34, <1>35 DEF Next, MainStep, ProcessSingleTask, WorkerStep

\* Every step keeps ThreadInv.
LEMMA ThreadStep == TypeOK /\ ThreadInv /\ [Next]_vars => ThreadInv'
BY HoldStep, YieldStep, TodoStep, SleepStep, ThreadParts
   DEF ThreadInv, ThreadsHold, YieldHolds, TodoHolds, SleepHolds

\* Only the main thread changes the slots, and never while it decodes.
LEMMA SlotsStill == [Next]_vars /\ main = "decode" => UNCHANGED slotVars
BY SlotMoves, Zenon
   DEF LaunchTask, HandleCancel, HandleAudio, Processed, PreDecodeError, AudioStep, PreDecodeThrows, AbortSlot,
       LeaveSleep, EmptyBatch, JoinWorker, PostDecode, PostDecodeDone, RequeueDeferred

\* Only IdleTimeout makes the server tired, and only that sends it to sleep.
LEMMA RestStep == TypeOK /\ RestInv /\ [Next]_vars => RestInv'
<1>. SUFFICES ASSUME TypeOK, RestInv, [Next]_vars PROVE RestInv'
  OBVIOUS
<1>0. idle \in BOOLEAN /\ sleeping \in BOOLEAN
  BY TypeParts, Zenon DEF FlagShape
<1>1. CASE IdleTimeout
  BY <1>1 DEF IdleTimeout, RestInv
<1>2. CASE ~IdleTimeout
  <2>1. /\ idle' = idle \/ idle' = FALSE \/ \E b : idle' = (idle /\ b)
        /\ sleeping' = sleeping \/ sleeping' = FALSE \/ idle
    BY <1>2, FlagMoves, Zenon
       DEF loopVars, DeferTask, Defer, Processed, HandleCancel, PostNextResponse, Post, PreDecodeError,
           AudioStep, FailSlot, Release, PopDeferred, AbortSlot, BeginYield, EndYield, JoinWorker,
           PostDecode, RequeueDeferred, EnterSleep, LeaveSleep, WorkerFinish, Terminate, ClientStart,
           ClientPost, ClientCancel, ClientAudio
  <2>2. (idle' => idle) /\ (sleeping' => sleeping \/ idle)
    BY <2>1, <1>0, SMT
  <2>. QED
    BY <2>2, Zenon DEF RestInv
<1>. QED
  BY <1>1, <1>2

\* A slot that is released does not wait.
LEMMA ReleasedWait ==
    ASSUME SlotShape, WaitInv, NEW s, slot' = [slot EXCEPT ![s] = FreeSlot]
    PROVE  WaitInv'
BY DEF SlotShape, WaitInv, FreeSlot

\* Only the slots of realtime sessions wait.
LEMMA WaitStep == TypeOK /\ ThreadInv /\ WaitInv /\ [Next]_vars => WaitInv'
<1>. SUFFICES ASSUME TypeOK, ThreadInv, WaitInv, [Next]_vars PROVE WaitInv'
  OBVIOUS
<1>0. SlotShape /\ HandShape
  BY TypeParts
<1>1. CASE slot' = slot
  BY <1>1 DEF WaitInv
<1>2. ASSUME NEW s, Release(s) PROVE WaitInv'
  BY <1>0, <1>2, ReleasedWait DEF Release
<1>3. CASE LaunchTask
  <2>. DEFINE c == hand["main"].of
  <2>1. hand["main"] \in Tasks /\ hand["main"].type = "gen"
    BY <1>0, <1>3, HandedTask DEF LaunchTask, Processed
  <2>2. c \in Gens
    BY <2>1, GenInHand
  <2>3. PICK s \in Available(c), l \in Launched(c) : slot' = [slot EXCEPT ![s] = l]
    BY <1>3 DEF LaunchTask
  <2>4. l.task = c /\ (l.wait => c \in Realtime)
    <3>. HIDE DEF c
    <3>. QED
      BY <2>2, LaunchedTypes
  <2>. HIDE DEF c
  <2>. QED
    BY <1>0, <2>3, <2>4 DEF SlotShape, WaitInv
<1>4. CASE HandleAudio
  BY <1>0, <1>4 DEF HandleAudio, SlotShape, WaitInv
<1>5. CASE AudioStep
  <2>1. ASSUME NEW s, slot[s].task \in Realtime, slot' = [slot EXCEPT ![s].wait = TRUE] PROVE WaitInv'
    BY <1>0, <2>1 DEF SlotShape, SlotStates, WaitInv
  <2>. QED
    BY <1>2, <1>5, <2>1 DEF AudioStep
<1>6. CASE PostDecode
  <2>1. ASSUME NEW s, slot' = [slot EXCEPT ![s].left = @ - 1] PROVE WaitInv'
    BY <1>0, <2>1 DEF SlotShape, SlotStates, WaitInv
  <2>. QED
    BY <1>2, <1>6, <2>1 DEF PostDecode, FailSlot
<1>7. CASE LeaveSleep
  <2>1. slot' = slot \/ slot' = [s \in Slots |-> FreeSlot]
    BY <1>7 DEF LeaveSleep, ReloadSlots
  <2>. QED
    BY <1>1, <2>1 DEF WaitInv, FreeSlot
<1>8. CASE HandleCancel \/ PreDecodeError \/ AbortSlot
  BY <1>1, <1>2, <1>8 DEF HandleCancel, PreDecodeError, AbortSlot, FailSlot
<1>9. CASE PreDecodeThrows \/ EmptyBatch \/ JoinWorker \/ PostDecodeDone \/ RequeueDeferred
  BY <1>1, <1>9 DEF PreDecodeThrows, EmptyBatch, JoinWorker, PostDecodeDone, RequeueDeferred
<1>. QED
  BY <1>1, <1>3, <1>4, <1>5, <1>6, <1>7, <1>8, <1>9, SlotMoves DEF slotVars

---------------------------------------------------------------------------
(* The loop goes on while a slot has work.                                 *)

InLoop == main \in {"predecode", "abort", "decode", "join", "post", "requeue", "idle", "asleep"}

\* The body of the loop releases slots, or finds that a session waits, and never
\* puts one to work.
LEMMA AtWorkShrinks ==
    TypeOK /\ ThreadInv /\ [Next]_vars /\ (InLoop \/ main = "update" \/ sleeping) => AtWork' \subseteq AtWork
<1>. SUFFICES ASSUME TypeOK, [Next]_vars, main # "handle" PROVE AtWork' \subseteq AtWork
  BY DEF InLoop, ThreadInv
<1>. USE DEF AtWork, Busy, Processing, Waiting
<1>0. SlotShape
  BY TypeParts
<1>1. CASE slot' = slot
  BY <1>1
<1>2. ASSUME NEW s, slot' = [slot EXCEPT ![s] = FreeSlot] PROVE AtWork' \subseteq AtWork
  BY <1>0, <1>2 DEF SlotShape, FreeSlot
<1>3. ASSUME NEW s, slot' = [slot EXCEPT ![s].left = @ - 1] PROVE AtWork' \subseteq AtWork
  BY <1>0, <1>3 DEF SlotShape, SlotStates
<1>4. ASSUME NEW s, slot' = [slot EXCEPT ![s].wait = TRUE] PROVE AtWork' \subseteq AtWork
  BY <1>0, <1>4 DEF SlotShape, SlotStates
<1>5. CASE slot' = [s \in Slots |-> FreeSlot]
  BY <1>5 DEF FreeSlot
<1>. HIDE DEF AtWork, Busy, Processing, Waiting
<1>6. \/ slot' = slot
      \/ \E s : slot' = [slot EXCEPT ![s] = FreeSlot]
      \/ \E s : slot' = [slot EXCEPT ![s].left = @ - 1]
      \/ \E s : slot' = [slot EXCEPT ![s].wait = TRUE]
      \/ slot' = [s \in Slots |-> FreeSlot]
  <2>1. CASE LaunchTask \/ HandleCancel \/ HandleAudio
    BY <2>1 DEF LaunchTask, HandleCancel, HandleAudio, Processed
  <2>2. CASE PreDecodeError \/ AbortSlot \/ AudioStep \/ PostDecode
    BY <2>2, ReleaseFrame DEF PreDecodeError, AbortSlot, AudioStep, PostDecode, FailSlot
  <2>3. CASE UNCHANGED slotVars \/ PreDecodeThrows \/ LeaveSleep \/ EmptyBatch \/ JoinWorker \/ PostDecodeDone
             \/ RequeueDeferred
    BY <2>3
       DEF slotVars, PreDecodeThrows, LeaveSleep, ReloadSlots, EmptyBatch, JoinWorker, PostDecodeDone, RequeueDeferred
  <2>. QED
    BY <2>1, <2>2, <2>3, SlotMoves
<1>. QED
  BY <1>1, <1>2, <1>3, <1>4, <1>5, <1>6

\* Inside the loop's body no NEXT_RESPONSE is taken out of the queue for good.
LEMMA NextsStay ==
    ASSUME TypeOK, ThreadInv, [Next]_vars, InLoop
    PROVE  Nexts' >= Nexts
<1>. DEFINE X == {NextResponse}
<1>0. QueueShape /\ QueueShape' /\ HandShape
  BY QueueTypes, TypeParts
<1>1. /\ Matches(tasks, X) \in Nat /\ Matches(unhandled, X) \in Nat /\ One(hand["worker"], X) \in {0, 1}
      /\ Matches(tasks', X) \in Nat /\ Matches(unhandled', X) \in Nat /\ One(hand'["worker"], X) \in {0, 1}
  BY <1>0, MatchesNat DEF QueueShape, One
<1>. SUFFICES Matches(tasks', X) + Matches(unhandled', X) + One(hand'["worker"], X)
              >= Matches(tasks, X) + Matches(unhandled, X) + One(hand["worker"], X)
  BY DEF Nexts
<1>. HIDE DEF X
<1>2. main \notin {"process", "handle", "update"}
  BY DEF InLoop
<1>3. CASE UNCHANGED <<tasks, unhandled, hand>>
  BY <1>1, <1>3
<1>4. ASSUME NEW s, PopDeferred(s), hand' = hand PROVE Matches(tasks', X) + Matches(unhandled', X) + One(hand'["worker"], X)
              >= Matches(tasks, X) + Matches(unhandled, X) + One(hand["worker"], X)
  <2>1. Matches(tasks', X) >= Matches(tasks, X) /\ unhandled' = unhandled
    BY <1>0, <1>4, PopDeferredEffect DEF QueueShape
  <2>. QED
    BY <1>1, <1>4, <2>1
<1>5. CASE PreDecodeError \/ AudioStep \/ AbortSlot \/ PostDecode \/ RequeueDeferred
  <2>1. hand' = hand /\ (UNCHANGED queueVars \/ \E s : PopDeferred(s))
    BY <1>5 DEF PreDecodeError, AudioStep, AbortSlot, PostDecode, RequeueDeferred, FailSlot, Release
  <2>. QED
    BY <1>3, <1>4, <2>1 DEF queueVars
<1>6. CASE JoinWorker
  <2>1. hand' = hand /\ (UNCHANGED queueVars \/ (tasks' = unhandled \o tasks /\ unhandled' = <<>>))
    BY <1>6 DEF JoinWorker, PutBackUnhandled
  <2>2. CASE tasks' = unhandled \o tasks /\ unhandled' = <<>>
    <3>1. Matches(tasks', X) = Matches(unhandled, X) + Matches(tasks, X)
      BY <1>0, <2>2, MatchesConcat DEF QueueShape
    <3>. QED
      BY <1>1, <2>1, <2>2, <3>1
  <2>. QED
    BY <1>3, <2>1, <2>2 DEF queueVars
<1>7. CASE WorkerPop
  <2>1. tasks # <<>> /\ tasks' = Tail(tasks) /\ unhandled' = unhandled /\ hand'["worker"] = Head(tasks)
    BY <1>0, <1>7 DEF WorkerPop, PopTask, HandShape
  <2>2. Matches(tasks, X) = Matches(tasks', X) + One(hand'["worker"], X)
    BY <1>0, <2>1, MatchesTail DEF QueueShape
  <2>3. One(hand["worker"], X) = 0
    <3>1. hand["worker"] = NoTask
      BY <1>7 DEF WorkerPop, ThreadInv
    <3>2. NextResponse # NoTask
      BY NoTaskApart DEF Tasks
    <3>. QED
      BY <3>1, <3>2 DEF One, X
  <2>. QED
    BY <1>1, <2>1, <2>2, <2>3
<1>8. CASE WorkerHandle
  <2>1. tasks' = tasks /\ hand["worker"] \in Tasks
    BY <1>0, <1>8, HandedTask DEF WorkerHandle
  <2>2. CASE hand["worker"].type = "metrics"
    <3>1. unhandled' = unhandled
      BY <1>8, <2>2 DEF WorkerHandle
    <3>2. One(hand["worker"], X) = 0
      BY <2>2 DEF One, X, NextResponse
    <3>. QED
      BY <1>1, <2>1, <3>1, <3>2
  <2>3. CASE hand["worker"].type # "metrics"
    <3>1. unhandled' = Append(unhandled, hand["worker"])
      BY <1>8, <2>3 DEF WorkerHandle
    <3>2. Matches(Append(unhandled, hand["worker"]), X) = Matches(unhandled, X) + One(hand["worker"], X)
      <4>1. unhandled \in Seq(Tasks)
        BY <1>0 DEF QueueShape
      <4>. QED
        BY <2>1, <4>1, TaskAppended, ZenonT(40)
    <3>3. Matches(unhandled', X) = Matches(unhandled, X) + One(hand["worker"], X)
      BY <3>1, <3>2
    <3>. QED
      BY <1>1, <2>1, <3>3
  <2>. QED
    BY <2>2, <2>3
<1>9. ASSUME NEW c \in Clients, NEW t \in Tasks,
             (t = TaskOf(c) /\ ClientPost(c)) \/ (t = AudioOf(c) /\ ClientAudio(c))
      PROVE  Matches(tasks', X) + Matches(unhandled', X) + One(hand'["worker"], X)
              >= Matches(tasks, X) + Matches(unhandled, X) + One(hand["worker"], X)
  <2>1. /\ tasks' = <<t>> \o tasks \/ tasks' = Append(tasks, t)
        /\ unhandled' = unhandled /\ hand' = hand
    BY <1>9 DEF ClientPost, ClientAudio, Post
  <2>2. t \in Tasks
    OBVIOUS
  <2>3. Matches(tasks', X) = Matches(tasks, X) + One(t, X)
    <3>1. tasks \in Seq(Tasks)
      BY <1>0 DEF QueueShape
    <3>2. Matches(<<t>> \o tasks, X) = Matches(tasks, X) + One(t, X)
      BY <2>2, <3>1, TaskPrepended, ZenonT(40)
    <3>3. Matches(Append(tasks, t), X) = Matches(tasks, X) + One(t, X)
      BY <2>2, <3>1, TaskAppended, ZenonT(40)
    <3>. QED
      BY <2>1, <3>2, <3>3
  <2>4. One(t, X) \in {0, 1}
    BY DEF One
  <2>. QED
    BY <1>1, <2>1, <2>3, <2>4
<1>10. ASSUME NEW c \in Clients, ClientCancel(c)
       PROVE  Matches(tasks', X) + Matches(unhandled', X) + One(hand'["worker"], X)
              >= Matches(tasks, X) + Matches(unhandled, X) + One(hand["worker"], X)
  <2>1. /\ tasks' = <<CancelOf(c)>> \o Cleanup(tasks, c)
        /\ unhandled' = Cleanup(unhandled, c) /\ hand' = hand
    BY <1>10 DEF ClientCancel
  <2>2. CancelOf(c) \in Tasks /\ TaskOf(c) \notin X
    <3>1. TaskOf(c).of = c /\ NextResponse.of = Nobody
      BY DEF TaskOf, NextResponse
    <3>. QED
      BY <3>1, ClientsAssumption DEF Tasks, X
  <2>3. /\ Cleanup(tasks, c) \in Seq(Tasks) /\ Matches(Cleanup(tasks, c), X) = Matches(tasks, X)
        /\ Matches(Cleanup(unhandled, c), X) = Matches(unhandled, X)
    <3>1. tasks \in Seq(Tasks) /\ unhandled \in Seq(Tasks)
      BY <1>0 DEF QueueShape
    <3>2. Cleanup(tasks, c) \in Seq(Tasks) /\ Matches(Cleanup(tasks, c), X) = Matches(tasks, X)
      BY <2>2, <3>1, CleanupEffect
    <3>3. Matches(Cleanup(unhandled, c), X) = Matches(unhandled, X)
      BY <2>2, <3>1, CleanupEffect
    <3>. QED
      BY <3>2, <3>3
  <2>4. Matches(tasks', X) = Matches(tasks, X) + One(CancelOf(c), X)
    <3>1. Matches(<<CancelOf(c)>> \o Cleanup(tasks, c), X) = Matches(Cleanup(tasks, c), X) + One(CancelOf(c), X)
      BY <2>2, <2>3, TaskPrepended, ZenonT(40)
    <3>. QED
      BY <2>1, <2>3, <3>1
  <2>5. One(CancelOf(c), X) \in {0, 1}
    BY DEF One
  <2>. QED
    BY <1>1, <2>1, <2>3, <2>4, <2>5
<1>11. CASE UNCHANGED queueVars
  <2>1. hand' = hand \/ WorkerPop \/ WorkerHandle
    BY <1>2, HandMoves
       DEF MainPop, LaunchTask, LaunchFails, DeferTask, ServeAtOnce, HandleCancel, HandleAudio,
           HandleNextResponse, Processed
  <2>. QED
    BY <1>3, <1>7, <1>8, <1>11, <2>1 DEF queueVars
<1>12. ~(MainPop \/ DeferTask \/ HandleCancel \/ PostNextResponse)
  BY <1>2 DEF MainPop, DeferTask, HandleCancel, Processed, PostNextResponse
<1>13. ASSUME NEW c \in Clients, ClientPost(c) \/ ClientAudio(c)
       PROVE  Matches(tasks', X) + Matches(unhandled', X) + One(hand'["worker"], X)
              >= Matches(tasks, X) + Matches(unhandled, X) + One(hand["worker"], X)
  <2>1. TaskOf(c) \in Tasks /\ (ClientAudio(c) => AudioOf(c) \in Tasks)
    BY DEF Tasks, ClientAudio
  <2>. QED
    BY <1>9, <1>13, <2>1
<1>. QED
  BY <1>5, <1>6, <1>7, <1>8, <1>10, <1>11, <1>12, <1>13, QueueMoves

\* While a slot runs, a NEXT_RESPONSE keeps the main loop going.
LEMMA LoopStep == TypeOK /\ ThreadInv /\ LoopGoesOn /\ [Next]_vars => LoopGoesOn'
<1>. SUFFICES ASSUME TypeOK, ThreadInv, LoopGoesOn, [Next]_vars, InLoop'
              PROVE  AtWork' = {} \/ Nexts' >= 1
  BY DEF LoopGoesOn, InLoop
<1>0. QueueShape /\ QueueShape'
  BY QueueTypes, TypeParts
<1>1. Nexts \in Nat /\ Nexts' \in Nat
  <2>1. /\ Matches(tasks, {NextResponse}) \in Nat /\ Matches(unhandled, {NextResponse}) \in Nat
        /\ Matches(tasks', {NextResponse}) \in Nat /\ Matches(unhandled', {NextResponse}) \in Nat
    BY <1>0, MatchesNat DEF QueueShape
  <2>2. One(hand["worker"], {NextResponse}) \in {0, 1} /\ One(hand'["worker"], {NextResponse}) \in {0, 1}
    BY DEF One
  <2>. QED
    BY <2>1, <2>2 DEF Nexts
<1>2. CASE InLoop
  <2>1. AtWork = {} \/ Nexts >= 1
    BY <1>2 DEF LoopGoesOn, InLoop
  <2>. QED
    BY <1>1, <1>2, <2>1, AtWorkShrinks, NextsStay
<1>3. CASE ~InLoop
  <2>1. AllIdle \/ PostNextResponse
    BY <1>3, Zenon DEF InLoop, Next, MainStep, ProcessSingleTask, WorkerStep, ClientStep, vars,
       MainPop, PopTask, MainDrained, LaunchTask, Processed, LaunchFails, DeferTask, ServeAtOnce,
       HandleCancel, HandleAudio, HandleNextResponse, PreDecodeError, AudioStep, PreDecodeThrows, AbortSlot, EmptyBatch,
       BeginYield, EndYield, JoinWorker, PostDecode, PostDecodeDone, RequeueDeferred, IdleOver,
       EnterSleep, LeaveSleep, WorkerStart, WorkerPop, WorkerDrained, WorkerHandle, WorkerCheck,
       WorkerWoken, WorkerFinish, IdleTimeout, Terminate, ClientStart, ClientWoken, ClientPost,
       ClientReceive, ClientCancel, ClientGivesUp, ClientAudio
  <2>2. CASE AllIdle
    BY <2>2, AtWorkShrinks DEF AllIdle, AtWork
  <2>3. CASE PostNextResponse
    <3>1. tasks' = Append(tasks, NextResponse)
      BY <2>3 DEF PostNextResponse, Post
    <3>2. NextResponse \in Tasks /\ tasks \in Seq(Tasks)
      BY <1>0 DEF Tasks, QueueShape
    <3>3. Matches(tasks', {NextResponse}) = Matches(tasks, {NextResponse}) + 1
      BY <3>1, <3>2, MatchesAppend DEF One
    <3>4. /\ Matches(tasks, {NextResponse}) \in Nat /\ Matches(unhandled', {NextResponse}) \in Nat
          /\ One(hand'["worker"], {NextResponse}) \in {0, 1}
      BY <1>0, MatchesNat DEF QueueShape, One
    <3>. QED
      BY <3>3, <3>4 DEF Nexts
  <2>. QED
    BY <2>1, <2>2, <2>3
<1>. QED
  BY <1>2, <1>3

\* The server sleeps when no slot has work: it falls asleep with an empty queue,
\* when the worker rests, so that no working slot's NEXT_RESPONSE is anywhere.
LEMMA SleepIdleStep ==
    TypeOK /\ ThreadInv /\ WaitInv /\ LoopGoesOn /\ SleepsIdle /\ [Next]_vars => SleepsIdle'
<1>. SUFFICES ASSUME TypeOK, ThreadInv, LoopGoesOn, SleepsIdle, WaitInv', [Next]_vars, sleeping'
              PROVE  AtWork' = {} /\ ~busy' /\ \A t \in {"main", "worker"} : hand'[t] = NoTask
  BY WaitStep DEF SleepsIdle, AtWork, Busy, Waiting, WaitInv
<1>1. ~busy' /\ \A t \in {"main", "worker"} : hand'[t] = NoTask
  BY ThreadStep DEF ThreadInv
<1>2. CASE sleeping
  <2>1. AtWork = {}
    BY <1>2 DEF SleepsIdle, AtWork, Busy, Waiting
  <2>. QED
    BY <1>1, <1>2, <2>1, AtWorkShrinks
<1>3. CASE ~sleeping
  <2>1. EnterSleep
    BY <1>3, FlagMoves, Zenon
       DEF loopVars, DeferTask, Processed, HandleCancel, PostNextResponse, PreDecodeError, AudioStep, AbortSlot,
           BeginYield, EndYield, JoinWorker, PostDecode, RequeueDeferred, IdleTimeout, LeaveSleep,
           WorkerFinish, Terminate, ClientStart, ClientPost, ClientCancel, ClientAudio
  <2>2. main = "idle" /\ tasks = <<>> /\ unhandled = <<>> /\ hand["worker"] = NoTask
    BY <2>1 DEF EnterSleep, ThreadInv
  <2>3. Matches(tasks, {NextResponse}) = 0 /\ Matches(unhandled, {NextResponse}) = 0
    BY <2>2, MatchesSmall
  <2>4. One(hand["worker"], {NextResponse}) = 0
    BY <2>2, NoTaskApart DEF One, Tasks
  <2>5. Nexts = 0
    BY <2>3, <2>4 DEF Nexts
  <2>6. AtWork = {}
    BY <2>2, <2>5 DEF LoopGoesOn
  <2>7. AtWork' \subseteq AtWork
    BY <2>2, AtWorkShrinks DEF InLoop
  <2>. QED
    BY <1>1, <2>6, <2>7
<1>. QED
  BY <1>2, <1>3

---------------------------------------------------------------------------
(* Counting the places of a task.                                          *)

\* How many slots run the task of c.
Runs(sl, c) == Cardinality({s \in Slots : sl[s].task = c})

\* The slots that run a task are finitely many.
LEMMA RunsNat ==
    ASSUME NEW sl, NEW c
    PROVE  IsFiniteSet({s \in Slots : sl[s].task = c}) /\ Runs(sl, c) \in Nat
<1>1. IsFiniteSet({s \in Slots : sl[s].task = c})
  BY SlotsAssumption, FS_Subset
<1>. QED
  BY <1>1, FS_CardinalityType DEF Runs

\* One slot takes or drops a task.
LEMMA RunsExcept ==
    ASSUME NEW c, NEW s \in Slots, NEW tl, NEW sl, \A r \in Slots : r # s => tl[r] = sl[r],
           NEW u, NEW v, u = sl[s].task, v = tl[s].task
    PROVE  Runs(tl, c) = Runs(sl, c) - One(u, {c}) + One(v, {c})
<1>. DEFINE A == {r \in Slots : sl[r].task = c}
            B == {r \in Slots : tl[r].task = c}
<1>1. IsFiniteSet(A) /\ IsFiniteSet(B) /\ Cardinality(A) \in Nat /\ Cardinality(B) \in Nat
  BY RunsNat DEF Runs
<1>2. A \ {s} = B \ {s}
  OBVIOUS
<1>3. (s \in A <=> u = c) /\ (s \in B <=> v = c)
  OBVIOUS
<1>4. Runs(sl, c) = Cardinality(A) /\ Runs(tl, c) = Cardinality(B)
  BY DEF Runs
<1>. HIDE DEF A, B
<1>5. /\ Cardinality(A \ {s}) = IF s \in A THEN Cardinality(A) - 1 ELSE Cardinality(A)
      /\ Cardinality(B \ {s}) = IF s \in B THEN Cardinality(B) - 1 ELSE Cardinality(B)
  BY <1>1, FS_RemoveElement
<1>6. PICK a \in {0, 1} : a = One(u, {c}) /\ a = IF s \in A THEN 1 ELSE 0
  BY <1>3 DEF One
<1>7. PICK b \in {0, 1} : b = One(v, {c}) /\ b = IF s \in B THEN 1 ELSE 0
  BY <1>3 DEF One
<1>8. Cardinality(A \ {s}) = Cardinality(A) - a /\ Cardinality(B \ {s}) = Cardinality(B) - b
  BY <1>1, <1>5, <1>6, <1>7
<1>9. Cardinality(A \ {s}) = Cardinality(B \ {s})
  BY <1>2
<1>10. Cardinality(B) = Cardinality(A) - a + b
  BY <1>1, <1>6, <1>7, <1>8, <1>9
<1>. QED
  BY <1>4, <1>6, <1>7, <1>10

\* A slot that runs the task counts.
LEMMA SlotRuns ==
    ASSUME NEW sl, NEW c, NEW s \in Slots, sl[s].task = c
    PROVE  Runs(sl, c) >= 1
<1>. DEFINE A == {r \in Slots : sl[r].task = c}
<1>1. s \in A /\ IsFiniteSet(A) /\ Cardinality(A) \in Nat /\ Runs(sl, c) = Cardinality(A)
  BY RunsNat DEF Runs
<1>. HIDE DEF A
<1>2. Cardinality(A) # 0
  BY <1>1, FS_EmptySet
<1>. QED
  BY <1>1, <1>2

\* The numbers of tasks held.
LEMMA HeldNat ==
    ASSUME QueueShape, NEW X
    PROVE  /\ Matches(tasks, X) \in Nat /\ Matches(deferred, X) \in Nat /\ Matches(unhandled, X) \in Nat
           /\ One(hand["main"], X) \in {0, 1} /\ One(hand["worker"], X) \in {0, 1}
           /\ Held(X) \in Nat
<1>1. /\ Matches(tasks, X) \in Nat /\ Matches(deferred, X) \in Nat /\ Matches(unhandled, X) \in Nat
      /\ One(hand["main"], X) \in {0, 1} /\ One(hand["worker"], X) \in {0, 1}
  BY MatchesNat DEF QueueShape, One
<1>. QED
  BY <1>1 DEF Held

\* Holders(c), as the proofs count it.
LEMMA HoldersSum ==
    ASSUME QueueShape, HandShape, NEW c \in Clients
    PROVE  Holders(c) = Held({TaskOf(c)}) + Runs(slot, c)
<1>. DEFINE H == {t \in {"main", "worker"} : IsTaskOf(hand[t], c)}
            X == {TaskOf(c)}
<1>1. Count(tasks, c) = Matches(tasks, X) /\ Count(deferred, c) = Matches(deferred, X) /\ Count(unhandled, c) = Matches(unhandled, X)
  BY CountIsMatches DEF QueueShape
<1>2. \A t \in {"main", "worker"} : IsTaskOf(hand[t], c) <=> hand[t] \in X
  BY OwnTask DEF HandShape
<1>. HIDE DEF X
<1>3. Cardinality(H) = One(hand["main"], X) + One(hand["worker"], X)
  <2>1. CASE hand["main"] \in X /\ hand["worker"] \in X
    <3>1. H = {"main"} \cup {"worker"}
      BY <1>2, <2>1
    <3>2. IsFiniteSet({"main"}) /\ Cardinality({"main"}) = 1
      BY FS_Singleton
    <3>3. Cardinality({"main"} \cup {"worker"}) = 2
      BY <3>2, FS_AddElement
    <3>. QED
      BY <2>1, <3>1, <3>3 DEF One
  <2>2. CASE hand["main"] \in X /\ hand["worker"] \notin X
    <3>1. H = {"main"}
      BY <1>2, <2>2
    <3>2. Cardinality({"main"}) = 1
      BY FS_Singleton
    <3>. QED
      BY <2>2, <3>1, <3>2 DEF One
  <2>3. CASE hand["main"] \notin X /\ hand["worker"] \in X
    <3>1. H = {"worker"}
      BY <1>2, <2>3
    <3>2. Cardinality({"worker"}) = 1
      BY FS_Singleton
    <3>. QED
      BY <2>3, <3>1, <3>2 DEF One
  <2>4. CASE hand["main"] \notin X /\ hand["worker"] \notin X
    <3>1. H = {}
      BY <1>2, <2>4
    <3>2. Cardinality({}) = 0
      BY FS_EmptySet
    <3>. QED
      BY <2>4, <3>1, <3>2 DEF One
  <2>. QED
    BY <2>1, <2>2, <2>3, <2>4
<1>4. /\ Matches(tasks, X) \in Nat /\ Matches(deferred, X) \in Nat /\ Matches(unhandled, X) \in Nat
      /\ One(hand["main"], X) \in {0, 1} /\ One(hand["worker"], X) \in {0, 1} /\ Runs(slot, c) \in Nat
  BY HeldNat, RunsNat
<1>5. Holders(c) = Matches(tasks, X) + Matches(deferred, X) + Matches(unhandled, X) + Cardinality(H) + Runs(slot, c)
  BY <1>1 DEF Holders, Runs
<1>6. Holders(c) = Held(X) + Runs(slot, c)
  BY <1>3, <1>4, <1>5 DEF Held
<1>. QED
  BY <1>6 DEF X

---------------------------------------------------------------------------
(* What the steps of the server do to the number of tasks held.            *)

\* Held in terms of its parts before and after a step.
LEMMA HeldParts ==
    ASSUME QueueShape, QueueShape', NEW X
    PROVE  /\ Held(X) = Matches(tasks, X) + Matches(deferred, X) + Matches(unhandled, X)
                        + One(hand["main"], X) + One(hand["worker"], X)
           /\ Held(X)' = Matches(tasks', X) + Matches(deferred', X) + Matches(unhandled', X)
                         + One(hand'["main"], X) + One(hand'["worker"], X)
           /\ Matches(tasks, X) \in Nat /\ Matches(deferred, X) \in Nat /\ Matches(unhandled, X) \in Nat
           /\ Matches(tasks', X) \in Nat /\ Matches(deferred', X) \in Nat /\ Matches(unhandled', X) \in Nat
           /\ One(hand["main"], X) \in {0, 1} /\ One(hand["worker"], X) \in {0, 1}
           /\ One(hand'["main"], X) \in {0, 1} /\ One(hand'["worker"], X) \in {0, 1}
<1>1. /\ Matches(tasks, X) \in Nat /\ Matches(deferred, X) \in Nat /\ Matches(unhandled, X) \in Nat
      /\ Matches(tasks', X) \in Nat /\ Matches(deferred', X) \in Nat /\ Matches(unhandled', X) \in Nat
  BY MatchesNat DEF QueueShape
<1>2. /\ One(hand["main"], X) \in {0, 1} /\ One(hand["worker"], X) \in {0, 1}
      /\ One(hand'["main"], X) \in {0, 1} /\ One(hand'["worker"], X) \in {0, 1}
  BY DEF One
<1>. QED
  BY <1>1, <1>2 DEF Held

\* An empty hand holds no task.
LEMMA NoneOfX == ASSUME NEW X \in SUBSET Tasks PROVE One(NoTask, X) = 0
BY NoTaskApart DEF One

\* Popping a task takes it into the thread's hand.
LEMMA HeldPop ==
    ASSUME TypeOK, ThreadInv, [Next]_vars, NEW X \in SUBSET Tasks, MainPop \/ WorkerPop
    PROVE  Held(X)' = Held(X)
<1>0. QueueShape /\ QueueShape' /\ HandShape
  BY QueueTypes, TypeParts
<1>1. PICK t \in {"main", "worker"} :
         /\ hand[t] = NoTask /\ tasks # <<>> /\ tasks' = Tail(tasks) /\ deferred' = deferred /\ unhandled' = unhandled
         /\ hand' = [hand EXCEPT ![t] = Head(tasks)]
  BY DEF MainPop, WorkerPop, PopTask, ThreadInv
<1>2. Matches(tasks, X) = Matches(tasks', X) + One(Head(tasks), X)
  BY <1>0, <1>1, MatchesTail DEF QueueShape
<1>3. One(hand[t], X) = 0
  BY <1>1, NoneOfX
<1>4. /\ t = "main" => hand'["main"] = Head(tasks) /\ hand'["worker"] = hand["worker"]
      /\ t = "worker" => hand'["worker"] = Head(tasks) /\ hand'["main"] = hand["main"]
  BY <1>0, <1>1 DEF HandShape
<1>5. CASE t = "main"
  <2>1. /\ hand'["worker"] = hand["worker"] /\ One(hand["main"], X) = 0
        /\ Matches(tasks, X) = Matches(tasks', X) + One(hand'["main"], X)
    BY <1>2, <1>3, <1>4, <1>5
  <2>. QED
    BY <1>0, <1>1, <2>1, HeldParts
<1>6. CASE t = "worker"
  <2>1. /\ hand'["main"] = hand["main"] /\ One(hand["worker"], X) = 0
        /\ Matches(tasks, X) = Matches(tasks', X) + One(hand'["worker"], X)
    BY <1>2, <1>3, <1>4, <1>6
  <2>. QED
    BY <1>0, <1>1, <2>1, HeldParts
<1>. QED
  BY <1>5, <1>6

\* Deferring, declining and putting back move a task, and a deferred one moves
\* to the queue.
LEMMA HeldMoved ==
    ASSUME TypeOK, ThreadInv, [Next]_vars, NEW X \in SUBSET Tasks,
           \/ DeferTask \/ JoinWorker
           \/ WorkerHandle /\ hand["worker"].type # "metrics"
           \/ hand' = hand /\ \E s : PopDeferred(s)
    PROVE  Held(X)' = Held(X)
<1>0. QueueShape /\ QueueShape' /\ HandShape
  BY QueueTypes, TypeParts
<1>1. CASE DeferTask
  <2>1. PICK t \in Tasks : t = hand["main"]
    BY <1>0, <1>1, HandedTask DEF DeferTask, Processed
  <2>2. /\ tasks' = tasks /\ unhandled' = unhandled /\ deferred' = Append(deferred, t)
        /\ hand'["main"] = NoTask /\ hand'["worker"] = hand["worker"]
    BY <1>0, <1>1, <2>1 DEF DeferTask, Processed, Defer, HandShape
  <2>3. Matches(deferred', X) = Matches(deferred, X) + One(t, X) /\ One(NoTask, X) = 0
    <3>1. deferred \in Seq(Tasks)
      BY <1>0 DEF QueueShape
    <3>2. Matches(Append(deferred, t), X) = Matches(deferred, X) + One(t, X)
      BY <3>1, TaskAppended, ZenonT(40)
    <3>. QED
      BY <2>2, <3>2, NoneOfX
  <2>. QED
    BY <1>0, <2>1, <2>2, <2>3, HeldParts
<1>2. CASE JoinWorker
  <2>1. hand' = hand
    BY <1>2 DEF JoinWorker
  <2>2. CASE busy
    <3>1. UNCHANGED queueVars
      BY <1>2, <2>2 DEF JoinWorker
    <3>. QED
      BY <2>1, <3>1 DEF Held, queueVars
  <2>3. CASE ~busy
    <3>1. tasks' = unhandled \o tasks /\ unhandled' = <<>> /\ deferred' = deferred
      BY <1>2, <2>3 DEF JoinWorker, PutBackUnhandled
    <3>2. Matches(unhandled \o tasks, X) = Matches(unhandled, X) + Matches(tasks, X)
      <4>1. unhandled \in Seq(Tasks) /\ tasks \in Seq(Tasks)
        BY <1>0 DEF QueueShape
      <4>. QED
        BY <4>1, TasksJoined, ZenonT(40)
    <3>3. Matches(tasks', X) = Matches(unhandled, X) + Matches(tasks, X) /\ Matches(unhandled', X) = 0
      BY <3>1, <3>2, MatchesSmall
    <3>. QED
      BY <1>0, <2>1, <3>1, <3>3, HeldParts
  <2>. QED
    BY <2>2, <2>3
<1>3. CASE WorkerHandle /\ hand["worker"].type # "metrics"
  <2>1. PICK t \in Tasks : t = hand["worker"]
    BY <1>0, <1>3, HandedTask DEF WorkerHandle
  <2>2. /\ tasks' = tasks /\ deferred' = deferred /\ unhandled' = Append(unhandled, t)
        /\ hand'["worker"] = NoTask /\ hand'["main"] = hand["main"]
    BY <1>0, <1>3, <2>1 DEF WorkerHandle, HandShape
  <2>3. Matches(unhandled', X) = Matches(unhandled, X) + One(t, X) /\ One(NoTask, X) = 0
    <3>1. unhandled \in Seq(Tasks)
      BY <1>0 DEF QueueShape
    <3>2. Matches(Append(unhandled, t), X) = Matches(unhandled, X) + One(t, X)
      BY <3>1, TaskAppended, ZenonT(40)
    <3>. QED
      BY <2>2, <3>2, NoneOfX
  <2>. QED
    BY <1>0, <2>1, <2>2, <2>3, HeldParts, SMTT(30)
<1>4. CASE hand' = hand /\ \E s : PopDeferred(s)
  <2>1. /\ Matches(tasks', X) + Matches(deferred', X) = Matches(tasks, X) + Matches(deferred, X)
        /\ unhandled' = unhandled
    BY <1>0, <1>4, PopDeferredEffect DEF QueueShape
  <2>. QED
    BY <1>0, <1>4, <2>1, HeldParts
<1>. QED
  BY <1>1, <1>2, <1>3, <1>4

\* A task that a thread has dealt with is nowhere.
LEMMA HeldHandled ==
    ASSUME TypeOK, ThreadInv, [Next]_vars, NEW X \in SUBSET Tasks,
           LaunchTask \/ LaunchFails \/ ServeAtOnce \/ HandleCancel \/ HandleAudio \/ HandleNextResponse
    PROVE  Held(X)' = Held(X) - One(hand["main"], X)
<1>0. QueueShape /\ QueueShape' /\ HandShape
  BY QueueTypes, TypeParts
<1>1. hand'["main"] = NoTask /\ hand'["worker"] = hand["worker"]
  BY <1>0 DEF LaunchTask, LaunchFails, ServeAtOnce, HandleCancel, HandleAudio, HandleNextResponse,
            Processed, HandShape
<1>2. One(NoTask, X) = 0
  BY NoneOfX
<1>3. UNCHANGED queueVars \/ \E s : PopDeferred(s)
  BY DEF LaunchTask, LaunchFails, ServeAtOnce, HandleCancel, HandleAudio, HandleNextResponse, Release
<1>4. /\ Matches(tasks', X) + Matches(deferred', X) = Matches(tasks, X) + Matches(deferred, X)
      /\ unhandled' = unhandled
  BY <1>0, <1>3, PopDeferredEffect DEF QueueShape, queueVars
<1>. QED
  BY <1>0, <1>1, <1>2, <1>4, HeldParts

\* The worker answers a read-only task.
LEMMA HeldServed ==
    ASSUME TypeOK, ThreadInv, [Next]_vars, NEW X \in SUBSET Tasks,
           WorkerHandle, hand["worker"].type = "metrics"
    PROVE  Held(X)' = Held(X) - One(hand["worker"], X)
<1>0. QueueShape /\ QueueShape' /\ HandShape
  BY QueueTypes, TypeParts
<1>1. /\ hand'["worker"] = NoTask /\ hand'["main"] = hand["main"]
      /\ tasks' = tasks /\ deferred' = deferred /\ unhandled' = unhandled
  BY <1>0 DEF WorkerHandle, HandShape
<1>2. One(NoTask, X) = 0
  BY NoneOfX
<1>. QED
  BY <1>0, <1>1, <1>2, HeldParts

---------------------------------------------------------------------------
(* What a step of the server does to one client.                           *)

Sent(c, r) == results'[c] = IF c \in waiting THEN Append(results[c], r) ELSE results[c]
Kept(c) == Holders(c)' = Holders(c) /\ results'[c] = results[c]
Streamed(c) == Holders(c)' = Holders(c) /\ Holders(c) >= 1 /\ Sent(c, "partial")
Ended(c) == Holders(c)' = Holders(c) - 1 /\ Holders(c) >= 1 /\ \E r \in {"final", "error"} : Sent(c, r)
Dropped(c) == Holders(c)' = Holders(c) - 1 /\ results'[c] = results[c] /\ pc[c] = "gone"
Forgotten(c) == c \in Forgettable /\ Holders(c)' <= Holders(c) /\ Holders(c)' \in Nat /\ results'[c] = results[c]

HoldersAgree ==
    QueueShape /\ HandShape =>
        \A c \in Clients : Holders(c) = Held({TaskOf(c)}) + Runs(slot, c) /\ Held({TaskOf(c)}) \in Nat

\* The sum holds in every state.
LEMMA HoldersAlways == HoldersAgree
BY HoldersSum, HeldNat DEF HoldersAgree

\* The sum before and after a step.
LEMMA HoldersParts ==
    ASSUME TypeOK, ThreadInv, [Next]_vars, NEW c \in Clients
    PROVE  /\ Holders(c) = Held({TaskOf(c)}) + Runs(slot, c)
           /\ Holders(c)' = Held({TaskOf(c)})' + Runs(slot', c)
           /\ Held({TaskOf(c)}) \in Nat /\ Runs(slot, c) \in Nat
           /\ Held({TaskOf(c)})' \in Nat /\ Runs(slot', c) \in Nat
           /\ {TaskOf(c)} \in SUBSET Tasks
<1>0. QueueShape /\ QueueShape' /\ HandShape /\ HandShape'
  BY QueueTypes, HandTypes, TypeParts
<1>1. Holders(c) = Held({TaskOf(c)}) + Runs(slot, c) /\ Held({TaskOf(c)}) \in Nat
  BY <1>0, HoldersAlways DEF HoldersAgree
<1>2. HoldersAgree'
  BY HoldersAlways, PTL
<1>3. Holders(c)' = Held({TaskOf(c)})' + Runs(slot', c) /\ Held({TaskOf(c)})' \in Nat
  BY <1>0, <1>2 DEF HoldersAgree
<1>4. Runs(slot, c) \in Nat /\ Runs(slot', c) \in Nat
  BY RunsNat
<1>5. {TaskOf(c)} \in SUBSET Tasks
  BY DEF Tasks
<1>. QED
  BY <1>1, <1>2, <1>3, <1>4, <1>5

\* The tasks of two clients differ, and a cancel is nobody's own.
LEMMA TasksDiffer ==
    ASSUME NEW c \in Clients
    PROVE  /\ \A d \in Clients \ {c} : TaskOf(d) # TaskOf(c)
           /\ \A d \in Clients : CancelOf(d) # TaskOf(c) /\ AudioOf(d) # TaskOf(c)
           /\ NextResponse # TaskOf(c)
<1>1. TaskOf(c).of = c /\ TaskOf(c).type = TypeOf(c) /\ TypeOf(c) \notin {"cancel", "audio"} /\ c # Nobody
  BY ClientsAssumption DEF TaskOf, TypeOf
<1>2. \A d \in Clients : TaskOf(d).of = d /\ CancelOf(d).type = "cancel" /\ AudioOf(d).type = "audio"
  BY DEF TaskOf, CancelOf, AudioOf
<1>3. NextResponse.of = Nobody
  BY DEF NextResponse
<1>. QED
  BY <1>1, <1>2, <1>3

\* A result reaches its own client.
LEMMA SendEffect ==
    ASSUME ResultShape, NEW d, NEW r, Send(d, r), NEW c \in Clients
    PROVE  IF c = d THEN Sent(c, r) ELSE results'[c] = results[c]
BY DEF Send, Sent, ResultShape

\* One slot changes its task.
LEMMA SlotChange ==
    ASSUME NEW c, NEW s \in Slots, \A r \in Slots : r # s => slot'[r] = slot[r]
    PROVE  Runs(slot', c) = Runs(slot, c) - One(slot[s].task, {c}) + One(slot'[s].task, {c})
BY RunsExcept

\* A slot is released with a result for its task.
LEMMA EndSlot ==
    ASSUME TypeOK, ThreadInv, [Next]_vars, hand' = hand, NEW s \in Busy, NEW r \in {"final", "error"},
           Send(slot[s].task, r), Release(s), NEW c \in Clients
    PROVE  Kept(c) \/ Ended(c)
<1>. DEFINE X == {TaskOf(c)}
<1>0. SlotShape /\ ResultShape /\ s \in Slots /\ slot[s].task # Nobody /\ c # Nobody
  BY TypeParts, ClientsAssumption DEF Busy, Processing
<1>1. X \in SUBSET Tasks
  BY HoldersParts
<1>2. slot' = [slot EXCEPT ![s] = FreeSlot] /\ PopDeferred(s)
  BY DEF Release
<1>3. Held(X)' = Held(X)
  <2>. HIDE DEF X
  <2>. QED
    BY <1>1, <1>2, HeldMoved
<1>4. slot'[s].task = Nobody /\ \A q \in Slots \ {s} : slot'[q] = slot[q]
  BY <1>0, <1>2 DEF SlotShape, FreeSlot
<1>5. Runs(slot', c) = Runs(slot, c) - One(slot[s].task, {c}) + One(slot'[s].task, {c})
  <2>1. s \in Slots /\ \A q \in Slots : q # s => slot'[q] = slot[q]
    BY <1>0, <1>4
  <2>. QED
    BY <2>1, SlotChange
<1>6. One(slot'[s].task, {c}) = 0
  BY <1>0, <1>4 DEF One
<1>7. IF c = slot[s].task THEN Sent(c, r) ELSE results'[c] = results[c]
  BY <1>0, SendEffect
<1>8. /\ Holders(c) = Held(X) + Runs(slot, c) /\ Holders(c)' = Held(X)' + Runs(slot', c)
      /\ Held(X) \in Nat /\ Runs(slot, c) \in Nat
  BY HoldersParts
<1>. HIDE DEF X
<1>9. CASE c = slot[s].task
  <2>1. One(slot[s].task, {c}) = 1 /\ Runs(slot, c) >= 1
    BY <1>0, <1>9, SlotRuns DEF One
  <2>2. Holders(c)' = Holders(c) - 1 /\ Holders(c) >= 1
    BY <1>3, <1>5, <1>6, <1>8, <2>1
  <2>. QED
    BY <1>7, <1>9, <2>2 DEF Ended
<1>10. CASE c # slot[s].task
  <2>1. One(slot[s].task, {c}) = 0
    BY <1>10 DEF One
  <2>2. Holders(c)' = Holders(c)
    BY <1>3, <1>5, <1>6, <1>8, <2>1
  <2>. QED
    BY <1>7, <1>10, <2>2 DEF Kept
<1>. QED
  BY <1>9, <1>10

\* The thread's task is served with a result.
LEMMA ServeEffect ==
    ASSUME TypeOK, ThreadInv, [Next]_vars, NEW t \in {"main", "worker"}, NEW d \in Clients, hand[t] = TaskOf(d),
           NEW r \in {"final", "error"}, Send(d, r), slot' = slot,
           \A X \in SUBSET Tasks : Held(X)' = Held(X) - One(hand[t], X),
           NEW c \in Clients
    PROVE  Kept(c) \/ Ended(c)
<1>. DEFINE X == {TaskOf(c)}
<1>0. QueueShape /\ ResultShape
  BY TypeParts
<1>1. /\ Holders(c) = Held(X) + Runs(slot, c) /\ Holders(c)' = Held(X)' + Runs(slot', c)
      /\ Held(X) \in Nat /\ Runs(slot, c) \in Nat /\ X \in SUBSET Tasks /\ Held(X)' \in Nat
  BY HoldersParts
<1>2. Held(X)' = Held(X) - One(hand[t], X)
  BY <1>1
<1>3. IF c = d THEN Sent(c, r) ELSE results'[c] = results[c]
  BY <1>0, SendEffect
<1>4. CASE c = d
  <2>1. One(hand[t], X) = 1
    BY <1>4 DEF One
  <2>. HIDE DEF X
  <2>2. Holders(c)' = Holders(c) - 1 /\ Holders(c) >= 1
    BY <1>1, <1>2, <2>1
  <2>. QED
    BY <1>3, <1>4, <2>2 DEF Ended
<1>5. CASE c # d
  <2>1. One(hand[t], X) = 0
    BY <1>5, TasksDiffer DEF One
  <2>. HIDE DEF X
  <2>2. Holders(c)' = Holders(c)
    BY <1>1, <1>2, <2>1
  <2>. QED
    BY <1>3, <1>5, <2>2 DEF Kept
<1>. QED
  BY <1>4, <1>5

\* A step that moves tasks about and leaves slots and results alone.
LEMMA MoveEffect ==
    ASSUME TypeOK, ThreadInv, [Next]_vars, NEW c \in Clients,
           Held({TaskOf(c)})' = Held({TaskOf(c)}), \A s \in Slots : slot'[s].task = slot[s].task,
           results'[c] = results[c]
    PROVE  Kept(c)
<1>1. Runs(slot', c) = Runs(slot, c)
  BY DEF Runs
<1>. QED
  BY <1>1, HoldersParts DEF Kept

\* A task in hand of the given type is the one its client posted.
LEMMA InHand ==
    ASSUME HandShape, ThreadInv, NEW t \in {"main", "worker"},
           \/ t = "main" /\ main = "handle"
           \/ t = "worker" /\ worker = "handle"
    PROVE  /\ hand[t].type \in {"gen", "slotop", "metrics"} =>
                 hand[t].of \in Clients /\ hand[t] = TaskOf(hand[t].of)
           /\ hand[t].type = "cancel" => hand[t].of \in Clients /\ hand[t] = CancelOf(hand[t].of)
           /\ hand[t].type = "audio" => hand[t].of \in Realtime /\ hand[t] = AudioOf(hand[t].of)
           /\ hand[t].type = "next" => hand[t] = NextResponse
<1>1. hand[t] \in Tasks
  BY HandedTask
<1>2. \A d \in Clients : TaskOf(d).of = d /\ TaskOf(d).type \in {"gen", "slotop", "metrics"}
  BY DEF TaskOf, TypeOf
<1>3. \A d \in Clients : /\ CancelOf(d).of = d /\ CancelOf(d).type = "cancel"
                        /\ AudioOf(d).of = d /\ AudioOf(d).type = "audio"
  BY DEF CancelOf, AudioOf
<1>4. NextResponse.type = "next"
  BY DEF NextResponse
<1>. QED
  BY <1>1, <1>2, <1>3, <1>4, ClientsAssumption DEF Tasks, Clients

\* A launch puts the task into an idle slot.
LEMMA LaunchEffect ==
    ASSUME TypeOK, ThreadInv, [Next]_vars, LaunchTask, NEW c \in Clients
    PROVE  Kept(c) \/ Streamed(c)
<1>. DEFINE X == {TaskOf(c)}
            d == hand["main"].of
<1>0. SlotShape /\ HandShape /\ ResultShape /\ c # Nobody
  BY TypeParts, ClientsAssumption
<1>1. d \in Gens /\ d \in Clients /\ hand["main"] = TaskOf(d)
  BY <1>0, InHand, HandedTask, GenInHand DEF LaunchTask, Processed
<1>2. PICK s \in Available(d), l \in Launched(d) : slot' = [slot EXCEPT ![s] = l]
  BY DEF LaunchTask
<1>3. s \in Slots /\ slot[s].task = Nobody
  BY <1>2 DEF LaunchTask, MustDefer, Available, Idle, Busy, Processing
<1>4. slot'[s].task = d /\ \A r \in Slots : r # s => slot'[r] = slot[r]
  <2>1. l.task = d
    <3>. HIDE DEF d
    <3>. QED
      BY <1>1, <1>2, LaunchedTypes
  <2>. QED
    BY <1>0, <1>2, <1>3, <2>1 DEF SlotShape
<1>5. Runs(slot', c) = Runs(slot, c) - One(slot[s].task, {c}) + One(slot'[s].task, {c})
  BY <1>3, <1>4, SlotChange
<1>6. X \in SUBSET Tasks
  BY DEF Tasks
<1>7. Held(X)' = Held(X) - One(hand["main"], X)
  <2>. HIDE DEF X
  <2>. QED
    BY <1>6, HeldHandled
<1>8. One(slot[s].task, {c}) = 0
  BY <1>0, <1>3 DEF One
<1>9. PICK n \in {0, 1} : n = One(slot'[s].task, {c}) /\ n = One(hand["main"], X)
  BY <1>1, <1>4, TasksDiffer DEF One
<1>10. /\ Holders(c) = Held(X) + Runs(slot, c) /\ Holders(c)' = Held(X)' + Runs(slot', c)
       /\ Held(X) \in Nat /\ Runs(slot, c) \in Nat
  BY HoldersParts
<1>11. \/ results'[c] = results[c]
       \/ c = d /\ Sent(c, "partial")
  BY <1>0, SendEffect DEF LaunchTask, resultVars
<1>14. c = d => n = 1
  BY <1>1, <1>9 DEF One
<1>15. Held(X)' \in Nat
  BY HoldersParts
<1>. HIDE DEF X, d
<1>12. Held(X)' = Held(X) - n /\ Runs(slot', c) = Runs(slot, c) + n
  BY <1>5, <1>7, <1>8, <1>9, <1>10
<1>13. Holders(c)' = Holders(c)
  BY <1>9, <1>10, <1>12
<1>16. c = d => Holders(c) >= 1
  BY <1>10, <1>12, <1>14, <1>15
<1>. QED
  BY <1>11, <1>13, <1>16 DEF Kept, Streamed

\* A CANCEL in hand was posted by a client that is gone.
LEMMA CancelTarget ==
    ASSUME TypeOK, ThreadInv, CancelInv, main = "handle", hand["main"].type = "cancel"
    PROVE  LET d == hand["main"].of IN d \in Clients /\ hand["main"] = CancelOf(d) /\ pc[d] = "gone"
<1>. DEFINE d == hand["main"].of
            X == {CancelOf(d)}
<1>0. QueueShape /\ HandShape
  BY TypeParts
<1>1. d \in Clients /\ hand["main"] = CancelOf(d)
  BY <1>0, InHand
<1>2. One(hand["main"], X) = 1
  BY <1>1 DEF One
<1>3. /\ Matches(tasks, X) \in Nat /\ Matches(deferred, X) \in Nat /\ Matches(unhandled, X) \in Nat
      /\ One(hand["worker"], X) \in {0, 1}
  BY <1>0, HeldNat
<1>4. Held(X) # 0
  <2>. HIDE DEF X
  <2>. QED
    BY <1>2, <1>3 DEF Held
<1>. QED
  BY <1>1, <1>4 DEF CancelInv

\* A CANCEL releases the slot of its target.
LEMMA CancelEffect ==
    ASSUME TypeOK, ThreadInv, CancelInv, [Next]_vars, HandleCancel, NEW c \in Clients
    PROVE  Kept(c) \/ Dropped(c)
<1>. DEFINE X == {TaskOf(c)}
            d == hand["main"].of
            runs == {s \in Slots : slot[s].task = d}
<1>0. SlotShape /\ main = "handle" /\ hand["main"].type = "cancel" /\ c # Nobody
  BY TypeParts, ClientsAssumption DEF HandleCancel, Processed
<1>1. d \in Clients /\ hand["main"] = CancelOf(d) /\ pc[d] = "gone"
  BY <1>0, CancelTarget
<1>2. X \in SUBSET Tasks
  BY DEF Tasks
<1>3. Held(X)' = Held(X) - One(hand["main"], X)
  <2>. HIDE DEF X
  <2>. QED
    BY <1>2, HeldHandled
<1>4. One(hand["main"], X) = 0
  BY <1>1, TasksDiffer DEF One
<1>5. results'[c] = results[c]
  BY DEF HandleCancel, resultVars
<1>6. /\ Holders(c) = Held(X) + Runs(slot, c) /\ Holders(c)' = Held(X)' + Runs(slot', c)
      /\ Held(X) \in Nat /\ Runs(slot, c) \in Nat
  BY HoldersParts
<1>7. CASE runs = {}
  <2>1. slot' = slot
    BY <1>7 DEF HandleCancel
  <2>. HIDE DEF X
  <2>2. Holders(c)' = Holders(c)
    BY <1>3, <1>4, <1>6, <2>1
  <2>. QED
    BY <1>5, <2>2 DEF Kept
<1>8. CASE runs # {}
  <2>1. PICK s \in Slots : slot[s].task = d /\ slot' = [slot EXCEPT ![s] = FreeSlot]
    <3>1. First(runs) \in runs
      <4>1. runs \in SUBSET Nat
        BY SlotsAssumption
      <4>. HIDE DEF runs
      <4>. QED
        BY <1>8, <4>1, FirstIsLeast
    <3>2. slot' = [slot EXCEPT ![First(runs)] = FreeSlot]
      BY <1>8 DEF HandleCancel, Release
    <3>. QED
      BY <3>1, <3>2
  <2>2. slot'[s].task = Nobody /\ \A r \in Slots : r # s => slot'[r] = slot[r]
    BY <1>0, <2>1 DEF SlotShape, FreeSlot
  <2>3. Runs(slot', c) = Runs(slot, c) - One(slot[s].task, {c}) + One(slot'[s].task, {c})
    BY <2>2, SlotChange
  <2>4. One(slot'[s].task, {c}) = 0
    BY <1>0, <2>2 DEF One
  <2>. HIDE DEF X
  <2>5. CASE c = d
    <3>1. One(slot[s].task, {c}) = 1
      BY <2>1, <2>5 DEF One
    <3>2. Holders(c)' = Holders(c) - 1
      BY <1>3, <1>4, <1>6, <2>3, <2>4, <3>1
    <3>. QED
      BY <1>1, <1>5, <2>5, <3>2 DEF Dropped
  <2>6. CASE c # d
    <3>1. One(slot[s].task, {c}) = 0
      BY <2>1, <2>6 DEF One
    <3>2. Holders(c)' = Holders(c)
      BY <1>3, <1>4, <1>6, <2>3, <2>4, <3>1
    <3>. QED
      BY <1>5, <3>2 DEF Kept
  <2>. QED
    BY <2>5, <2>6
<1>. QED
  BY <1>7, <1>8

\* update_slots() ends the tasks of slots, or streams a token of one.
LEMMA SlotEffect ==
    ASSUME TypeOK, ThreadInv, [Next]_vars, PreDecodeError \/ AudioStep \/ AbortSlot \/ PostDecode, NEW c \in Clients
    PROVE  Kept(c) \/ Streamed(c) \/ Ended(c)
<1>. DEFINE X == {TaskOf(c)}
<1>0. SlotShape /\ ResultShape /\ hand' = hand /\ c # Nobody
  BY TypeParts, ClientsAssumption DEF PreDecodeError, AudioStep, AbortSlot, PostDecode
<1>1. First(todo) \in Busy \/ todo = {} \/ main \notin {"abort", "post"}
  <2>1. Busy \in SUBSET Nat
    BY SlotsAssumption DEF Busy
  <2>2. ASSUME main \in {"abort", "post"}, todo # {} PROVE First(todo) \in Busy
    <3>1. todo \subseteq Busy /\ todo \in SUBSET Nat
      BY <2>1, <2>2 DEF ThreadInv
    <3>2. First(todo) \in todo
      BY <2>2, <3>1, FirstIsLeast
    <3>. QED
      BY <3>1, <3>2
  <2>. QED
    BY <2>2
<1>2. ASSUME NEW s \in Busy, FailSlot(s) PROVE Kept(c) \/ Ended(c)
  BY <1>0, <1>2, EndSlot DEF FailSlot
<1>3. CASE PreDecodeError
  BY <1>2, <1>3 DEF PreDecodeError
<1>4. CASE AbortSlot
  <2>1. CASE todo = {}
    <3>1. UNCHANGED <<queueVars, hand, slot, results>>
      BY <1>0, <1>4, <2>1 DEF AbortSlot, resultVars
    <3>2. Held(X)' = Held(X)
      BY <3>1 DEF Held, queueVars
    <3>. QED
      BY <3>1, <3>2, MoveEffect
  <2>2. CASE todo # {}
    BY <1>1, <1>2, <1>4, <2>2 DEF AbortSlot
  <2>. QED
    BY <2>1, <2>2
<1>5. CASE PostDecode
  <2>1. First(todo) \in Busy
    BY <1>1, <1>5 DEF PostDecode
  <2>2. PICK s \in Busy : s = First(todo)
    BY <2>1
  <2>3. CASE FailSlot(s)
    BY <1>2, <2>3
  <2>4. CASE Send(slot[s].task, "final") /\ Release(s)
    BY <1>0, <2>4, EndSlot
  <2>6. CASE /\ UNCHANGED resultVars
             /\ slot' = [slot EXCEPT ![s].left = @ - 1]
             /\ UNCHANGED queueVars
    <3>1. \A r \in Slots : slot'[r].task = slot[r].task
      BY <1>0, <2>6 DEF SlotShape, SlotStates
    <3>2. Held(X)' = Held(X) /\ results' = results
      BY <1>0, <2>6 DEF Held, queueVars, resultVars
    <3>. QED
      BY <3>1, <3>2, MoveEffect
  <2>5. CASE /\ Send(slot[s].task, "partial")
             /\ slot' = [slot EXCEPT ![s].left = @ - 1]
             /\ UNCHANGED queueVars
    <3>1. \A r \in Slots : slot'[r].task = slot[r].task
      BY <1>0, <2>5 DEF SlotShape, SlotStates
    <3>2. Held(X)' = Held(X)
      BY <1>0, <2>5 DEF Held, queueVars
    <3>3. Runs(slot', c) = Runs(slot, c)
      BY <3>1 DEF Runs
    <3>4. /\ Holders(c) = Held(X) + Runs(slot, c) /\ Holders(c)' = Held(X)' + Runs(slot', c)
          /\ Held(X) \in Nat /\ Runs(slot, c) \in Nat
      BY HoldersParts
    <3>5. IF c = slot[s].task THEN Sent(c, "partial") ELSE results'[c] = results[c]
      BY <1>0, <2>5, SendEffect
    <3>6. Holders(c)' = Holders(c)
      BY <3>2, <3>3, <3>4
    <3>7. CASE c = slot[s].task
      <4>1. Runs(slot, c) >= 1
        BY <3>7, SlotRuns DEF Busy
      <4>. HIDE DEF X
      <4>2. Holders(c) >= 1
        BY <3>4, <4>1
      <4>. QED
        BY <3>5, <3>6, <3>7, <4>2 DEF Streamed
    <3>8. CASE c # slot[s].task
      BY <3>5, <3>6, <3>8 DEF Kept
    <3>. QED
      BY <3>7, <3>8
  <2>. QED
    BY <1>5, <2>2, <2>3, <2>4, <2>5, <2>6 DEF PostDecode
<1>6. CASE AudioStep
  <2>1. PICK s \in Busy :
            \/ slot' = [slot EXCEPT ![s].wait = TRUE] /\ UNCHANGED <<resultVars, queueVars>>
            \/ Send(slot[s].task, "final") /\ Release(s)
    BY <1>6 DEF AudioStep
  <2>2. CASE slot' = [slot EXCEPT ![s].wait = TRUE] /\ UNCHANGED <<resultVars, queueVars>>
    <3>1. \A r \in Slots : slot'[r].task = slot[r].task
      BY <1>0, <2>2 DEF SlotShape, SlotStates
    <3>2. Held(X)' = Held(X) /\ results' = results
      BY <1>0, <2>2 DEF Held, queueVars, resultVars
    <3>. QED
      BY <3>1, <3>2, MoveEffect
  <2>3. CASE Send(slot[s].task, "final") /\ Release(s)
    BY <1>0, <2>3, EndSlot
  <2>. QED
    BY <2>1, <2>2, <2>3
<1>. QED
  BY <1>3, <1>4, <1>5, <1>6

\* A task fails to launch, or is served on the spot.
LEMMA ServedEffect ==
    ASSUME TypeOK, ThreadInv, [Next]_vars, NEW c \in Clients,
           LaunchFails \/ ServeAtOnce \/ (WorkerHandle /\ hand["worker"].type = "metrics")
    PROVE  Kept(c) \/ Ended(c)
<1>0. HandShape
  BY TypeParts
<1>1. CASE LaunchFails \/ ServeAtOnce
  <2>1. hand["main"].type \in {"gen", "slotop", "metrics"} /\ main = "handle" /\ slot' = slot
    BY <1>1 DEF LaunchFails, ServeAtOnce, Processed
  <2>2. hand["main"].of \in Clients /\ hand["main"] = TaskOf(hand["main"].of)
    BY <1>0, <2>1, InHand
  <2>3. PICK r \in {"final", "error"} : Send(hand["main"].of, r)
    BY <1>1 DEF LaunchFails, ServeAtOnce
  <2>4. \A X \in SUBSET Tasks : Held(X)' = Held(X) - One(hand["main"], X)
    BY <1>1, HeldHandled
  <2>. QED
    BY <2>1, <2>2, <2>3, <2>4, ServeEffect
<1>2. CASE WorkerHandle /\ hand["worker"].type = "metrics"
  <2>1. worker = "handle" /\ slot' = slot /\ Send(hand["worker"].of, "final")
    BY <1>2 DEF WorkerHandle, slotVars
  <2>2. hand["worker"].of \in Clients /\ hand["worker"] = TaskOf(hand["worker"].of)
    BY <1>0, <1>2, <2>1, InHand
  <2>3. \A X \in SUBSET Tasks : Held(X)' = Held(X) - One(hand["worker"], X)
    BY <1>2, HeldServed
  <2>. QED
    BY <2>1, <2>2, <2>3, ServeEffect
<1>. QED
  BY <1>1, <1>2

\* NEXT_RESPONSE is nobody's task.
LEMMA NextPosted ==
    ASSUME TypeOK, PostNextResponse, NEW X, NextResponse \notin X
    PROVE  Held(X)' = Held(X)
<1>0. QueueShape
  BY TypeParts
<1>1. tasks' = Append(tasks, NextResponse) /\ hand' = hand /\ deferred' = deferred /\ unhandled' = unhandled
  BY DEF PostNextResponse, Post
<1>2. tasks \in Seq(Tasks)
  BY <1>0 DEF QueueShape
<1>3. NextResponse \in Tasks
  BY DEF Tasks
<1>4. Matches(Append(tasks, NextResponse), X) = Matches(tasks, X) + One(NextResponse, X)
  BY <1>2, <1>3, TaskAppended, ZenonT(40)
<1>5. One(NextResponse, X) = 0 /\ Matches(tasks, X) \in Nat
  BY <1>0, HeldNat DEF One
<1>6. Matches(tasks', X) = Matches(tasks, X)
  BY <1>1, <1>4, <1>5
<1>. QED
  BY <1>1, <1>6 DEF Held

\* A task moves between the queues and the hands, or the loop's own
\* NEXT_RESPONSE comes or goes.
LEMMA MovedEffect ==
    ASSUME TypeOK, ThreadInv, [Next]_vars, NEW c \in Clients,
           \/ MainPop \/ WorkerPop \/ DeferTask \/ JoinWorker \/ RequeueDeferred
           \/ WorkerHandle /\ hand["worker"].type # "metrics"
           \/ HandleAudio \/ HandleNextResponse \/ PostNextResponse
    PROVE  Kept(c)
<1>. DEFINE X == {TaskOf(c)}
<1>0. QueueShape /\ HandShape /\ X \in SUBSET Tasks
  BY TypeParts DEF Tasks
<1>1. (\A s \in Slots : slot'[s].task = slot[s].task) /\ results' = results
  <2>1. CASE HandleAudio
    <3>1. SlotShape
      BY TypeParts
    <3>. QED
      BY <2>1, <3>1 DEF HandleAudio, SlotShape, SlotStates, resultVars
  <2>2. CASE ~HandleAudio
    BY <2>2 DEF MainPop, WorkerPop, PopTask, DeferTask, JoinWorker, RequeueDeferred, WorkerHandle,
         HandleNextResponse, PostNextResponse, slotVars, resultVars
  <2>. QED
    BY <2>1, <2>2
<1>2. Held(X)' = Held(X)
  <2>1. CASE MainPop \/ WorkerPop
    <3>. HIDE DEF X
    <3>. QED
      BY <1>0, <2>1, HeldPop
  <2>2. CASE DeferTask \/ JoinWorker \/ (WorkerHandle /\ hand["worker"].type # "metrics")
    <3>. HIDE DEF X
    <3>. QED
      BY <1>0, <2>2, HeldMoved
  <2>3. CASE RequeueDeferred
    <3>1. hand' = hand /\ (UNCHANGED queueVars \/ \E s : PopDeferred(s))
      BY <2>3 DEF RequeueDeferred
    <3>2. CASE UNCHANGED queueVars
      BY <3>1, <3>2 DEF Held, queueVars
    <3>3. CASE \E s : PopDeferred(s)
      <4>. HIDE DEF X
      <4>. QED
        BY <1>0, <3>1, <3>3, HeldMoved
    <3>. QED
      BY <3>1, <3>2, <3>3
  <2>4. CASE HandleAudio \/ HandleNextResponse
    <3>1. hand["main"] = NextResponse \/ \E d \in Clients : hand["main"] = AudioOf(d)
      BY <1>0, <2>4, InHand, ClientsAssumption DEF HandleAudio, HandleNextResponse, Processed, Clients
    <3>2. One(hand["main"], X) = 0
      BY <3>1, TasksDiffer DEF One
    <3>3. Held(X) \in Nat
      BY <1>0, HeldNat
    <3>. HIDE DEF X
    <3>4. Held(X)' = Held(X) - One(hand["main"], X)
      BY <1>0, <2>4, HeldHandled
    <3>. QED
      BY <3>2, <3>3, <3>4
  <2>5. CASE PostNextResponse
    <3>1. NextResponse \notin X
      BY TasksDiffer
    <3>. HIDE DEF X
    <3>. QED
      BY <2>5, <3>1, NextPosted
  <2>. QED
    BY <2>1, <2>2, <2>3, <2>4, <2>5
<1>. QED
  BY <1>1, <1>2, MoveEffect

\* The other steps of the server leave every task and result where it is.
LEMMA RestStill ==
    ASSUME TypeOK, MainStep \/ WorkerStep \/ IdleTimeout \/ Terminate \/ UNCHANGED vars
    PROVE  /\ waiting' = waiting /\ pc' = pc
           /\ \/ MainPop \/ WorkerPop \/ DeferTask \/ JoinWorker \/ RequeueDeferred
              \/ WorkerHandle \/ HandleAudio \/ HandleNextResponse \/ PostNextResponse
              \/ LaunchTask \/ LaunchFails \/ ServeAtOnce \/ HandleCancel
              \/ PreDecodeError \/ AudioStep \/ AbortSlot \/ PostDecode \/ LeaveSleep
              \/ UNCHANGED <<queueVars, hand, slot, results>>
<1>1. waiting' = waiting /\ pc' = pc
  BY Zenon DEF MainStep, WorkerStep, ProcessSingleTask, LaunchTask, LaunchFails, DeferTask, ServeAtOnce, HandleCancel, HandleAudio, HandleNextResponse, Processed,
     MainPop, PopTask, MainDrained, AllIdle, PostNextResponse, PreDecodeError, AudioStep, PreDecodeThrows, AbortSlot, EmptyBatch, BeginYield, EndYield, JoinWorker, PostDecode, PostDecodeDone, RequeueDeferred, IdleOver, EnterSleep, LeaveSleep, WorkerStart, WorkerPop, WorkerDrained, WorkerHandle, WorkerCheck, WorkerWoken, WorkerFinish, IdleTimeout, Terminate, Send, FailSlot, resultVars, vars
<1>2. ASSUME MainDrained \/ AllIdle \/ PreDecodeThrows \/ EmptyBatch \/ BeginYield \/ EndYield \/ PostDecodeDone
             \/ IdleOver \/ EnterSleep \/ WorkerStart \/ WorkerDrained \/ WorkerCheck \/ WorkerWoken
             \/ WorkerFinish \/ IdleTimeout \/ Terminate \/ UNCHANGED vars
      PROVE  UNCHANGED <<queueVars, hand, slot, results>>
  BY <1>2, Zenon
     DEF MainDrained, AllIdle, PreDecodeThrows, EmptyBatch, BeginYield, EndYield, PostDecodeDone, IdleOver, EnterSleep,
         WorkerStart, WorkerDrained, WorkerCheck, WorkerWoken, WorkerFinish, IdleTimeout, Terminate,
         slotVars, resultVars, vars
<1>. QED
  BY <1>1, <1>2, Zenon DEF MainStep, WorkerStep, ProcessSingleTask

\* Waking up, the server forgets the sessions that waited for audio.
LEMMA WakeEffect ==
    ASSUME TypeOK, ThreadInv, RestInv, SleepsIdle, LeaveSleep, NEW c \in Clients
    PROVE  Kept(c) \/ Forgotten(c)
<1>. DEFINE X == {TaskOf(c)}
<1>0. [Next]_vars /\ c # Nobody /\ SlotShape
  BY TypeParts, ClientsAssumption DEF Next, MainStep
<1>1. UNCHANGED <<queueVars, hand, results>>
  BY DEF LeaveSleep, resultVars
<1>2. Held(X)' = Held(X)
  BY <1>1 DEF Held, queueVars
<1>3. CASE slot' = slot
  BY <1>0, <1>1, <1>2, <1>3, MoveEffect
<1>4. CASE slot' # slot
  <2>1. slot' = [s \in Slots |-> FreeSlot] /\ sleeping
    BY <1>4 DEF LeaveSleep, ReloadSlots, ThreadInv
  <2>2. SleepEnabled /\ \A s \in Slots : slot[s].task # Nobody => slot[s].task \in Realtime
    BY <2>1 DEF RestInv, SleepsIdle, Busy, Processing
  <2>3. CASE c \in Realtime
    <3>1. {s \in Slots : slot'[s].task = c} = {}
      BY <1>0, <2>1 DEF FreeSlot
    <3>2. Runs(slot', c) = 0
      BY <3>1, FS_EmptySet DEF Runs
    <3>3. /\ Holders(c) = Held(X) + Runs(slot, c) /\ Holders(c)' = Held(X)' + Runs(slot', c)
          /\ Held(X) \in Nat /\ Runs(slot, c) \in Nat
      BY <1>0, HoldersParts
    <3>. HIDE DEF X
    <3>4. Holders(c)' <= Holders(c) /\ Holders(c)' \in Nat
      BY <1>2, <3>2, <3>3
    <3>. QED
      BY <1>1, <2>2, <2>3, <3>4 DEF Forgotten, Forgettable
  <2>4. CASE c \notin Realtime
    <3>1. {s \in Slots : slot'[s].task = c} = {s \in Slots : slot[s].task = c}
      BY <1>0, <2>1, <2>2, <2>4 DEF FreeSlot
    <3>2. Runs(slot', c) = Runs(slot, c)
      BY <3>1 DEF Runs
    <3>. QED
      BY <1>0, <1>1, <1>2, <3>2, HoldersParts DEF Kept
  <2>. QED
    BY <2>3, <2>4
<1>. QED
  BY <1>3, <1>4

\* What a step of the server's threads does to one client.
LEMMA ServerEffect ==
    ASSUME TypeOK, ThreadInv, RestInv, SleepsIdle, CancelInv,
           MainStep \/ WorkerStep \/ IdleTimeout \/ Terminate \/ UNCHANGED vars,
           NEW c \in Clients
    PROVE  /\ waiting' = waiting /\ pc' = pc
           /\ Kept(c) \/ Streamed(c) \/ Ended(c) \/ Dropped(c) \/ Forgotten(c)
<1>0. [Next]_vars
  BY DEF Next
<1>1. CASE UNCHANGED <<queueVars, hand, slot, results>>
  <2>1. Held({TaskOf(c)})' = Held({TaskOf(c)})
    BY <1>1 DEF Held, queueVars
  <2>2. Kept(c)
    BY <1>0, <1>1, <2>1, MoveEffect
  <2>. QED
    BY <2>2, RestStill
<1>2. CASE \/ MainPop \/ WorkerPop \/ DeferTask \/ JoinWorker \/ RequeueDeferred
           \/ WorkerHandle /\ hand["worker"].type # "metrics"
           \/ HandleAudio \/ HandleNextResponse \/ PostNextResponse
  BY <1>0, <1>2, MovedEffect, RestStill
<1>3. CASE LaunchFails \/ ServeAtOnce \/ (WorkerHandle /\ hand["worker"].type = "metrics")
  BY <1>0, <1>3, ServedEffect, RestStill
<1>4. CASE LaunchTask
  BY <1>0, <1>4, LaunchEffect, RestStill
<1>5. CASE HandleCancel
  BY <1>0, <1>5, CancelEffect, RestStill
<1>6. CASE PreDecodeError \/ AudioStep \/ AbortSlot \/ PostDecode
  BY <1>0, <1>6, SlotEffect, RestStill
<1>7. CASE LeaveSleep
  BY <1>7, WakeEffect, RestStill
<1>. QED
  BY <1>1, <1>2, <1>3, <1>4, <1>5, <1>6, <1>7, RestStill, Zenon

---------------------------------------------------------------------------
(* What the clients' steps do to the number of tasks held.                 *)

\* What is posted is held once more.
LEMMA PostedHeld ==
    ASSUME TypeOK, NEW t \in Tasks, NEW front, Post(t, front), UNCHANGED <<hand, deferred, unhandled>>, NEW X
    PROVE  Held(X)' = Held(X) + One(t, X)
<1>0. QueueShape
  BY TypeParts
<1>1. /\ tasks' = <<t>> \o tasks \/ tasks' = Append(tasks, t)
      /\ hand' = hand /\ deferred' = deferred /\ unhandled' = unhandled
  BY DEF Post
<1>2. /\ Matches(<<t>> \o tasks, X) = Matches(tasks, X) + One(t, X)
      /\ Matches(Append(tasks, t), X) = Matches(tasks, X) + One(t, X)
  <2>1. tasks \in Seq(Tasks)
    BY <1>0 DEF QueueShape
  <2>2. t \in Tasks
    OBVIOUS
  <2>3. Matches(<<t>> \o tasks, X) = Matches(tasks, X) + One(t, X)
    BY <2>1, <2>2, TaskPrepended, ZenonT(40)
  <2>4. Matches(Append(tasks, t), X) = Matches(tasks, X) + One(t, X)
    BY <2>1, <2>2, TaskAppended, ZenonT(40)
  <2>. QED
    BY <2>3, <2>4
<1>3. Matches(tasks', X) = Matches(tasks, X) + One(t, X)
  BY <1>1, <1>2
<1>4. PICK n \in {0, 1} : n = One(t, X)
  BY DEF One
<1>5. Held(X)' = Held(X) + n
  <2>1. /\ Matches(tasks, X) \in Nat /\ Matches(deferred, X) \in Nat /\ Matches(unhandled, X) \in Nat
        /\ One(hand["main"], X) \in {0, 1} /\ One(hand["worker"], X) \in {0, 1}
    BY <1>0, HeldNat
  <2>. QED
    BY <1>1, <1>3, <1>4, <2>1 DEF Held
<1>. QED
  BY <1>4, <1>5

\* A post adds the task of the client.
LEMMA PostHeld ==
    ASSUME TypeOK, NEW d \in Clients, ClientPost(d), NEW X
    PROVE  Held(X)' = Held(X) + One(TaskOf(d), X)
<1>1. /\ Post(TaskOf(d), d \in Scrapers) /\ UNCHANGED <<hand, deferred, unhandled>>
      /\ TaskOf(d) \in Tasks
  BY DEF ClientPost, Tasks
<1>. QED
  BY <1>1, PostedHeld, ZenonT(40)

\* Audio adds a CONTROL.
LEMMA AudioHeld ==
    ASSUME TypeOK, NEW d \in Clients, ClientAudio(d), NEW X
    PROVE  Held(X)' = Held(X) + One(AudioOf(d), X)
<1>1. Post(AudioOf(d), FALSE) /\ UNCHANGED <<hand, deferred, unhandled>> /\ AudioOf(d) \in Tasks
  BY DEF ClientAudio, Tasks
<1>. QED
  BY <1>1, PostedHeld, ZenonT(40)

\* A cancel adds the CANCEL, and may take the task out.
LEMMA CancelHeld ==
    ASSUME TypeOK, ThreadInv, NEW d \in Clients, ClientCancel(d), NEW X, TaskOf(d) \notin X
    PROVE  Held(X)' = Held(X) + One(CancelOf(d), X)
<1>. DEFINE t == CancelOf(d)
<1>0. QueueShape /\ t \in Tasks
  BY TypeParts DEF Tasks
<1>1. /\ tasks' = <<t>> \o Cleanup(tasks, d) /\ deferred' = Cleanup(deferred, d)
      /\ unhandled' = Cleanup(unhandled, d) /\ hand' = hand
  BY DEF ClientCancel
<1>2. /\ Cleanup(tasks, d) \in Seq(Tasks) /\ Matches(Cleanup(tasks, d), X) = Matches(tasks, X)
      /\ Matches(deferred', X) = Matches(deferred, X) /\ Matches(unhandled', X) = Matches(unhandled, X)
  BY <1>0, <1>1, CleanupEffect DEF QueueShape
<1>. HIDE DEF t
<1>3. Matches(<<t>> \o Cleanup(tasks, d), X) = Matches(Cleanup(tasks, d), X) + One(t, X)
  BY <1>0, <1>2, TaskPrepended, ZenonT(40)
<1>4. Matches(tasks', X) = Matches(tasks, X) + One(t, X)
  BY <1>1, <1>2, <1>3
<1>5. PICK n \in {0, 1} : n = One(t, X)
  BY DEF One
<1>6. Held(X)' = Held(X) + n
  <2>1. /\ Matches(tasks, X) \in Nat /\ Matches(deferred, X) \in Nat /\ Matches(unhandled, X) \in Nat
        /\ One(hand["main"], X) \in {0, 1} /\ One(hand["worker"], X) \in {0, 1}
    BY <1>0, HeldNat
  <2>. QED
    BY <1>1, <1>2, <1>4, <1>5, <2>1 DEF Held
<1>. QED
  BY <1>5, <1>6 DEF t

\* The target of a CANCEL leaves the queues.
LEMMA TargetHeld ==
    ASSUME TypeOK, ThreadInv, NEW d \in Clients, ClientCancel(d), Held({TaskOf(d)}) <= 1
    PROVE  Held({TaskOf(d)})' <= Held({TaskOf(d)})
<1>. DEFINE t == CancelOf(d)
            X == {TaskOf(d)}
<1>0. QueueShape /\ t \in Tasks
  BY TypeParts DEF Tasks
<1>1. /\ tasks' = <<t>> \o Cleanup(tasks, d) /\ deferred' = Cleanup(deferred, d)
      /\ unhandled' = Cleanup(unhandled, d) /\ hand' = hand
  BY DEF ClientCancel
<1>2. /\ Matches(tasks, X) \in Nat /\ Matches(deferred, X) \in Nat /\ Matches(unhandled, X) \in Nat
      /\ One(hand["main"], X) \in {0, 1} /\ One(hand["worker"], X) \in {0, 1}
  BY <1>0, HeldNat
<1>3. Matches(tasks, X) <= 1 /\ Matches(deferred, X) <= 1 /\ Matches(unhandled, X) <= 1
  <2>1. Held(X) <= 1
    OBVIOUS
  <2>. HIDE DEF X
  <2>. QED
    BY <1>2, <2>1 DEF Held
<1>4. /\ Cleanup(tasks, d) \in Seq(Tasks) /\ Matches(Cleanup(tasks, d), X) = 0
      /\ Matches(deferred', X) = 0 /\ Matches(unhandled', X) = 0
  BY <1>0, <1>1, <1>3, CleanupEffect DEF QueueShape
<1>5. One(t, X) = 0
  BY TasksDiffer DEF One
<1>. HIDE DEF t, X
<1>6. Matches(<<t>> \o Cleanup(tasks, d), X) = Matches(Cleanup(tasks, d), X) + One(t, X)
  <2>1. Cleanup(tasks, d) \in Seq(Tasks)
    BY <1>4
  <2>2. t \in Tasks
    BY <1>0
  <2>. QED
    BY <2>1, <2>2, TaskPrepended, ZenonT(40)
<1>7. Matches(tasks', X) = 0
  BY <1>1, <1>4, <1>5, <1>6
<1>8. Held(X)' <= Held(X)
  BY <1>1, <1>2, <1>4, <1>7 DEF Held
<1>. QED
  BY <1>8 DEF X

\* The server puts nothing but NEXT_RESPONSE into the queues.
LEMMA HeldShrinks ==
    ASSUME TypeOK, ThreadInv, MainStep \/ WorkerStep \/ IdleTimeout \/ Terminate \/ UNCHANGED vars,
           NEW X \in SUBSET Tasks, NextResponse \notin X
    PROVE  Held(X)' <= Held(X)
<1>0. [Next]_vars /\ QueueShape /\ Held(X) \in Nat /\ HandShape
  BY TypeParts, HeldNat DEF Next
<1>1. PICK a \in {0, 1}, b \in {0, 1} : a = One(hand["main"], X) /\ b = One(hand["worker"], X)
  BY DEF One
<1>2. CASE MainPop \/ WorkerPop
  BY <1>0, <1>2, HeldPop
<1>3. CASE DeferTask \/ JoinWorker \/ (WorkerHandle /\ hand["worker"].type # "metrics")
  BY <1>0, <1>3, HeldMoved
<1>4. CASE LaunchTask \/ LaunchFails \/ ServeAtOnce \/ HandleCancel \/ HandleAudio \/ HandleNextResponse
  <2>1. Held(X)' = Held(X) - One(hand["main"], X)
    BY <1>0, <1>4, HeldHandled
  <2>. QED
    BY <1>0, <1>1, <2>1
<1>5. CASE WorkerHandle /\ hand["worker"].type = "metrics"
  <2>1. Held(X)' = Held(X) - One(hand["worker"], X)
    BY <1>0, <1>5, HeldServed
  <2>. QED
    BY <1>0, <1>1, <2>1
<1>6. CASE PostNextResponse
  BY <1>0, <1>6, NextPosted
<1>7. CASE RequeueDeferred \/ PreDecodeError \/ AudioStep \/ AbortSlot \/ PostDecode \/ LeaveSleep
  <2>1. hand' = hand /\ (UNCHANGED queueVars \/ \E s : PopDeferred(s))
    BY <1>7 DEF RequeueDeferred, PreDecodeError, AudioStep, AbortSlot, PostDecode, LeaveSleep, FailSlot, Release
  <2>2. CASE UNCHANGED queueVars
    BY <1>0, <2>1, <2>2 DEF Held, queueVars
  <2>3. CASE \E s : PopDeferred(s)
    BY <1>0, <2>1, <2>3, HeldMoved
  <2>. QED
    BY <2>1, <2>2, <2>3
<1>8. CASE UNCHANGED <<queueVars, hand, slot, results>>
  BY <1>0, <1>8 DEF Held, queueVars
<1>. QED
  BY <1>2, <1>3, <1>4, <1>5, <1>6, <1>7, <1>8, RestStill, Zenon

---------------------------------------------------------------------------
(* Cancels: a CANCEL is on its way only after its client has left.         *)

\* Every step keeps CancelInv.
LEMMA CancelStep == TypeOK /\ ThreadInv /\ CancelInv /\ [Next]_vars => CancelInv'
<1>. SUFFICES ASSUME TypeOK, ThreadInv, CancelInv, [Next]_vars, NEW c \in Clients, pc'[c] # "gone"
              PROVE  Held({CancelOf(c)})' = 0
  BY DEF CancelInv
<1>. DEFINE X == {CancelOf(c)}
<1>0. QueueShape /\ QueueShape' /\ ClientShape /\ X \in SUBSET Tasks
  BY QueueTypes, TypeParts DEF Tasks
<1>1. /\ \A d \in Clients : TaskOf(d) \notin X
      /\ \A d \in Clients \ {c} : CancelOf(d) \notin X
      /\ \A d \in Clients : AudioOf(d) \notin X
      /\ NextResponse \notin X
  <2>1. CancelOf(c).type = "cancel" /\ CancelOf(c).of = c
    BY DEF CancelOf
  <2>2. \A d \in Clients : TaskOf(d).type # "cancel" /\ CancelOf(d).of = d
    BY DEF TaskOf, TypeOf, CancelOf
  <2>3. NextResponse.type # "cancel" /\ \A d \in Clients : AudioOf(d).type # "cancel"
    BY DEF NextResponse, AudioOf
  <2>. QED
    BY <2>1, <2>2, <2>3
<1>2. Held(X)' \in Nat /\ Held(X) \in Nat
  <2>1. Held(X) \in Nat
    BY <1>0, HeldNat
  <2>. HIDE DEF X
  <2>2. /\ Held(X)' = Matches(tasks', X) + Matches(deferred', X) + Matches(unhandled', X)
                      + One(hand'["main"], X) + One(hand'["worker"], X)
        /\ Matches(tasks', X) \in Nat /\ Matches(deferred', X) \in Nat /\ Matches(unhandled', X) \in Nat
        /\ One(hand'["main"], X) \in {0, 1} /\ One(hand'["worker"], X) \in {0, 1}
    BY <1>0, HeldParts
  <2>. QED
    BY <2>1, <2>2
<1>3. pc[c] # "gone" => Held(X) = 0
  BY DEF CancelInv
<1>. HIDE DEF X
<1>4. CASE MainStep \/ WorkerStep \/ IdleTimeout \/ Terminate \/ UNCHANGED vars
  <2>1. pc' = pc
    BY <1>4, RestStill
  <2>2. Held(X)' <= Held(X)
    BY <1>0, <1>1, <1>4, HeldShrinks
  <2>3. Held(X)' = 0
    BY <1>2, <1>3, <2>1, <2>2
  <2>. QED
    BY <2>3 DEF X
<1>5. ASSUME NEW d \in Clients, ClientPost(d) PROVE Held({CancelOf(c)})' = 0
  <2>1. Held(X)' = Held(X) + One(TaskOf(d), X)
    BY <1>5, PostHeld
  <2>2. One(TaskOf(d), X) = 0
    BY <1>1 DEF One
  <2>3. pc[c] # "gone"
    BY <1>0, <1>5 DEF ClientPost, ClientShape
  <2>4. Held(X)' = 0
    BY <1>2, <1>3, <2>1, <2>2, <2>3
  <2>. QED
    BY <2>4 DEF X
<1>6. ASSUME NEW d \in Clients, ClientCancel(d) PROVE Held({CancelOf(c)})' = 0
  <2>1. pc[c] # "gone" /\ d # c
    BY <1>0, <1>6 DEF ClientCancel, ClientShape
  <2>2. Held(X)' = Held(X) + One(CancelOf(d), X)
    BY <1>1, <1>6, CancelHeld
  <2>3. One(CancelOf(d), X) = 0
    BY <1>1, <2>1 DEF One
  <2>4. Held(X)' = 0
    BY <1>2, <1>3, <2>1, <2>2, <2>3
  <2>. QED
    BY <2>4 DEF X
<1>7. ASSUME NEW d \in Clients, ClientStart(d) \/ ClientWoken(d) \/ ClientReceive(d) \/ ClientGivesUp(d)
      PROVE  Held({CancelOf(c)})' = 0
  <2>1. UNCHANGED <<queueVars, hand>>
    BY <1>7 DEF ClientStart, ClientWoken, ClientReceive, ClientGivesUp
  <2>2. pc[c] # "gone"
    BY <1>0, <1>7 DEF ClientStart, ClientWoken, ClientReceive, ClientGivesUp, ClientShape
  <2>3. Held(X)' = Held(X)
    BY <2>1 DEF Held, queueVars
  <2>4. Held(X)' = 0
    BY <1>3, <2>2, <2>3
  <2>. QED
    BY <2>4 DEF X
<1>8. ASSUME NEW d \in Clients, ClientAudio(d) PROVE Held({CancelOf(c)})' = 0
  <2>1. Held(X)' = Held(X) + One(AudioOf(d), X)
    BY <1>8, AudioHeld
  <2>2. One(AudioOf(d), X) = 0
    BY <1>1 DEF One
  <2>3. pc[c] # "gone"
    BY <1>8 DEF ClientAudio
  <2>4. Held(X)' = 0
    BY <1>2, <1>3, <2>1, <2>2, <2>3
  <2>. QED
    BY <2>4 DEF X
<1>. QED
  BY <1>4, <1>5, <1>6, <1>7, <1>8 DEF Next, ClientStep

---------------------------------------------------------------------------
(* Every task is accounted for, and no result outlives its reader.         *)

Kinds == {"partial", "final", "error"}
Final == {"final", "error"}

AnswerOf(c) ==
    /\ c \in waiting <=> pc[c] = "recv"
    /\ results[c] # <<>> => c \in waiting
    /\ \A i \in DOMAIN results[c] : i < Len(results[c]) => results[c][i] = "partial"
\* One task or answer, none once the server has forgotten a session in its sleep.
Totals(c) == IF c \in Forgettable THEN {0, 1} ELSE {1}
AccountOf(c) ==
    /\ pc[c] = "recv" => Holders(c) + Matches(results[c], Final) \in Totals(c)
    /\ pc[c] \in {"cancel", "gone"} => Holders(c) <= 1
    /\ pc[c] \in {"new", "asleep", "ready", "done"} => Holders(c) = 0

\* The number of final answers, as a number of matches.
LEMMA AnswersAreFinal ==
    ASSUME ResultShape, NEW c \in Clients
    PROVE  Answers(c) = Matches(results[c], Final) /\ results[c] \in Seq(Kinds)
<1>1. results[c] \in Seq(Kinds)
  BY DEF ResultShape, Kinds
<1>2. \A i \in DOMAIN results[c] : results[c][i] \in Kinds
  BY <1>1
<1>3. {i \in DOMAIN results[c] : results[c][i] # "partial"} = {i \in DOMAIN results[c] : results[c][i] \in Final}
  BY <1>2 DEF Kinds, Final
<1>. QED
  BY <1>1, <1>3 DEF Answers, Matches

AccountParts ==
    ClientShape /\ ResultShape =>
        /\ TaskAccounted <=> \A c \in Clients : AccountOf(c)
        /\ AnswerInv <=> waiting \subseteq Clients /\ \A c \in Clients : AnswerOf(c)

\* The two invariants, client by client.
LEMMA AccountByClient == AccountParts
<1>. SUFFICES ASSUME ClientShape, ResultShape
              PROVE  /\ TaskAccounted <=> \A c \in Clients : AccountOf(c)
                     /\ AnswerInv <=> waiting \subseteq Clients /\ \A c \in Clients : AnswerOf(c)
  BY DEF AccountParts
<1>1. ASSUME NEW c \in Clients
      PROVE  AccountOf(c) <=>
                 CASE pc[c] = "recv" -> Holders(c) + Answers(c) \in IF c \in Forgettable THEN {0, 1} ELSE {1}
                   [] pc[c] \in {"cancel", "gone"} -> Holders(c) <= 1
                   [] OTHER -> Holders(c) = 0
  <2>1. Answers(c) = Matches(results[c], Final)
    BY AnswersAreFinal
  <2>2. pc[c] \in {"new", "asleep", "ready", "recv", "cancel", "done", "gone"}
    BY DEF ClientShape
  <2>3. CASE pc[c] = "recv"
    BY <2>1, <2>3 DEF AccountOf, Totals
  <2>4. CASE pc[c] \in {"cancel", "gone"}
    BY <2>4 DEF AccountOf
  <2>5. CASE pc[c] \in {"new", "asleep", "ready", "done"}
    BY <2>5 DEF AccountOf
  <2>. QED
    BY <2>2, <2>3, <2>4, <2>5
<1>2. AnswerInv <=> waiting \subseteq Clients /\ \A c \in Clients : AnswerOf(c)
  BY DEF AnswerInv, AnswerOf, NoOrphanResult
<1>. QED
  BY <1>1, <1>2 DEF TaskAccounted

\* A result is put behind results none of which is final.
LEMMA ResultAppended ==
    ASSUME NEW q \in Seq(Kinds), Matches(q, Final) = 0, NEW r \in Kinds
    PROVE  /\ Matches(Append(q, r), Final) = One(r, Final)
           /\ \A i \in DOMAIN Append(q, r) : i < Len(Append(q, r)) => Append(q, r)[i] = "partial"
<1>1. Matches(Append(q, r), Final) = Matches(q, Final) + One(r, Final)
  BY MatchesAppend, ZenonT(40)
<1>2. \A i \in DOMAIN q : q[i] = "partial"
  <2>1. \A i \in DOMAIN q : q[i] \notin Final
    BY MatchesFound
  <2>2. \A i \in DOMAIN q : q[i] \in Kinds
    OBVIOUS
  <2>. QED
    BY <2>1, <2>2 DEF Kinds, Final
<1>3. One(r, Final) \in {0, 1}
  BY DEF One
<1>. QED
  BY <1>1, <1>2, <1>3

\* The head of the results, when it is final, is all of them.
LEMMA FinalHead ==
    ASSUME NEW q \in Seq(Kinds), q # <<>>,
           \A i \in DOMAIN q : i < Len(q) => q[i] = "partial"
    PROVE  /\ Head(q) \in Kinds /\ Tail(q) \in Seq(Kinds)
           /\ Matches(q, Final) = Matches(Tail(q), Final) + One(Head(q), Final)
           /\ Head(q) \in Final => Tail(q) = <<>> /\ Matches(q, Final) = 1
           /\ \A i \in DOMAIN Tail(q) : i < Len(Tail(q)) => Tail(q)[i] = "partial"
<1>1. /\ Head(q) \in Kinds /\ Tail(q) \in Seq(Kinds)
      /\ Matches(q, Final) = Matches(Tail(q), Final) + One(Head(q), Final)
  BY MatchesTail
<1>2. ASSUME Head(q) \in Final PROVE Tail(q) = <<>> /\ Matches(q, Final) = 1
  <2>1. Len(q) = 1
    <3>1. Head(q) = q[1] /\ 1 \in DOMAIN q /\ Head(q) # "partial"
      BY <1>2 DEF Final
    <3>. QED
      BY <3>1
  <2>2. Tail(q) = <<>>
    <3>1. Len(Tail(q)) = 0
      BY <2>1
    <3>. QED
      BY <1>1, <3>1, EmptySeq
  <2>3. Matches(Tail(q), Final) = 0
    BY <2>2, MatchesSmall
  <2>4. One(Head(q), Final) = 1
    BY <1>2 DEF One
  <2>. QED
    BY <1>1, <2>2, <2>3, <2>4
<1>3. \A i \in DOMAIN Tail(q) : i < Len(Tail(q)) => Tail(q)[i] = "partial"
  <2>1. Len(Tail(q)) = Len(q) - 1 /\ \A i \in DOMAIN Tail(q) : Tail(q)[i] = q[i + 1] /\ i + 1 \in DOMAIN q
    OBVIOUS
  <2>. QED
    BY <2>1
<1>. QED
  BY <1>1, <1>2, <1>3

\* A step of the server keeps the account of every client.
LEMMA ServerAccount ==
    ASSUME TypeOK, ThreadInv, RestInv, SleepsIdle, CancelInv,
           MainStep \/ WorkerStep \/ IdleTimeout \/ Terminate \/ UNCHANGED vars,
           NEW c \in Clients, AccountOf(c), AnswerOf(c)
    PROVE  AccountOf(c)' /\ AnswerOf(c)'
<1>. DEFINE m == Matches(results[c], Final)
<1>0. /\ waiting' = waiting /\ pc' = pc
      /\ Kept(c) \/ Streamed(c) \/ Ended(c) \/ Dropped(c) \/ Forgotten(c)
  BY ServerEffect
<1>1. ClientShape /\ ResultShape /\ Holders(c) \in Nat /\ results[c] \in Seq(Kinds)
  <2>1. [Next]_vars
    BY DEF Next
  <2>2. Holders(c) = Held({TaskOf(c)}) + Runs(slot, c) /\ Held({TaskOf(c)}) \in Nat /\ Runs(slot, c) \in Nat
    BY <2>1, HoldersParts
  <2>3. Holders(c) \in Nat
    BY <2>2
  <2>. QED
    BY <2>3, TypeParts, AnswersAreFinal
<1>2. m \in Nat
  BY <1>1, MatchesNat
<1>3. pc[c] \in {"new", "asleep", "ready", "recv", "cancel", "done", "gone"}
  BY <1>1 DEF ClientShape
<1>4. CASE Kept(c)
  BY <1>0, <1>4 DEF Kept, AccountOf, AnswerOf
<1>5. CASE Dropped(c)
  <2>1. AccountOf(c)'
    BY <1>0, <1>1, <1>5 DEF Dropped, AccountOf
  <2>. QED
    BY <1>0, <1>5, <2>1 DEF Dropped, AnswerOf
<1>6. CASE Streamed(c) \/ Ended(c)
  <2>1. Holders(c) >= 1
    BY <1>6 DEF Streamed, Ended
  <2>2. CASE c \in waiting
    <3>1. pc[c] = "recv"
      BY <2>2 DEF AnswerOf
    <3>2. Holders(c) = 1 /\ m = 0
      BY <1>1, <1>2, <2>1, <3>1 DEF AccountOf, Totals
    <3>3. PICK r \in Kinds : /\ results'[c] = Append(results[c], r)
                             /\ Holders(c)' = 1 - One(r, Final)
      <4>1. CASE Streamed(c)
        <5>1. results'[c] = Append(results[c], "partial") /\ Holders(c)' = 1
          BY <2>2, <3>2, <4>1 DEF Streamed, Sent
        <5>2. One("partial", Final) = 0
          BY DEF One, Final
        <5>. QED
          BY <5>1, <5>2 DEF Kinds
      <4>2. CASE Ended(c)
        <5>1. PICK r \in {"final", "error"} : Sent(c, r)
          BY <4>2 DEF Ended
        <5>2. results'[c] = Append(results[c], r) /\ Holders(c)' = 0
          BY <2>2, <3>2, <4>2, <5>1 DEF Ended, Sent
        <5>3. One(r, Final) = 1 /\ r \in Kinds
          BY <5>1 DEF One, Final, Kinds
        <5>. QED
          BY <5>2, <5>3
      <4>. QED
        BY <1>6, <4>1, <4>2
    <3>4. PICK q \in Seq(Kinds) : q = results[c]
      BY <1>1
    <3>5. /\ Matches(Append(q, r), Final) = One(r, Final)
          /\ \A i \in DOMAIN Append(q, r) : i < Len(Append(q, r)) => Append(q, r)[i] = "partial"
      BY <3>2, <3>4, ResultAppended
    <3>6. /\ Matches(results'[c], Final) = One(r, Final)
          /\ \A i \in DOMAIN results'[c] : i < Len(results'[c]) => results'[c][i] = "partial"
      BY <3>3, <3>4, <3>5
    <3>7. AnswerOf(c)'
      BY <1>0, <2>2, <3>1, <3>6 DEF AnswerOf
    <3>8. PICK n \in {0, 1} : n = One(r, Final)
      BY DEF One
    <3>9. AccountOf(c)'
      BY <1>0, <3>1, <3>3, <3>6, <3>8 DEF AccountOf, Totals
    <3>. QED
      BY <3>7, <3>9
  <2>3. CASE c \notin waiting
    <3>1. results'[c] = results[c] /\ pc[c] # "recv"
      BY <1>6, <2>3 DEF Streamed, Ended, Sent, AnswerOf
    <3>2. Holders(c)' <= Holders(c)
      BY <1>1, <1>6 DEF Streamed, Ended
    <3>3. pc[c] \in {"cancel", "gone"}
      BY <1>3, <2>1, <3>1 DEF AccountOf
    <3>4. Holders(c)' \in Nat
      BY <1>1, <1>6, <2>1 DEF Streamed, Ended
    <3>5. AccountOf(c)'
      BY <1>0, <1>1, <3>2, <3>3, <3>4 DEF AccountOf
    <3>. QED
      BY <1>0, <3>1, <3>5 DEF AnswerOf
  <2>. QED
    BY <2>2, <2>3
<1>7. CASE Forgotten(c)
  <2>1. Totals(c) = {0, 1} /\ Holders(c)' <= Holders(c) /\ Holders(c)' \in Nat /\ results'[c] = results[c]
    BY <1>7 DEF Forgotten, Totals
  <2>2. AccountOf(c)'
    BY <1>0, <1>1, <1>2, <2>1 DEF AccountOf, Totals
  <2>. QED
    BY <1>0, <2>1, <2>2 DEF AnswerOf
<1>. QED
  BY <1>0, <1>4, <1>5, <1>6, <1>7

\* A client's step leaves the account of every other client alone.
LEMMA OthersAccount ==
    ASSUME TypeOK, ThreadInv, NEW d \in Clients, ClientStep(d) \/ ClientGivesUp(d),
           NEW c \in Clients, c # d, AccountOf(c), AnswerOf(c)
    PROVE  AccountOf(c)' /\ AnswerOf(c)'
<1>. DEFINE X == {TaskOf(c)}
<1>0. ClientShape /\ ResultShape /\ [Next]_vars /\ TaskOf(d) \notin X /\ CancelOf(d) \notin X
  BY TypeParts, TasksDiffer DEF Next
<1>1. pc'[c] = pc[c] /\ results'[c] = results[c] /\ (c \in waiting' <=> c \in waiting) /\ slot' = slot
  BY <1>0
     DEF ClientShape, ResultShape, ClientStep, ClientStart, ClientWoken, ClientPost, ClientReceive, ClientGivesUp,
         ClientCancel, StopWaiting, slotVars, resultVars
<1>2. Held(X) \in Nat /\ Holders(c) = Held(X) + Runs(slot, c) /\ Holders(c)' = Held(X)' + Runs(slot', c)
  BY <1>0, HoldersParts
<1>. HIDE DEF X
<1>3. One(TaskOf(d), X) = 0 /\ One(CancelOf(d), X) = 0
  BY <1>0 DEF One
<1>4. Held(X)' = Held(X)
  <2>1. CASE ClientPost(d)
    <3>1. Held(X)' = Held(X) + One(TaskOf(d), X)
      BY <2>1, PostHeld
    <3>. QED
      BY <1>2, <1>3, <3>1
  <2>2. CASE ClientCancel(d)
    <3>1. Held(X)' = Held(X) + One(CancelOf(d), X)
      BY <1>0, <2>2, CancelHeld
    <3>. QED
      BY <1>2, <1>3, <3>1
  <2>3. CASE ClientStart(d) \/ ClientWoken(d) \/ ClientReceive(d) \/ ClientGivesUp(d)
    <3>1. UNCHANGED <<queueVars, hand>>
      BY <2>3 DEF ClientStart, ClientWoken, ClientReceive, ClientGivesUp
    <3>. QED
      BY <3>1 DEF Held, queueVars
  <2>. QED
    BY <2>1, <2>2, <2>3 DEF ClientStep
<1>5. Holders(c)' = Holders(c)
  BY <1>1, <1>2, <1>4
<1>. QED
  BY <1>1, <1>5 DEF AccountOf, AnswerOf, Totals

\* A client's step keeps its own account.
LEMMA OwnAccount ==
    ASSUME TypeOK, ThreadInv, NEW c \in Clients, ClientStep(c) \/ ClientGivesUp(c), AccountOf(c), AnswerOf(c)
    PROVE  AccountOf(c)' /\ AnswerOf(c)'
<1>. DEFINE X == {TaskOf(c)}
            m == Matches(results[c], Final)
<1>0. ClientShape /\ ResultShape /\ [Next]_vars /\ results[c] \in Seq(Kinds)
  BY TypeParts, AnswersAreFinal DEF Next
<1>1. /\ Held(X) \in Nat /\ Held(X)' \in Nat /\ Runs(slot, c) \in Nat
      /\ Holders(c) = Held(X) + Runs(slot, c) /\ Holders(c)' = Held(X)' + Runs(slot', c)
  BY <1>0, HoldersParts
<1>2. m \in Nat
  BY <1>0, MatchesNat
<1>3. Matches(<<>>, Final) = 0
  BY MatchesSmall
<1>4. slot' = slot
  BY DEF ClientStep, ClientStart, ClientWoken, ClientPost, ClientReceive, ClientGivesUp, ClientCancel, slotVars
<1>5. CASE ClientPost(c)
  <2>1. /\ pc[c] = "ready" /\ pc'[c] = "recv" /\ c \in waiting' /\ results' = results
    BY <1>0, <1>5 DEF ClientPost, ClientShape
  <2>2. results[c] = <<>> /\ Holders(c) = 0
    BY <2>1 DEF AnswerOf, AccountOf
  <2>3. Held(X)' = Held(X) + 1
    <3>1. Held(X)' = Held(X) + One(TaskOf(c), X)
      <4>. HIDE DEF X
      <4>. QED
        BY <1>5, PostHeld
    <3>2. One(TaskOf(c), X) = 1
      BY DEF One
    <3>. QED
      BY <3>1, <3>2
  <2>. HIDE DEF X
  <2>4. Holders(c)' = 1
    BY <1>1, <1>4, <2>2, <2>3
  <2>. QED
    BY <1>3, <2>1, <2>2, <2>4 DEF AnswerOf, AccountOf, Totals
<1>6. CASE ClientCancel(c)
  <2>1. pc[c] = "cancel" /\ pc'[c] = "gone" /\ waiting' = waiting /\ results' = results
    BY <1>0, <1>6 DEF ClientCancel, ClientShape, resultVars
  <2>2. Holders(c) <= 1
    BY <2>1 DEF AccountOf
  <2>3. Held(X) <= 1
    <3>. HIDE DEF X
    <3>. QED
      BY <1>1, <2>2
  <2>4. Held(X)' <= Held(X)
    BY <1>6, <2>3, TargetHeld
  <2>. HIDE DEF X
  <2>5. Holders(c)' <= 1
    BY <1>1, <1>4, <2>2, <2>4
  <2>. QED
    BY <2>1, <2>5 DEF AnswerOf, AccountOf
<1>7. ASSUME ~ClientPost(c), ~ClientCancel(c) PROVE Holders(c)' = Holders(c)
  <2>1. UNCHANGED <<queueVars, hand>>
    BY <1>7 DEF ClientStep, ClientStart, ClientWoken, ClientReceive, ClientGivesUp
  <2>2. Held(X)' = Held(X)
    BY <2>1 DEF Held, queueVars
  <2>. HIDE DEF X
  <2>. QED
    BY <1>1, <1>4, <2>2
<1>8. CASE ClientStart(c) \/ ClientWoken(c)
  <2>1. /\ pc[c] \in {"new", "asleep"} /\ pc'[c] \in {"new", "asleep", "ready", "done"}
        /\ waiting' = waiting /\ results' = results /\ ~ClientPost(c) /\ ~ClientCancel(c)
    BY <1>0, <1>8 DEF ClientStart, ClientWoken, ClientPost, ClientCancel, ClientShape, resultVars
  <2>. QED
    BY <1>7, <2>1 DEF AnswerOf, AccountOf
<1>9. CASE ClientReceive(c) \/ ClientGivesUp(c)
  <2>1. pc[c] = "recv" /\ ~ClientPost(c) /\ ~ClientCancel(c)
    BY <1>9 DEF ClientReceive, ClientGivesUp, ClientPost, ClientCancel
  <2>2. Holders(c)' = Holders(c) /\ Holders(c) + m \in Totals(c) /\ Holders(c) \in Nat
    BY <1>1, <1>7, <2>1 DEF AccountOf
  <2>3. PICK q \in Seq(Kinds) : q = results[c]
    BY <1>0
  <2>4. \A i \in DOMAIN q : i < Len(q) => q[i] = "partial"
    BY <2>3 DEF AnswerOf
  <2>5. CASE ClientReceive(c) /\ Head(results[c]) = "partial"
    <3>1. /\ results'[c] = Tail(q) /\ waiting' = waiting /\ pc' = pc /\ q # <<>> /\ Head(q) = "partial"
      BY <1>0, <2>3, <2>5 DEF ClientReceive, ResultShape
    <3>2. /\ Matches(q, Final) = Matches(Tail(q), Final) + One(Head(q), Final) /\ Tail(q) \in Seq(Kinds)
          /\ \A i \in DOMAIN Tail(q) : i < Len(Tail(q)) => Tail(q)[i] = "partial"
      BY <2>4, <3>1, FinalHead
    <3>3. One(Head(q), Final) = 0 /\ Matches(Tail(q), Final) \in Nat
      BY <3>1, <3>2, MatchesNat DEF One, Final
    <3>4. Matches(Tail(q), Final) = m
      BY <2>3, <3>2, <3>3
    <3>5. AccountOf(c)'
      BY <2>1, <2>2, <3>1, <3>4 DEF AccountOf, Totals
    <3>6. c \in waiting
      BY <2>1 DEF AnswerOf
    <3>7. AnswerOf(c)'
      BY <2>1, <3>1, <3>2, <3>6 DEF AnswerOf
    <3>. QED
      BY <3>5, <3>7
  <2>6. CASE ClientReceive(c) /\ Head(results[c]) = "final"
    <3>1. /\ results'[c] = Tail(q) /\ c \notin waiting' /\ pc'[c] = "done" /\ q # <<>> /\ Head(q) \in Final
      BY <1>0, <2>3, <2>6 DEF ClientReceive, StopWaiting, ResultShape, ClientShape, Final
    <3>2. Tail(q) = <<>> /\ m = 1
      BY <2>3, <2>4, <3>1, FinalHead
    <3>3. Holders(c)' = 0
      BY <2>2, <3>2 DEF Totals
    <3>4. AccountOf(c)'
      BY <3>1, <3>3 DEF AccountOf
    <3>5. AnswerOf(c)'
      BY <3>1, <3>2 DEF AnswerOf
    <3>. QED
      BY <3>4, <3>5
  <2>7. CASE (ClientReceive(c) /\ Head(results[c]) \notin {"partial", "final"}) \/ ClientGivesUp(c)
    <3>1. results'[c] = <<>> /\ c \notin waiting' /\ pc'[c] = "cancel"
      BY <1>0, <2>7 DEF ClientReceive, ClientGivesUp, StopWaiting, ResultShape, ClientShape
    <3>2. Holders(c)' <= 1
      BY <1>2, <2>2 DEF Totals
    <3>3. AccountOf(c)'
      BY <3>1, <3>2 DEF AccountOf
    <3>4. AnswerOf(c)'
      BY <3>1 DEF AnswerOf
    <3>. QED
      BY <3>3, <3>4
  <2>. QED
    BY <1>9, <2>5, <2>6, <2>7
<1>. QED
  BY <1>5, <1>6, <1>8, <1>9 DEF ClientStep

\* Audio is accounted for by its own reader.
LEMMA AudioAccount ==
    ASSUME TypeOK, ThreadInv, NEW d \in Clients, ClientAudio(d), NEW c \in Clients, AccountOf(c), AnswerOf(c)
    PROVE  AccountOf(c)' /\ AnswerOf(c)'
<1>. DEFINE X == {TaskOf(c)}
<1>0. [Next]_vars /\ AudioOf(d) \notin X
  BY TasksDiffer DEF Next
<1>1. pc' = pc /\ results' = results /\ waiting' = waiting /\ slot' = slot
  BY DEF ClientAudio, slotVars, resultVars
<1>2. Held(X) \in Nat /\ Holders(c) = Held(X) + Runs(slot, c) /\ Holders(c)' = Held(X)' + Runs(slot', c)
  BY <1>0, HoldersParts
<1>. HIDE DEF X
<1>3. Held(X)' = Held(X) + One(AudioOf(d), X)
  BY AudioHeld
<1>4. Holders(c)' = Holders(c)
  BY <1>0, <1>1, <1>2, <1>3 DEF One
<1>. QED
  BY <1>1, <1>4 DEF AccountOf, AnswerOf, Totals

\* Every step keeps the account.
LEMMA AccountStep ==
    TypeOK /\ ThreadInv /\ RestInv /\ SleepsIdle /\ CancelInv /\ AnswerInv /\ TaskAccounted /\ [Next]_vars =>
        AnswerInv' /\ TaskAccounted'
<1>. SUFFICES ASSUME TypeOK, ThreadInv, RestInv, SleepsIdle, CancelInv, AnswerInv, TaskAccounted, [Next]_vars
              PROVE  AnswerInv' /\ TaskAccounted'
  OBVIOUS
<1>1. ClientShape /\ ResultShape /\ ClientShape' /\ ResultShape'
  BY TypeParts, ClientTypes, ResultTypes
<1>2. \A c \in Clients : AccountOf(c) /\ AnswerOf(c)
  BY <1>1, AccountByClient DEF AccountParts
<1>3. ASSUME MainStep \/ WorkerStep \/ IdleTimeout \/ Terminate \/ UNCHANGED vars, NEW c \in Clients
      PROVE  AccountOf(c)' /\ AnswerOf(c)'
  BY <1>2, <1>3, ServerAccount
<1>4. ASSUME NEW d \in Clients, ClientStep(d) \/ ClientGivesUp(d), NEW c \in Clients
      PROVE  AccountOf(c)' /\ AnswerOf(c)'
  BY <1>2, <1>4, OthersAccount, OwnAccount
<1>5. ASSUME NEW d \in Clients, ClientAudio(d), NEW c \in Clients
      PROVE  AccountOf(c)' /\ AnswerOf(c)'
  BY <1>2, <1>5, AudioAccount
<1>6. \A c \in Clients : AccountOf(c)' /\ AnswerOf(c)'
  BY <1>3, <1>4, <1>5 DEF Next
<1>7. AccountParts'
  BY AccountByClient, PTL
<1>8. waiting' \subseteq Clients
  BY <1>1 DEF ResultShape
<1>. QED
  BY <1>1, <1>6, <1>7, <1>8 DEF AccountParts

---------------------------------------------------------------------------
(* The order of the tasks ahead.                                           *)

Has(q, t) == \E i \in DOMAIN q : q[i] = t
\* An s stands somewhere in q before a t.
InOrder(q, s, t) == \E i, j \in DOMAIN q : i < j /\ q[i] = s /\ q[j] = t

\* Of the empty sequence and of one element.
LEMMA OrderSmall ==
    ASSUME NEW e, NEW s, NEW t
    PROVE  /\ ~Has(<<>>, t) /\ (Has(<<e>>, t) <=> e = t)
           /\ ~InOrder(<<>>, s, t) /\ ~InOrder(<<e>>, s, t)
<1>1. DOMAIN <<>> = {} /\ DOMAIN <<e>> = {1} /\ <<e>>[1] = e
  OBVIOUS
<1>. QED
  BY <1>1 DEF Has, InOrder

\* Of two sequences, one after the other.
LEMMA OrderConcat ==
    ASSUME NEW S, NEW p \in Seq(S), NEW q \in Seq(S), NEW s, NEW t
    PROVE  /\ p \o q \in Seq(S)
           /\ Has(p \o q, t) <=> Has(p, t) \/ Has(q, t)
           /\ InOrder(p \o q, s, t) <=> InOrder(p, s, t) \/ InOrder(q, s, t) \/ (Has(p, s) /\ Has(q, t))
<1>. DEFINE n == Len(p)
            m == Len(q)
            r == p \o q
<1>1. /\ n \in Nat /\ m \in Nat /\ DOMAIN p = 1 .. n /\ DOMAIN q = 1 .. m
      /\ r \in Seq(S) /\ DOMAIN r = 1 .. n + m
      /\ \A i \in 1 .. n + m : r[i] = IF i <= n THEN p[i] ELSE q[i - n]
  BY ConcatProperties
<1>. HIDE DEF n, m, r
<1>2. \A i \in 1 .. n : i \in 1 .. n + m /\ r[i] = p[i]
  BY <1>1
<1>3. \A i \in 1 .. m : i + n \in 1 .. n + m /\ r[i + n] = q[i]
  <2>. SUFFICES ASSUME NEW i \in 1 .. m PROVE i + n \in 1 .. n + m /\ r[i + n] = q[i]
    OBVIOUS
  <2>1. i + n \in 1 .. n + m /\ ~(i + n <= n) /\ (i + n) - n = i
    BY <1>1
  <2>. QED
    BY <1>1, <2>1
<1>4. \A i \in 1 .. n + m : ~(i <= n) => i - n \in 1 .. m /\ r[i] = q[i - n]
  BY <1>1
<1>5. Has(r, t) => Has(p, t) \/ Has(q, t)
  <2>1. ASSUME NEW i \in 1 .. n + m, r[i] = t PROVE Has(p, t) \/ Has(q, t)
    <3>1. CASE i <= n
      <4>1. i \in 1 .. n
        BY <1>1, <3>1
      <4>. QED
        BY <1>1, <1>2, <2>1, <4>1 DEF Has
    <3>2. CASE ~(i <= n)
      BY <1>1, <1>4, <2>1, <3>2 DEF Has
    <3>. QED
      BY <3>1, <3>2
  <2>. QED
    BY <1>1, <2>1 DEF Has
<1>6. Has(p, t) \/ Has(q, t) => Has(r, t)
  BY <1>1, <1>2, <1>3 DEF Has
<1>7. ASSUME NEW i \in 1 .. n + m, NEW j \in 1 .. n + m, i < j, r[i] = s, r[j] = t
      PROVE  InOrder(p, s, t) \/ InOrder(q, s, t) \/ (Has(p, s) /\ Has(q, t))
  <2>1. CASE j <= n
    <3>1. i \in 1 .. n /\ j \in 1 .. n
      BY <1>1, <1>7, <2>1
    <3>. QED
      BY <1>1, <1>2, <1>7, <3>1 DEF InOrder
  <2>2. CASE i <= n /\ ~(j <= n)
    <3>1. i \in 1 .. n
      BY <1>1, <2>2
    <3>2. Has(p, s)
      BY <1>1, <1>2, <1>7, <3>1 DEF Has
    <3>3. Has(q, t)
      BY <1>1, <1>4, <1>7, <2>2 DEF Has
    <3>. QED
      BY <3>2, <3>3
  <2>3. CASE ~(i <= n) /\ ~(j <= n)
    <3>1. i - n \in 1 .. m /\ j - n \in 1 .. m /\ i - n < j - n /\ q[i - n] = s /\ q[j - n] = t
      BY <1>1, <1>4, <1>7, <2>3
    <3>. QED
      BY <1>1, <3>1 DEF InOrder
  <2>. QED
    BY <1>1, <1>7, <2>1, <2>2, <2>3
<1>8. InOrder(p, s, t) => InOrder(r, s, t)
  BY <1>1, <1>2 DEF InOrder
<1>9. InOrder(q, s, t) => InOrder(r, s, t)
  <2>1. ASSUME NEW i \in 1 .. m, NEW j \in 1 .. m, i < j, q[i] = s, q[j] = t PROVE InOrder(r, s, t)
    <3>1. i + n \in 1 .. n + m /\ j + n \in 1 .. n + m /\ i + n < j + n /\ r[i + n] = s /\ r[j + n] = t
      BY <1>1, <1>3, <2>1
    <3>. QED
      BY <1>1, <3>1 DEF InOrder
  <2>. QED
    BY <1>1, <2>1 DEF InOrder
<1>10. Has(p, s) /\ Has(q, t) => InOrder(r, s, t)
  <2>1. ASSUME NEW i \in 1 .. n, NEW j \in 1 .. m, p[i] = s, q[j] = t PROVE InOrder(r, s, t)
    <3>1. i \in 1 .. n + m /\ j + n \in 1 .. n + m /\ i < j + n /\ r[i] = s /\ r[j + n] = t
      BY <1>1, <1>2, <1>3, <2>1
    <3>. QED
      BY <1>1, <3>1 DEF InOrder
  <2>. QED
    BY <1>1, <2>1 DEF Has
<1>11. InOrder(r, s, t) => InOrder(p, s, t) \/ InOrder(q, s, t) \/ (Has(p, s) /\ Has(q, t))
  BY <1>1, <1>7 DEF InOrder
<1>12. /\ r \in Seq(S)
       /\ Has(r, t) <=> Has(p, t) \/ Has(q, t)
       /\ InOrder(r, s, t) <=> InOrder(p, s, t) \/ InOrder(q, s, t) \/ (Has(p, s) /\ Has(q, t))
  BY <1>1, <1>5, <1>6, <1>8, <1>9, <1>10, <1>11
<1>. QED
  BY <1>12 DEF r

\* The same for queues of tasks.
LEMMA OrderJoined ==
    ASSUME NEW p \in Seq(Tasks), NEW q \in Seq(Tasks), NEW s, NEW t
    PROVE  /\ p \o q \in Seq(Tasks)
           /\ Has(p \o q, t) <=> Has(p, t) \/ Has(q, t)
           /\ InOrder(p \o q, s, t) <=> InOrder(p, s, t) \/ InOrder(q, s, t) \/ (Has(p, s) /\ Has(q, t))
BY OrderConcat, ZenonT(40)

\* A task put at either end.
LEMMA OrderGrown ==
    ASSUME NEW q \in Seq(Tasks), NEW e \in Tasks, NEW s, NEW t
    PROVE  /\ Has(Append(q, e), t) <=> Has(q, t) \/ e = t
           /\ InOrder(Append(q, e), s, t) <=> InOrder(q, s, t) \/ (Has(q, s) /\ e = t)
           /\ Has(<<e>> \o q, t) <=> Has(q, t) \/ e = t
           /\ InOrder(<<e>> \o q, s, t) <=> InOrder(q, s, t) \/ (e = s /\ Has(q, t))
<1>. DEFINE u == <<e>>
<1>1. u \in Seq(Tasks) /\ Append(q, e) = q \o u
  BY AppendIsConcat
<1>2. ~InOrder(u, s, t) /\ (Has(u, t) <=> e = t) /\ (Has(u, s) <=> e = s)
  BY OrderSmall
<1>. HIDE DEF u
<1>3. /\ Has(q \o u, t) <=> Has(q, t) \/ Has(u, t)
      /\ InOrder(q \o u, s, t) <=> InOrder(q, s, t) \/ InOrder(u, s, t) \/ (Has(q, s) /\ Has(u, t))
  BY <1>1, OrderJoined, Zenon
<1>4. /\ Has(u \o q, t) <=> Has(u, t) \/ Has(q, t)
      /\ InOrder(u \o q, s, t) <=> InOrder(u, s, t) \/ InOrder(q, s, t) \/ (Has(u, s) /\ Has(q, t))
  BY <1>1, OrderJoined, Zenon
<1>5. /\ Has(Append(q, e), t) <=> Has(q, t) \/ e = t
      /\ InOrder(Append(q, e), s, t) <=> InOrder(q, s, t) \/ (Has(q, s) /\ e = t)
      /\ Has(u \o q, t) <=> Has(q, t) \/ e = t
      /\ InOrder(u \o q, s, t) <=> InOrder(q, s, t) \/ (e = s /\ Has(q, t))
  BY <1>1, <1>2, <1>3, <1>4
<1>. QED
  BY <1>5 DEF u

\* Taking the head.
LEMMA OrderTail ==
    ASSUME NEW q \in Seq(Tasks), q # <<>>, NEW s, NEW t
    PROVE  /\ Head(q) \in Tasks /\ Tail(q) \in Seq(Tasks)
           /\ Has(q, t) <=> Head(q) = t \/ Has(Tail(q), t)
           /\ InOrder(q, s, t) <=> InOrder(Tail(q), s, t) \/ (Head(q) = s /\ Has(Tail(q), t))
<1>. DEFINE h == Head(q)
            r == Tail(q)
<1>1. h \in Tasks /\ r \in Seq(Tasks) /\ q = <<h>> \o r
  BY HeadTailProperties, ConcatSimplifications
<1>. HIDE DEF h, r
<1>2. /\ Has(<<h>> \o r, t) <=> Has(r, t) \/ h = t
      /\ InOrder(<<h>> \o r, s, t) <=> InOrder(r, s, t) \/ (h = s /\ Has(r, t))
  BY <1>1, OrderGrown, Zenon
<1>3. /\ h \in Tasks /\ r \in Seq(Tasks)
      /\ Has(q, t) <=> h = t \/ Has(r, t)
      /\ InOrder(q, s, t) <=> InOrder(r, s, t) \/ (h = s /\ Has(r, t))
  BY <1>1, <1>2
<1>. QED
  BY <1>3 DEF h, r

\* erase(it): the others keep their order.
LEMMA OrderRemoved ==
    ASSUME NEW q \in Seq(Tasks), NEW k \in DOMAIN q, NEW s, NEW t
    PROVE  /\ Has(RemoveAt(q, k), t) => Has(q, t)
           /\ InOrder(RemoveAt(q, k), s, t) => InOrder(q, s, t)
<1>. DEFINE a == SubSeq(q, 1, k - 1)
            b == SubSeq(q, k + 1, Len(q))
            n == Len(q)
<1>0. k \in 1 .. n /\ n \in Nat /\ DOMAIN q = 1 .. n
  OBVIOUS
<1>1. /\ a \in Seq(Tasks) /\ DOMAIN a = 1 .. k - 1 /\ \A i \in 1 .. k - 1 : a[i] = q[i]
      /\ b \in Seq(Tasks) /\ DOMAIN b = 1 .. n - k /\ \A i \in 1 .. n - k : b[i] = q[i + k]
  <2>1. a \in Seq(Tasks) /\ Len(a) = k - 1 /\ \A i \in 1 .. k - 1 : a[i] = q[i]
    BY <1>0, SubSeqProperties
  <2>2. b \in Seq(Tasks) /\ Len(b) = n - k
    BY <1>0, SubSeqProperties
  <2>3. \A i \in 1 .. n - k : b[i] = q[i + k]
    BY <1>0, SubSeqProperties
  <2>. QED
    BY <2>1, <2>2, <2>3
<1>2. RemoveAt(q, k) = a \o b
  BY DEF RemoveAt
<1>. HIDE DEF a, b, n
<1>3. ASSUME NEW x, Has(a, x) PROVE \E i \in 1 .. n : i < k /\ q[i] = x
  <2>1. PICK i \in 1 .. k - 1 : a[i] = x
    BY <1>1, <1>3 DEF Has
  <2>2. i \in 1 .. n /\ i < k /\ q[i] = x
    BY <1>0, <1>1, <2>1
  <2>. QED
    BY <2>2
<1>4. ASSUME NEW x, Has(b, x) PROVE \E i \in 1 .. n : k < i /\ q[i] = x
  <2>1. PICK i \in 1 .. n - k : b[i] = x
    BY <1>1, <1>4 DEF Has
  <2>2. i + k \in 1 .. n /\ k < i + k /\ q[i + k] = x
    BY <1>0, <1>1, <2>1
  <2>. QED
    BY <2>2
<1>5. InOrder(a, s, t) => InOrder(q, s, t)
  BY <1>0, <1>1 DEF InOrder
<1>6. InOrder(b, s, t) => InOrder(q, s, t)
  <2>1. ASSUME NEW i \in 1 .. n - k, NEW j \in 1 .. n - k, i < j, b[i] = s, b[j] = t PROVE InOrder(q, s, t)
    <3>1. i + k \in 1 .. n /\ j + k \in 1 .. n /\ i + k < j + k /\ q[i + k] = s /\ q[j + k] = t
      BY <1>0, <1>1, <2>1
    <3>. QED
      BY <1>0, <3>1 DEF InOrder
  <2>. QED
    BY <1>1, <2>1 DEF InOrder
<1>7. Has(a, s) /\ Has(b, t) => InOrder(q, s, t)
  BY <1>0, <1>3, <1>4 DEF InOrder
<1>8. Has(a, t) \/ Has(b, t) => Has(q, t)
  BY <1>0, <1>3, <1>4 DEF Has
<1>9. /\ Has(a \o b, t) <=> Has(a, t) \/ Has(b, t)
      /\ InOrder(a \o b, s, t) <=> InOrder(a, s, t) \/ InOrder(b, s, t) \/ (Has(a, s) /\ Has(b, t))
  BY <1>1, OrderJoined, Zenon
<1>. QED
  BY <1>2, <1>5, <1>6, <1>7, <1>8, <1>9

\* cleanup_pending_task()
LEMMA OrderCleaned ==
    ASSUME NEW q \in Seq(Tasks), NEW c, NEW s, NEW t
    PROVE  /\ Has(Cleanup(q, c), t) => Has(q, t)
           /\ InOrder(Cleanup(q, c), s, t) => InOrder(q, s, t)
<1>. DEFINE found == {i \in DOMAIN q : IsTaskOf(q[i], c)}
<1>1. CASE found = {}
  BY <1>1 DEF Cleanup
<1>2. CASE found # {}
  <2>1. found \in SUBSET Nat
    OBVIOUS
  <2>2. First(found) \in found
    <3>. HIDE DEF found
    <3>. QED
      BY <1>2, <2>1, FirstIsLeast
  <2>3. PICK k \in DOMAIN q : Cleanup(q, c) = RemoveAt(q, k)
    BY <1>2, <2>2 DEF Cleanup
  <2>. QED
    BY <2>3, OrderRemoved
<1>. QED
  BY <1>1, <1>2

\* What is in a queue at most once stands in no two places.
LEMMA OrderUnique ==
    ASSUME NEW q \in Seq(Tasks), NEW s, NEW t
    PROVE  /\ Has(q, s) <=> Matches(q, {s}) >= 1
           /\ Matches(q, {s}) <= 1 => ~InOrder(q, s, s)
           /\ Matches(q, {s}) <= 1 /\ Matches(q, {t}) <= 1 => ~(InOrder(q, s, t) /\ InOrder(q, t, s))
           /\ InOrder(q, s, t) => Has(q, s) /\ Has(q, t)
<1>. DEFINE X == {s}
            Y == {t}
<1>1. /\ Matches(q, X) = 0 <=> \A i \in DOMAIN q : q[i] \notin X
      /\ Matches(q, X) <= 1 => \A i, j \in DOMAIN q : q[i] \in X /\ q[j] \in X => i = j
      /\ Matches(q, X) \in Nat
  <2>. HIDE DEF X
  <2>. QED
    BY MatchesFound, MatchesNat
<1>2. Matches(q, Y) <= 1 => \A i, j \in DOMAIN q : q[i] \in Y /\ q[j] \in Y => i = j
  <2>. HIDE DEF Y
  <2>. QED
    BY MatchesFound
<1>3. DOMAIN q \subseteq Nat
  OBVIOUS
<1>4. Has(q, s) <=> Matches(q, X) >= 1
  <2>1. Has(q, s) <=> ~\A i \in DOMAIN q : q[i] \notin X
    BY DEF Has
  <2>. HIDE DEF X
  <2>. QED
    BY <1>1, <2>1
<1>5. Matches(q, X) <= 1 => ~InOrder(q, s, s)
  BY <1>1, <1>3 DEF InOrder
<1>6. ASSUME Matches(q, X) <= 1, Matches(q, Y) <= 1, InOrder(q, s, t), InOrder(q, t, s) PROVE FALSE
  <2>1. PICK i \in DOMAIN q, j \in DOMAIN q : i < j /\ q[i] = s /\ q[j] = t
    BY <1>6 DEF InOrder
  <2>2. PICK k \in DOMAIN q, l \in DOMAIN q : k < l /\ q[k] = t /\ q[l] = s
    BY <1>6 DEF InOrder
  <2>3. i = l /\ j = k
    BY <1>1, <1>2, <1>6, <2>1, <2>2
  <2>. QED
    BY <1>3, <2>1, <2>2, <2>3
<1>7. InOrder(q, s, t) => Has(q, s) /\ Has(q, t)
  BY DEF InOrder, Has
<1>. QED
  BY <1>4, <1>5, <1>6, <1>7

\* Among the tasks ahead: declined, in the worker's hand, or in the queue.
Here(s) == Has(unhandled, s) \/ hand["worker"] = s \/ Has(tasks, s)
Line(s, t) ==
    \/ InOrder(unhandled, s, t) \/ InOrder(tasks, s, t)
    \/ Has(unhandled, s) /\ (hand["worker"] = t \/ Has(tasks, t))
    \/ hand["worker"] = s /\ Has(tasks, t)

\* The order of the tasks ahead, place by place.
LEMMA BeforeIsLine ==
    ASSUME QueueShape, HandShape, NEW c \in Clients, NEW d \in Clients
    PROVE  Before(c, d) <=> Line(TaskOf(c), TaskOf(d))
<1>. DEFINE s == TaskOf(c)
            t == TaskOf(d)
            w == hand["worker"]
<1>0. s \in Tasks /\ t \in Tasks /\ w \in Tasks \cup {NoTask} /\ s # NoTask /\ t # NoTask
  BY NoTaskApart DEF Tasks, HandShape
<1>1. InWorker \in Seq(Tasks)
  BY <1>0 DEF InWorker
<1>2. /\ ~InOrder(InWorker, s, t)
      /\ Has(InWorker, s) <=> w = s
      /\ Has(InWorker, t) <=> w = t
  BY <1>0, OrderSmall DEF InWorker
<1>. DEFINE p == unhandled \o InWorker
<1>3. /\ p \in Seq(Tasks)
      /\ InOrder(p, s, t) <=> InOrder(unhandled, s, t) \/ (Has(unhandled, s) /\ w = t)
      /\ Has(p, s) <=> Has(unhandled, s) \/ w = s
  <2>. HIDE DEF s, t
  <2>1. /\ p \in Seq(Tasks)
        /\ InOrder(p, s, t) <=> InOrder(unhandled, s, t) \/ InOrder(InWorker, s, t) \/ (Has(unhandled, s) /\ Has(InWorker, t))
    BY <1>1, OrderJoined, Zenon DEF QueueShape
  <2>2. Has(p, s) <=> Has(unhandled, s) \/ Has(InWorker, s)
    BY <1>1, OrderJoined, Zenon DEF QueueShape
  <2>. QED
    BY <1>2, <2>1, <2>2
<1>4. Ahead \in Seq(Tasks) /\ (InOrder(Ahead, s, t) <=> Line(s, t))
  <2>. HIDE DEF s, t, p
  <2>1. /\ p \o tasks \in Seq(Tasks)
        /\ InOrder(p \o tasks, s, t) <=> InOrder(p, s, t) \/ InOrder(tasks, s, t) \/ (Has(p, s) /\ Has(tasks, t))
    BY <1>3, OrderJoined, Zenon DEF QueueShape
  <2>2. Ahead = p \o tasks
    BY DEF Ahead, p
  <2>. QED
    BY <1>3, <2>1, <2>2 DEF Line
<1>5. Before(c, d) <=> InOrder(Ahead, s, t)
  <2>1. \A i \in DOMAIN Ahead : Ahead[i] \in Tasks
    BY <1>4
  <2>2. \A i \in DOMAIN Ahead : (IsTaskOf(Ahead[i], c) <=> Ahead[i] = s) /\ (IsTaskOf(Ahead[i], d) <=> Ahead[i] = t)
    BY <2>1, OwnTask
  <2>. QED
    BY <2>2 DEF Before, InOrder
<1>. QED
  BY <1>4, <1>5

\* A task is held once, and not at all before it is posted.
LEMMA HeldOnce ==
    ASSUME TaskQueueInv, NEW c \in Clients
    PROVE  Held({TaskOf(c)}) <= 1 /\ (pc[c] = "ready" => Held({TaskOf(c)}) = 0)
<1>1. QueueShape /\ HandShape /\ ResultShape /\ ClientShape
  BY TypeParts DEF TaskQueueInv
<1>2. AccountOf(c)
  BY <1>1, AccountByClient DEF AccountParts, TaskQueueInv
<1>3. Holders(c) = Held({TaskOf(c)}) + Runs(slot, c)
  BY <1>1, HoldersSum
<1>4. Held({TaskOf(c)}) \in Nat /\ Runs(slot, c) \in Nat
  BY <1>1, HeldNat, RunsNat
<1>5. Matches(results[c], Final) \in Nat
  BY <1>1, AnswersAreFinal, MatchesNat
<1>6. pc[c] \in {"new", "asleep", "ready", "recv", "cancel", "done", "gone"}
  BY <1>1 DEF ClientShape
<1>. QED
  BY <1>2, <1>3, <1>4, <1>5, <1>6 DEF AccountOf, Totals

\* So it stands in one place.
LEMMA HeldApart ==
    ASSUME QueueShape, NEW s, Held({s}) <= 1
    PROVE  /\ Matches(tasks, {s}) <= 1 /\ Matches(unhandled, {s}) <= 1
           /\ Has(tasks, s) => ~Has(unhandled, s) /\ hand["worker"] # s
           /\ Has(unhandled, s) => hand["worker"] # s
           /\ Has(deferred, s) => ~Here(s)
<1>. DEFINE X == {s}
<1>1. /\ Matches(tasks, X) \in Nat /\ Matches(deferred, X) \in Nat /\ Matches(unhandled, X) \in Nat
      /\ One(hand["main"], X) \in {0, 1} /\ One(hand["worker"], X) \in {0, 1}
  BY HeldNat
<1>2. /\ Has(tasks, s) <=> Matches(tasks, X) >= 1
      /\ Has(deferred, s) <=> Matches(deferred, X) >= 1
      /\ Has(unhandled, s) <=> Matches(unhandled, X) >= 1
  BY OrderUnique DEF QueueShape
<1>3. hand["worker"] = s <=> One(hand["worker"], X) = 1
  BY DEF One
<1>. HIDE DEF X
<1>4. Matches(tasks, X) + Matches(deferred, X) + Matches(unhandled, X)
      + One(hand["main"], X) + One(hand["worker"], X) <= 1
  BY DEF Held, X
<1>5. PICK a \in Nat, b \in Nat, e \in Nat, m \in {0, 1}, w \in {0, 1} :
          /\ a = Matches(tasks, X) /\ b = Matches(deferred, X) /\ e = Matches(unhandled, X)
          /\ m = One(hand["main"], X) /\ w = One(hand["worker"], X)
  BY <1>1
<1>6. a + b + e + m + w <= 1
  BY <1>4, <1>5
<1>7. /\ Matches(tasks, X) <= 1 /\ Matches(unhandled, X) <= 1
      /\ Has(tasks, s) => ~Has(unhandled, s) /\ hand["worker"] # s
      /\ Has(unhandled, s) => hand["worker"] # s
      /\ Has(deferred, s) => ~Here(s)
  BY <1>2, <1>3, <1>5, <1>6 DEF Here
<1>. QED
  BY <1>7 DEF X

\* No two tasks stand before each other.
LEMMA LineApart ==
    ASSUME QueueShape, NEW s, NEW t, Held({s}) <= 1, Held({t}) <= 1
    PROVE  /\ Line(s, t) => Here(s) /\ Here(t)
           /\ ~(Line(s, t) /\ Line(t, s))
<1>1. /\ Matches(tasks, {s}) <= 1 /\ Matches(unhandled, {s}) <= 1
      /\ Has(tasks, s) => ~Has(unhandled, s) /\ hand["worker"] # s
      /\ Has(unhandled, s) => hand["worker"] # s
  BY HeldApart
<1>2. /\ Matches(tasks, {t}) <= 1 /\ Matches(unhandled, {t}) <= 1
      /\ Has(tasks, t) => ~Has(unhandled, t) /\ hand["worker"] # t
      /\ Has(unhandled, t) => hand["worker"] # t
  BY HeldApart
<1>3. tasks \in Seq(Tasks) /\ unhandled \in Seq(Tasks)
  BY DEF QueueShape
<1>4. /\ ~(InOrder(tasks, s, t) /\ InOrder(tasks, t, s))
      /\ ~(InOrder(unhandled, s, t) /\ InOrder(unhandled, t, s))
  BY <1>1, <1>2, <1>3, OrderUnique
<1>5. /\ InOrder(tasks, s, t) => Has(tasks, s) /\ Has(tasks, t)
      /\ InOrder(unhandled, s, t) => Has(unhandled, s) /\ Has(unhandled, t)
      /\ InOrder(tasks, t, s) => Has(tasks, s) /\ Has(tasks, t)
      /\ InOrder(unhandled, t, s) => Has(unhandled, s) /\ Has(unhandled, t)
  BY <1>3, OrderUnique
<1>. QED
  BY <1>1, <1>2, <1>4, <1>5, Zenon DEF Line, Here

\* The step puts no two of the tasks ahead the other way round.
KeepsLine(s, t) == Here(s) /\ Here(t) /\ Line(s, t)' => Line(s, t)

\* pop_deferred_task() puts a task first that was not ahead.
LEMMA DeferredFirst ==
    ASSUME QueueShape, NEW x, PopDeferred(x)
    PROVE  \/ tasks' = tasks
           \/ \E e \in Tasks : Has(deferred, e) /\ tasks' = <<e>> \o tasks
<1>. DEFINE fits == {i \in DOMAIN deferred : WantsSlot(deferred[i], x)}
<1>1. CASE deferred = <<>>
  BY <1>1 DEF PopDeferred
<1>2. CASE deferred # <<>>
  <2>1. DOMAIN deferred = 1 .. Len(deferred) /\ Len(deferred) \in Nat \ {0} /\ deferred \in Seq(Tasks)
    BY <1>2 DEF QueueShape
  <2>2. fits # {} => First(fits) \in fits
    <3>1. fits \in SUBSET Nat
      BY <2>1
    <3>. HIDE DEF fits
    <3>. QED
      BY <3>1, FirstIsLeast
  <2>3. PICK i \in DOMAIN deferred : tasks' = <<deferred[i]>> \o tasks
    <3>1. CASE fits = {}
      <4>1. 1 \in DOMAIN deferred /\ tasks' = <<deferred[1]>> \o tasks
        BY <1>2, <2>1, <3>1 DEF PopDeferred
      <4>. QED
        BY <4>1
    <3>2. CASE fits # {}
      BY <1>2, <2>2, <3>2 DEF PopDeferred
    <3>. QED
      BY <3>1, <3>2
  <2>. DEFINE e == deferred[i]
  <2>4. e \in Tasks /\ Has(deferred, e) /\ tasks' = <<e>> \o tasks
    BY <2>1, <2>3 DEF Has
  <2>. HIDE DEF e
  <2>. QED
    BY <2>4
<1>. QED
  BY <1>1, <1>2

\* While nothing is declined and the worker holds nothing.
LEMMA ReleaseKeepsLine ==
    ASSUME QueueShape, NEW s, NEW t, Held({s}) <= 1, NEW x, PopDeferred(x),
           unhandled = <<>>, hand["worker"] = NoTask, hand'["worker"] = NoTask, s # NoTask, t # NoTask
    PROVE  KeepsLine(s, t)
<1>1. unhandled' = <<>>
  BY DEF PopDeferred
<1>2. Line(s, t)' => InOrder(tasks', s, t)
  BY <1>1, OrderSmall DEF Line
<1>3. CASE tasks' = tasks
  BY <1>2, <1>3 DEF KeepsLine, Line
<1>4. ASSUME NEW e \in Tasks, Has(deferred, e), tasks' = <<e>> \o tasks PROVE KeepsLine(s, t)
  <2>1. InOrder(tasks', s, t) => InOrder(tasks, s, t) \/ e = s
    BY <1>4, OrderGrown DEF QueueShape
  <2>2. Has(deferred, s) => ~Here(s)
    BY HeldApart
  <2>. QED
    BY <1>2, <1>4, <2>1, <2>2 DEF KeepsLine, Line
<1>. QED
  BY <1>3, <1>4, DeferredFirst

\* What changes none of the three places.
LEMMA SameLine ==
    ASSUME UNCHANGED <<tasks, unhandled>>, hand'["worker"] = hand["worker"], NEW s, NEW t
    PROVE  KeepsLine(s, t)
BY DEF KeepsLine, Line

\* A thread takes the head of the queue.
LEMMA PopKeepsLine ==
    ASSUME QueueShape, HandShape, ThreadInv, NEW s \in Tasks, NEW t \in Tasks, MainPop \/ WorkerPop
    PROVE  KeepsLine(s, t)
<1>1. /\ tasks # <<>> /\ tasks' = Tail(tasks) /\ unhandled' = unhandled
      /\ Has(tasks, t) <=> Head(tasks) = t \/ Has(Tail(tasks), t)
      /\ InOrder(tasks, s, t) <=> InOrder(Tail(tasks), s, t) \/ (Head(tasks) = s /\ Has(Tail(tasks), t))
  <2>1. tasks # <<>> /\ tasks' = Tail(tasks) /\ unhandled' = unhandled
    BY DEF MainPop, WorkerPop, PopTask
  <2>. QED
    BY <2>1, OrderTail DEF QueueShape
<1>2. CASE MainPop
  <2>1. hand'["worker"] = hand["worker"]
    BY <1>2 DEF MainPop, PopTask, HandShape
  <2>. QED
    BY <1>1, <2>1 DEF KeepsLine, Line
<1>3. CASE WorkerPop
  <2>1. hand["worker"] = NoTask /\ hand'["worker"] = Head(tasks)
    BY <1>3 DEF WorkerPop, PopTask, HandShape, ThreadInv
  <2>. QED
    BY <1>1, <2>1, NoTaskApart DEF KeepsLine, Line
<1>. QED
  BY <1>2, <1>3

\* The worker answers its task, or puts it behind those it declined before.
LEMMA WorkerKeepsLine ==
    ASSUME QueueShape, HandShape, ThreadInv, NEW s \in Tasks, NEW t \in Tasks, WorkerHandle
    PROVE  KeepsLine(s, t)
<1>0. NoTask \notin {s, t} /\ unhandled \in Seq(Tasks)
  BY NoTaskApart DEF QueueShape
<1>1. hand["worker"] \in Tasks /\ hand'["worker"] = NoTask /\ tasks' = tasks
  BY DEF WorkerHandle, HandShape, ThreadInv
<1>2. CASE unhandled' = unhandled
  BY <1>0, <1>1, <1>2 DEF KeepsLine, Line
<1>3. CASE unhandled' = Append(unhandled, hand["worker"])
  <2>1. /\ Has(unhandled', s) <=> Has(unhandled, s) \/ hand["worker"] = s
        /\ InOrder(unhandled', s, t) <=> InOrder(unhandled, s, t) \/ (Has(unhandled, s) /\ hand["worker"] = t)
    BY <1>0, <1>1, <1>3, OrderGrown
  <2>. QED
    BY <1>0, <1>1, <2>1 DEF KeepsLine, Line
<1>. QED
  BY <1>2, <1>3 DEF WorkerHandle

\* The declined tasks go back in front.
LEMMA JoinKeepsLine ==
    ASSUME QueueShape, HandShape, ThreadInv, NEW s \in Tasks, NEW t \in Tasks, JoinWorker
    PROVE  KeepsLine(s, t)
<1>1. CASE busy
  BY <1>1, SameLine DEF JoinWorker, queueVars
<1>2. CASE ~busy
  <2>1. hand["worker"] = NoTask /\ hand' = hand /\ tasks' = unhandled \o tasks /\ unhandled' = <<>>
    BY <1>2 DEF JoinWorker, PutBackUnhandled, ThreadInv
  <2>2. InOrder(tasks', s, t) <=> InOrder(unhandled, s, t) \/ InOrder(tasks, s, t) \/ (Has(unhandled, s) /\ Has(tasks, t))
    BY <2>1, OrderJoined DEF QueueShape
  <2>3. ~InOrder(unhandled', s, t) /\ ~Has(unhandled', s) /\ hand'["worker"] # s
    BY <2>1, OrderSmall, NoTaskApart
  <2>. QED
    BY <2>2, <2>3 DEF KeepsLine, Line
<1>. QED
  BY <1>1, <1>2

\* A new task is put at an end: it was not ahead before.
LEMMA PostKeepsLine ==
    ASSUME QueueShape, NEW s \in Tasks, NEW t \in Tasks, NEW e \in Tasks, NEW front, Post(e, front),
           ~Here(e) \/ e \notin {s, t}, UNCHANGED <<unhandled, hand>>
    PROVE  KeepsLine(s, t)
<1>1. tasks' = <<e>> \o tasks \/ tasks' = Append(tasks, e)
  BY DEF Post
<1>2. ASSUME Here(s), Here(t)
      PROVE  (InOrder(tasks', s, t) => InOrder(tasks, s, t)) /\ (Has(tasks', t) => Has(tasks, t))
  <2>1. e # s /\ e # t
    BY <1>2
  <2>2. CASE tasks' = <<e>> \o tasks
    BY <2>1, <2>2, OrderGrown DEF QueueShape
  <2>3. CASE tasks' = Append(tasks, e)
    BY <2>1, <2>3, OrderGrown DEF QueueShape
  <2>. QED
    BY <1>1, <2>2, <2>3
<1>. QED
  BY <1>2 DEF KeepsLine, Line

\* A CANCEL goes first, and its target out of the queues.
LEMMA CancelKeepsLine ==
    ASSUME QueueShape, NEW s \in Tasks, NEW t \in Tasks, NEW c \in Clients, ClientCancel(c), CancelOf(c) \notin {s, t}
    PROVE  KeepsLine(s, t)
<1>. DEFINE q == Cleanup(tasks, c)
<1>1. /\ tasks' = <<CancelOf(c)>> \o q /\ unhandled' = Cleanup(unhandled, c) /\ hand' = hand
  BY DEF ClientCancel
<1>2. q \in Seq(Tasks) /\ CancelOf(c) \in Tasks
  BY CleanupEffect DEF QueueShape, Tasks
<1>3. (Has(q, t) => Has(tasks, t)) /\ (InOrder(q, s, t) => InOrder(tasks, s, t))
  BY OrderCleaned DEF QueueShape
<1>4. (Has(unhandled', s) => Has(unhandled, s)) /\ (InOrder(unhandled', s, t) => InOrder(unhandled, s, t))
  BY <1>1, OrderCleaned DEF QueueShape
<1>. HIDE DEF q
<1>5. (Has(tasks', t) => Has(q, t)) /\ (InOrder(tasks', s, t) => InOrder(q, s, t))
  BY <1>1, <1>2, OrderGrown
<1>. QED
  BY <1>1, <1>3, <1>4, <1>5 DEF KeepsLine, Line

\* No step of the server or of a client reorders the tasks ahead.
LEMMA LineStep ==
    ASSUME TaskQueueInv, [Next]_vars, NEW c \in Clients, NEW d \in Clients
    PROVE  KeepsLine(TaskOf(c), TaskOf(d))
<1>. DEFINE s == TaskOf(c)
            t == TaskOf(d)
<1>0. /\ QueueShape /\ HandShape /\ ThreadInv
      /\ s \in Tasks /\ t \in Tasks /\ s # NoTask /\ t # NoTask
      /\ Held({s}) <= 1 /\ Held({t}) <= 1
  BY TypeParts, NoTaskApart, HeldOnce DEF TaskQueueInv, Tasks
<1>1. NextResponse \in Tasks \ {s, t} /\ \A x \in Clients : CancelOf(x) \in Tasks \ {s, t}
  BY ClientsAssumption DEF Tasks, NextResponse, CancelOf, TaskOf, TypeOf
<1>2. \A x \in Realtime : AudioOf(x) \in Tasks \ {s, t}
  BY DEF Tasks, AudioOf, TaskOf, TypeOf
<1>3. main \notin {"decode", "join"} => unhandled = <<>> /\ hand["worker"] = NoTask
  BY <1>0 DEF ThreadInv
<1>4. ASSUME NEW x \in Clients, pc[x] = "ready" PROVE ~Here(TaskOf(x))
  <2>. DEFINE e == TaskOf(x)
  <2>1. Held({e}) = 0
    BY <1>4, HeldOnce
  <2>. HIDE DEF e
  <2>2. /\ Matches(tasks, {e}) \in Nat /\ Matches(deferred, {e}) \in Nat /\ Matches(unhandled, {e}) \in Nat
        /\ One(hand["main"], {e}) \in {0, 1} /\ One(hand["worker"], {e}) \in {0, 1}
    BY <1>0, HeldNat
  <2>3. Matches(tasks, {e}) = 0 /\ Matches(unhandled, {e}) = 0 /\ One(hand["worker"], {e}) = 0
    <3>1. PICK a \in Nat, b \in Nat, u \in Nat, m \in {0, 1}, w \in {0, 1} :
              /\ a = Matches(tasks, {e}) /\ b = Matches(deferred, {e}) /\ u = Matches(unhandled, {e})
              /\ m = One(hand["main"], {e}) /\ w = One(hand["worker"], {e})
      BY <2>2
    <3>2. a + b + u + m + w = 0
      BY <2>1, <3>1 DEF Held
    <3>3. a = 0 /\ u = 0 /\ w = 0
      BY <3>2
    <3>. QED
      BY <3>1, <3>3, Zenon
  <2>4. ~Has(tasks, e) /\ ~Has(unhandled, e)
    BY <1>0, <2>3, OrderUnique DEF QueueShape
  <2>5. ~Here(e)
    BY <2>3, <2>4 DEF Here, One
  <2>. QED
    BY <2>5 DEF e
<1>5. ASSUME NEW x, PopDeferred(x), main \notin {"decode", "join"}, hand'["worker"] = hand["worker"]
      PROVE  KeepsLine(s, t)
  <2>. HIDE DEF s, t
  <2>. QED
    BY <1>0, <1>3, <1>5, ReleaseKeepsLine
<1>. SUFFICES KeepsLine(s, t)
  OBVIOUS
<1>. HIDE DEF s, t
<1>6. CASE MainPop \/ WorkerPop
  BY <1>0, <1>6, PopKeepsLine
<1>7. CASE WorkerHandle
  BY <1>0, <1>7, WorkerKeepsLine
<1>8. CASE JoinWorker
  BY <1>0, <1>8, JoinKeepsLine
<1>9. CASE PostNextResponse
  BY <1>0, <1>1, <1>9, PostKeepsLine DEF PostNextResponse
<1>10. ASSUME NEW x \in Clients, ClientPost(x) PROVE KeepsLine(s, t)
  <2>1. pc[x] = "ready" /\ Post(TaskOf(x), x \in Scrapers) /\ UNCHANGED <<unhandled, hand>> /\ TaskOf(x) \in Tasks
    BY <1>10 DEF ClientPost, Tasks
  <2>. QED
    BY <1>0, <1>4, <2>1, PostKeepsLine
<1>11. ASSUME NEW x \in Clients, ClientCancel(x) PROVE KeepsLine(s, t)
  BY <1>0, <1>1, <1>11, CancelKeepsLine
<1>12. CASE HandleCancel \/ PreDecodeError \/ AudioStep \/ AbortSlot \/ PostDecode \/ RequeueDeferred
  <2>1. main \notin {"decode", "join"} /\ hand'["worker"] = hand["worker"]
    BY <1>0, <1>12 DEF HandleCancel, Processed, PreDecodeError, AudioStep, AbortSlot, PostDecode, RequeueDeferred, HandShape
  <2>2. UNCHANGED queueVars \/ \E x : PopDeferred(x)
    BY <1>12 DEF HandleCancel, PreDecodeError, AudioStep, AbortSlot, PostDecode, RequeueDeferred, FailSlot, Release
  <2>. QED
    BY <1>5, <2>1, <2>2, SameLine DEF queueVars
<1>13. CASE LaunchTask \/ LaunchFails \/ DeferTask \/ ServeAtOnce \/ HandleAudio \/ HandleNextResponse
  <2>1. UNCHANGED <<tasks, unhandled>> /\ hand'["worker"] = hand["worker"]
    BY <1>0, <1>13 DEF LaunchTask, LaunchFails, DeferTask, ServeAtOnce, HandleAudio, HandleNextResponse, Processed, Defer,
       queueVars, HandShape
  <2>. QED
    BY <2>1, SameLine
<1>14. CASE MainDrained \/ AllIdle \/ PreDecodeThrows \/ EmptyBatch \/ BeginYield \/ EndYield \/ PostDecodeDone
            \/ IdleOver \/ EnterSleep \/ LeaveSleep \/ IdleTimeout \/ Terminate
            \/ WorkerStart \/ WorkerDrained \/ WorkerCheck \/ WorkerWoken \/ WorkerFinish \/ UNCHANGED vars
  <2>1. UNCHANGED <<tasks, unhandled, hand>>
    BY <1>14 DEF MainDrained, AllIdle, PreDecodeThrows, EmptyBatch, BeginYield, EndYield, PostDecodeDone,
       IdleOver, EnterSleep, LeaveSleep, IdleTimeout, Terminate, WorkerStart, WorkerDrained, WorkerCheck,
       WorkerWoken, WorkerFinish, vars, queueVars
  <2>. QED
    BY <2>1, SameLine
<1>15. ASSUME NEW x \in Clients, ClientStart(x) \/ ClientWoken(x) \/ ClientReceive(x) \/ ClientGivesUp(x)
       PROVE  KeepsLine(s, t)
  <2>1. UNCHANGED <<tasks, unhandled, hand>>
    BY <1>15 DEF ClientStart, ClientWoken, ClientReceive, ClientGivesUp, queueVars
  <2>. QED
    BY <2>1, SameLine
<1>16. ASSUME NEW x \in Clients, ClientAudio(x) PROVE KeepsLine(s, t)
  <2>1. x \in Realtime /\ Post(AudioOf(x), FALSE) /\ UNCHANGED <<unhandled, hand>>
    BY <1>16 DEF ClientAudio
  <2>. QED
    BY <1>0, <1>2, <2>1, PostKeepsLine
<1>. QED
  BY <1>6, <1>7, <1>8, <1>9, <1>10, <1>11, <1>12, <1>13, <1>14, <1>15, <1>16
     DEF Next, MainStep, WorkerStep, ClientStep, ProcessSingleTask

\* The order of the tasks ahead in every state of the invariant.
LEMMA InvLine == TaskQueueInv => \A c, d \in Clients : Before(c, d) <=> Line(TaskOf(c), TaskOf(d))
BY TypeParts, BeforeIsLine DEF TaskQueueInv

---------------------------------------------------------------------------
(* The theorems.                                                           *)

\* The server starts with nothing to do.
LEMMA InvInit == Init => TaskQueueInv
<1>. SUFFICES ASSUME Init PROVE TaskQueueInv
  OBVIOUS
<1>1. TypeOK
  <2>1. QueueShape /\ PlaceShape /\ HandShape
    BY DEF Init, QueueShape, PlaceShape, HandShape
  <2>5. FlagShape
    <3>1. \A b \in {running, sleeping, wakeReq, idle, busy, yielding} : b = TRUE \/ b = FALSE
      BY Zenon DEF Init
    <3>. QED
      BY <3>1, Zenon DEF FlagShape
  <2>2. FreeSlot \in SlotStates
    BY BoundsAssumption DEF FreeSlot, SlotStates
  <2>3. SlotShape
    BY <2>2 DEF Init, SlotShape
  <2>4. ResultShape /\ ClientShape
    BY DEF Init, ResultShape, ClientShape
  <2>. QED
    BY <2>1, <2>3, <2>4, <2>5, TypeParts
<1>2. Busy = {} /\ tasks = <<>> /\ deferred = <<>> /\ unhandled = <<>>
      /\ hand["main"] = NoTask /\ hand["worker"] = NoTask
  BY DEF Init, Busy, Processing, FreeSlot
<1>3. ThreadInv /\ RestInv /\ WaitInv /\ LoopGoesOn /\ SleepsIdle
  BY <1>2 DEF Init, ThreadInv, RestInv, WaitInv, LoopGoesOn, SleepsIdle, FreeSlot
<1>4. \A X \in SUBSET Tasks : Held(X) = 0
  <2>1. ASSUME NEW X \in SUBSET Tasks PROVE Held(X) = 0
    <3>1. Matches(<<>>, X) = 0 /\ One(NoTask, X) = 0
      BY MatchesSmall, NoneOfX
    <3>. QED
      BY <1>2, <3>1 DEF Held
  <2>. QED
    BY <2>1
<1>5. CancelInv
  BY <1>4 DEF CancelInv, Tasks
<1>6. ClientShape /\ ResultShape /\ QueueShape /\ HandShape
  BY <1>1, TypeParts
<1>7. ASSUME NEW c \in Clients PROVE AccountOf(c) /\ AnswerOf(c)
  <2>1. pc[c] = "new" /\ results[c] = <<>> /\ c \notin waiting
    BY DEF Init
  <2>2. Runs(slot, c) = 0
    <3>1. {s \in Slots : slot[s].task = c} = {}
      BY ClientsAssumption DEF Init, FreeSlot
    <3>. QED
      BY <3>1, FS_EmptySet DEF Runs
  <2>3. Holders(c) = Held({TaskOf(c)}) + Runs(slot, c)
    BY <1>6, HoldersSum
  <2>4. Held({TaskOf(c)}) = 0
    BY <1>4 DEF Tasks
  <2>5. Holders(c) = 0
    BY <2>2, <2>3, <2>4
  <2>. QED
    BY <2>1, <2>5 DEF AccountOf, AnswerOf
<1>8. AnswerInv /\ TaskAccounted
  <2>1. AccountParts
    BY AccountByClient
  <2>. QED
    BY <1>6, <1>7, <2>1 DEF AccountParts, ResultShape
<1>. QED
  BY <1>1, <1>3, <1>5, <1>8 DEF TaskQueueInv

\* Every step keeps the invariant.
LEMMA InvStep == TaskQueueInv /\ [Next]_vars => TaskQueueInv'
BY TypeStep, ThreadStep, RestStep, WaitStep, LoopStep, SleepIdleStep, CancelStep, AccountStep DEF TaskQueueInv

\* In every reachable state.
LEMMA InvHolds == Spec => []TaskQueueInv
BY InvInit, InvStep, PTL DEF Spec

\* Every variable keeps its type: slots run generations only (a slot operation
\* never occupies one), and a queue holds posted tasks and nothing else.
THEOREM TaskQueueTypeCorrect == Spec => []TypeOK
<1>1. TaskQueueInv => TypeOK
  BY DEF TaskQueueInv
<1>. QED
  BY <1>1, InvHolds, PTL

\* No task is lost, queued twice or answered twice, whatever the interleaving
\* of posts, cancels, deferrals, yields and the release of slots: a waiting
\* reader's task is in exactly one place or its only answer is on the way.  A
\* realtime session the server may have slept under is in one place at most.
THEOREM TaskQueueAccounts == Spec => []TaskAccounted
<1>1. TaskQueueInv => TaskAccounted
  BY DEF TaskQueueInv
<1>. QED
  BY <1>1, InvHolds, PTL

\* queue_results never holds a result that nobody will fetch, although send()
\* and stop() race and a cancelled task may still be answered.
THEOREM TaskQueueNoOrphan == Spec => []NoOrphanResult
<1>1. TaskQueueInv => NoOrphanResult
  BY DEF TaskQueueInv, AnswerInv
<1>. QED
  BY <1>1, InvHolds, PTL

\* start_loop() enters the sleeping state, in which the context is freed, only when
\* no slot has work to do, the worker is at rest and no task in hand.  That leaves
\* the realtime sessions that wait for audio: they are processing, and are slept under.
THEOREM TaskQueueSleepsIdle == Spec => []SleepsIdle
<1>1. TaskQueueInv => SleepsIdle
  BY DEF TaskQueueInv
<1>. QED
  BY <1>1, InvHolds, PTL

\* While yield_to_queue() decodes on the main thread, no step of the worker or
\* of a client touches a slot.
THEOREM TaskQueueSlotsStill == Spec => SlotsStillWhileDecoding
<1>1. [Next]_vars => (main = "decode" => UNCHANGED slotVars)
  BY SlotsStill
<1>. QED
  BY <1>1, PTL DEF Spec, SlotsStillWhileDecoding

\* The worker declines tasks during a decode and yield_to_queue() puts them
\* back: no two requests that both keep waiting change places, whatever is
\* posted, cancelled or taken back from the deferred tasks meanwhile.
THEOREM TaskQueueOrderKept == Spec => OrderKept
<1>1. (TaskQueueInv => \A c, d \in Clients : Before(c, d) <=> Line(TaskOf(c), TaskOf(d)))'
  BY InvLine, PTL
<1>2. TaskQueueInv /\ TaskQueueInv' /\ [Next]_vars => \A c, d \in Clients : Before(c, d) => ~Before(d, c)'
  <2>. SUFFICES ASSUME TaskQueueInv, TaskQueueInv', [Next]_vars, NEW c \in Clients, NEW d \in Clients,
                       Before(c, d), Before(d, c)'
                PROVE  FALSE
    OBVIOUS
  <2>. DEFINE s == TaskOf(c)
              t == TaskOf(d)
  <2>1. QueueShape /\ Held({s}) <= 1 /\ Held({t}) <= 1
    BY TypeParts, HeldOnce DEF TaskQueueInv
  <2>2. Line(s, t)
    BY InvLine
  <2>3. Line(t, s)'
    BY <1>1
  <2>4. KeepsLine(t, s)
    BY LineStep
  <2>. HIDE DEF s, t
  <2>. QED
    BY <2>1, <2>2, <2>3, <2>4, LineApart DEF KeepsLine
<1>. QED
  BY <1>2, InvHolds, PTL DEF Spec, OrderKept
=============================================================================
