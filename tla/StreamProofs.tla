----------------------------- MODULE StreamProofs -----------------------------
(***************************************************************************)
(* Proofs about StreamSession for any number of requests, stops, readers   *)
(* and conversations and any size of the ring.                             *)
(***************************************************************************)
EXTENDS StreamSession, SequenceTheorems, TLAPS

-----------------------------------------------------------------------------
(* Runs of bytes.                                                          *)

\* A run of n bytes is a sequence of length n.
LEMMA BytesSeq ==
    ASSUME NEW k \in Nat, NEW n \in Nat
    PROVE  /\ Bytes(k, n) \in Seq(Nat)
           /\ Len(Bytes(k, n)) = n
           /\ \A i \in 1 .. n : Bytes(k, n)[i] = k + i
           /\ k + n <= MaxBytes => Bytes(k, n) \in Seq(Byte)
<1>1. \A i \in 1 .. n : k + i \in Nat /\ (k + n <= MaxBytes => k + i \in Byte)
  BY StreamAssumption DEF Byte
<1>2. Bytes(k, n) \in [1 .. n -> Nat]
  BY <1>1 DEF Bytes
<1>3. k + n <= MaxBytes => Bytes(k, n) \in [1 .. n -> Byte]
  BY <1>1 DEF Bytes
<1> QED
  BY <1>2, <1>3 DEF Bytes

\* Two runs that meet make one.
LEMMA BytesConcat ==
    ASSUME NEW k \in Nat, NEW n \in Nat, NEW m \in Nat
    PROVE  Bytes(k, n) \o Bytes(k + n, m) = Bytes(k, n + m)
<1>0. k + n \in Nat /\ n + m \in Nat
  OBVIOUS
<1>1. /\ Bytes(k, n) \in Seq(Nat) /\ Len(Bytes(k, n)) = n
      /\ \A i \in 1 .. n : Bytes(k, n)[i] = k + i
  BY BytesSeq
<1>2. /\ Bytes(k + n, m) \in Seq(Nat) /\ Len(Bytes(k + n, m)) = m
      /\ \A i \in 1 .. m : Bytes(k + n, m)[i] = k + n + i
  BY <1>0, BytesSeq
<1>3. /\ Bytes(k, n + m) \in Seq(Nat) /\ Len(Bytes(k, n + m)) = n + m
      /\ \A i \in 1 .. n + m : Bytes(k, n + m)[i] = k + i
  BY <1>0, BytesSeq
<1> DEFINE c == Bytes(k, n) \o Bytes(k + n, m)
<1>4. /\ c \in Seq(Nat) /\ Len(c) = n + m
      /\ \A i \in 1 .. n + m : c[i] = IF i <= n THEN Bytes(k, n)[i] ELSE Bytes(k + n, m)[i - n]
  <2> DEFINE x == Bytes(k, n)
             y == Bytes(k + n, m)
  <2> HIDE DEF x, y
  <2>1. x \in Seq(Nat) /\ y \in Seq(Nat) /\ Len(x) = n /\ Len(y) = m
    BY <1>1, <1>2 DEF x, y
  <2>2. /\ x \o y \in Seq(Nat)
        /\ Len(x \o y) = Len(x) + Len(y)
        /\ \A i \in 1 .. Len(x) + Len(y) : (x \o y)[i] = IF i <= Len(x) THEN x[i] ELSE y[i - Len(x)]
    BY <2>1, ConcatProperties, Zenon
  <2> QED
    BY <2>1, <2>2 DEF x, y
<1>5. \A i \in 1 .. n + m : c[i] = Bytes(k, n + m)[i]
  <2> TAKE i \in 1 .. n + m
  <2>1. CASE i <= n
    BY <2>1, <1>1, <1>3, <1>4
  <2>2. CASE ~(i <= n)
    <3>1. i - n \in 1 .. m
      BY <2>2
    <3>2. Bytes(k + n, m)[i - n] = k + i
      BY <3>1, <1>2
    <3> QED
      BY <2>2, <3>2, <1>3, <1>4
  <2> QED
    BY <2>1, <2>2
<1> HIDE DEF c
<1>6. c = Bytes(k, n + m)
  BY <1>3, <1>4, <1>5, SeqEqual
<1> QED
  BY <1>6 DEF c

\* The end of a run is the run that starts further on.
LEMMA BytesTail ==
    ASSUME NEW k \in Nat, NEW n \in Nat, NEW a \in 0 .. n
    PROVE  SubSeq(Bytes(k, n), a + 1, n) = Bytes(k + a, n - a)
<1>1. /\ Bytes(k, n) \in Seq(Nat) /\ Len(Bytes(k, n)) = n
      /\ \A i \in 1 .. n : Bytes(k, n)[i] = k + i
  BY BytesSeq
<1>0. k + a \in Nat /\ n - a \in Nat
  OBVIOUS
<1>2. /\ Bytes(k + a, n - a) \in Seq(Nat) /\ Len(Bytes(k + a, n - a)) = n - a
      /\ \A i \in 1 .. n - a : Bytes(k + a, n - a)[i] = k + a + i
  BY <1>0, BytesSeq
<1> DEFINE b == Bytes(k, n)
           u == SubSeq(b, a + 1, n)
<1> HIDE DEF b
<1>3. /\ u \in Seq(Nat) /\ Len(u) = n - a
      /\ \A i \in 1 .. n - a : u[i] = k + a + i
  <2>1. \A i \in a + 1 .. n : b[i] \in Nat
    BY <1>1 DEF b
  <2>2. /\ u \in Seq(Nat)
        /\ Len(u) = IF a + 1 <= n THEN n - (a + 1) + 1 ELSE 0
        /\ \A i \in 1 .. n - (a + 1) + 1 : u[i] = b[a + 1 + i - 1]
    BY <2>1, SubSeqProperties, a + 1 \in Int, n \in Int
  <2>3. \A i \in 1 .. n - a : u[i] = b[a + 1 + i - 1] /\ a + 1 + i - 1 = a + i /\ a + i \in 1 .. n
    BY <2>2
  <2>4. \A i \in 1 .. n - a : b[a + i] = k + (a + i)
    BY <2>3, <1>1 DEF b
  <2> QED
    BY <2>2, <2>3, <2>4
<1> HIDE DEF u
<1>4. u = Bytes(k + a, n - a)
  BY <1>2, <1>3, SeqEqual
<1> QED
  BY <1>4 DEF u, b

-----------------------------------------------------------------------------
(* The inductive invariant.                                                *)

\* The ring holds the last bytes of its generation: what it dropped and what it
\* holds add up to what was written, until the session is finalized.
RingHolds ==
    \A s \in Requests :
        /\ buffer[s] = Bytes(prefix_dropped[s], Len(buffer[s]))
        /\ total_size(s) <= MaxBytes
        /\ made[s] + pending[s] <= MaxBytes
        /\ ~done[s] => total_size(s) = made[s]

\* A thread holds a session exactly where its code uses one.
HoldUsed ==
    \A t \in Threads :
        /\ pc[t] \in {"cancel", "finalize", "evict"} => hold[t] \in Requests
        /\ hold[t] # None => pc[t] \in {"cancel", "finalize", "evict"}

\* A reader that reads has a session, and nothing was received before.
ReaderAttached ==
    \A r \in Readers :
        /\ rpc[r] \in {"check", "read"} => rsess[r] \in Requests
        /\ rpc[r] \in {"new", "check"} => got[r] = <<>>
        /\ rpc[r] = "new" => rsess[r] = None

\* Shutdown has nothing left to finalize before it began.
DownLater == ~down.begun => down.left = {}

StreamInv ==
    /\ TypeOK /\ RingHolds /\ HoldUsed /\ ReaderAttached /\ DownLater
    /\ ReplayContiguous /\ OneLivePerConv

\* append keeps the last bytes of the generation, at most Cap of them, and a
\* session that is done as it is.
LEMMA AppendEffect ==
    ASSUME TypeOK, RingHolds,
           NEW s \in Requests, NEW n \in Nat \ {0},
           made[s] + n <= MaxBytes,
           append(s, made[s], n)
    PROVE  /\ buffer' \in [Requests -> Seq(Byte)]
           /\ prefix_dropped' \in [Requests -> 0 .. MaxBytes]
           /\ \A x \in Requests : /\ Len(buffer'[x]) <= Cap
                                  /\ buffer'[x] = Bytes(prefix_dropped'[x], Len(buffer'[x]))
           /\ \A x \in Requests : x # s \/ done[s] => buffer'[x] = buffer[x] /\ prefix_dropped'[x] = prefix_dropped[x]
           /\ ~done[s] => prefix_dropped'[s] + Len(buffer'[s]) = made[s] + n
<1> DEFINE b == buffer[s]
           d == prefix_dropped[s]
           k == made[s]
           len == Len(b)
           newb == buffer'[s]
           newd == prefix_dropped'[s]
<1>1. /\ b \in Seq(Byte) /\ len \in Nat /\ len <= Cap
      /\ d \in Nat /\ k \in Nat /\ d + len <= MaxBytes
      /\ Cap \in Nat \ {0} /\ MaxBytes \in Nat
      /\ buffer \in [Requests -> Seq(Byte)] /\ prefix_dropped \in [Requests -> 0 .. MaxBytes]
      /\ done[s] \in BOOLEAN
      /\ ~done[s] => d + len = k
  BY StreamAssumption DEF TypeOK, RingHolds, total_size
<1>2. b = Bytes(d, len)
  BY DEF RingHolds
<1>0. Cap \in Nat /\ k \in Nat /\ d \in Nat /\ len \in Nat /\ n \in Nat
  BY <1>1
<1>3. CASE done[s]
  BY <1>1, <1>3 DEF append, TypeOK, RingHolds
<1>4. CASE ~done[s]
  <2>1. /\ newb \in Seq(Byte) /\ Len(newb) <= Cap /\ newd \in Nat
        /\ newb = Bytes(newd, Len(newb)) /\ newd + Len(newb) = k + n
        /\ buffer' = [buffer EXCEPT ![s] = newb] /\ prefix_dropped' = [prefix_dropped EXCEPT ![s] = newd]
    <3>1. CASE n >= Cap
      <4>1. /\ buffer' = [buffer EXCEPT ![s] = Bytes(k + (n - Cap), Cap)]
            /\ prefix_dropped' = [prefix_dropped EXCEPT ![s] = d + len + (n - Cap)]
        BY <1>1, <1>4, <3>1 DEF append
      <4>2. newb = Bytes(k + (n - Cap), Cap) /\ newd = k + (n - Cap)
        BY <4>1, <1>1, <1>4
      <4> HIDE DEF b, d, k, len, newb, newd
      <4>3. k + (n - Cap) \in Nat /\ k + (n - Cap) + Cap = k + n /\ k + n <= MaxBytes
        BY <1>1, <3>1, SMTT(30) DEF k
      <4>4. newb \in Seq(Byte) /\ Len(newb) = Cap
        BY <4>2, <4>3, <1>1, BytesSeq
      <4>5. buffer' = [buffer EXCEPT ![s] = newb] /\ prefix_dropped' = [prefix_dropped EXCEPT ![s] = newd]
        <5>1. d + len + (n - Cap) = newd
          BY <4>2, <1>1, <1>4
        <5> QED
          BY <4>1, <4>2, <5>1
      <4>6. newb = Bytes(newd, Len(newb))
        BY <4>2, <4>4
      <4>7. Len(newb) <= Cap /\ newd \in Nat /\ newd + Len(newb) = k + n
        <5>1. newd = k + (n - Cap) /\ newd \in Nat /\ Len(newb) = Cap
          BY <4>2, <4>3, <4>4
        <5> QED
          BY <5>1, <1>0
      <4> QED
        BY <4>4, <4>5, <4>6, <4>7
    <3>2. CASE n < Cap /\ len + n > Cap
      <4> DEFINE drop == len + n - Cap
      <4>1. /\ buffer' = [buffer EXCEPT ![s] = SubSeq(b, drop + 1, len) \o Bytes(k, n)]
            /\ prefix_dropped' = [prefix_dropped EXCEPT ![s] = d + drop]
        <5>1. ~(n >= Cap)
          BY <3>2, <1>1
        <5> QED
          BY <1>1, <1>4, <3>2, <5>1 DEF append
      <4>2. newb = SubSeq(b, drop + 1, len) \o Bytes(k, n) /\ newd = d + drop
        BY <4>1, <1>1
      <4> HIDE DEF b, d, k, len, newb, newd
      <4>3. drop \in 0 .. len /\ d + drop \in Nat /\ len - drop \in Nat
        BY <1>1, <3>2
      <4> HIDE DEF drop
      <4>4. SubSeq(b, drop + 1, len) = Bytes(d + drop, len - drop)
        BY <4>3, <1>1, <1>2, BytesTail
      <4>5. k = (d + drop) + (len - drop)
        BY <1>1, <1>4, <4>3
      <4>6. newb = Bytes(d + drop, (len - drop) + n)
        <5>1. Bytes(d + drop, len - drop) \o Bytes((d + drop) + (len - drop), n) = Bytes(d + drop, (len - drop) + n)
          BY <4>3, BytesConcat
        <5> QED
          BY <4>2, <4>4, <4>5, <5>1
      <4>7. (len - drop) + n = Cap /\ d + drop + Cap = k + n
        BY <4>3, <1>1, <1>4 DEF drop
      <4>8. newb \in Seq(Byte) /\ Len(newb) = Cap
        BY <4>3, <4>6, <4>7, <1>1, BytesSeq DEF k
      <4>9. buffer' = [buffer EXCEPT ![s] = newb] /\ prefix_dropped' = [prefix_dropped EXCEPT ![s] = newd]
        BY <4>1, <4>2
      <4>10. newb = Bytes(newd, Len(newb))
        BY <4>2, <4>6, <4>7, <4>8
      <4>11. Len(newb) <= Cap /\ newd \in Nat /\ newd + Len(newb) = k + n
        <5>1. newd = d + drop /\ newd \in Nat /\ Len(newb) = Cap /\ d + drop + Cap = k + n
          BY <4>2, <4>3, <4>7, <4>8
        <5> QED
          BY <5>1, <1>0
      <4> QED
        BY <4>8, <4>9, <4>10, <4>11
    <3>3. CASE n < Cap /\ len + n <= Cap
      <4>1. /\ buffer' = [buffer EXCEPT ![s] = b \o Bytes(k, n)]
            /\ prefix_dropped' = prefix_dropped
        <5>1. ~(n >= Cap) /\ ~(len + n > Cap)
          BY <3>3, <1>1
        <5> QED
          BY <1>4, <5>1 DEF append
      <4>2. newb = b \o Bytes(k, n) /\ newd = d
        BY <4>1, <1>1
      <4> HIDE DEF b, d, k, len, newb, newd
      <4>3. newb = Bytes(d, len + n)
        <5>1. Bytes(d, len) \o Bytes(d + len, n) = Bytes(d, len + n)
          BY <1>1, BytesConcat
        <5> QED
          BY <4>2, <5>1, <1>1, <1>2, <1>4
      <4>4. newb \in Seq(Byte) /\ Len(newb) = len + n
        <5>1. len + n \in Nat /\ d + (len + n) <= MaxBytes
          BY <1>1, <1>4 DEF k
        <5> QED
          BY <4>3, <5>1, <1>1, BytesSeq
      <4> QED
        <5>1. buffer' = [buffer EXCEPT ![s] = newb] /\ prefix_dropped' = [prefix_dropped EXCEPT ![s] = newd]
          BY <4>1, <4>2, <1>1 DEF d
        <5>2. newb = Bytes(newd, Len(newb))
          BY <4>2, <4>3, <4>4
        <5>3. Len(newb) <= Cap /\ newd \in Nat /\ newd + Len(newb) = k + n
          <6>1. newd = d /\ Len(newb) = len + n /\ k = d + len /\ len + n <= Cap
            BY <4>2, <4>4, <1>1, <1>4, <3>3
          <6> QED
            BY <6>1, <1>0
        <5> QED
          BY <4>4, <5>1, <5>2, <5>3
    <3> QED
      BY <3>1, <3>2, <3>3, <1>1
  <2> HIDE DEF newb, newd, b, d, len
  <2>2. newd \in 0 .. MaxBytes
    BY <2>1, <1>1
  <2>3. /\ buffer' \in [Requests -> Seq(Byte)] /\ prefix_dropped' \in [Requests -> 0 .. MaxBytes]
        /\ buffer'[s] = newb /\ prefix_dropped'[s] = newd
        /\ \A x \in Requests : x # s => buffer'[x] = buffer[x] /\ prefix_dropped'[x] = prefix_dropped[x]
    BY <2>1, <2>2, <1>1
  <2>4. ASSUME NEW x \in Requests
        PROVE  Len(buffer'[x]) <= Cap /\ buffer'[x] = Bytes(prefix_dropped'[x], Len(buffer'[x]))
    BY <2>1, <2>3 DEF TypeOK, RingHolds
  <2> QED
    BY <2>1, <2>3, <2>4, <1>4
<1> QED
  BY <1>1, <1>3, <1>4

-----------------------------------------------------------------------------
(* Every step preserves the invariant.                                     *)

\* Every step keeps the types.
LEMMA TypeStep ==
    ASSUME StreamInv, [Next]_vars
    PROVE  TypeOK'
<1>1. ASSUME NEW p \in Requests, SetReq(p) PROVE TypeOK'
  BY <1>1, StreamAssumption DEF StreamInv, TypeOK, HoldUsed, ReaderAttached, SetReq, Goto, finalize, session, reader, Threads
<1>2. ASSUME NEW p \in Requests, StartStream(p) PROVE TypeOK'
  BY <1>2, StreamAssumption DEF StreamInv, TypeOK, HoldUsed, ReaderAttached, StartStream, Goto, finalize, session, reader, Threads
<1>3. ASSUME NEW p \in Requests, EndBeforeStream(p) PROVE TypeOK'
  BY <1>3, StreamAssumption DEF StreamInv, TypeOK, HoldUsed, ReaderAttached, EndBeforeStream, Goto, finalize, session, reader, Threads
<1>4. ASSUME NEW p \in Requests, Disconnect(p) PROVE TypeOK'
  BY <1>4, StreamAssumption DEF StreamInv, TypeOK, HoldUsed, ReaderAttached, Disconnect, Goto, finalize, session, reader, Threads
<1>5. ASSUME NEW p \in Requests, FinalizeEvicted(p) PROVE TypeOK'
  BY <1>5, StreamAssumption DEF StreamInv, TypeOK, HoldUsed, ReaderAttached, FinalizeEvicted, Goto, finalize, session, reader, Threads
<1>6. ASSUME NEW p \in Requests, NextChunk(p) PROVE TypeOK'
  BY <1>6, StreamAssumption DEF StreamInv, TypeOK, HoldUsed, ReaderAttached, NextChunk, Goto, finalize, session, reader, Threads
<1>7. ASSUME NEW p \in Requests, WriteChunk(p) PROVE TypeOK'
  <2>1. pending[p] \in Nat \ {0} /\ made[p] \in Nat /\ made[p] + pending[p] <= MaxBytes
    BY <1>7 DEF StreamInv, TypeOK, RingHolds, WriteChunk
  <2>2. append(p, made[p], pending[p])
    BY <1>7 DEF WriteChunk
  <2>3. /\ buffer' \in [Requests -> Seq(Byte)] /\ prefix_dropped' \in [Requests -> 0 .. MaxBytes]
        /\ \A x \in Requests : Len(buffer'[x]) <= Cap
    BY <2>1, <2>2, AppendEffect DEF StreamInv
  <2> QED
    <3>1. made' \in [Requests -> 0 .. MaxBytes] /\ pending' \in [Requests -> 0 .. MaxBytes]
      BY <1>7, <2>1, StreamAssumption DEF StreamInv, TypeOK, WriteChunk
    <3> QED
      BY <1>7, <2>3, <3>1 DEF StreamInv, TypeOK, WriteChunk, reader
<1>8. ASSUME NEW p \in Requests, NextEnds(p) PROVE TypeOK'
  BY <1>8, StreamAssumption DEF StreamInv, TypeOK, HoldUsed, ReaderAttached, NextEnds, Goto, finalize, session, reader, Threads
<1>9. ASSUME NEW p \in Requests, DestroyPipe(p) PROVE TypeOK'
  BY <1>9, StreamAssumption DEF StreamInv, TypeOK, HoldUsed, ReaderAttached, DestroyPipe, Goto, finalize, session, reader, Threads
<1>10. ASSUME NEW t \in Stops, Delete(t) PROVE TypeOK'
  BY <1>10, StreamAssumption DEF StreamInv, TypeOK, HoldUsed, ReaderAttached, Delete, Goto, finalize, session, reader, Threads
<1>11. ASSUME NEW t \in Threads, CancelHeld(t) PROVE TypeOK'
  BY <1>11, StreamAssumption DEF StreamInv, TypeOK, HoldUsed, ReaderAttached, CancelHeld, Goto, finalize, session, reader, Threads
<1>12. ASSUME NEW t \in Threads, FinalizeHeld(t) PROVE TypeOK'
  BY <1>12, StreamAssumption DEF StreamInv, TypeOK, HoldUsed, ReaderAttached, FinalizeHeld, Goto, finalize, session, reader, Threads
<1>13. ASSUME NEW r \in Readers, LookUp(r) PROVE TypeOK'
  <2>1. sessions[Conv[r]] \in Requests
    BY <1>13, StreamAssumption DEF StreamInv, TypeOK, LookUp
  <2>2. PICK o \in 0 .. MaxFrom : from' = [from EXCEPT ![r] = o]
    BY <1>13 DEF LookUp
  <2>3. rsess' \in [Readers -> Requests \cup {None}]
    BY <1>13, <2>1 DEF StreamInv, TypeOK, LookUp
  <2>4. from' \in [Readers -> 0 .. MaxFrom]
    BY <2>2 DEF StreamInv, TypeOK
  <2> QED
    BY <1>13, <2>3, <2>4 DEF StreamInv, TypeOK, LookUp, session
<1>14. ASSUME NEW r \in Readers, NotFound(r) PROVE TypeOK'
  BY <1>14, StreamAssumption DEF StreamInv, TypeOK, HoldUsed, ReaderAttached, NotFound, Goto, finalize, session, reader, Threads
<1>15. ASSUME NEW r \in Readers, CheckOffset(r) PROVE TypeOK'
  BY <1>15, StreamAssumption DEF StreamInv, TypeOK, HoldUsed, ReaderAttached, CheckOffset, Goto, finalize, session, reader, Threads
<1>16. ASSUME NEW r \in Readers, ReadAvailable(r) PROVE TypeOK'
  <2> DEFINE s == rsess[r]
             off == Offset(r) - prefix_dropped[s]
  <2>1. s \in Requests
    BY <1>16 DEF StreamInv, ReaderAttached, ReadAvailable
  <2>2. /\ buffer[s] \in Seq(Byte) /\ got[r] \in Seq(Byte) /\ off \in Nat
    BY <1>16, <2>1 DEF StreamInv, TypeOK, ReadAvailable, Offset
  <2>3. got' = [got EXCEPT ![r] = got[r] \o SubSeq(buffer[s], off + 1, Len(buffer[s]))]
    BY <1>16 DEF ReadAvailable
  <2> HIDE DEF off
  <2>4. SubSeq(buffer[s], off + 1, Len(buffer[s])) \in Seq(Byte)
    BY <2>2, SubSeqProperties
  <2>5. got[r] \o SubSeq(buffer[s], off + 1, Len(buffer[s])) \in Seq(Byte)
    BY <2>2, <2>4, ConcatProperties
  <2>6. got' \in [Readers -> Seq(Byte)]
    BY <2>3, <2>5 DEF StreamInv, TypeOK
  <2> QED
    BY <1>16, <2>6 DEF StreamInv, TypeOK, ReadAvailable, session
<1>17. ASSUME NEW r \in Readers, ReadComplete(r) PROVE TypeOK'
  BY <1>17, StreamAssumption DEF StreamInv, TypeOK, HoldUsed, ReaderAttached, ReadComplete, Goto, finalize, session, reader, Threads
<1>18. ASSUME NEW r \in Readers, ReadLost(r) PROVE TypeOK'
  BY <1>18, StreamAssumption DEF StreamInv, TypeOK, HoldUsed, ReaderAttached, ReadLost, Goto, finalize, session, reader, Threads
<1>19. ASSUME NEW r \in Readers, ReaderLeaves(r) PROVE TypeOK'
  BY <1>19, StreamAssumption DEF StreamInv, TypeOK, HoldUsed, ReaderAttached, ReaderLeaves, Goto, finalize, session, reader, Threads
<1>20. ASSUME NEW c \in Convs, Collect(c) PROVE TypeOK'
  BY <1>20, StreamAssumption DEF StreamInv, TypeOK, HoldUsed, ReaderAttached, Collect, Goto, finalize, session, reader, Threads
<1>21. CASE StopGc
  BY <1>21, StreamAssumption DEF StreamInv, TypeOK, HoldUsed, ReaderAttached, StopGc, Goto, finalize, session, reader, Threads
<1>22. CASE FinalizeLeft
  <2>1. PICK s \in down.left :
            /\ done' = [done EXCEPT ![s] = TRUE] /\ down' = [down EXCEPT !.left = @ \ {s}]
            /\ UNCHANGED <<sessions, buffer, prefix_dropped, cancelled, pc, hold, made, pending, reader>>
    BY <1>22 DEF FinalizeLeft, finalize
  <2>2. done' \in [Requests -> BOOLEAN]
    BY <2>1 DEF StreamInv, TypeOK
  <2>3. down' \in [begun : BOOLEAN, left : SUBSET Requests]
    BY <2>1 DEF StreamInv, TypeOK
  <2> QED
    BY <2>1, <2>2, <2>3 DEF StreamInv, TypeOK, reader
<1>23. CASE UNCHANGED vars
  BY <1>23 DEF StreamInv, TypeOK, vars, session, reader
<1> QED
  BY <1>1, <1>2, <1>3, <1>4, <1>5, <1>6, <1>7, <1>8, <1>9, <1>10, <1>11, <1>12, <1>13, <1>14, <1>15, <1>16, <1>17, <1>18, <1>19, <1>20, <1>21, <1>22, <1>23 DEF Next, Retire, Generate, Read

\* Every step keeps the ring at the end of its generation.
LEMMA RingStep ==
    ASSUME StreamInv, [Next]_vars
    PROVE  RingHolds'
<1>1. ASSUME NEW p \in Requests, SetReq(p) PROVE RingHolds'
  BY <1>1, StreamAssumption DEF StreamInv, TypeOK, RingHolds, HoldUsed, total_size, SetReq, finalize, session
<1>2. ASSUME NEW p \in Requests, StartStream(p) PROVE RingHolds'
  BY <1>2, StreamAssumption DEF StreamInv, TypeOK, RingHolds, HoldUsed, total_size, StartStream, finalize, session
<1>3. ASSUME NEW p \in Requests, EndBeforeStream(p) PROVE RingHolds'
  BY <1>3, StreamAssumption DEF StreamInv, TypeOK, RingHolds, HoldUsed, total_size, EndBeforeStream, finalize, session
<1>4. ASSUME NEW p \in Requests, Disconnect(p) PROVE RingHolds'
  BY <1>4, StreamAssumption DEF StreamInv, TypeOK, RingHolds, HoldUsed, total_size, Disconnect, finalize, session
<1>5. ASSUME NEW p \in Requests, FinalizeEvicted(p) PROVE RingHolds'
  BY <1>5, StreamAssumption DEF StreamInv, TypeOK, RingHolds, HoldUsed, total_size, FinalizeEvicted, finalize, session
<1>6. ASSUME NEW p \in Requests, NextChunk(p) PROVE RingHolds'
  BY <1>6, StreamAssumption DEF StreamInv, TypeOK, RingHolds, HoldUsed, total_size, NextChunk, finalize, session
<1>7. ASSUME NEW p \in Requests, WriteChunk(p) PROVE RingHolds'
  <2>1. /\ pending[p] \in Nat \ {0} /\ made[p] \in Nat /\ made[p] + pending[p] <= MaxBytes
        /\ made' = [made EXCEPT ![p] = @ + pending[p]] /\ pending' = [pending EXCEPT ![p] = 0] /\ done' = done
    BY <1>7 DEF StreamInv, TypeOK, RingHolds, WriteChunk
  <2>2. append(p, made[p], pending[p])
    BY <1>7 DEF WriteChunk
  <2>3. /\ \A x \in Requests : buffer'[x] = Bytes(prefix_dropped'[x], Len(buffer'[x]))
        /\ \A x \in Requests : x # p \/ done[p] => buffer'[x] = buffer[x] /\ prefix_dropped'[x] = prefix_dropped[x]
        /\ ~done[p] => prefix_dropped'[p] + Len(buffer'[p]) = made[p] + pending[p]
    BY <2>1, <2>2, AppendEffect DEF StreamInv
  <2> SUFFICES ASSUME NEW x \in Requests
               PROVE  /\ prefix_dropped'[x] + Len(buffer'[x]) <= MaxBytes
                      /\ made'[x] + pending'[x] <= MaxBytes
                      /\ ~done[x] => prefix_dropped'[x] + Len(buffer'[x]) = made'[x]
    BY <2>1, <2>3 DEF RingHolds, total_size
  <2>4. CASE x = p /\ ~done[p]
    BY <2>1, <2>3, <2>4 DEF StreamInv, TypeOK
  <2>5. CASE x = p /\ done[p]
    BY <2>1, <2>3, <2>5 DEF StreamInv, TypeOK, RingHolds, total_size
  <2>6. CASE x # p
    BY <2>1, <2>3, <2>6 DEF StreamInv, TypeOK, RingHolds, total_size
  <2> QED
    BY <2>4, <2>5, <2>6
<1>8. ASSUME NEW p \in Requests, NextEnds(p) PROVE RingHolds'
  BY <1>8, StreamAssumption DEF StreamInv, TypeOK, RingHolds, HoldUsed, total_size, NextEnds, finalize, session
<1>9. ASSUME NEW p \in Requests, DestroyPipe(p) PROVE RingHolds'
  BY <1>9, StreamAssumption DEF StreamInv, TypeOK, RingHolds, HoldUsed, total_size, DestroyPipe, finalize, session
<1>10. ASSUME NEW t \in Stops, Delete(t) PROVE RingHolds'
  BY <1>10, StreamAssumption DEF StreamInv, TypeOK, RingHolds, HoldUsed, total_size, Delete, finalize, session
<1>11. ASSUME NEW t \in Threads, CancelHeld(t) PROVE RingHolds'
  BY <1>11, StreamAssumption DEF StreamInv, TypeOK, RingHolds, HoldUsed, total_size, CancelHeld, finalize, session
<1>12. ASSUME NEW t \in Threads, FinalizeHeld(t) PROVE RingHolds'
  BY <1>12, StreamAssumption DEF StreamInv, TypeOK, RingHolds, HoldUsed, total_size, FinalizeHeld, finalize, session
<1>13. ASSUME NEW r \in Readers, LookUp(r) PROVE RingHolds'
  BY <1>13, StreamAssumption DEF StreamInv, TypeOK, RingHolds, HoldUsed, total_size, LookUp, finalize, session
<1>14. ASSUME NEW r \in Readers, NotFound(r) PROVE RingHolds'
  BY <1>14, StreamAssumption DEF StreamInv, TypeOK, RingHolds, HoldUsed, total_size, NotFound, finalize, session
<1>15. ASSUME NEW r \in Readers, CheckOffset(r) PROVE RingHolds'
  BY <1>15, StreamAssumption DEF StreamInv, TypeOK, RingHolds, HoldUsed, total_size, CheckOffset, finalize, session
<1>16. ASSUME NEW r \in Readers, ReadAvailable(r) PROVE RingHolds'
  BY <1>16, StreamAssumption DEF StreamInv, TypeOK, RingHolds, HoldUsed, total_size, ReadAvailable, finalize, session
<1>17. ASSUME NEW r \in Readers, ReadComplete(r) PROVE RingHolds'
  BY <1>17, StreamAssumption DEF StreamInv, TypeOK, RingHolds, HoldUsed, total_size, ReadComplete, finalize, session
<1>18. ASSUME NEW r \in Readers, ReadLost(r) PROVE RingHolds'
  BY <1>18, StreamAssumption DEF StreamInv, TypeOK, RingHolds, HoldUsed, total_size, ReadLost, finalize, session
<1>19. ASSUME NEW r \in Readers, ReaderLeaves(r) PROVE RingHolds'
  BY <1>19, StreamAssumption DEF StreamInv, TypeOK, RingHolds, HoldUsed, total_size, ReaderLeaves, finalize, session
<1>20. ASSUME NEW c \in Convs, Collect(c) PROVE RingHolds'
  BY <1>20, StreamAssumption DEF StreamInv, TypeOK, RingHolds, HoldUsed, total_size, Collect, finalize, session
<1>21. CASE StopGc
  BY <1>21, StreamAssumption DEF StreamInv, TypeOK, RingHolds, HoldUsed, total_size, StopGc, finalize, session
<1>22. CASE FinalizeLeft
  BY <1>22, StreamAssumption DEF StreamInv, TypeOK, RingHolds, HoldUsed, total_size, FinalizeLeft, finalize, session
<1>23. CASE UNCHANGED vars
  BY <1>23 DEF StreamInv, RingHolds, total_size, vars, session
<1> QED
  BY <1>1, <1>2, <1>3, <1>4, <1>5, <1>6, <1>7, <1>8, <1>9, <1>10, <1>11, <1>12, <1>13, <1>14, <1>15, <1>16, <1>17, <1>18, <1>19, <1>20, <1>21, <1>22, <1>23 DEF Next, Retire, Generate, Read

\* A thread takes a session to retire and lets go of it once.
LEMMA HoldStep ==
    ASSUME StreamInv, [Next]_vars
    PROVE  HoldUsed'
<1>1. ASSUME NEW p \in Requests, SetReq(p) PROVE HoldUsed'
  BY <1>1, StreamAssumption DEF StreamInv, TypeOK, HoldUsed, Threads, SetReq, Goto
<1>2. ASSUME NEW p \in Requests, StartStream(p) PROVE HoldUsed'
  BY <1>2, StreamAssumption DEF StreamInv, TypeOK, HoldUsed, Threads, StartStream, Goto
<1>3. ASSUME NEW p \in Requests, EndBeforeStream(p) PROVE HoldUsed'
  BY <1>3, StreamAssumption DEF StreamInv, TypeOK, HoldUsed, Threads, EndBeforeStream, Goto
<1>4. ASSUME NEW p \in Requests, Disconnect(p) PROVE HoldUsed'
  BY <1>4, StreamAssumption DEF StreamInv, TypeOK, HoldUsed, Threads, Disconnect, Goto
<1>5. ASSUME NEW p \in Requests, FinalizeEvicted(p) PROVE HoldUsed'
  BY <1>5, StreamAssumption DEF StreamInv, TypeOK, HoldUsed, Threads, FinalizeEvicted, Goto
<1>6. ASSUME NEW p \in Requests, NextChunk(p) PROVE HoldUsed'
  BY <1>6, StreamAssumption DEF StreamInv, TypeOK, HoldUsed, Threads, NextChunk, Goto
<1>7. ASSUME NEW p \in Requests, WriteChunk(p) PROVE HoldUsed'
  BY <1>7, StreamAssumption DEF StreamInv, TypeOK, HoldUsed, Threads, WriteChunk, Goto
<1>8. ASSUME NEW p \in Requests, NextEnds(p) PROVE HoldUsed'
  BY <1>8, StreamAssumption DEF StreamInv, TypeOK, HoldUsed, Threads, NextEnds, Goto
<1>9. ASSUME NEW p \in Requests, DestroyPipe(p) PROVE HoldUsed'
  BY <1>9, StreamAssumption DEF StreamInv, TypeOK, HoldUsed, Threads, DestroyPipe, Goto
<1>10. ASSUME NEW t \in Stops, Delete(t) PROVE HoldUsed'
  BY <1>10, StreamAssumption DEF StreamInv, TypeOK, HoldUsed, Threads, Delete, Goto
<1>11. ASSUME NEW t \in Threads, CancelHeld(t) PROVE HoldUsed'
  BY <1>11, StreamAssumption DEF StreamInv, TypeOK, HoldUsed, Threads, CancelHeld, Goto
<1>12. ASSUME NEW t \in Threads, FinalizeHeld(t) PROVE HoldUsed'
  BY <1>12, StreamAssumption DEF StreamInv, TypeOK, HoldUsed, Threads, FinalizeHeld, Goto
<1>13. ASSUME NEW r \in Readers, LookUp(r) PROVE HoldUsed'
  BY <1>13, StreamAssumption DEF StreamInv, TypeOK, HoldUsed, Threads, LookUp, Goto
<1>14. ASSUME NEW r \in Readers, NotFound(r) PROVE HoldUsed'
  BY <1>14, StreamAssumption DEF StreamInv, TypeOK, HoldUsed, Threads, NotFound, Goto
<1>15. ASSUME NEW r \in Readers, CheckOffset(r) PROVE HoldUsed'
  BY <1>15, StreamAssumption DEF StreamInv, TypeOK, HoldUsed, Threads, CheckOffset, Goto
<1>16. ASSUME NEW r \in Readers, ReadAvailable(r) PROVE HoldUsed'
  BY <1>16, StreamAssumption DEF StreamInv, TypeOK, HoldUsed, Threads, ReadAvailable, Goto
<1>17. ASSUME NEW r \in Readers, ReadComplete(r) PROVE HoldUsed'
  BY <1>17, StreamAssumption DEF StreamInv, TypeOK, HoldUsed, Threads, ReadComplete, Goto
<1>18. ASSUME NEW r \in Readers, ReadLost(r) PROVE HoldUsed'
  BY <1>18, StreamAssumption DEF StreamInv, TypeOK, HoldUsed, Threads, ReadLost, Goto
<1>19. ASSUME NEW r \in Readers, ReaderLeaves(r) PROVE HoldUsed'
  BY <1>19, StreamAssumption DEF StreamInv, TypeOK, HoldUsed, Threads, ReaderLeaves, Goto
<1>20. ASSUME NEW c \in Convs, Collect(c) PROVE HoldUsed'
  BY <1>20, StreamAssumption DEF StreamInv, TypeOK, HoldUsed, Threads, Collect, Goto
<1>21. CASE StopGc
  BY <1>21, StreamAssumption DEF StreamInv, TypeOK, HoldUsed, Threads, StopGc, Goto
<1>22. CASE FinalizeLeft
  BY <1>22, StreamAssumption DEF StreamInv, TypeOK, HoldUsed, Threads, FinalizeLeft, Goto
<1>23. CASE UNCHANGED vars
  BY <1>23 DEF StreamInv, HoldUsed, vars
<1> QED
  BY <1>1, <1>2, <1>3, <1>4, <1>5, <1>6, <1>7, <1>8, <1>9, <1>10, <1>11, <1>12, <1>13, <1>14, <1>15, <1>16, <1>17, <1>18, <1>19, <1>20, <1>21, <1>22, <1>23 DEF Next, Retire, Generate, Read

\* A reader keeps its session; shutdown begins once.
LEMMA ReaderStep ==
    ASSUME StreamInv, [Next]_vars
    PROVE  ReaderAttached' /\ DownLater'
<1>1. ASSUME NEW p \in Requests, SetReq(p) PROVE ReaderAttached' /\ DownLater'
  BY <1>1, StreamAssumption DEF StreamInv, TypeOK, ReaderAttached, DownLater, SetReq, reader
<1>2. ASSUME NEW p \in Requests, StartStream(p) PROVE ReaderAttached' /\ DownLater'
  BY <1>2, StreamAssumption DEF StreamInv, TypeOK, ReaderAttached, DownLater, StartStream, reader
<1>3. ASSUME NEW p \in Requests, EndBeforeStream(p) PROVE ReaderAttached' /\ DownLater'
  BY <1>3, StreamAssumption DEF StreamInv, TypeOK, ReaderAttached, DownLater, EndBeforeStream, reader
<1>4. ASSUME NEW p \in Requests, Disconnect(p) PROVE ReaderAttached' /\ DownLater'
  BY <1>4, StreamAssumption DEF StreamInv, TypeOK, ReaderAttached, DownLater, Disconnect, reader
<1>5. ASSUME NEW p \in Requests, FinalizeEvicted(p) PROVE ReaderAttached' /\ DownLater'
  BY <1>5, StreamAssumption DEF StreamInv, TypeOK, ReaderAttached, DownLater, FinalizeEvicted, reader
<1>6. ASSUME NEW p \in Requests, NextChunk(p) PROVE ReaderAttached' /\ DownLater'
  BY <1>6, StreamAssumption DEF StreamInv, TypeOK, ReaderAttached, DownLater, NextChunk, reader
<1>7. ASSUME NEW p \in Requests, WriteChunk(p) PROVE ReaderAttached' /\ DownLater'
  BY <1>7, StreamAssumption DEF StreamInv, TypeOK, ReaderAttached, DownLater, WriteChunk, reader
<1>8. ASSUME NEW p \in Requests, NextEnds(p) PROVE ReaderAttached' /\ DownLater'
  BY <1>8, StreamAssumption DEF StreamInv, TypeOK, ReaderAttached, DownLater, NextEnds, reader
<1>9. ASSUME NEW p \in Requests, DestroyPipe(p) PROVE ReaderAttached' /\ DownLater'
  BY <1>9, StreamAssumption DEF StreamInv, TypeOK, ReaderAttached, DownLater, DestroyPipe, reader
<1>10. ASSUME NEW t \in Stops, Delete(t) PROVE ReaderAttached' /\ DownLater'
  BY <1>10, StreamAssumption DEF StreamInv, TypeOK, ReaderAttached, DownLater, Delete, reader
<1>11. ASSUME NEW t \in Threads, CancelHeld(t) PROVE ReaderAttached' /\ DownLater'
  BY <1>11, StreamAssumption DEF StreamInv, TypeOK, ReaderAttached, DownLater, CancelHeld, reader
<1>12. ASSUME NEW t \in Threads, FinalizeHeld(t) PROVE ReaderAttached' /\ DownLater'
  BY <1>12, StreamAssumption DEF StreamInv, TypeOK, ReaderAttached, DownLater, FinalizeHeld, reader
<1>13. ASSUME NEW r \in Readers, LookUp(r) PROVE ReaderAttached' /\ DownLater'
  BY <1>13, StreamAssumption, ZenonT(40) DEF StreamInv, TypeOK, ReaderAttached, DownLater, LookUp, reader
<1>14. ASSUME NEW r \in Readers, NotFound(r) PROVE ReaderAttached' /\ DownLater'
  BY <1>14, StreamAssumption DEF StreamInv, TypeOK, ReaderAttached, DownLater, NotFound, reader
<1>15. ASSUME NEW r \in Readers, CheckOffset(r) PROVE ReaderAttached' /\ DownLater'
  BY <1>15, StreamAssumption DEF StreamInv, TypeOK, ReaderAttached, DownLater, CheckOffset, reader
<1>16. ASSUME NEW r \in Readers, ReadAvailable(r) PROVE ReaderAttached' /\ DownLater'
  BY <1>16, StreamAssumption DEF StreamInv, TypeOK, ReaderAttached, DownLater, ReadAvailable, reader
<1>17. ASSUME NEW r \in Readers, ReadComplete(r) PROVE ReaderAttached' /\ DownLater'
  BY <1>17, StreamAssumption DEF StreamInv, TypeOK, ReaderAttached, DownLater, ReadComplete, reader
<1>18. ASSUME NEW r \in Readers, ReadLost(r) PROVE ReaderAttached' /\ DownLater'
  BY <1>18, StreamAssumption DEF StreamInv, TypeOK, ReaderAttached, DownLater, ReadLost, reader
<1>19. ASSUME NEW r \in Readers, ReaderLeaves(r) PROVE ReaderAttached' /\ DownLater'
  BY <1>19, StreamAssumption DEF StreamInv, TypeOK, ReaderAttached, DownLater, ReaderLeaves, reader
<1>20. ASSUME NEW c \in Convs, Collect(c) PROVE ReaderAttached' /\ DownLater'
  BY <1>20, StreamAssumption DEF StreamInv, TypeOK, ReaderAttached, DownLater, Collect, reader
<1>21. CASE StopGc
  BY <1>21, StreamAssumption DEF StreamInv, TypeOK, ReaderAttached, DownLater, StopGc, reader
<1>22. CASE FinalizeLeft
  BY <1>22, StreamAssumption DEF StreamInv, TypeOK, ReaderAttached, DownLater, FinalizeLeft, reader
<1>23. CASE UNCHANGED vars
  BY <1>23 DEF StreamInv, ReaderAttached, DownLater, vars, reader
<1> QED
  BY <1>1, <1>2, <1>3, <1>4, <1>5, <1>6, <1>7, <1>8, <1>9, <1>10, <1>11, <1>12, <1>13, <1>14, <1>15, <1>16, <1>17, <1>18, <1>19, <1>20, <1>21, <1>22, <1>23 DEF Next, Retire, Generate, Read

\* What a reader receives continues what it has.
LEMMA ReplayStep ==
    ASSUME StreamInv, [Next]_vars
    PROVE  ReplayContiguous'
<1>1. ASSUME NEW p \in Requests, SetReq(p) PROVE ReplayContiguous'
  BY <1>1 DEF StreamInv, ReplayContiguous, SetReq, reader
<1>2. ASSUME NEW p \in Requests, StartStream(p) PROVE ReplayContiguous'
  BY <1>2 DEF StreamInv, ReplayContiguous, StartStream, reader
<1>3. ASSUME NEW p \in Requests, EndBeforeStream(p) PROVE ReplayContiguous'
  BY <1>3 DEF StreamInv, ReplayContiguous, EndBeforeStream, reader
<1>4. ASSUME NEW p \in Requests, Disconnect(p) PROVE ReplayContiguous'
  BY <1>4 DEF StreamInv, ReplayContiguous, Disconnect, reader
<1>5. ASSUME NEW p \in Requests, FinalizeEvicted(p) PROVE ReplayContiguous'
  BY <1>5 DEF StreamInv, ReplayContiguous, FinalizeEvicted, reader
<1>6. ASSUME NEW p \in Requests, NextChunk(p) PROVE ReplayContiguous'
  BY <1>6 DEF StreamInv, ReplayContiguous, NextChunk, reader
<1>7. ASSUME NEW p \in Requests, WriteChunk(p) PROVE ReplayContiguous'
  BY <1>7 DEF StreamInv, ReplayContiguous, WriteChunk, reader
<1>8. ASSUME NEW p \in Requests, NextEnds(p) PROVE ReplayContiguous'
  BY <1>8 DEF StreamInv, ReplayContiguous, NextEnds, reader
<1>9. ASSUME NEW p \in Requests, DestroyPipe(p) PROVE ReplayContiguous'
  BY <1>9 DEF StreamInv, ReplayContiguous, DestroyPipe, reader
<1>10. ASSUME NEW t \in Stops, Delete(t) PROVE ReplayContiguous'
  BY <1>10 DEF StreamInv, ReplayContiguous, Delete, reader
<1>11. ASSUME NEW t \in Threads, CancelHeld(t) PROVE ReplayContiguous'
  BY <1>11 DEF StreamInv, ReplayContiguous, CancelHeld, reader
<1>12. ASSUME NEW t \in Threads, FinalizeHeld(t) PROVE ReplayContiguous'
  BY <1>12 DEF StreamInv, ReplayContiguous, FinalizeHeld, reader
<1>13. ASSUME NEW r \in Readers, LookUp(r) PROVE ReplayContiguous'
  <2> SUFFICES ASSUME NEW x \in Readers PROVE got[x] = Bytes(from'[x], Len(got[x]))
    BY <1>13 DEF ReplayContiguous, LookUp
  <2>1. CASE x = r
    <3>1. got[r] = <<>> /\ Len(got[r]) = 0
      BY <1>13 DEF StreamInv, ReaderAttached, LookUp
    <3>2. Bytes(from'[r], 0) = <<>>
      BY DEF Bytes
    <3> QED
      BY <2>1, <3>1, <3>2
  <2>2. CASE x # r
    BY <1>13, <2>2 DEF StreamInv, TypeOK, ReplayContiguous, LookUp
  <2> QED
    BY <2>1, <2>2
<1>14. ASSUME NEW r \in Readers, NotFound(r) PROVE ReplayContiguous'
  BY <1>14 DEF StreamInv, ReplayContiguous, NotFound, reader
<1>15. ASSUME NEW r \in Readers, CheckOffset(r) PROVE ReplayContiguous'
  BY <1>15 DEF StreamInv, ReplayContiguous, CheckOffset, reader
<1>16. ASSUME NEW r \in Readers, ReadAvailable(r) PROVE ReplayContiguous'
  <2> DEFINE s == rsess[r]
             b == buffer[s]
             d == prefix_dropped[s]
             len == Len(b)
             f == from[r]
             m == Len(got[r])
             off == (f + m) - d
  <2>1. s \in Requests
    BY <1>16 DEF StreamInv, ReaderAttached, ReadAvailable
  <2>2. /\ d \in Nat /\ len \in Nat /\ f \in Nat /\ m \in Nat
        /\ d <= f + m /\ f + m < d + len
    BY <1>16, <2>1, StreamAssumption, SMTT(30) DEF StreamInv, TypeOK, ReadAvailable, Offset, total_size
  <2>3. b = Bytes(d, len)
    BY <2>1 DEF StreamInv, RingHolds
  <2>4. got[r] = Bytes(f, m)
    BY DEF StreamInv, ReplayContiguous
  <2>5. got' = [got EXCEPT ![r] = got[r] \o SubSeq(b, off + 1, len)]
    <3>1. got' = [got EXCEPT ![r] = got[r] \o SubSeq(b, Offset(r) - d + 1, len)]
      BY <1>16 DEF ReadAvailable
    <3>2. Offset(r) = f + m
      BY DEF Offset
    <3> HIDE DEF s, b, d, len, f, m
    <3> QED
      BY <3>1, <3>2
  <2>6. got \in [Readers -> Seq(Byte)]
    BY DEF StreamInv, TypeOK
  <2>7. from' = from
    BY <1>16 DEF ReadAvailable
  <2> HIDE DEF s, b, d, len, m
  <2>8. off \in 0 .. len /\ d + off = f + m /\ len - off \in Nat
    BY <2>2
  <2> HIDE DEF off, f
  <2>9. SubSeq(b, off + 1, len) = Bytes(f + m, len - off)
    <3>1. SubSeq(Bytes(d, len), off + 1, len) = Bytes(d + off, len - off)
      BY <2>2, <2>8, BytesTail
    <3> QED
      BY <3>1, <2>3, <2>8
  <2>10. Bytes(f, m) \o Bytes(f + m, len - off) = Bytes(f, m + (len - off))
    BY <2>2, <2>8, BytesConcat
  <2>11. got'[r] = Bytes(f, m + (len - off))
    BY <2>4, <2>5, <2>6, <2>9, <2>10
  <2>12. Len(got'[r]) = m + (len - off)
    <3>1. m + (len - off) \in Nat
      BY <2>2, <2>8
    <3> QED
      BY <2>2, <2>11, <3>1, BytesSeq
  <2>13. got'[r] = Bytes(from'[r], Len(got'[r]))
    BY <2>7, <2>11, <2>12 DEF f
  <2>14. \A x \in Readers \ {r} : got'[x] = got[x]
    BY <2>5, <2>6
  <2> QED
    BY <2>7, <2>13, <2>14 DEF StreamInv, ReplayContiguous
<1>17. ASSUME NEW r \in Readers, ReadComplete(r) PROVE ReplayContiguous'
  BY <1>17 DEF StreamInv, ReplayContiguous, ReadComplete, reader
<1>18. ASSUME NEW r \in Readers, ReadLost(r) PROVE ReplayContiguous'
  BY <1>18 DEF StreamInv, ReplayContiguous, ReadLost, reader
<1>19. ASSUME NEW r \in Readers, ReaderLeaves(r) PROVE ReplayContiguous'
  BY <1>19 DEF StreamInv, ReplayContiguous, ReaderLeaves, reader
<1>20. ASSUME NEW c \in Convs, Collect(c) PROVE ReplayContiguous'
  BY <1>20 DEF StreamInv, ReplayContiguous, Collect, reader
<1>21. CASE StopGc
  BY <1>21 DEF StreamInv, ReplayContiguous, StopGc, reader
<1>22. CASE FinalizeLeft
  BY <1>22 DEF StreamInv, ReplayContiguous, FinalizeLeft, reader
<1>23. CASE UNCHANGED vars
  BY <1>23 DEF StreamInv, ReplayContiguous, vars, reader
<1> QED
  BY <1>1, <1>2, <1>3, <1>4, <1>5, <1>6, <1>7, <1>8, <1>9, <1>10, <1>11, <1>12, <1>13, <1>14, <1>15, <1>16, <1>17, <1>18, <1>19, <1>20, <1>21, <1>22, <1>23 DEF Next, Retire, Generate, Read

\* A session that leaves the map is handed to someone who finalizes it.
LEMMA LiveStep ==
    ASSUME StreamInv, [Next]_vars
    PROVE  OneLivePerConv'
<1>1. ASSUME NEW p \in Requests, SetReq(p) PROVE OneLivePerConv'
  <2> SUFFICES ASSUME NEW s \in Requests, pc'[s] # "new", ~done'[s]
               PROVE  \/ sessions'[Conv[s]] = s
                      \/ \E x \in Threads : hold'[x] = s
                      \/ s \in down'.left \/ pc'[s] = "over"
    BY DEF OneLivePerConv
  <2>1. CASE s = p
    BY <1>1, <2>1, StreamAssumption DEF StreamInv, TypeOK, SetReq, Threads
  <2>2. CASE s # p
    <3>1. \/ sessions[Conv[s]] = s
        \/ \E x \in Threads : hold[x] = s
        \/ s \in down.left \/ pc[s] = "over"
      BY <1>1, <2>2 DEF StreamInv, TypeOK, OneLivePerConv, SetReq, Goto, session, Threads
    <3>2. CASE sessions[Conv[s]] = s /\ Conv[s] = Conv[p]
      BY <1>1, <3>2 DEF StreamInv, TypeOK, SetReq, Threads
    <3>3. CASE sessions[Conv[s]] = s /\ Conv[s] # Conv[p]
      BY <1>1, <3>3, StreamAssumption DEF StreamInv, TypeOK, SetReq, Threads
    <3>4. CASE \E x \in Threads : hold[x] = s
      <4>1. PICK x \in Threads : hold[x] = s
        BY <3>4
      <4>2. x # p
        BY <1>1, <4>1, StreamAssumption DEF StreamInv, HoldUsed, SetReq, Threads
      <4> QED
        BY <1>1, <4>1, <4>2 DEF StreamInv, TypeOK, SetReq
    <3>5. CASE s \in down.left \/ pc[s] = "over"
      BY <1>1, <2>2, <3>5 DEF StreamInv, TypeOK, SetReq, Goto, Threads
    <3> QED
      BY <3>1, <3>2, <3>3, <3>4, <3>5
  <2> QED
    BY <2>1, <2>2
<1>2. ASSUME NEW p \in Requests, StartStream(p) PROVE OneLivePerConv'
  BY <1>2, StreamAssumption DEF StreamInv, TypeOK, HoldUsed, DownLater, OneLivePerConv, Threads, StartStream, Goto, finalize, session
<1>3. ASSUME NEW p \in Requests, EndBeforeStream(p) PROVE OneLivePerConv'
  <2> SUFFICES ASSUME NEW s \in Requests, pc'[s] # "new", ~done'[s]
               PROVE  \/ sessions'[Conv[s]] = s
                      \/ \E x \in Threads : hold'[x] = s
                      \/ s \in down'.left \/ pc'[s] = "over"
    BY DEF OneLivePerConv
  <2>1. \/ sessions[Conv[s]] = s
        \/ \E x \in Threads : hold[x] = s
        \/ s \in down.left \/ pc[s] = "over"
    BY <1>3, StreamAssumption DEF StreamInv, TypeOK, OneLivePerConv, EndBeforeStream, Goto, session, Threads, finalize
  <2>2. CASE sessions[Conv[s]] = s /\ Conv[s] = Conv[p]
    BY <1>3, <2>2, StreamAssumption DEF StreamInv, TypeOK, EndBeforeStream, Threads
  <2>3. CASE sessions[Conv[s]] = s /\ Conv[s] # Conv[p]
    BY <1>3, <2>3, StreamAssumption DEF StreamInv, TypeOK, EndBeforeStream, Threads
  <2>4. CASE \E x \in Threads : hold[x] = s
    <3>1. PICK x \in Threads : hold[x] = s
      BY <2>4
    <3>2. x # p
      BY <1>3, <3>1, StreamAssumption DEF StreamInv, HoldUsed, EndBeforeStream, Threads
    <3> QED
      BY <1>3, <3>1, <3>2 DEF StreamInv, TypeOK, EndBeforeStream
  <2>5. CASE s \in down.left \/ pc[s] = "over"
    BY <1>3, <2>5 DEF StreamInv, TypeOK, EndBeforeStream, Goto, Threads
  <2> QED
    BY <2>1, <2>2, <2>3, <2>4, <2>5
<1>4. ASSUME NEW p \in Requests, Disconnect(p) PROVE OneLivePerConv'
  BY <1>4, StreamAssumption DEF StreamInv, TypeOK, HoldUsed, DownLater, OneLivePerConv, Threads, Disconnect, Goto, finalize, session
<1>5. ASSUME NEW p \in Requests, FinalizeEvicted(p) PROVE OneLivePerConv'
  <2> SUFFICES ASSUME NEW s \in Requests, pc'[s] # "new", ~done'[s]
               PROVE  \/ sessions'[Conv[s]] = s
                      \/ \E x \in Threads : hold'[x] = s
                      \/ s \in down'.left \/ pc'[s] = "over"
    BY DEF OneLivePerConv
  <2>1. \/ sessions[Conv[s]] = s
        \/ \E x \in Threads : hold[x] = s
        \/ s \in down.left \/ pc[s] = "over"
    BY <1>5, StreamAssumption DEF StreamInv, TypeOK, OneLivePerConv, FinalizeEvicted, Goto, session, Threads, finalize
  <2>2. s # hold[p]
    BY <1>5 DEF StreamInv, TypeOK, FinalizeEvicted, finalize
  <2>3. CASE \E x \in Threads : hold[x] = s
    <3>1. PICK x \in Threads : hold[x] = s
      BY <2>3
    <3>2. x # p
      BY <3>1, <2>2
    <3> QED
      BY <1>5, <3>1, <3>2 DEF StreamInv, TypeOK, FinalizeEvicted
  <2>4. CASE sessions[Conv[s]] = s \/ s \in down.left \/ pc[s] = "over"
    BY <1>5, <2>4, StreamAssumption DEF StreamInv, TypeOK, FinalizeEvicted, Goto, Threads
  <2> QED
    BY <2>1, <2>3, <2>4
<1>6. ASSUME NEW p \in Requests, NextChunk(p) PROVE OneLivePerConv'
  BY <1>6, StreamAssumption DEF StreamInv, TypeOK, HoldUsed, DownLater, OneLivePerConv, Threads, NextChunk, Goto, finalize, session
<1>7. ASSUME NEW p \in Requests, WriteChunk(p) PROVE OneLivePerConv'
  BY <1>7, StreamAssumption DEF StreamInv, TypeOK, HoldUsed, DownLater, OneLivePerConv, Threads, WriteChunk, Goto, finalize, session
<1>8. ASSUME NEW p \in Requests, NextEnds(p) PROVE OneLivePerConv'
  BY <1>8, StreamAssumption DEF StreamInv, TypeOK, HoldUsed, DownLater, OneLivePerConv, Threads, NextEnds, Goto, finalize, session
<1>9. ASSUME NEW p \in Requests, DestroyPipe(p) PROVE OneLivePerConv'
  <2> SUFFICES ASSUME NEW s \in Requests, pc'[s] # "new", ~done'[s]
               PROVE  \/ sessions'[Conv[s]] = s
                      \/ \E x \in Threads : hold'[x] = s
                      \/ s \in down'.left \/ pc'[s] = "over"
    BY DEF OneLivePerConv
  <2>1. \/ sessions[Conv[s]] = s
        \/ \E x \in Threads : hold[x] = s
        \/ s \in down.left \/ pc[s] = "over"
    BY <1>9, StreamAssumption DEF StreamInv, TypeOK, OneLivePerConv, DestroyPipe, Goto, session, Threads, finalize
  <2>2. s # p
    BY <1>9 DEF StreamInv, TypeOK, DestroyPipe, finalize
  <2> QED
    BY <1>9, <2>1, <2>2 DEF StreamInv, TypeOK, DestroyPipe, Goto, Threads
<1>10. ASSUME NEW t \in Stops, Delete(t) PROVE OneLivePerConv'
  <2> SUFFICES ASSUME NEW s \in Requests, pc'[s] # "new", ~done'[s]
               PROVE  \/ sessions'[Conv[s]] = s
                      \/ \E x \in Threads : hold'[x] = s
                      \/ s \in down'.left \/ pc'[s] = "over"
    BY DEF OneLivePerConv
  <2>1. \/ sessions[Conv[s]] = s
        \/ \E x \in Threads : hold[x] = s
        \/ s \in down.left \/ pc[s] = "over"
    BY <1>10, StreamAssumption DEF StreamInv, TypeOK, OneLivePerConv, Delete, Goto, session, Threads, finalize
  <2>2. CASE sessions[Conv[s]] = s /\ Conv[s] = Conv[t]
    BY <1>10, <2>2, StreamAssumption DEF StreamInv, TypeOK, Delete, Threads
  <2>3. CASE sessions[Conv[s]] = s /\ Conv[s] # Conv[t]
    BY <1>10, <2>3, StreamAssumption DEF StreamInv, TypeOK, Delete, Threads
  <2>4. CASE \E x \in Threads : hold[x] = s
    <3>1. PICK x \in Threads : hold[x] = s
      BY <2>4
    <3>2. x # t
      BY <1>10, <3>1, StreamAssumption DEF StreamInv, HoldUsed, Delete, Threads
    <3> QED
      BY <1>10, <3>1, <3>2 DEF StreamInv, TypeOK, Delete
  <2>5. CASE s \in down.left \/ pc[s] = "over"
    BY <1>10, <2>5, StreamAssumption DEF StreamInv, TypeOK, Delete, Goto, Threads
  <2> QED
    BY <2>1, <2>2, <2>3, <2>4, <2>5
<1>11. ASSUME NEW t \in Threads, CancelHeld(t) PROVE OneLivePerConv'
  BY <1>11, StreamAssumption DEF StreamInv, TypeOK, HoldUsed, DownLater, OneLivePerConv, Threads, CancelHeld, Goto, finalize, session
<1>12. ASSUME NEW t \in Threads, FinalizeHeld(t) PROVE OneLivePerConv'
  <2> SUFFICES ASSUME NEW s \in Requests, pc'[s] # "new", ~done'[s]
               PROVE  \/ sessions'[Conv[s]] = s
                      \/ \E x \in Threads : hold'[x] = s
                      \/ s \in down'.left \/ pc'[s] = "over"
    BY DEF OneLivePerConv
  <2>1. \/ sessions[Conv[s]] = s
        \/ \E x \in Threads : hold[x] = s
        \/ s \in down.left \/ pc[s] = "over"
    BY <1>12, StreamAssumption DEF StreamInv, TypeOK, OneLivePerConv, FinalizeHeld, Goto, session, Threads, finalize
  <2>2. s # hold[t]
    BY <1>12 DEF StreamInv, TypeOK, FinalizeHeld, finalize
  <2>3. CASE \E x \in Threads : hold[x] = s
    <3>1. PICK x \in Threads : hold[x] = s
      BY <2>3
    <3>2. x # t
      BY <3>1, <2>2
    <3> QED
      BY <1>12, <3>1, <3>2 DEF StreamInv, TypeOK, FinalizeHeld
  <2>4. CASE sessions[Conv[s]] = s \/ s \in down.left \/ pc[s] = "over"
    BY <1>12, <2>4, StreamAssumption DEF StreamInv, TypeOK, FinalizeHeld, Goto, Threads
  <2> QED
    BY <2>1, <2>3, <2>4
<1>13. ASSUME NEW r \in Readers, LookUp(r) PROVE OneLivePerConv'
  BY <1>13, StreamAssumption DEF StreamInv, TypeOK, HoldUsed, DownLater, OneLivePerConv, Threads, LookUp, Goto, finalize, session
<1>14. ASSUME NEW r \in Readers, NotFound(r) PROVE OneLivePerConv'
  BY <1>14, StreamAssumption DEF StreamInv, TypeOK, HoldUsed, DownLater, OneLivePerConv, Threads, NotFound, Goto, finalize, session
<1>15. ASSUME NEW r \in Readers, CheckOffset(r) PROVE OneLivePerConv'
  BY <1>15, StreamAssumption DEF StreamInv, TypeOK, HoldUsed, DownLater, OneLivePerConv, Threads, CheckOffset, Goto, finalize, session
<1>16. ASSUME NEW r \in Readers, ReadAvailable(r) PROVE OneLivePerConv'
  BY <1>16, StreamAssumption DEF StreamInv, TypeOK, HoldUsed, DownLater, OneLivePerConv, Threads, ReadAvailable, Goto, finalize, session
<1>17. ASSUME NEW r \in Readers, ReadComplete(r) PROVE OneLivePerConv'
  BY <1>17, StreamAssumption DEF StreamInv, TypeOK, HoldUsed, DownLater, OneLivePerConv, Threads, ReadComplete, Goto, finalize, session
<1>18. ASSUME NEW r \in Readers, ReadLost(r) PROVE OneLivePerConv'
  BY <1>18, StreamAssumption DEF StreamInv, TypeOK, HoldUsed, DownLater, OneLivePerConv, Threads, ReadLost, Goto, finalize, session
<1>19. ASSUME NEW r \in Readers, ReaderLeaves(r) PROVE OneLivePerConv'
  BY <1>19, StreamAssumption DEF StreamInv, TypeOK, HoldUsed, DownLater, OneLivePerConv, Threads, ReaderLeaves, Goto, finalize, session
<1>20. ASSUME NEW c \in Convs, Collect(c) PROVE OneLivePerConv'
  BY <1>20, StreamAssumption DEF StreamInv, TypeOK, HoldUsed, DownLater, OneLivePerConv, Threads, Collect, Goto, finalize, session
<1>21. CASE StopGc
  <2> SUFFICES ASSUME NEW s \in Requests, pc'[s] # "new", ~done'[s]
               PROVE  \/ sessions'[Conv[s]] = s
                      \/ \E x \in Threads : hold'[x] = s
                      \/ s \in down'.left \/ pc'[s] = "over"
    BY DEF OneLivePerConv
  <2>1. \/ sessions[Conv[s]] = s
        \/ \E x \in Threads : hold[x] = s
        \/ s \in down.left \/ pc[s] = "over"
    BY <1>21, StreamAssumption DEF StreamInv, TypeOK, OneLivePerConv, StopGc, Goto, session, Threads, finalize
  <2>2. s \notin down.left
    BY <1>21 DEF StreamInv, DownLater, StopGc
  <2>3. CASE sessions[Conv[s]] = s
    BY <1>21, <2>3, StreamAssumption DEF StreamInv, TypeOK, StopGc, Threads
  <2> QED
    BY <1>21, <2>1, <2>2, <2>3 DEF StopGc
<1>22. CASE FinalizeLeft
  <2> SUFFICES ASSUME NEW s \in Requests, pc'[s] # "new", ~done'[s]
               PROVE  \/ sessions'[Conv[s]] = s
                      \/ \E x \in Threads : hold'[x] = s
                      \/ s \in down'.left \/ pc'[s] = "over"
    BY DEF OneLivePerConv
  <2>1. PICK z \in down.left :
            /\ done' = [done EXCEPT ![z] = TRUE] /\ down' = [down EXCEPT !.left = @ \ {z}]
            /\ UNCHANGED <<sessions, pc, hold>>
    BY <1>22 DEF FinalizeLeft, finalize
  <2>2. s # z /\ ~done[s]
    BY <2>1 DEF StreamInv, TypeOK
  <2>3. \/ sessions[Conv[s]] = s
        \/ \E x \in Threads : hold[x] = s
        \/ s \in down.left \/ pc[s] = "over"
    BY <2>1, <2>2 DEF StreamInv, OneLivePerConv
  <2>4. s \in down.left => s \in down'.left
    BY <2>1, <2>2 DEF StreamInv, TypeOK
  <2> QED
    BY <2>1, <2>3, <2>4
<1>23. CASE UNCHANGED vars
  BY <1>23 DEF StreamInv, OneLivePerConv, vars, session
<1> QED
  BY <1>1, <1>2, <1>3, <1>4, <1>5, <1>6, <1>7, <1>8, <1>9, <1>10, <1>11, <1>12, <1>13, <1>14, <1>15, <1>16, <1>17, <1>18, <1>19, <1>20, <1>21, <1>22, <1>23 DEF Next, Retire, Generate, Read

\* The invariant holds at the start.
LEMMA StreamInitial == Init => StreamInv
<1> SUFFICES ASSUME Init PROVE StreamInv
  OBVIOUS
<1>1. TypeOK
  BY StreamAssumption DEF Init, TypeOK
<1>2. Bytes(0, 0) = <<>>
  BY DEF Bytes
<1>3. RingHolds
  BY <1>2, StreamAssumption DEF Init, RingHolds, total_size
<1>4. HoldUsed /\ ReaderAttached /\ DownLater
  BY DEF Init, HoldUsed, ReaderAttached, DownLater
<1>5. ReplayContiguous
  BY <1>2 DEF Init, ReplayContiguous
<1>6. OneLivePerConv
  BY StreamAssumption DEF Init, OneLivePerConv, Threads
<1> QED
  BY <1>1, <1>3, <1>4, <1>5, <1>6 DEF StreamInv

\* In every reachable state.
LEMMA StreamInductive == Spec => []StreamInv
<1>1. StreamInv /\ [Next]_vars => StreamInv'
  BY TypeStep, RingStep, HoldStep, ReaderStep, ReplayStep, LiveStep DEF StreamInv
<1> QED
  BY StreamInitial, <1>1, PTL DEF Spec

\* Types, and the bound on a session's memory: the ring never holds more than
\* Cap bytes, whatever the size of the chunks.
THEOREM StreamTypeCorrect == Spec => []TypeOK
<1>1. StreamInv => TypeOK
  BY DEF StreamInv
<1> QED
  BY StreamInductive, <1>1, PTL

\* A reader receives a gapless run of one generation from its offset on, for
\* any ring size, any chunking and any interleaving with writes and drops.
THEOREM StreamReplayContiguous == Spec => []ReplayContiguous
<1>1. StreamInv => ReplayContiguous
  BY DEF StreamInv
<1> QED
  BY StreamInductive, <1>1, PTL

\* A session that still takes bytes is its conversation's, or somebody is about
\* to finalize it, for any number of requests, stops and conversations.
THEOREM StreamOneLivePerConv == Spec => []OneLivePerConv
<1>1. StreamInv => OneLivePerConv
  BY DEF StreamInv
<1> QED
  BY StreamInductive, <1>1, PTL
=============================================================================
