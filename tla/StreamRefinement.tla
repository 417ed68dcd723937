--------------------------- MODULE StreamRefinement ---------------------------
(***************************************************************************)
(* The ring buffers of StreamSession implement the append-only logs of     *)
(* StreamLog: every step is a step of the logs or leaves them unchanged.   *)
(***************************************************************************)
EXTENDS StreamProofs

\* The log a ring stands for is the generation's bytes from the first one on.
LEMMA LogIsBytes ==
    StreamInv => \A s \in Requests : total_size(s) \in Nat /\ LogOf(s) = Bytes(0, total_size(s))
<1> SUFFICES ASSUME StreamInv, NEW s \in Requests
             PROVE  total_size(s) \in Nat /\ LogOf(s) = Bytes(0, total_size(s))
  OBVIOUS
<1> DEFINE d == prefix_dropped[s]
           len == Len(buffer[s])
<1>1. d \in Nat /\ len \in Nat
  BY StreamAssumption DEF StreamInv, TypeOK
<1>2. buffer[s] = Bytes(d, len)
  BY DEF StreamInv, RingHolds
<1>3. total_size(s) = d + len
  BY DEF total_size
<1>4. ASSUME NEW k \in 1 .. d + len PROVE (IF k <= d THEN k ELSE buffer[s][k - d]) = 0 + k
  <2>1. CASE k <= d
    BY <2>1, <1>1
  <2>2. CASE ~(k <= d)
    <3>1. k - d \in 1 .. len
      BY <2>2, <1>1
    <3>2. Bytes(d, len)[k - d] = d + (k - d)
      BY <3>1, <1>1, BytesSeq
    <3> QED
      BY <2>2, <3>2, <1>1, <1>2
  <2> QED
    BY <2>1, <2>2
<1> QED
  BY <1>1, <1>3, <1>4 DEF LogOf, Bytes

\* An empty map of sessions is an empty set of logs.
LEMMA LogInitial == Init => Log!Init
<1> SUFFICES ASSUME Init PROVE Log!Init
  OBVIOUS
<1>1. StreamInv
  BY StreamInitial
<1>2. \A s \in Requests : LogOf(s) = <<>>
  <2>1. \A s \in Requests : LogOf(s) = Bytes(0, 0)
    BY <1>1, LogIsBytes DEF Init, total_size
  <2> QED
    BY <2>1 DEF Bytes
<1>3. [s \in Requests |-> LogOf(s)] = [s \in Requests |-> <<>>]
  BY <1>2
<1>4. {s \in Requests : done[s]} = {}
  BY DEF Init
<1>5. [r \in Readers |-> EndOf(r)] = [r \in Readers |-> "no"]
  BY DEF Init, EndOf
<1> QED
  BY <1>3, <1>4, <1>5 DEF Init, Log!Init

\* Rings and readers that do not change are logs that do not.
LEMMA LogsStay ==
    ASSUME UNCHANGED <<buffer, prefix_dropped>>
    PROVE  [s \in Requests |-> LogOf(s)]' = [s \in Requests |-> LogOf(s)]
BY DEF LogOf, total_size

\* What changes neither rings nor readers changes no log.
LEMMA StutterStep ==
    ASSUME UNCHANGED <<buffer, prefix_dropped, done, reader>>
    PROVE  UNCHANGED Log!logVars
<1>1. [s \in Requests |-> LogOf(s)]' = [s \in Requests |-> LogOf(s)]
  BY LogsStay
<1>2. [r \in Readers |-> EndOf(r)]' = [r \in Readers |-> EndOf(r)]
  BY DEF EndOf, reader
<1>3. {s \in Requests : done[s]}' = {s \in Requests : done[s]}
  OBVIOUS
<1> QED
  BY <1>1, <1>2, <1>3 DEF Log!logVars, reader

\* Finalizing a session closes its log.
LEMMA CloseStep ==
    ASSUME StreamInv, NEW s \in Requests, done' = [done EXCEPT ![s] = TRUE],
           UNCHANGED <<buffer, prefix_dropped, reader>>
    PROVE  Log!Close(s)
<1>1. [x \in Requests |-> LogOf(x)]' = [x \in Requests |-> LogOf(x)]
  BY LogsStay
<1>2. [r \in Readers |-> EndOf(r)]' = [r \in Readers |-> EndOf(r)]
  BY DEF EndOf, reader
<1>3. {x \in Requests : done[x]}' = {x \in Requests : done[x]} \cup {s}
  BY DEF StreamInv, TypeOK
<1> QED
  BY <1>1, <1>2, <1>3 DEF Log!Close, reader

\* The ways a reader ends without all of its session.
LEMMA CutStep ==
    ASSUME StreamInv, NEW r \in Readers, NEW how \in {"lost", "left", "refused"},
           rpc[r] \in {"new", "check", "read"},
           rpc' = [rpc EXCEPT ![r] = how],
           UNCHANGED <<buffer, prefix_dropped, done, rsess, from, got>>
    PROVE  Log!Cut(r)
<1>1. [x \in Requests |-> LogOf(x)]' = [x \in Requests |-> LogOf(x)]
  BY LogsStay
<1>2. EndOf(r) = "no"
  BY DEF EndOf
<1>3. [x \in Readers |-> EndOf(x)]' = [[x \in Readers |-> EndOf(x)] EXCEPT ![r] = "cut"]
  BY DEF EndOf, StreamInv, TypeOK
<1> QED
  BY <1>1, <1>2, <1>3 DEF Log!Cut

\* A chunk written into a session that is not done extends its log at the end.
LEMMA WriteStep ==
    ASSUME StreamInv, StreamInv', NEW p \in Requests, WriteChunk(p)
    PROVE  Log!Write(p) \/ UNCHANGED Log!logVars
<1> DEFINE L == [x \in Requests |-> LogOf(x)]
<1>1. pending[p] \in Nat \ {0} /\ made[p] + pending[p] <= MaxBytes /\ append(p, made[p], pending[p])
  BY DEF StreamInv, TypeOK, RingHolds, WriteChunk
<1>2. /\ \A x \in Requests : x # p \/ done[p] => buffer'[x] = buffer[x] /\ prefix_dropped'[x] = prefix_dropped[x]
      /\ ~done[p] => prefix_dropped'[p] + Len(buffer'[p]) = made[p] + pending[p]
  BY <1>1, AppendEffect DEF StreamInv
<1>3. \A x \in Requests : x # p \/ done[p] => LogOf(x)' = LogOf(x)
  BY <1>2 DEF LogOf, total_size
<1>4. UNCHANGED <<done, rsess, from, got, rpc>>
  BY DEF WriteChunk, reader
<1>5. [r \in Readers |-> EndOf(r)]' = [r \in Readers |-> EndOf(r)]
  BY <1>4 DEF EndOf
<1>6. CASE done[p]
  <2>1. L' = L
    BY <1>3, <1>6
  <2> QED
    BY <2>1, <1>4, <1>5 DEF Log!logVars
<1>7. CASE ~done[p]
  <2> DEFINE n == total_size(p)
             m == total_size(p)'
  <2>1. n \in Nat /\ m \in Nat /\ n < m
    <3>1. n = made[p]
      BY <1>7 DEF StreamInv, RingHolds
    <3>2. m = made[p] + pending[p]
      BY <1>2, <1>7 DEF total_size
    <3> QED
      BY <1>1, <3>1, <3>2 DEF StreamInv, TypeOK
  <2>2. LogOf(p) = Bytes(0, n)
    BY LogIsBytes
  <2>3. LogOf(p)' = Bytes(0, m)
    <3>1. (StreamInv => \A s \in Requests : total_size(s) \in Nat /\ LogOf(s) = Bytes(0, total_size(s)))'
      BY LogIsBytes, PTL
    <3> QED
      BY <3>1 DEF Bytes
  <2> HIDE DEF n, m
  <2>4. L[p] = Bytes(0, n) /\ L'[p] = Bytes(0, m)
    BY <2>2, <2>3
  <2>5. L' = [L EXCEPT ![p] = L'[p]]
    BY <1>3
  <2> HIDE DEF L
  <2>6. Len(L[p]) = n /\ Len(L'[p]) = m
    BY <2>1, <2>4, BytesSeq
  <2>7. \A k \in 1 .. n : L'[p][k] = L[p][k]
    <3> TAKE k \in 1 .. n
    <3>1. k \in 1 .. m
      BY <2>1
    <3>2. Bytes(0, n)[k] = 0 + k /\ Bytes(0, m)[k] = 0 + k
      BY <2>1, <3>1, BytesSeq
    <3> QED
      BY <2>4, <3>2
  <2>8. /\ L' = [L EXCEPT ![p] = L'[p]] /\ Len(L[p]) < Len(L'[p])
        /\ \A k \in 1 .. Len(L[p]) : L'[p][k] = L[p][k]
    BY <2>1, <2>5, <2>6, <2>7
  <2>9. p \notin {s \in Requests : done[s]}
    BY <1>7
  <2> QED
    BY <2>8, <2>9, <1>4, <1>5 DEF Log!Write, L
<1> QED
  BY <1>6, <1>7

\* A GET that finds a session attaches its reader to that one log.
LEMMA AttachStep ==
    ASSUME StreamInv, NEW r \in Readers, LookUp(r)
    PROVE  \E s \in Requests : Log!Attach(r, s)
<1> DEFINE s == sessions[Conv[r]]
<1>1. s \in Requests
  BY StreamAssumption DEF StreamInv, TypeOK, LookUp
<1>2. PICK o \in 0 .. MaxFrom : from' = [from EXCEPT ![r] = o]
  BY DEF LookUp
<1>3. /\ rpc[r] = "new" /\ rsess[r] = None /\ rpc' = [rpc EXCEPT ![r] = "check"]
      /\ rsess' = [rsess EXCEPT ![r] = s] /\ UNCHANGED <<buffer, prefix_dropped, done, got>>
  BY DEF StreamInv, ReaderAttached, LookUp, session
<1>4. [x \in Requests |-> LogOf(x)]' = [x \in Requests |-> LogOf(x)]
  BY <1>3, LogsStay
<1>5. EndOf(r) = "no" /\ [x \in Readers |-> EndOf(x)]' = [x \in Readers |-> EndOf(x)]
  BY <1>3 DEF EndOf, StreamInv, TypeOK
<1>6. from' = [from EXCEPT ![r] = from'[r]] /\ from'[r] \in Nat
  BY <1>2, StreamAssumption DEF StreamInv, TypeOK
<1> HIDE DEF s
<1>7. Log!Attach(r, s)
  BY <1>3, <1>4, <1>5, <1>6 DEF Log!Attach
<1> QED
  BY <1>1, <1>7

\* What a reader copies from the ring is what its log holds after its position.
LEMMA DeliverStep ==
    ASSUME StreamInv, NEW r \in Readers, ReadAvailable(r)
    PROVE  Log!Deliver(r)
<1> DEFINE s == rsess[r]
           d == prefix_dropped[s]
           len == Len(buffer[s])
           pos == from[r] + Len(got[r])
           L == [x \in Requests |-> LogOf(x)]
<1>1. s \in Requests /\ s # None
  BY StreamAssumption DEF StreamInv, ReaderAttached, ReadAvailable
<1>2. /\ d \in Nat /\ len \in Nat /\ pos \in Nat
      /\ d <= pos /\ pos < d + len
  <2>1. d \in Nat /\ len \in Nat /\ from[r] \in Nat /\ Len(got[r]) \in Nat
    BY <1>1, StreamAssumption DEF StreamInv, TypeOK
  <2>2. d <= Offset(r) /\ Offset(r) < d + len
    BY DEF ReadAvailable, total_size
  <2> QED
    BY <2>1, <2>2 DEF Offset
<1>3. buffer[s] = Bytes(d, len)
  BY <1>1 DEF StreamInv, RingHolds
<1>4. L[s] = Bytes(0, d + len)
  BY <1>1, LogIsBytes DEF total_size
<1>5. got' = [got EXCEPT ![r] = got[r] \o SubSeq(buffer[s], (pos - d) + 1, len)]
  <2>1. got' = [got EXCEPT ![r] = got[r] \o SubSeq(buffer[s], (Offset(r) - d) + 1, len)]
    BY DEF ReadAvailable
  <2>2. Offset(r) = pos
    BY DEF Offset
  <2> HIDE DEF s, d, len, pos
  <2> QED
    BY <2>1, <2>2
<1>6. UNCHANGED <<buffer, prefix_dropped, done, rpc, rsess, from>>
  BY DEF ReadAvailable, session
<1>7. L' = L
  BY <1>6, LogsStay
<1>8. EndOf(r) = "no" /\ [x \in Readers |-> EndOf(x)]' = [x \in Readers |-> EndOf(x)]
  BY <1>6 DEF EndOf, ReadAvailable
<1> HIDE DEF s, d, len, pos, L
<1>9. SubSeq(buffer[s], (pos - d) + 1, len) = Bytes(pos, (d + len) - pos)
  <2>1. pos - d \in 0 .. len /\ d + (pos - d) = pos /\ len - (pos - d) = (d + len) - pos
    BY <1>2
  <2>2. SubSeq(Bytes(d, len), (pos - d) + 1, len) = Bytes(d + (pos - d), len - (pos - d))
    BY <1>2, <2>1, BytesTail
  <2> QED
    BY <1>3, <2>1, <2>2
<1>10. SubSeq(L[s], pos + 1, d + len) = Bytes(pos, (d + len) - pos)
  <2>1. d + len \in Nat /\ pos \in 0 .. d + len /\ 0 + pos = pos
    BY <1>2
  <2>2. SubSeq(Bytes(0, d + len), pos + 1, d + len) = Bytes(0 + pos, (d + len) - pos)
    BY <2>1, BytesTail
  <2> QED
    BY <1>4, <2>1, <2>2
<1>11. Len(L[s]) = d + len
  BY <1>2, <1>4, BytesSeq
<1>12. got' = [got EXCEPT ![r] = got[r] \o SubSeq(L[s], pos + 1, Len(L[s]))] /\ pos < Len(L[s])
  BY <1>2, <1>5, <1>9, <1>10, <1>11
<1> QED
  BY <1>1, <1>6, <1>7, <1>8, <1>12 DEF Log!Deliver, L, pos, s

\* "complete" is reported with all of a finalized session received.
LEMMA CompleteStep ==
    ASSUME StreamInv, NEW r \in Readers, ReadComplete(r)
    PROVE  Log!Complete(r)
<1> DEFINE s == rsess[r]
           L == [x \in Requests |-> LogOf(x)]
<1>1. s \in Requests /\ done[s]
  BY DEF StreamInv, ReaderAttached, ReadComplete
<1>2. /\ rpc[r] = "read" /\ rpc' = [rpc EXCEPT ![r] = "complete"]
      /\ UNCHANGED <<buffer, prefix_dropped, done, rsess, from, got>>
  BY DEF ReadComplete, session
<1>3. L' = L
  BY <1>2, LogsStay
<1>4. EndOf(r) = "no"
  BY <1>2 DEF EndOf
<1>5. [x \in Readers |-> EndOf(x)]' = [[x \in Readers |-> EndOf(x)] EXCEPT ![r] = "complete"]
  BY <1>2 DEF EndOf, StreamInv, TypeOK
<1>6. total_size(s) \in Nat /\ L[s] = Bytes(0, total_size(s))
  BY <1>1, LogIsBytes
<1>7. Len(L[s]) <= from[r] + Len(got[r])
  <2>1. total_size(s) <= from[r] + Len(got[r])
    BY <1>6 DEF ReadComplete, Offset, StreamInv, TypeOK
  <2>2. Len(L[s]) = total_size(s)
    BY <1>6, BytesSeq
  <2> QED
    BY <2>1, <2>2
<1> QED
  BY <1>1, <1>2, <1>3, <1>4, <1>5, <1>7 DEF Log!Complete

\* One step of the sessions is one step of the logs, or none.
LEMMA LogStep ==
    ASSUME StreamInv, StreamInv', [Next]_vars
    PROVE  [Log!Next]_(Log!logVars)
<1>1. ASSUME NEW p \in Requests, SetReq(p) \/ StartStream(p) \/ EndBeforeStream(p) \/ Disconnect(p)
                                 \/ NextChunk(p) \/ NextEnds(p)
      PROVE  UNCHANGED Log!logVars
  <2>1. UNCHANGED <<buffer, prefix_dropped, done, reader>>
    BY <1>1 DEF SetReq, StartStream, EndBeforeStream, Disconnect, NextChunk, NextEnds, session
  <2> QED
    BY <2>1, StutterStep
<1>2. ASSUME NEW t \in Stops, Delete(t) PROVE UNCHANGED Log!logVars
  BY <1>2, StutterStep DEF Delete, session
<1>3. ASSUME NEW t \in Threads, CancelHeld(t) PROVE UNCHANGED Log!logVars
  BY <1>3, StutterStep DEF CancelHeld
<1>4. ASSUME NEW c \in Convs, Collect(c) PROVE UNCHANGED Log!logVars
  BY <1>4, StutterStep DEF Collect, session
<1>5. ASSUME StopGc PROVE UNCHANGED Log!logVars
  BY <1>5, StutterStep DEF StopGc, session
<1>6. ASSUME NEW t \in Threads, FinalizeHeld(t) PROVE Log!Next
  <2>1. hold[t] \in Requests
    BY <1>6 DEF StreamInv, HoldUsed, FinalizeHeld
  <2> QED
    BY <1>6, <2>1, CloseStep DEF FinalizeHeld, finalize, Log!Next
<1>7. ASSUME NEW p \in Requests, FinalizeEvicted(p) PROVE Log!Next
  <2>1. hold[p] \in Requests
    BY <1>7 DEF StreamInv, HoldUsed, FinalizeEvicted, Threads
  <2> QED
    BY <1>7, <2>1, CloseStep DEF FinalizeEvicted, finalize, Log!Next
<1>8. ASSUME NEW p \in Requests, DestroyPipe(p) PROVE Log!Next
  BY <1>8, CloseStep DEF DestroyPipe, finalize, Log!Next
<1>9. ASSUME FinalizeLeft PROVE Log!Next
  <2>1. PICK s \in down.left : done' = [done EXCEPT ![s] = TRUE] /\ UNCHANGED <<buffer, prefix_dropped, reader>>
    BY <1>9 DEF FinalizeLeft, finalize
  <2>2. s \in Requests
    BY DEF StreamInv, TypeOK
  <2> QED
    BY <2>1, <2>2, CloseStep DEF Log!Next
<1>10. ASSUME NEW p \in Requests, WriteChunk(p) PROVE [Log!Next]_(Log!logVars)
  BY <1>10, WriteStep DEF Log!Next
<1>11. ASSUME NEW r \in Readers, LookUp(r) PROVE Log!Next
  BY <1>11, AttachStep DEF Log!Next
<1>12. ASSUME NEW r \in Readers, NotFound(r) \/ ReadLost(r) \/ ReaderLeaves(r) PROVE Log!Next
  <2>1. \E how \in {"lost", "left", "refused"} : rpc' = [rpc EXCEPT ![r] = how]
    BY <1>12 DEF NotFound, ReadLost, ReaderLeaves
  <2>2. rpc[r] \in {"new", "check", "read"} /\ UNCHANGED <<buffer, prefix_dropped, done, rsess, from, got>>
    BY <1>12 DEF NotFound, ReadLost, ReaderLeaves, session
  <2> QED
    BY <2>1, <2>2, CutStep DEF Log!Next
<1>13. ASSUME NEW r \in Readers, CheckOffset(r) PROVE [Log!Next]_(Log!logVars)
  <2>1. rpc[r] = "check" /\ UNCHANGED <<buffer, prefix_dropped, done, rsess, from, got>>
    BY <1>13 DEF CheckOffset, session
  <2>2. CASE rpc' = [rpc EXCEPT ![r] = "refused"]
    BY <2>1, <2>2, CutStep DEF Log!Next
  <2>3. CASE rpc' = [rpc EXCEPT ![r] = "read"]
    <3>1. [x \in Readers |-> EndOf(x)]' = [x \in Readers |-> EndOf(x)]
      BY <2>1, <2>3 DEF EndOf, StreamInv, TypeOK
    <3>2. [x \in Requests |-> LogOf(x)]' = [x \in Requests |-> LogOf(x)]
      BY <2>1, LogsStay
    <3> QED
      BY <2>1, <3>1, <3>2 DEF Log!logVars
  <2> QED
    BY <1>13, <2>2, <2>3 DEF CheckOffset
<1>14. ASSUME NEW r \in Readers, ReadAvailable(r) PROVE Log!Next
  BY <1>14, DeliverStep DEF Log!Next
<1>15. ASSUME NEW r \in Readers, ReadComplete(r) PROVE Log!Next
  BY <1>15, CompleteStep DEF Log!Next
<1>16. CASE UNCHANGED vars
  BY <1>16, StutterStep DEF vars, session
<1> QED
  BY <1>1, <1>2, <1>3, <1>4, <1>5, <1>6, <1>7, <1>8, <1>9, <1>10, <1>11, <1>12, <1>13, <1>14, <1>15, <1>16
     DEF Next, Retire, Generate, Read

\* The ring buffers, with all that retires and shuts them down, implement
\* append-only logs whose readers receive each byte once and in order, for any
\* number of sessions and readers and any size of the ring.
THEOREM StreamImplementsLog == Spec => ImplementsLog
<1>1. StreamInv /\ StreamInv' /\ [Next]_vars => [Log!Next]_(Log!logVars)
  BY LogStep
<1> QED
  BY StreamInductive, LogInitial, <1>1, PTL DEF Spec, ImplementsLog, Log!Spec
=============================================================================
