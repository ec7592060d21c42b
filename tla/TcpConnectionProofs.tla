------------------------ MODULE TcpConnectionProofs ------------------------
(***************************************************************************)
(* Theorems about TcpConnection, for any number of callers, messages, reads *)
(* and sizes of the kernel's send buffer.                                   *)
(***************************************************************************)
EXTENDS TcpConnection, SequenceTheorems, TLAPS

-----------------------------------------------------------------------------
(* Sequences.                                                               *)

Joins(x, y, z) == x \o y = z

LEMMA Regroup ==
  ASSUME NEW S, NEW x \in Seq(S), NEW y \in Seq(S), NEW z \in Seq(S),
         NEW s, Joins(x, y, s), NEW t, Joins(y, z, t), NEW r, Joins(x, t, r)
  PROVE  Joins(s, z, r)
<1>1. (x \o y) \o z = x \o (y \o z)
  BY ConcatAssociative, SMTT(20)
<1>2. s = x \o y /\ t = y \o z /\ r = x \o t
  BY DEF Joins
<1> QED
  BY <1>1, <1>2, Zenon DEF Joins

(* A sequence is its first n elements and the rest.                         *)
LEMMA SplitSeq ==
  ASSUME NEW S, NEW u \in Seq(S), NEW n \in Nat, NEW d \in Nat, Len(u) = n + d
  PROVE  /\ SubSeq(u, 1, n) \in Seq(S) /\ Len(SubSeq(u, 1, n)) = n
         /\ SubSeq(u, n + 1, n + d) \in Seq(S) /\ Len(SubSeq(u, n + 1, n + d)) = d
         /\ SubSeq(u, 1, n) \o SubSeq(u, n + 1, n + d) = u
<1>1. PICK y : y = SubSeq(u, 1, n)
  OBVIOUS
<1>2. PICK z : z = SubSeq(u, n + 1, n + d)
  OBVIOUS
<1>3. y \in Seq(S) /\ Len(y) = n /\ \A i \in 1..n : y[i] = u[i]
  BY <1>1
<1>4. z \in Seq(S) /\ Len(z) = d /\ \A i \in 1..d : z[i] = u[n + i]
  BY <1>2
<1>5. /\ y \o z \in Seq(S) /\ Len(y \o z) = Len(y) + Len(z)
      /\ \A i \in 1..(Len(y) + Len(z)) :
           (y \o z)[i] = IF i <= Len(y) THEN y[i] ELSE z[i - Len(y)]
  BY <1>3, <1>4, ConcatProperties
<1>6. ASSUME NEW i \in 1..(n + d) PROVE (y \o z)[i] = u[i]
  <2>1. (y \o z)[i] = IF i <= n THEN y[i] ELSE z[i - n]
    BY <1>3, <1>4, <1>5
  <2>2. CASE i <= n
    BY <1>3, <2>1, <2>2
  <2>3. CASE ~(i <= n)
    <3>1. i - n \in 1..d /\ n + (i - n) = i
      BY <2>3
    <3> QED BY <1>4, <2>1, <2>3, <3>1
  <2> QED BY <2>2, <2>3
<1>7. y \o z = u
  BY <1>3, <1>4, <1>5, <1>6, SeqEqual
<1> QED
  BY <1>1, <1>2, <1>3, <1>4, <1>7

-----------------------------------------------------------------------------
(* The connection object by itself.                                         *)

(* What every member function that runs on the loop thread preserves.       *)
Sound(s) ==
  /\ s \in ConnType
  /\ s.sent \o s.wbuf = s.accepted
  /\ IF s.status = "kDisConnected"
     THEN ~s.owner /\ ~s.fd /\ s.cbs = 1 /\ s.wbuf = <<>>
     ELSE s.owner /\ s.fd /\ s.cbs = 0
  /\ ~s.badio

(* From s to t nothing is taken on, nothing is read, and closing is not     *)
(* taken back.                                                              *)
Keeps(s, t) ==
  /\ t.accepted = s.accepted
  /\ t.inq = s.inq
  /\ s.status # "kConnecting" =>
       t.status # "kConnecting" /\ Len(t.wbuf) <= Len(s.wbuf)

(* From s to t the message msg is taken on.                                 *)
Takes(s, t, msg) ==
  /\ s.status = "kConnecting"
  /\ t.accepted = s.accepted \o msg
  /\ t.inq = s.inq

LEMMA KeepsTransitive ==
  ASSUME NEW s, NEW t, NEW u, Sound(s), Sound(t), Sound(u), Keeps(s, t), Keeps(t, u)
  PROVE  Keeps(s, u)
  BY DEF Keeps, Sound, ConnType

LEMMA UseFdSame ==
  ASSUME NEW s, Sound(s), s.status # "kDisConnected"
  PROVE  UseFd(s) = s
  BY DEF UseFd, Sound, ConnType

LEMMA SetActiveKeeps ==
  ASSUME NEW s, Sound(s), NEW ev \in SUBSET Event
  PROVE  /\ Sound(SetActive(s, ev)) /\ Keeps(s, SetActive(s, ev))
         /\ SetActive(s, ev).status = s.status /\ SetActive(s, ev).wbuf = s.wbuf
<1> DEFINE t == SetActive(s, ev)
<1>1. t = [s EXCEPT !.events = ev] /\ s \in ConnType
  BY DEF SetActive, Sound
<1> HIDE DEF t
<1>2. t \in ConnType
  BY <1>1 DEF ConnType
<1>3. /\ t.owner = s.owner /\ t.status = s.status /\ t.fd = s.fd
      /\ t.cbs = s.cbs /\ t.wbuf = s.wbuf /\ t.sent = s.sent
      /\ t.accepted = s.accepted /\ t.inq = s.inq /\ t.badio = s.badio
  BY <1>1 DEF ConnType
<1>4. Sound(t)
  BY <1>2, <1>3, Zenon DEF Sound
<1>5. Len(s.wbuf) <= Len(s.wbuf)
  BY <1>1 DEF ConnType
<1>6. Keeps(s, t)
  BY <1>3, <1>5, Zenon DEF Keeps
<1> QED
  BY <1>3, <1>4, <1>6 DEF t

LEMMA DisconnectKeeps ==
  ASSUME NEW s, Sound(s), s.status # "kDisConnected", s.wbuf = <<>>
  PROVE  Sound(Disconnect(s)) /\ Keeps(s, Disconnect(s))
<1> DEFINE t == Disconnect(s)
<1>1. t = [s EXCEPT !.owner = FALSE, !.status = "kDisConnected", !.fd = FALSE,
                    !.cbs = s.cbs + 1]
  BY DEF Disconnect, RemoveFromLoop, Sound, ConnType
<1> HIDE DEF t
<1>2. s \in ConnType /\ s.cbs = 0
  BY DEF Sound
<1>3. t \in ConnType
  <2>1. \A f, g \in BOOLEAN, n \in Nat :
          [s EXCEPT !.owner = f, !.status = "kDisConnected", !.fd = g, !.cbs = n]
            \in ConnType
    BY <1>2 DEF ConnType
  <2>2. FALSE \in BOOLEAN /\ s.cbs + 1 \in Nat
    BY <1>2
  <2> QED
    BY <1>1, <2>1, <2>2, Zenon
<1>4. /\ t.owner = FALSE /\ t.status = "kDisConnected" /\ t.fd = FALSE /\ t.cbs = 1
      /\ t.wbuf = s.wbuf /\ t.sent = s.sent /\ t.accepted = s.accepted
      /\ t.inq = s.inq /\ t.badio = s.badio
  BY <1>1, <1>2 DEF ConnType
<1>5. Sound(t)
  BY <1>3, <1>4 DEF Sound
<1>6. Keeps(s, t)
  BY <1>2, <1>4 DEF Keeps, ConnType
<1> QED
  BY <1>5, <1>6 DEF t

LEMMA CloseInThreadKeeps ==
  ASSUME NEW s, Sound(s)
  PROVE  Sound(CloseInThread(s)) /\ Keeps(s, CloseInThread(s))
<1>1. CASE s.status = "kDisConnected"
  BY <1>1 DEF CloseInThread, Keeps, Sound, ConnType
<1>2. CASE s.status # "kDisConnected" /\ s.wbuf = <<>>
  <2>1. CloseInThread(s) = Disconnect(s)
    BY <1>2 DEF CloseInThread
  <2> QED BY <1>2, <2>1, DisconnectKeeps
<1>3. CASE s.status # "kDisConnected" /\ s.wbuf # <<>>
  <2> DEFINE t == [s EXCEPT !.status = "kDisConnecting"]
  <2>1. CloseInThread(s) = SetActive(t, s.events \cup {"w"})
    BY <1>3 DEF CloseInThread
  <2>2. Sound(t) /\ Keeps(s, t) /\ s.events \cup {"w"} \in SUBSET Event
    <3>1. s \in ConnType
      BY DEF Sound
    <3>2. t \in ConnType
      BY <3>1 DEF ConnType
    <3>3. /\ t.status = "kDisConnecting" /\ t.owner = s.owner /\ t.fd = s.fd
          /\ t.cbs = s.cbs /\ t.wbuf = s.wbuf /\ t.sent = s.sent
          /\ t.accepted = s.accepted /\ t.inq = s.inq /\ t.badio = s.badio
      BY <3>1 DEF ConnType
    <3>4. s.events \in SUBSET Event /\ Len(s.wbuf) \in Nat
      BY <3>1 DEF ConnType
    <3> HIDE DEF t
    <3>5. Sound(t)
      BY <1>3, <3>2, <3>3 DEF Sound
    <3>6. Keeps(s, t)
      BY <3>3, <3>4 DEF Keeps
    <3> QED BY <3>4, <3>5, <3>6 DEF Event
  <2> HIDE DEF t
  <2>3. Sound(SetActive(t, s.events \cup {"w"})) /\ Keeps(t, SetActive(t, s.events \cup {"w"}))
    BY <2>2, SetActiveKeeps
  <2> QED BY <2>1, <2>2, <2>3, KeepsTransitive
<1> QED
  BY <1>1, <1>2, <1>3

LEMMA CloseKeeps ==
  ASSUME NEW s, Sound(s)
  PROVE  Sound(Close(s)) /\ Keeps(s, Close(s))
<1>1. CASE s.close_requested
  BY <1>1 DEF Close, Keeps, Sound, ConnType
<1>2. CASE ~s.close_requested
  <2> DEFINE r == [s EXCEPT !.close_requested = TRUE]
  <2>1. Close(s) = (IF r.owner THEN CloseInThread(r) ELSE r)
    BY <1>2 DEF Close
  <2>2. Sound(r) /\ Keeps(s, r)
    <3>1. s \in ConnType
      BY DEF Sound
    <3>2. r \in ConnType
      <4>1. \A f \in BOOLEAN : [s EXCEPT !.close_requested = f] \in ConnType
        BY <3>1 DEF ConnType
      <4> QED BY <4>1, Zenon
    <3>3. /\ r.status = s.status /\ r.owner = s.owner /\ r.fd = s.fd
          /\ r.cbs = s.cbs /\ r.wbuf = s.wbuf /\ r.sent = s.sent
          /\ r.accepted = s.accepted /\ r.inq = s.inq /\ r.badio = s.badio
      BY <3>1 DEF ConnType
    <3>4. Len(s.wbuf) \in Nat
      BY <3>1 DEF ConnType
    <3> HIDE DEF r
    <3>5. Sound(r)
      BY <3>2, <3>3 DEF Sound
    <3>6. Keeps(s, r)
      BY <3>3, <3>4 DEF Keeps
    <3> QED BY <3>5, <3>6
  <2> HIDE DEF r
  <2>3. Sound(CloseInThread(r)) /\ Keeps(r, CloseInThread(r))
    BY <2>2, CloseInThreadKeeps
  <2> QED BY <2>1, <2>2, <2>3, KeepsTransitive
<1> QED
  BY <1>1, <1>2

(* What write(2) takes leaves the front of the units, in order.             *)
LEMMA KernelWriteIs ==
  ASSUME NEW s, Sound(s), s.status # "kDisConnected", NEW u \in Seq(Unit)
  PROVE  LET t == KernelWrite(s, u)
         IN  /\ t \in ConnType
             /\ t.sent \o t.wbuf = s.sent \o u
             /\ Len(t.wbuf) <= Len(u)
             /\ t.status = s.status /\ t.owner = s.owner /\ t.fd = s.fd
             /\ t.cbs = s.cbs /\ t.badio = s.badio /\ t.accepted = s.accepted
             /\ t.inq = s.inq /\ t.events = s.events
<1>1. PICK m \in Nat : m = Len(u)
  OBVIOUS
<1>2. PICK n \in 0..m : n = KernelTake(s, u) /\ s.room - n \in 0..SndCap
  <2>1. s.room \in 0..SndCap
    BY DEF Sound, ConnType
  <2>2. PICK r \in 0..SndCap : r = s.room
    BY <2>1
  <2>3. KernelTake(s, u) = IF m <= r THEN m ELSE r
    BY <1>1, <2>2, Zenon DEF KernelTake
  <2>4. KernelTake(s, u) \in 0..m /\ r - KernelTake(s, u) \in 0..SndCap
    BY <2>3, SizesAssumption
  <2> QED BY <2>2, <2>4, Zenon
<1>3. PICK d \in Nat : d = m - n /\ Len(u) = n + d
  <2>1. m - n \in Nat /\ m = n + (m - n)
    OBVIOUS
  <2> QED BY <1>1, <2>1, Zenon
<1>4. PICK x \in Seq(Unit), y \in Seq(Unit) :
        /\ x = SubSeq(u, 1, n) /\ y = SubSeq(u, n + 1, Len(u))
        /\ Len(y) <= Len(u) /\ x \o y = u
  <2>1. n \in Nat /\ Len(u) = n + d
    BY <1>3
  <2>2. /\ SubSeq(u, 1, n) \in Seq(Unit)
        /\ SubSeq(u, n + 1, n + d) \in Seq(Unit) /\ Len(SubSeq(u, n + 1, n + d)) = d
        /\ SubSeq(u, 1, n) \o SubSeq(u, n + 1, n + d) = u
    BY <2>1, SplitSeq
  <2>3. d <= Len(u)
    BY <2>1
  <2> QED BY <2>1, <2>2, <2>3, Zenon
<1>5. PICK a \in Seq(Unit) : a = s.sent
  BY DEF Sound, ConnType
<1>6. PICK e \in Seq(Unit) : e = a \o x /\ e \o y = a \o u
  <2>1. PICK e \in Seq(Unit) : e = a \o x
    BY ConcatProperties
  <2>2. e \o y = a \o u
    <3>1. Joins(a, x, e) /\ Joins(x, y, u) /\ Joins(a, u, a \o u)
      BY <1>4, <2>1 DEF Joins
    <3>2. Joins(e, y, a \o u)
      BY <3>1, Regroup
    <3> QED BY <3>2 DEF Joins
  <2> QED BY <2>1, <2>2
<1>7. PICK r \in 0..SndCap : r = s.room - n
  BY <1>2
<1> DEFINE t == KernelWrite(s, u)
<1>8. t = [s EXCEPT !.sent = e, !.room = r, !.wbuf = y]
  <2>1. t = [s EXCEPT !.sent = @ \o x, !.room = @ - n, !.wbuf = y]
    BY <1>2, <1>4, UseFdSame, Zenon DEF KernelWrite
  <2> QED BY <1>5, <1>6, <1>7, <2>1, Zenon
<1> HIDE DEF t
<1>9. s \in ConnType
  BY DEF Sound
<1>10. t \in ConnType
  BY <1>8, <1>9 DEF ConnType
<1>11. /\ t.sent = e /\ t.wbuf = y
       /\ t.status = s.status /\ t.owner = s.owner /\ t.fd = s.fd
       /\ t.cbs = s.cbs /\ t.badio = s.badio /\ t.accepted = s.accepted
       /\ t.inq = s.inq /\ t.events = s.events
  BY <1>8, <1>9 DEF ConnType
<1>12. t.sent \o t.wbuf = s.sent \o u /\ Len(t.wbuf) <= Len(u)
  BY <1>4, <1>5, <1>6, <1>11, Zenon
<1> QED
  BY <1>10, <1>11, <1>12 DEF t

LEMMA ArmKeeps ==
  ASSUME NEW s, Sound(s)
  PROVE  Sound(Arm(s)) /\ Keeps(s, Arm(s)) /\ Arm(s).status = s.status
<1>1. s.events \cup {"w"} \in SUBSET Event /\ Len(s.wbuf) \in Nat
  BY DEF Sound, ConnType, Event
<1>2. Keeps(s, s)
  BY <1>1 DEF Keeps
<1> QED
  BY <1>1, <1>2, SetActiveKeeps DEF Arm

(* A message is taken on in one piece behind everything taken on before it, *)
(* or not at all.                                                           *)
LEMMA WriteInThreadKeeps ==
  ASSUME NEW s, Sound(s), NEW msg \in Seq(Unit)
  PROVE  LET t == WriteInThread(s, msg)
         IN  Sound(t) /\ (Keeps(s, t) \/ Takes(s, t, msg))
<1>1. CASE s.status # "kConnecting"
  <2>1. WriteInThread(s, msg) = s
    BY <1>1 DEF WriteInThread
  <2> QED BY <2>1 DEF Keeps, Sound, ConnType
<1>2. PICK a \in Seq(Unit), w \in Seq(Unit), g \in Seq(Unit) :
        a = s.sent /\ w = s.wbuf /\ g = s.accepted /\ a \o w = g
  BY DEF Sound, ConnType
<1>3. PICK h \in Seq(Unit) : h = g \o msg
  BY ConcatProperties
<1>4. s \in ConnType
  BY DEF Sound
<1>5. CASE s.status = "kConnecting" /\ s.wbuf # <<>>
  <2>1. PICK x \in Seq(Unit) : x = w \o msg
    BY ConcatProperties
  <2> DEFINE t == [s EXCEPT !.wbuf = x, !.accepted = h]
  <2>2. WriteInThread(s, msg) = Arm(t)
    BY <1>2, <1>3, <1>5, <2>1 DEF WriteInThread
  <2>3. t \in ConnType
    BY <1>4 DEF ConnType
  <2>4. /\ t.status = s.status /\ t.owner = s.owner /\ t.fd = s.fd
        /\ t.cbs = s.cbs /\ t.wbuf = x /\ t.sent = s.sent
        /\ t.accepted = h /\ t.inq = s.inq /\ t.badio = s.badio
    BY <1>4 DEF ConnType
  <2> HIDE DEF t
  <2>5. a \o x = h
    <3>1. Joins(a, w, g) /\ Joins(w, msg, x) /\ Joins(a, x, a \o x)
      BY <1>2, <2>1 DEF Joins
    <3>2. Joins(g, msg, a \o x)
      BY <3>1, Regroup
    <3> QED BY <1>3, <3>2 DEF Joins
  <2>6. Sound(t)
    BY <1>2, <1>5, <2>3, <2>4, <2>5 DEF Sound
  <2>7. Sound(Arm(t)) /\ Keeps(t, Arm(t))
    BY <2>6, ArmKeeps
  <2>8. Takes(s, Arm(t), msg)
    BY <1>2, <1>3, <1>5, <2>4, <2>7 DEF Takes, Keeps
  <2> QED BY <2>2, <2>7, <2>8
<1>6. CASE s.status = "kConnecting" /\ s.wbuf = <<>> /\ s.reset
  <2>1. WriteInThread(s, msg) = CloseInThread(s)
    BY <1>6, UseFdSame DEF WriteInThread
  <2> QED BY <2>1, CloseInThreadKeeps
<1>7. CASE s.status = "kConnecting" /\ s.wbuf = <<>> /\ ~s.reset
  <2> DEFINE k == KernelWrite(s, msg)
             t == [k EXCEPT !.accepted = h]
  <2>1. /\ k \in ConnType
        /\ k.sent \o k.wbuf = a \o msg
        /\ k.status = s.status /\ k.owner = s.owner /\ k.fd = s.fd
        /\ k.cbs = s.cbs /\ k.badio = s.badio /\ k.accepted = g
        /\ k.inq = s.inq
    BY <1>2, <1>7, KernelWriteIs
  <2>2. WriteInThread(s, msg) = Arm(t)
    BY <1>3, <1>7, <2>1 DEF WriteInThread
  <2> HIDE DEF k
  <2>3. t \in ConnType
    BY <2>1 DEF ConnType
  <2>4. /\ t.status = s.status /\ t.owner = s.owner /\ t.fd = s.fd
        /\ t.cbs = s.cbs /\ t.wbuf = k.wbuf /\ t.sent = k.sent
        /\ t.accepted = h /\ t.inq = s.inq /\ t.badio = s.badio
    BY <2>1 DEF ConnType
  <2> HIDE DEF t
  <2>5. a = g
    BY <1>2, <1>7
  <2>6. Sound(t)
    BY <1>3, <1>7, <2>1, <2>3, <2>4, <2>5 DEF Sound
  <2>7. Sound(Arm(t)) /\ Keeps(t, Arm(t))
    BY <2>6, ArmKeeps
  <2>8. Takes(s, Arm(t), msg)
    BY <1>2, <1>3, <1>7, <2>4, <2>7 DEF Takes, Keeps
  <2> QED BY <2>2, <2>7, <2>8
<1> QED
  BY <1>1, <1>5, <1>6, <1>7

LEMMA WriteKeeps ==
  ASSUME NEW s, Sound(s), NEW msg \in Seq(Unit)
  PROVE  LET t == Write(s, msg)
         IN  Sound(t) /\ (Keeps(s, t) \/ Takes(s, t, msg))
<1>1. Keeps(s, s)
  BY DEF Keeps, Sound, ConnType
<1> QED
  BY <1>1, WriteInThreadKeeps DEF Write

LEMMA AfterFlushKeeps ==
  ASSUME NEW s, Sound(s)
  PROVE  Sound(AfterFlush(s)) /\ Keeps(s, AfterFlush(s))
<1>1. CASE s.wbuf # <<>>
  BY <1>1 DEF AfterFlush, Keeps, Sound, ConnType
<1>2. CASE s.wbuf = <<>>
  <2> DEFINE r == SetActive(s, s.events \ {"w"})
  <2>1. s.events \ {"w"} \in SUBSET Event
    BY DEF Sound, ConnType
  <2>2. Sound(r) /\ Keeps(s, r) /\ r.status = s.status /\ r.wbuf = <<>>
    BY <1>2, <2>1, SetActiveKeeps
  <2>3. AfterFlush(s) = IF r.status = "kDisConnecting" THEN Disconnect(r) ELSE r
    BY <1>2 DEF AfterFlush
  <2> HIDE DEF r
  <2>4. CASE r.status = "kDisConnecting"
    <3>1. Sound(Disconnect(r)) /\ Keeps(r, Disconnect(r))
      BY <2>2, <2>4, DisconnectKeeps
    <3> QED BY <2>2, <2>3, <2>4, <3>1, KeepsTransitive
  <2>5. CASE r.status # "kDisConnecting"
    BY <2>2, <2>3, <2>5
  <2> QED BY <2>4, <2>5
<1> QED
  BY <1>1, <1>2

LEMMA WriteFdKeeps ==
  ASSUME NEW s, Sound(s)
  PROVE  Sound(WriteFd(s)) /\ Keeps(s, WriteFd(s))
<1>1. CASE s.status = "kDisConnected"
  BY <1>1 DEF WriteFd, Keeps, Sound, ConnType
<1>2. CASE s.status # "kDisConnected" /\ s.reset
  <2>1. WriteFd(s) = AfterFlush(Close(s))
    BY <1>2, UseFdSame DEF WriteFd
  <2>2. Sound(Close(s)) /\ Keeps(s, Close(s))
    BY CloseKeeps
  <2>3. Sound(AfterFlush(Close(s))) /\ Keeps(Close(s), AfterFlush(Close(s)))
    BY <2>2, AfterFlushKeeps
  <2> QED BY <2>1, <2>2, <2>3, KeepsTransitive
<1>3. CASE s.status # "kDisConnected" /\ ~s.reset
  <2> DEFINE k == KernelWrite(s, s.wbuf)
  <2>1. WriteFd(s) = AfterFlush(k)
    BY <1>3 DEF WriteFd
  <2>2. s.wbuf \in Seq(Unit)
    BY DEF Sound, ConnType
  <2>3. /\ k \in ConnType
        /\ k.sent \o k.wbuf = s.sent \o s.wbuf /\ Len(k.wbuf) <= Len(s.wbuf)
        /\ k.status = s.status /\ k.owner = s.owner /\ k.fd = s.fd
        /\ k.cbs = s.cbs /\ k.badio = s.badio /\ k.accepted = s.accepted
        /\ k.inq = s.inq
    BY <1>3, <2>2, KernelWriteIs
  <2> HIDE DEF k
  <2>4. Sound(k)
    BY <1>3, <2>3 DEF Sound
  <2>5. Keeps(s, k)
    BY <2>3 DEF Keeps
  <2>6. Sound(AfterFlush(k)) /\ Keeps(k, AfterFlush(k))
    BY <2>4, AfterFlushKeeps
  <2> QED BY <2>1, <2>4, <2>5, <2>6, KeepsTransitive
<1> QED
  BY <1>1, <1>2, <1>3

LEMMA ActivateKeeps ==
  ASSUME NEW s, Sound(s)
  PROVE  Sound(Activate(s)) /\ Keeps(s, Activate(s))
<1>1. Keeps(s, s)
  BY DEF Keeps, Sound, ConnType
<1>2. {"r", "c"} \in SUBSET Event
  BY DEF Event
<1> QED
  BY <1>1, <1>2, SetActiveKeeps DEF Activate, ActivateInThread

(* What Read does to s when it returns t: nothing is read and nothing taken *)
(* on, or one chunk is read and answered with the reply at most.            *)
Reads(s, t, reply) ==
  /\ \/ Keeps(s, t)
     \/ /\ s.status = "kConnecting" /\ s.inq # <<>> /\ t.inq = Tail(s.inq)
        /\ t.accepted = s.accepted \/ t.accepted = s.accepted \o reply

LEMMA OnMessageKeeps ==
  ASSUME NEW s, Sound(s), s.status = "kConnecting", NEW k \in Chunk,
         NEW reply \in Seq(Unit)
  PROVE  LET t == OnMessage(s, k, reply)
         IN  /\ Sound(t) /\ t.inq = s.inq
             /\ t.accepted = s.accepted \/ t.accepted = s.accepted \o reply
<1> DEFINE w == Write(s, reply)
<1>1. /\ Sound(w) /\ w.inq = s.inq
      /\ w.accepted = s.accepted \/ w.accepted = s.accepted \o reply
  BY WriteKeeps DEF Keeps, Takes
<1>2. Sound(Close(s)) /\ Close(s).inq = s.inq /\ Close(s).accepted = s.accepted
  BY CloseKeeps DEF Keeps
<1>3. Sound(Close(w)) /\ Close(w).inq = w.inq /\ Close(w).accepted = w.accepted
  BY <1>1, CloseKeeps DEF Keeps
<1> HIDE DEF w
<1>4. CASE k = "part"
  <2>1. OnMessage(s, k, reply) = s
    BY <1>4 DEF OnMessage
  <2> QED BY <2>1
<1>5. CASE k = "frame"
  <2>1. OnMessage(s, k, reply) = w
    BY <1>5 DEF OnMessage, w
  <2> QED BY <1>1, <2>1
<1>6. CASE k = "huge"
  <2>1. OnMessage(s, k, reply) = Close(s)
    BY <1>6 DEF OnMessage
  <2> QED BY <1>2, <2>1
<1>7. CASE k = "frame_huge"
  <2>1. OnMessage(s, k, reply) = Close(w)
    BY <1>7 DEF OnMessage, w
  <2> QED BY <1>1, <1>3, <2>1
<1> QED
  BY <1>4, <1>5, <1>6, <1>7 DEF Chunk

LEMMA ReadReads ==
  ASSUME NEW s, Sound(s), NEW reply, s.inq # <<>> => reply \in Seq(Unit)
  PROVE  Sound(Read(s, reply)) /\ Reads(s, Read(s, reply), reply)
<1>0. Keeps(s, s)
  BY DEF Keeps, Sound, ConnType
<1>1. CASE s.status # "kConnecting"
  <2>1. Read(s, reply) = s
    BY <1>1 DEF Read
  <2> QED BY <1>0, <2>1 DEF Reads
<1>2. CASE s.status = "kConnecting" /\ (s.reset \/ (s.inq = <<>> /\ s.fin))
  <2>1. Read(s, reply) = Close(s)
    BY <1>2, UseFdSame DEF Read
  <2> QED BY <2>1, CloseKeeps DEF Reads
<1>3. CASE s.status = "kConnecting" /\ ~s.reset /\ s.inq # <<>>
  <2> DEFINE r == [s EXCEPT !.inq = Tail(@)]
  <2>1. Read(s, reply) = OnMessage(r, Head(s.inq), reply)
    BY <1>3, UseFdSame DEF Read
  <2>2. s \in ConnType
    BY DEF Sound
  <2>3. PICK q \in Seq(Chunk) : q = s.inq /\ q # <<>>
    BY <1>3, <2>2 DEF ConnType
  <2>4. Head(q) \in Chunk /\ Tail(q) \in Seq(Chunk)
    BY <2>3
  <2>5. r = [s EXCEPT !.inq = Tail(q)]
    BY <2>3
  <2>6. r \in ConnType
    <3>1. \A p \in Seq(Chunk) : [s EXCEPT !.inq = p] \in ConnType
      BY <2>2 DEF ConnType
    <3> QED BY <2>4, <2>5, <3>1, Zenon
  <2>7. /\ r.status = s.status /\ r.owner = s.owner /\ r.fd = s.fd
        /\ r.cbs = s.cbs /\ r.wbuf = s.wbuf /\ r.sent = s.sent
        /\ r.accepted = s.accepted /\ r.inq = Tail(q) /\ r.badio = s.badio
    BY <2>2, <2>5 DEF ConnType
  <2> HIDE DEF r
  <2>8. Sound(r)
    BY <2>6, <2>7 DEF Sound
  <2> DEFINE t == OnMessage(r, Head(q), reply)
  <2>9. /\ Sound(t) /\ t.inq = r.inq
        /\ t.accepted = r.accepted \/ t.accepted = r.accepted \o reply
    BY <1>3, <2>4, <2>7, <2>8, OnMessageKeeps
  <2> HIDE DEF t
  <2>10. Reads(s, t, reply)
    BY <1>3, <2>3, <2>7, <2>9 DEF Reads
  <2> QED BY <2>1, <2>3, <2>9, <2>10 DEF t
<1>4. CASE s.status = "kConnecting" /\ ~s.reset /\ s.inq = <<>> /\ ~s.fin
  <2>1. Read(s, reply) = s
    BY <1>4, UseFdSame DEF Read
  <2> QED BY <1>0, <2>1 DEF Reads
<1> QED
  BY <1>1, <1>2, <1>3, <1>4

-----------------------------------------------------------------------------
(* The order of the units.                                                  *)

Ordered(a) ==
  \A i, j \in 1..Len(a) :
    i < j /\ a[i][1] = a[j][1] =>
      a[i][2] < a[j][2] \/ (a[i][2] = a[j][2] /\ a[i][3] < a[j][3])

(* The messages of writer w in a have numbers below n.                      *)
Below(a, w, n) == \A i \in 1..Len(a) : a[i][1] = w => a[i][2] < n

WriteCall(c, n) == [op |-> "write", msg |-> Message(c, n)]
CloseCall == [op |-> "close", msg |-> <<>>]

Types ==
  /\ lpc \in LoopPC
  /\ act \subseteq Event
  /\ missions \in Seq(Mission)
  /\ todo \in 0..Len(missions)
  /\ pc \in [Callers -> CallerPC]
  /\ count \in [Writers -> Nat]
  /\ chunks \in 0..MaxChunks
  /\ expired \in BOOLEAN

(* The numbers of messages; what the loop thread still has to read bounds   *)
(* its replies.                                                             *)
Counts ==
  /\ \A c \in Callers : count[c] <= MaxWrites
  /\ Len(conn.inq) <= chunks
  /\ count[LoopThread] + Len(conn.inq) <= SetupWrites + chunks

(* Nothing is accepted that has not been written, and what a caller is      *)
(* about to submit is its newest message.                                   *)
Written ==
  /\ Ordered(conn.accepted)
  /\ \A w \in Writers : Below(conn.accepted, w, count[w] + 1)
  /\ \A c \in Callers :
       pc[c] = "write" => count[c] \in 1..MaxWrites /\ Below(conn.accepted, c, count[c])

(* Of each caller's messages the queue holds newer ones than the stream,    *)
(* older ones than the one about to be submitted, in order.                 *)
Queued ==
  /\ \A i \in 1..Len(missions) :
       \/ missions[i] = CloseCall
       \/ \E c \in Callers, n \in 1..MaxWrites : missions[i] = WriteCall(c, n)
  /\ \A i \in 1..Len(missions), c \in Callers, n \in 1..MaxWrites :
       missions[i] = WriteCall(c, n) =>
         /\ Below(conn.accepted, c, n)
         /\ n <= count[c]
         /\ pc[c] = "write" => n < count[c]
  /\ \A i, j \in 1..Len(missions), c \in Callers, n, k \in 1..MaxWrites :
       i < j /\ missions[i] = WriteCall(c, n) /\ missions[j] = WriteCall(c, k) => n < k

Inv == Sound(conn) /\ Types /\ Counts /\ Written /\ Queued

-----------------------------------------------------------------------------
(* Messages.                                                                *)

Last == MaxWrites + SetupWrites + MaxChunks

LEMMA MessageIs ==
  ASSUME NEW w \in Writers, NEW n \in 1..Last
  PROVE  /\ Message(w, n) \in Seq(Unit) /\ Len(Message(w, n)) = MsgLen
         /\ \A k \in 1..MsgLen : Message(w, n)[k] = <<w, n, k>>
<1>1. Message(w, n) \in [1..MsgLen -> Unit]
  BY DEF Message, Unit, Last
<1>2. MsgLen \in Nat
  BY SizesAssumption
<1>3. \A S, m : m \in [1..MsgLen -> S] => m \in Seq(S) /\ Len(m) = MsgLen
  BY <1>2
<1> QED
  BY <1>1, <1>3 DEF Message

LEMMA UnitIs ==
  ASSUME NEW u \in Unit
  PROVE  u[1] \in Writers /\ u[2] \in Nat /\ u[3] \in Nat
  BY SizesAssumption DEF Unit

LEMMA CallsDiffer ==
  ASSUME NEW c \in Callers, NEW d \in Callers, NEW n \in 1..MaxWrites,
         NEW k \in 1..MaxWrites
  PROVE  /\ WriteCall(c, n) # CloseCall
         /\ WriteCall(c, n) = WriteCall(d, k) => c = d /\ n = k
<1>1. WriteCall(c, n).op = "write" /\ CloseCall.op = "close"
  BY DEF WriteCall, CloseCall
<1>2. c \in Writers /\ d \in Writers /\ n \in 1..Last /\ k \in 1..Last /\ 1 \in 1..MsgLen
  BY SizesAssumption DEF Writers, Last
<1>3. Message(c, n)[1] = <<c, n, 1>> /\ Message(d, k)[1] = <<d, k, 1>>
  BY <1>2, MessageIs
<1>4. ASSUME WriteCall(c, n) = WriteCall(d, k) PROVE c = d /\ n = k
  <2>1. WriteCall(c, n).msg = Message(c, n) /\ WriteCall(d, k).msg = Message(d, k)
    BY DEF WriteCall
  <2>2. <<c, n, 1>> = <<d, k, 1>>
    BY <1>3, <1>4, <2>1
  <2> QED BY <2>2
<1> QED
  BY <1>1, <1>4

(* Element by element, what a stream is with a message behind it.           *)
LEMMA AppendIs ==
  ASSUME NEW a \in Seq(Unit), NEW w \in Writers, NEW n \in 1..Last
  PROVE  LET t == a \o Message(w, n)
         IN  /\ t \in Seq(Unit)
             /\ \A i \in 1..Len(t) :
                  \/ i \in 1..Len(a) /\ t[i] = a[i]
                  \/ i - Len(a) \in 1..MsgLen /\ t[i] = <<w, n, i - Len(a)>>
<1>1. PICK m \in Seq(Unit) :
        /\ m = Message(w, n) /\ Len(m) = MsgLen
        /\ \A k \in 1..MsgLen : m[k] = <<w, n, k>>
  BY MessageIs
<1>2. PICK l \in Nat : l = Len(a)
  OBVIOUS
<1>3. PICK t \in Seq(Unit) :
        /\ t = a \o m /\ Len(t) = l + MsgLen
        /\ \A i \in 1..(l + MsgLen) : t[i] = IF i <= l THEN a[i] ELSE m[i - l]
  <2>1. Len(m) = MsgLen
    BY <1>1
  <2>2. /\ a \o m \in Seq(Unit) /\ Len(a \o m) = Len(a) + Len(m)
        /\ \A i \in 1..(Len(a) + Len(m)) :
             (a \o m)[i] = IF i <= Len(a) THEN a[i] ELSE m[i - Len(a)]
    BY ConcatProperties
  <2> QED BY <1>2, <2>1, <2>2, Zenon
<1>4. MsgLen \in Nat
  BY SizesAssumption
<1>5. ASSUME NEW i \in 1..Len(t)
      PROVE  \/ i \in 1..l /\ t[i] = a[i]
             \/ i - l \in 1..MsgLen /\ t[i] = <<w, n, i - l>>
  <2>1. i \in 1..(l + MsgLen)
    BY <1>3
  <2>2. CASE i <= l
    BY <1>3, <2>1, <2>2
  <2>3. CASE ~(i <= l)
    <3>1. i - l \in 1..MsgLen
      BY <1>4, <2>1, <2>3
    <3> QED BY <1>1, <1>3, <2>1, <2>3, <3>1
  <2> QED BY <2>2, <2>3
<1> QED
  BY <1>1, <1>2, <1>3, <1>5, Zenon

LEMMA AppendOrdered ==
  ASSUME NEW a \in Seq(Unit), NEW w \in Writers, NEW n \in 1..Last,
         Ordered(a), Below(a, w, n)
  PROVE  Ordered(a \o Message(w, n))
<1>1. PICK t \in Seq(Unit), l \in Nat :
        /\ t = a \o Message(w, n) /\ l = Len(a)
        /\ \A i \in 1..Len(t) :
             \/ i \in 1..l /\ t[i] = a[i]
             \/ i - l \in 1..MsgLen /\ t[i] = <<w, n, i - l>>
  <2>1. Len(a) \in Nat
    OBVIOUS
  <2> QED BY <2>1, AppendIs, Zenon
<1> SUFFICES ASSUME NEW i \in 1..Len(t), NEW j \in 1..Len(t), i < j, t[i][1] = t[j][1]
             PROVE  t[i][2] < t[j][2] \/ (t[i][2] = t[j][2] /\ t[i][3] < t[j][3])
  BY <1>1, Zenon DEF Ordered
<1>2. MsgLen \in Nat
  BY SizesAssumption
<1>3. CASE i \in 1..l /\ t[i] = a[i] /\ j \in 1..l /\ t[j] = a[j]
  BY <1>1, <1>3 DEF Ordered
<1>4. CASE i \in 1..l /\ t[i] = a[i] /\ t[j] = <<w, n, j - l>>
  BY <1>1, <1>4 DEF Below
<1>5. CASE i - l \in 1..MsgLen /\ j \in 1..l
  BY <1>2, <1>5
<1>6. CASE t[i] = <<w, n, i - l>> /\ t[j] = <<w, n, j - l>>
  BY <1>6
<1> QED
  BY <1>1, <1>3, <1>4, <1>5, <1>6

LEMMA AppendBelow ==
  ASSUME NEW a \in Seq(Unit), NEW w \in Writers, NEW n \in 1..Last,
         NEW v, NEW k \in Int, Below(a, v, k), v = w => n < k
  PROVE  Below(a \o Message(w, n), v, k)
<1>1. PICK t \in Seq(Unit), l \in Nat :
        /\ t = a \o Message(w, n) /\ l = Len(a)
        /\ \A i \in 1..Len(t) :
             \/ i \in 1..l /\ t[i] = a[i]
             \/ i - l \in 1..MsgLen /\ t[i] = <<w, n, i - l>>
  <2>1. Len(a) \in Nat
    OBVIOUS
  <2> QED BY <2>1, AppendIs, Zenon
<1> SUFFICES ASSUME NEW i \in 1..Len(t), t[i][1] = v PROVE t[i][2] < k
  BY <1>1, Zenon DEF Below
<1>2. CASE i \in 1..l /\ t[i] = a[i]
  BY <1>1, <1>2 DEF Below
<1>3. CASE t[i] = <<w, n, i - l>>
  BY <1>3
<1> QED
  BY <1>1, <1>2, <1>3

LEMMA BelowMore ==
  ASSUME NEW a \in Seq(Unit), NEW w, NEW n \in Int, NEW k \in Int, n <= k, Below(a, w, n)
  PROVE  Below(a, w, k)
<1> SUFFICES ASSUME NEW i \in 1..Len(a), a[i][1] = w PROVE a[i][2] < k
  BY DEF Below
<1>1. a[i][2] < n /\ a[i] \in Unit
  BY DEF Below
<1>2. a[i][2] \in Nat
  BY <1>1, UnitIs
<1> QED
  BY <1>1, <1>2

-----------------------------------------------------------------------------
(* The invariant and the steps.                                             *)

LEMMA InitInv == Init => Inv
<1> SUFFICES ASSUME Init PROVE Inv
  OBVIOUS
<1> USE SizesAssumption
<1>1. conn = [status |-> "kConnecting", close_requested |-> FALSE,
              owner |-> TRUE, events |-> {}, wbuf |-> <<>>, fd |-> TRUE,
              cbs |-> 0, room |-> SndCap, inq |-> <<>>, fin |-> FALSE,
              reset |-> FALSE, sent |-> <<>>, accepted |-> <<>>,
              badio |-> FALSE]
  BY DEF Init
<1>2. conn \in ConnType
  BY <1>1 DEF ConnType
<1>3. <<>> \o <<>> = <<>>
  OBVIOUS
<1>4. Sound(conn)
  BY <1>1, <1>2, <1>3 DEF Sound
<1>5. Types
  <2>1. expired \in BOOLEAN
    BY Zenon DEF Init
  <2>2. /\ lpc \in LoopPC /\ act \subseteq Event /\ missions \in Seq(Mission)
        /\ todo \in 0..Len(missions) /\ chunks \in 0..MaxChunks
    BY DEF Init, LoopPC
  <2>3. pc \in [Callers -> CallerPC] /\ count \in [Writers -> Nat]
    BY DEF Init, CallerPC
  <2> QED BY <2>1, <2>2, <2>3 DEF Types
<1>6. conn.accepted = <<>> /\ conn.inq = <<>> /\ Len(<<>>) = 0
  BY <1>1
<1>7. Counts
  BY <1>6 DEF Init, Counts, Writers
<1>8. Written
  BY <1>6 DEF Init, Written, Ordered, Below
<1>9. Queued
  BY DEF Init, Queued
<1> QED
  BY <1>4, <1>5, <1>7, <1>8, <1>9 DEF Inv

(* A step that takes nothing on and leaves the queue alone.                 *)
LEMMA QuietStep ==
  ASSUME Inv, Sound(conn'), conn'.accepted = conn.accepted,
         UNCHANGED <<missions, count>>,
         \A c \in Callers : pc'[c] = "write" => pc[c] = "write",
         Types', Counts'
  PROVE  Inv'
<1>1. Written'
  BY DEF Inv, Written
<1>2. Queued'
  BY DEF Inv, Queued
<1> QED
  BY <1>1, <1>2 DEF Inv

(* A step of the loop thread that changes the connection only.              *)
LEMMA KeepsStep ==
  ASSUME Inv, Sound(conn'), Keeps(conn, conn'),
         UNCHANGED <<missions, pc, count, chunks>>,
         lpc' \in LoopPC, act' \subseteq Event, todo' \in 0..Len(missions),
         expired' \in BOOLEAN
  PROVE  Inv'
<1>1. Types'
  BY DEF Inv, Types
<1>2. Counts'
  BY DEF Inv, Counts, Keeps
<1> QED
  BY <1>1, <1>2, QuietStep DEF Keeps

(* A step in which the loop thread writes its next message.                 *)
LEMMA LoopWriteStep ==
  ASSUME Inv, Sound(conn'), NEW n \in 1..Last, n = count[LoopThread] + 1,
         \/ conn'.accepted = conn.accepted
         \/ conn'.accepted = conn.accepted \o Message(LoopThread, n),
         count' = [count EXCEPT ![LoopThread] = n],
         UNCHANGED <<missions, pc>>, Types', Counts'
  PROVE  Inv'
<1> USE WritersAssumption
<1>1. PICK a \in Seq(Unit), t \in Seq(Unit) : a = conn.accepted /\ t = conn'.accepted
  BY DEF Inv, Sound, ConnType
<1>2. LoopThread \in Writers /\ count \in [Writers -> Nat]
  BY DEF Inv, Types, Writers
<1>3. /\ Ordered(a) /\ \A w \in Writers : Below(a, w, count[w] + 1)
      /\ \A c \in Callers :
           pc[c] = "write" => count[c] \in 1..MaxWrites /\ Below(a, c, count[c])
  BY <1>1 DEF Inv, Written
<1>4. \A c \in Callers : c \in Writers /\ c # LoopThread /\ count'[c] = count[c]
  BY <1>2 DEF Writers
<1>5. count'[LoopThread] = n
  BY <1>2
<1>6. t = a \/ t = a \o Message(LoopThread, n)
  BY <1>1
<1>7. Ordered(t)
  BY <1>2, <1>3, <1>6, AppendOrdered
<1>8. ASSUME NEW c \in Callers, NEW k \in Int, Below(a, c, k) PROVE Below(t, c, k)
  BY <1>2, <1>4, <1>6, <1>8, AppendBelow
<1>9. Below(t, LoopThread, n + 1)
  <2>1. Below(a, LoopThread, n)
    BY <1>2, <1>3
  <2>2. PICK k \in Int : k = n + 1 /\ n <= k /\ n < k
    OBVIOUS
  <2>3. Below(a, LoopThread, k)
    BY <2>1, <2>2, BelowMore
  <2>4. Below(t, LoopThread, k)
    BY <1>2, <1>6, <2>2, <2>3, AppendBelow
  <2> QED BY <2>2, <2>4
<1>10. \A w \in Writers : Below(t, w, count'[w] + 1)
  <2>1. \A c \in Callers : count[c] + 1 \in Int
    BY <1>2, <1>4
  <2> QED BY <1>3, <1>4, <1>5, <1>8, <1>9, <2>1 DEF Writers
<1>11. \A c \in Callers : pc'[c] = "write" => count'[c] \in 1..MaxWrites /\ Below(t, c, count'[c])
  <2>1. \A c \in Callers : count[c] \in Int
    BY <1>2, <1>4
  <2> QED BY <1>3, <1>4, <1>8, <2>1
<1>12. Written'
  BY <1>1, <1>7, <1>10, <1>11, Zenon DEF Written
<1>13. Queued'
  <2>1. \A i \in 1..Len(missions), c \in Callers, k \in 1..MaxWrites :
          missions[i] = WriteCall(c, k) =>
            /\ Below(a, c, k)
            /\ k <= count[c]
            /\ pc[c] = "write" => k < count[c]
    BY <1>1 DEF Inv, Queued
  <2>2. \A i \in 1..Len(missions), c \in Callers, k \in 1..MaxWrites :
          missions[i] = WriteCall(c, k) =>
            /\ Below(t, c, k)
            /\ k <= count'[c]
            /\ pc'[c] = "write" => k < count'[c]
    BY <1>4, <1>8, <2>1
  <2> QED BY <1>1, <2>2 DEF Inv, Queued
<1> QED
  BY <1>12, <1>13 DEF Inv

LEMMA SetupWriteInv ==
  ASSUME Inv, SetupWrite
  PROVE  Inv'
<1> USE SizesAssumption
<1>1. count \in [Writers -> Nat] /\ LoopThread \in Writers
  BY DEF Inv, Types, Writers
<1>2. PICK n \in 1..Last : n = count[LoopThread] + 1 /\ n <= SetupWrites
  BY <1>1 DEF SetupWrite, Last
<1> DEFINE msg == Message(LoopThread, n)
<1>3. msg \in Seq(Unit) /\ conn' = Write(conn, msg)
  BY <1>1, <1>2, MessageIs DEF SetupWrite, NextMessage
<1>4. Sound(conn') /\ (Keeps(conn, conn') \/ Takes(conn, conn', msg))
  BY <1>3, WriteKeeps DEF Inv
<1>5. /\ conn'.accepted = conn.accepted \/ conn'.accepted = conn.accepted \o msg
      /\ conn'.inq = conn.inq
  BY <1>4 DEF Keeps, Takes
<1>6. count' = [count EXCEPT ![LoopThread] = n]
  BY <1>2 DEF SetupWrite, Counted
<1>7. Types'
  <2>1. count' \in [Writers -> Nat]
    BY <1>1, <1>6
  <2> QED BY <2>1 DEF Inv, Types, SetupWrite
<1>8. Counts'
  <2>1. count'[LoopThread] = n /\ \A c \in Callers : count'[c] = count[c]
    BY <1>1, <1>6, WritersAssumption DEF Writers
  <2>2. Len(conn.inq) \in Nat /\ chunks \in Nat /\ Len(conn.inq) <= chunks
    BY DEF Inv, Sound, ConnType, Types, Counts
  <2>3. n + Len(conn.inq) <= SetupWrites + chunks
    BY <1>2, <2>2
  <2> QED BY <1>5, <2>1, <2>2, <2>3 DEF Inv, Counts, SetupWrite
<1> QED
  BY <1>2, <1>4, <1>5, <1>6, <1>7, <1>8, LoopWriteStep DEF SetupWrite

LEMMA HandleReadInv ==
  ASSUME Inv, HandleRead
  PROVE  Inv'
<1> USE SizesAssumption
<1>1. count \in [Writers -> Nat] /\ LoopThread \in Writers
  BY DEF Inv, Types, Writers
<1>2. PICK n \in Nat, q \in Nat : n = count[LoopThread] + 1 /\ q = Len(conn.inq)
  BY <1>1 DEF Inv, Sound, ConnType
<1> DEFINE msg == Message(LoopThread, n)
<1>3. /\ chunks \in 0..MaxChunks /\ q <= chunks /\ (n - 1) + q <= SetupWrites + chunks
      /\ conn.inq \in Seq(Chunk)
  <2>1. conn.inq \in Seq(Chunk)
    BY DEF Inv, Sound, ConnType
  <2>2. chunks \in 0..MaxChunks
    BY DEF Inv, Types
  <2>3. Len(conn.inq) <= chunks
    BY DEF Inv, Counts
  <2>4. count[LoopThread] + Len(conn.inq) <= SetupWrites + chunks
    BY DEF Inv, Counts
  <2>5. count[LoopThread] \in Nat
    BY <1>1
  <2>6. n - 1 = count[LoopThread]
    BY <1>2, <2>5
  <2> QED
    BY <1>2, <2>1, <2>2, <2>3, <2>4, <2>6, Zenon
<1>4. ASSUME conn.inq # <<>> PROVE n \in 1..Last /\ q > 0
  <2>1. q > 0
    BY <1>2, <1>3, <1>4
  <2> QED BY <1>1, <1>2, <1>3, <2>1 DEF Last
<1>5. conn.inq # <<>> => msg \in Seq(Unit)
  BY <1>1, <1>4, MessageIs
<1>6. conn' = Read(conn, msg)
  BY <1>2 DEF HandleRead, NextMessage
<1>7. Sound(conn') /\ Reads(conn, conn', msg)
  BY <1>5, <1>6, ReadReads DEF Inv
<1>8. act' \subseteq Event /\ lpc' \in LoopPC
  BY DEF HandleRead, Inv, Types, LoopPC
<1>9. CASE conn'.accepted = conn.accepted
  <2>1. conn'.inq = conn.inq \/ (conn.inq # <<>> /\ conn'.inq = Tail(conn.inq))
    BY <1>7 DEF Reads, Keeps
  <2>2. Len(conn'.inq) \in Nat /\ Len(conn'.inq) <= q
    <3>1. PICK p \in Seq(Chunk) : p = conn.inq /\ Len(p) = q
      BY <1>2, <1>3
    <3>2. p # <<>> => Len(Tail(p)) \in Nat /\ Len(Tail(p)) <= q
      BY <3>1
    <3>3. Len(p) \in Nat /\ Len(p) <= q
      BY <3>1
    <3> QED BY <2>1, <3>1, <3>2, <3>3
  <2>3. count' = count
    BY <1>9 DEF HandleRead
  <2>4. Counts'
    <3>1. count'[LoopThread] = n - 1
      BY <1>1, <1>2, <2>3
    <3>2. n - 1 + Len(conn'.inq) <= SetupWrites + chunks /\ Len(conn'.inq) <= chunks
      BY <1>2, <1>3, <2>2
    <3> QED BY <2>3, <3>1, <3>2 DEF Inv, Counts, HandleRead
  <2>5. Types'
    BY <1>8, <2>3 DEF Inv, Types, HandleRead
  <2> QED BY <1>7, <1>9, <2>3, <2>4, <2>5, QuietStep DEF HandleRead
<1>10. CASE conn'.accepted # conn.accepted
  <2>1. /\ conn.inq # <<>> /\ conn'.inq = Tail(conn.inq)
        /\ conn'.accepted = conn.accepted \o msg
    BY <1>7, <1>10 DEF Reads, Keeps
  <2>2. n \in 1..Last /\ q > 0
    BY <1>4, <2>1
  <2>3. Len(conn'.inq) = q - 1
    BY <1>2, <1>3, <2>1
  <2>4. count' = [count EXCEPT ![LoopThread] = n]
    BY <1>2, <1>10 DEF HandleRead, Counted
  <2>5. Types'
    <3>1. count' \in [Writers -> Nat]
      BY <1>1, <2>4
    <3> QED BY <1>8, <3>1 DEF Inv, Types, HandleRead
  <2>6. Counts'
    <3>1. count'[LoopThread] = n /\ \A c \in Callers : count'[c] = count[c]
      BY <1>1, <2>4, WritersAssumption DEF Writers
    <3>2. n + (q - 1) <= SetupWrites + chunks /\ q - 1 <= chunks
      BY <1>3
    <3> QED BY <2>3, <3>1, <3>2 DEF Inv, Counts, HandleRead
  <2> QED BY <1>2, <1>7, <2>1, <2>2, <2>4, <2>5, <2>6, LoopWriteStep DEF HandleRead
<1> QED
  BY <1>9, <1>10

LEMMA LoopKeepsInv ==
  ASSUME Inv,
         \/ SetupClose \/ SetupDone \/ Poll \/ Expire \/ HandleWrite
         \/ HandleErrorOrClose \/ HandleDone \/ Swap \/ MissionsDone
  PROVE  Inv'
<1>1. /\ Sound(conn) /\ Keeps(conn, conn) /\ act \subseteq Event /\ expired \in BOOLEAN
      /\ lpc \in LoopPC /\ todo \in 0..Len(missions) /\ Len(missions) \in Nat
  BY DEF Inv, Types, Keeps, Sound, ConnType
<1>2. CASE SetupClose
  BY <1>1, <1>2, CloseKeeps, KeepsStep DEF SetupClose
<1>3. CASE SetupDone
  BY <1>1, <1>3, ActivateKeeps, KeepsStep DEF SetupDone, LoopPC
<1>4. CASE Poll
  BY <1>1, <1>4, KeepsStep DEF Poll, Ready, LoopPC
<1>5. CASE Expire
  <2>1. expired' \in BOOLEAN
    BY <1>5, Zenon DEF Expire
  <2> QED BY <1>1, <1>5, <2>1, CloseKeeps, KeepsStep DEF Expire
<1>6. CASE HandleWrite
  BY <1>1, <1>6, WriteFdKeeps, KeepsStep DEF HandleWrite, LoopPC
<1>7. CASE HandleErrorOrClose
  <2>1. act' \subseteq Event
    BY <1>1, <1>7 DEF HandleErrorOrClose
  <2> QED BY <1>1, <1>7, <2>1, CloseKeeps, KeepsStep DEF HandleErrorOrClose, LoopPC
<1>8. CASE HandleDone
  BY <1>1, <1>8, KeepsStep DEF HandleDone, LoopPC
<1>9. CASE Swap
  BY <1>1, <1>9, KeepsStep DEF Swap, LoopPC
<1>10. CASE MissionsDone
  BY <1>1, <1>10, KeepsStep DEF MissionsDone, LoopPC
<1> QED
  BY <1>2, <1>3, <1>4, <1>5, <1>6, <1>7, <1>8, <1>9, <1>10

(* The first mission leaves the queue and its message, if it has one, joins *)
(* the stream: it is newer than its writer's messages there and older than  *)
(* those behind it.                                                         *)
LEMMA RunMissionInv ==
  ASSUME Inv, RunMission
  PROVE  Inv'
<1> USE SizesAssumption
<1>1. PICK q \in Seq(Mission), l \in Nat :
        q = missions /\ l = Len(q) /\ l > 0 /\ todo \in 1..l
  BY DEF Inv, Types, RunMission
<1>2. PICK p \in Seq(Mission) :
        /\ p = Tail(q) /\ missions' = p /\ Len(p) = l - 1
        /\ \A i \in 1..(l - 1) : i + 1 \in 1..l /\ p[i] = q[i + 1]
  <2>1. /\ Tail(q) \in Seq(Mission) /\ Len(Tail(q)) = l - 1
        /\ \A i \in 1..(l - 1) : i + 1 \in 1..l /\ Tail(q)[i] = q[i + 1]
    BY <1>1
  <2>2. missions' = Tail(q)
    BY <1>1 DEF RunMission
  <2> QED BY <2>1, <2>2, Zenon
<1>3. PICK h : h = q[1] /\ h = Head(missions) /\ 1 \in 1..l
  BY <1>1
<1>4. Types'
  <2>1. todo' \in 0..(l - 1)
    BY <1>1 DEF RunMission
  <2> QED BY <1>2, <2>1 DEF Inv, Types, RunMission
<1>5. PICK a \in Seq(Unit) : a = conn.accepted
  BY DEF Inv, Sound, ConnType
<1>6. /\ \A i \in 1..l :
           \/ q[i] = CloseCall
           \/ \E c \in Callers, n \in 1..MaxWrites : q[i] = WriteCall(c, n)
      /\ \A i \in 1..l, c \in Callers, n \in 1..MaxWrites :
           q[i] = WriteCall(c, n) =>
             /\ Below(a, c, n)
             /\ n <= count[c]
             /\ pc[c] = "write" => n < count[c]
      /\ \A i, j \in 1..l, c \in Callers, n, k \in 1..MaxWrites :
           i < j /\ q[i] = WriteCall(c, n) /\ q[j] = WriteCall(c, k) => n < k
  BY <1>1, <1>5 DEF Inv, Queued
<1>7. /\ Ordered(a) /\ \A w \in Writers : Below(a, w, count[w] + 1)
      /\ \A c \in Callers :
           pc[c] = "write" => count[c] \in 1..MaxWrites /\ Below(a, c, count[c])
  BY <1>5 DEF Inv, Written
<1>8. count' = count /\ pc' = pc /\ chunks' = chunks /\ count \in [Writers -> Nat]
  BY DEF RunMission, Inv, Types
<1>9. /\ \A i \in 1..(l - 1) :
           \/ p[i] = CloseCall
           \/ \E c \in Callers, n \in 1..MaxWrites : p[i] = WriteCall(c, n)
      /\ \A i, j \in 1..(l - 1), c \in Callers, n, k \in 1..MaxWrites :
           i < j /\ p[i] = WriteCall(c, n) /\ p[j] = WriteCall(c, k) => n < k
  BY <1>2, <1>6
(* With a stream that is not disturbed, or grows by the message of h.       *)
<1>10. ASSUME NEW t \in Seq(Unit), conn'.accepted = t, Sound(conn'), conn'.inq = conn.inq,
              Ordered(t),
              \A w \in Writers : Below(t, w, count[w] + 1),
              \A c \in Callers : pc[c] = "write" => Below(t, c, count[c]),
              \A i \in 1..(l - 1), c \in Callers, n \in 1..MaxWrites :
                p[i] = WriteCall(c, n) => Below(t, c, n)
       PROVE  Inv'
  <2>1. Written'
    BY <1>7, <1>8, <1>10 DEF Written
  <2>2. \A i \in 1..(l - 1), c \in Callers, n \in 1..MaxWrites :
           p[i] = WriteCall(c, n) => n <= count[c] /\ (pc[c] = "write" => n < count[c])
    <3> SUFFICES ASSUME NEW i \in 1..(l - 1), NEW c \in Callers, NEW n \in 1..MaxWrites,
                        p[i] = WriteCall(c, n)
                 PROVE  n <= count[c] /\ (pc[c] = "write" => n < count[c])
      OBVIOUS
    <3>1. PICK j \in 1..l : q[j] = WriteCall(c, n)
      BY <1>2
    <3> QED BY <1>6, <3>1
  <2>3. Queued'
    <3>1. missions' = p /\ Len(missions') = l - 1
      BY <1>2
    <3>2. \A i \in 1..(l - 1), c \in Callers, n \in 1..MaxWrites :
            p[i] = WriteCall(c, n) =>
              /\ Below(conn'.accepted, c, n)
              /\ n <= count'[c]
              /\ pc'[c] = "write" => n < count'[c]
      BY <1>8, <1>10, <2>2
    <3> QED BY <1>9, <3>1, <3>2 DEF Queued
  <2>4. Counts'
    BY <1>8, <1>10 DEF Inv, Counts
  <2> QED BY <1>4, <1>10, <2>1, <2>3, <2>4 DEF Inv
<1>11. \A i \in 1..(l - 1), c \in Callers, n \in 1..MaxWrites :
         p[i] = WriteCall(c, n) => Below(a, c, n)
  BY <1>2, <1>6
<1>12. ASSUME Sound(conn'), Keeps(conn, conn') PROVE Inv'
  <2>1. conn'.accepted = a /\ conn'.inq = conn.inq
    BY <1>5, <1>12 DEF Keeps
  <2> QED BY <1>7, <1>10, <1>11, <1>12, <2>1
<1>13. CASE h = CloseCall
  <2>1. conn' = CloseInThread(conn)
    <3>1. h.op # "write"
      BY <1>13 DEF CloseCall
    <3> QED BY <1>3, <3>1 DEF RunMission
  <2> QED BY <1>12, <2>1, CloseInThreadKeeps DEF Inv
<1>14. CASE \E c \in Callers, n \in 1..MaxWrites : h = WriteCall(c, n)
  <2>1. PICK c \in Callers, n \in 1..MaxWrites : h = WriteCall(c, n)
    BY <1>14
  <2>2. h.op = "write" /\ h.msg = Message(c, n)
    BY <2>1 DEF WriteCall
  <2>3. c \in Writers /\ n \in 1..Last
    BY DEF Writers, Last
  <2>4. Message(c, n) \in Seq(Unit) /\ conn' = WriteInThread(conn, Message(c, n))
    BY <1>3, <2>2, <2>3, MessageIs DEF RunMission
  <2>5. Sound(conn') /\ (Keeps(conn, conn') \/ Takes(conn, conn', Message(c, n)))
    BY <2>4, WriteInThreadKeeps DEF Inv
  <2>6. CASE Takes(conn, conn', Message(c, n))
    <3>1. PICK t \in Seq(Unit) :
            t = a \o Message(c, n) /\ conn'.accepted = t /\ conn'.inq = conn.inq
      BY <1>5, <2>3, <2>6, AppendIs DEF Takes
    <3>2. /\ Below(a, c, n) /\ n <= count[c] /\ (pc[c] = "write" => n < count[c])
      BY <1>3, <1>6, <2>1
    <3>3. Ordered(t)
      BY <1>7, <2>3, <3>1, <3>2, AppendOrdered
    <3>4. ASSUME NEW w, NEW k \in Int, Below(a, w, k), w = c => n < k
          PROVE  Below(t, w, k)
      BY <2>3, <3>1, <3>4, AppendBelow
    <3>5. \A w \in Writers : Below(t, w, count[w] + 1)
      <4>1. \A w \in Writers : count[w] + 1 \in Int /\ (w = c => n < count[w] + 1)
        BY <1>8, <3>2
      <4> QED BY <1>7, <3>4, <4>1
    <3>6. \A d \in Callers : pc[d] = "write" => Below(t, d, count[d])
      <4>1. \A d \in Callers : count[d] \in Int
        BY <1>8 DEF Writers
      <4> QED BY <1>7, <3>2, <3>4, <4>1
    <3>7. \A i \in 1..(l - 1), d \in Callers, k \in 1..MaxWrites :
            p[i] = WriteCall(d, k) => Below(t, d, k)
      <4> SUFFICES ASSUME NEW i \in 1..(l - 1), NEW d \in Callers, NEW k \in 1..MaxWrites,
                          p[i] = WriteCall(d, k)
                   PROVE  Below(t, d, k)
        OBVIOUS
      <4>1. i + 1 \in 1..l /\ q[i + 1] = WriteCall(d, k) /\ 1 < i + 1 /\ 1 \in 1..l
        BY <1>2, <1>3
      <4>2. d = c => n < k
        <5>1. PICK j \in 1..l : j = i + 1 /\ 1 < j /\ q[j] = WriteCall(d, k)
          BY <4>1
        <5>2. d = c => q[1] = WriteCall(d, n)
          BY <1>3, <2>1
        <5> QED BY <1>6, <4>1, <5>1, <5>2
      <4>3. k \in Int
        OBVIOUS
      <4> QED BY <1>11, <3>4, <4>2, <4>3
    <3> QED BY <1>10, <2>5, <3>1, <3>3, <3>5, <3>6, <3>7
  <2> QED BY <1>12, <2>5, <2>6
<1> QED
  BY <1>3, <1>6, <1>13, <1>14

LEMMA WriteTestInv ==
  ASSUME Inv, NEW c \in Callers, WriteTest(c)
  PROVE  Inv'
<1> USE SizesAssumption, WritersAssumption
<1>1. count \in [Writers -> Nat] /\ pc \in [Callers -> CallerPC] /\ c \in Writers
  BY DEF Inv, Types, Writers
<1>2. /\ count' = [count EXCEPT ![c] = @ + 1] /\ count[c] < MaxWrites
      /\ pc' = [pc EXCEPT ![c] = IF conn.owner THEN "write" ELSE "idle"]
      /\ UNCHANGED <<conn, lpc, act, missions, todo, chunks, expired>>
  BY DEF WriteTest, Counted
<1>3. /\ count' \in [Writers -> Nat]
      /\ count'[c] = count[c] + 1 /\ \A w \in Writers \ {c} : count'[w] = count[w]
      /\ pc' \in [Callers -> CallerPC] /\ \A d \in Callers \ {c} : pc'[d] = pc[d]
  BY <1>1, <1>2 DEF CallerPC
<1>4. Types'
  BY <1>2, <1>3 DEF Inv, Types
<1>5. Counts'
  <2>1. LoopThread \in Writers \ {c} /\ \A d \in Callers \ {c} : d \in Writers \ {c}
    BY DEF Writers
  <2>2. \A d \in Callers : count'[d] <= MaxWrites
    BY <1>1, <1>2, <1>3, <2>1 DEF Inv, Counts
  <2> QED BY <1>2, <1>3, <2>1, <2>2 DEF Inv, Counts
<1>6. PICK a \in Seq(Unit) : a = conn.accepted /\ a = conn'.accepted
  BY <1>2 DEF Inv, Sound, ConnType
<1>7. /\ Ordered(a) /\ \A w \in Writers : Below(a, w, count[w] + 1)
      /\ \A d \in Callers :
           pc[d] = "write" => count[d] \in 1..MaxWrites /\ Below(a, d, count[d])
  BY <1>6 DEF Inv, Written
<1>8. Below(a, c, count'[c]) /\ count'[c] \in 1..MaxWrites
  BY <1>1, <1>2, <1>3, <1>7
<1>9. \A w \in Writers : Below(a, w, count'[w] + 1)
  <2>1. PICK n \in Int, k \in Int : n = count'[c] /\ k = n + 1 /\ n <= k
    BY <1>3, <1>1
  <2>2. Below(a, c, k)
    BY <1>8, <2>1, BelowMore
  <2> QED BY <1>3, <1>7, <2>1, <2>2
<1>10. \A d \in Callers : pc'[d] = "write" => count'[d] \in 1..MaxWrites /\ Below(a, d, count'[d])
  <2>1. \A d \in Callers \ {c} : d \in Writers \ {c}
    BY DEF Writers
  <2> QED BY <1>3, <1>7, <1>8, <2>1
<1>11. Written'
  BY <1>6, <1>7, <1>9, <1>10 DEF Written
<1>12. ASSUME NEW i \in 1..Len(missions), NEW d \in Callers, NEW n \in 1..MaxWrites,
              missions[i] = WriteCall(d, n)
       PROVE  /\ Below(a, d, n) /\ n <= count'[d] /\ (pc'[d] = "write" => n < count'[d])
  <2>1. /\ Below(a, d, n) /\ n <= count[d] /\ (pc[d] = "write" => n < count[d])
    BY <1>6, <1>12 DEF Inv, Queued
  <2>2. CASE d = c
    BY <1>1, <1>3, <2>1, <2>2
  <2>3. CASE d # c
    <3>1. d \in Writers \ {c} /\ d \in Callers \ {c}
      BY <2>3 DEF Writers
    <3> QED BY <1>3, <2>1, <3>1
  <2> QED BY <2>2, <2>3
<1>13. Queued'
  BY <1>2, <1>6, <1>12 DEF Inv, Queued
<1> QED
  BY <1>2, <1>4, <1>5, <1>11, <1>13 DEF Inv

LEMMA CloseRequestInv ==
  ASSUME Inv, NEW c \in Callers, CloseRequest(c)
  PROVE  Inv'
<1>1. conn' = [conn EXCEPT !.close_requested = TRUE] /\ conn \in ConnType
  BY DEF CloseRequest, Inv, Sound
<1>2. conn' \in ConnType
  <2>1. \A f \in BOOLEAN : [conn EXCEPT !.close_requested = f] \in ConnType
    BY <1>1 DEF ConnType
  <2> QED BY <1>1, <2>1, Zenon
<1>3. /\ conn'.status = conn.status /\ conn'.owner = conn.owner /\ conn'.fd = conn.fd
      /\ conn'.cbs = conn.cbs /\ conn'.wbuf = conn.wbuf /\ conn'.sent = conn.sent
      /\ conn'.accepted = conn.accepted /\ conn'.inq = conn.inq
      /\ conn'.badio = conn.badio
  BY <1>1 DEF ConnType
<1>4. Sound(conn')
  BY <1>2, <1>3 DEF Inv, Sound
<1>5. /\ pc' \in [Callers -> CallerPC]
      /\ \A d \in Callers : pc'[d] = "write" => pc[d] = "write"
  BY DEF CloseRequest, Inv, Types, CallerPC
<1>6. Types'
  BY <1>5 DEF CloseRequest, Inv, Types
<1>7. Counts'
  BY <1>3 DEF CloseRequest, Inv, Counts
<1> QED
  BY <1>3, <1>4, <1>5, <1>6, <1>7, QuietStep DEF CloseRequest

LEMMA CloseTestInv ==
  ASSUME Inv, NEW c \in Callers, CloseTest(c)
  PROVE  Inv'
<1>1. /\ pc' \in [Callers -> CallerPC]
      /\ \A d \in Callers : pc'[d] = "write" => pc[d] = "write"
  BY DEF CloseTest, Inv, Types, CallerPC
<1>2. Types' /\ Counts' /\ conn' = conn /\ Sound(conn)
  BY <1>1 DEF CloseTest, Inv, Types, Counts
<1> QED
  BY <1>1, <1>2, QuietStep DEF CloseTest

(* A call that is queued is its caller's newest.                            *)
LEMMA SubmitCallInv ==
  ASSUME Inv, NEW c \in Callers, SubmitCall(c)
  PROVE  Inv'
<1> USE SizesAssumption
<1>1. pc \in [Callers -> CallerPC] /\ count \in [Writers -> Nat]
  BY DEF Inv, Types
<1>2. CASE ~conn.owner
  <2>1. pc' = [d \in Callers |-> "crashed"] /\ lpc' = "crashed"
        /\ UNCHANGED <<missions, conn, act, todo, count, chunks, expired>>
    BY <1>2 DEF SubmitCall
  <2>2. pc' \in [Callers -> CallerPC] /\ \A d \in Callers : pc'[d] = "write" => pc[d] = "write"
    BY <2>1 DEF CallerPC
  <2>3. Types' /\ Counts' /\ Sound(conn')
    BY <2>1, <2>2 DEF Inv, Types, Counts, LoopPC
  <2> QED BY <2>1, <2>2, <2>3, QuietStep
<1>3. CASE conn.owner
  <2>1. PICK m : m = IF pc[c] = "write" THEN WriteCall(c, count[c]) ELSE CloseCall
    OBVIOUS
  <2>2. /\ missions' = Append(missions, m) /\ pc' = [pc EXCEPT ![c] = "idle"]
        /\ UNCHANGED <<lpc, conn, act, todo, count, chunks, expired>>
    BY <1>3, <2>1 DEF SubmitCall, WriteCall, CloseCall
  <2>3. /\ pc' \in [Callers -> CallerPC] /\ pc'[c] = "idle"
        /\ \A d \in Callers : pc'[d] = "write" => pc[d] = "write" /\ d # c
    BY <1>1, <2>2 DEF CallerPC
  <2>4. PICK a \in Seq(Unit) : a = conn.accepted /\ a = conn'.accepted
    BY <2>2 DEF Inv, Sound, ConnType
  <2>5. pc[c] = "write" => count[c] \in 1..MaxWrites /\ Below(a, c, count[c])
    BY <2>4 DEF Inv, Written
  <2>6. m = CloseCall \/ (m = WriteCall(c, count[c]) /\ pc[c] = "write")
    BY <2>1
  <2>7. m \in Mission
    <3>1. CASE m = CloseCall
      BY <3>1 DEF CloseCall, Mission
    <3>2. CASE m = WriteCall(c, count[c]) /\ pc[c] = "write"
      <4>1. c \in Writers /\ count[c] \in 1..Last
        BY <2>5, <3>2 DEF Writers, Last
      <4>2. Message(c, count[c]) \in Seq(Unit)
        BY <4>1, MessageIs
      <4> QED BY <3>2, <4>2 DEF WriteCall, Mission
    <3> QED BY <2>6, <3>1, <3>2
  <2>8. PICK q \in Seq(Mission), l \in Nat : q = missions /\ l = Len(q)
    BY DEF Inv, Types
  <2>9. PICK p \in Seq(Mission) :
          /\ p = Append(q, m) /\ missions' = p /\ Len(p) = l + 1
          /\ \A i \in 1..(l + 1) : (i \in 1..l /\ p[i] = q[i]) \/ (i = l + 1 /\ p[i] = m)
    <3>1. /\ Append(q, m) \in Seq(Mission) /\ Len(Append(q, m)) = l + 1
          /\ \A i \in 1..(l + 1) :
               \/ i \in 1..l /\ Append(q, m)[i] = q[i]
               \/ i = l + 1 /\ Append(q, m)[i] = m
      BY <2>7, <2>8
    <3> QED BY <2>2, <2>8, <3>1, Zenon
  <2>10. Types'
    <3>1. todo' \in 0..(l + 1)
      BY <2>2, <2>8 DEF Inv, Types
    <3> QED BY <2>2, <2>3, <2>9, <3>1 DEF Inv, Types
  <2>11. Counts' /\ Sound(conn')
    BY <2>2 DEF Inv, Counts
  <2>12. Written'
    BY <2>2, <2>3 DEF Inv, Written
  <2>13. /\ \A i \in 1..l :
             \/ q[i] = CloseCall
             \/ \E d \in Callers, n \in 1..MaxWrites : q[i] = WriteCall(d, n)
         /\ \A i \in 1..l, d \in Callers, n \in 1..MaxWrites :
             q[i] = WriteCall(d, n) =>
               /\ Below(a, d, n)
               /\ n <= count[d]
               /\ pc[d] = "write" => n < count[d]
         /\ \A i, j \in 1..l, d \in Callers, n, k \in 1..MaxWrites :
             i < j /\ q[i] = WriteCall(d, n) /\ q[j] = WriteCall(d, k) => n < k
    BY <2>4, <2>8 DEF Inv, Queued
  <2>14. ASSUME NEW d \in Callers, NEW n \in 1..MaxWrites, m = WriteCall(d, n)
         PROVE  d = c /\ n = count[c] /\ pc[c] = "write"
    <3>1. CASE m = CloseCall
      BY <2>14, <3>1, CallsDiffer
    <3>2. CASE m = WriteCall(c, count[c]) /\ pc[c] = "write"
      <4>1. PICK k \in 1..MaxWrites : k = count[c]
        BY <2>5, <3>2
      <4>2. WriteCall(c, k) = WriteCall(d, n)
        BY <2>14, <3>2, <4>1
      <4>3. c = d /\ k = n
        BY <4>2, CallsDiffer
      <4> QED BY <3>2, <4>1, <4>3
    <3> QED BY <2>6, <3>1, <3>2
  <2>15. ASSUME NEW i \in 1..(l + 1)
         PROVE  \/ p[i] = CloseCall
                \/ \E d \in Callers, n \in 1..MaxWrites : p[i] = WriteCall(d, n)
    BY <2>5, <2>6, <2>9, <2>13
  <2>16. ASSUME NEW i \in 1..(l + 1), NEW d \in Callers, NEW n \in 1..MaxWrites,
                p[i] = WriteCall(d, n)
         PROVE  /\ Below(a, d, n)
                /\ n <= count[d]
                /\ pc'[d] = "write" => n < count[d]
    <3>1. CASE i \in 1..l /\ p[i] = q[i]
      BY <2>3, <2>13, <2>16, <3>1
    <3>2. CASE p[i] = m
      <4>1. d = c /\ n = count[c] /\ pc[c] = "write"
        BY <2>14, <2>16, <3>2
      <4> QED BY <2>3, <2>5, <4>1
    <3> QED BY <2>9, <3>1, <3>2
  <2>17. ASSUME NEW i \in 1..(l + 1), NEW j \in 1..(l + 1), NEW d \in Callers,
                NEW n \in 1..MaxWrites, NEW k \in 1..MaxWrites,
                i < j, p[i] = WriteCall(d, n), p[j] = WriteCall(d, k)
         PROVE  n < k
    <3>1. i \in 1..l /\ p[i] = q[i]
      BY <2>9, <2>17
    <3>2. CASE j \in 1..l /\ p[j] = q[j]
      BY <2>13, <2>17, <3>1, <3>2
    <3>3. CASE p[j] = m
      <4>1. d = c /\ k = count[c] /\ pc[c] = "write"
        BY <2>14, <2>17, <3>3
      <4> QED BY <2>13, <2>17, <3>1, <4>1
    <3> QED BY <2>9, <3>2, <3>3
  <2>18. Queued'
    <3>1. missions' = p /\ Len(missions') = l + 1 /\ count' = count /\ conn'.accepted = a
      BY <2>2, <2>4, <2>9
    <3> QED BY <2>15, <2>16, <2>17, <3>1 DEF Queued
  <2> QED BY <2>10, <2>11, <2>12, <2>18 DEF Inv
<1> QED
  BY <1>2, <1>3

LEMMA PeerInv ==
  ASSUME Inv,
         (\E k \in Chunk : PeerSend(k)) \/ PeerTakes \/ PeerShutdown \/ PeerReset
  PROVE  Inv'
<1> USE SizesAssumption
<1>1. conn \in ConnType /\ conn.inq \in Seq(Chunk) /\ conn.room \in 0..SndCap
  BY DEF Inv, Sound, ConnType
<1>2. ASSUME conn' \in ConnType, conn'.status = conn.status, conn'.owner = conn.owner,
             conn'.fd = conn.fd, conn'.cbs = conn.cbs, conn'.wbuf = conn.wbuf,
             conn'.sent = conn.sent, conn'.accepted = conn.accepted,
             conn'.badio = conn.badio,
             UNCHANGED <<lpc, act, missions, todo, pc, count, expired>>,
             chunks' \in 0..MaxChunks, Counts'
      PROVE  Inv'
  <2>1. Sound(conn')
    BY <1>2 DEF Inv, Sound
  <2>2. Types'
    BY <1>2 DEF Inv, Types
  <2> QED BY <1>2, <2>1, <2>2, QuietStep
<1>3. ASSUME NEW k \in Chunk, PeerSend(k) PROVE Inv'
  <2>1. PICK p \in Seq(Chunk) : p = Append(conn.inq, k) /\ Len(p) = Len(conn.inq) + 1
    <3>1. \A s \in Seq(Chunk) : Append(s, k) \in Seq(Chunk) /\ Len(Append(s, k)) = Len(s) + 1
      OBVIOUS
    <3> QED BY <1>1, <3>1, Zenon
  <2>2. conn' = [conn EXCEPT !.inq = p]
    BY <1>3, <2>1 DEF PeerSend
  <2>3. conn' \in ConnType
    BY <1>1, <2>2 DEF ConnType
  <2>4. /\ conn'.status = conn.status /\ conn'.owner = conn.owner /\ conn'.fd = conn.fd
        /\ conn'.cbs = conn.cbs /\ conn'.wbuf = conn.wbuf /\ conn'.sent = conn.sent
        /\ conn'.accepted = conn.accepted /\ conn'.inq = p /\ conn'.badio = conn.badio
    BY <1>1, <2>2 DEF ConnType
  <2>5. chunks' = chunks + 1 /\ chunks' \in 0..MaxChunks
    BY <1>3 DEF PeerSend, Inv, Types
  <2>6. Counts'
    <3>1. PICK n \in Nat, q \in Nat, h \in Nat :
            n = count[LoopThread] /\ q = Len(conn.inq) /\ h = chunks
      BY <1>1 DEF Inv, Types, Writers
    <3>2. q <= h /\ n + q <= SetupWrites + h
      BY <3>1 DEF Inv, Counts
    <3>3. Len(conn'.inq) = q + 1 /\ chunks' = h + 1 /\ count' = count
      BY <1>3, <2>1, <2>4, <2>5, <3>1 DEF PeerSend
    <3>4. q + 1 <= h + 1 /\ n + (q + 1) <= SetupWrites + (h + 1)
      BY <3>2
    <3> QED BY <3>1, <3>3, <3>4 DEF Inv, Counts
  <2> QED BY <1>2, <1>3, <2>3, <2>4, <2>5, <2>6 DEF PeerSend
<1>4. CASE PeerTakes
  <2>1. PICK r \in 0..SndCap : r = conn.room + 1
    BY <1>1, <1>4 DEF PeerTakes
  <2>2. conn' = [conn EXCEPT !.room = r]
    BY <1>4, <2>1 DEF PeerTakes
  <2>3. conn' \in ConnType
    BY <1>1, <2>2 DEF ConnType
  <2>4. /\ conn'.status = conn.status /\ conn'.owner = conn.owner /\ conn'.fd = conn.fd
        /\ conn'.cbs = conn.cbs /\ conn'.wbuf = conn.wbuf /\ conn'.sent = conn.sent
        /\ conn'.accepted = conn.accepted /\ conn'.inq = conn.inq /\ conn'.badio = conn.badio
    BY <1>1, <2>2 DEF ConnType
  <2>5. chunks' \in 0..MaxChunks /\ Counts'
    BY <1>4, <2>4 DEF PeerTakes, Inv, Types, Counts
  <2> QED BY <1>2, <1>4, <2>3, <2>4, <2>5 DEF PeerTakes
<1>5. CASE PeerShutdown
  <2>1. conn' = [conn EXCEPT !.fin = TRUE]
    BY <1>5 DEF PeerShutdown
  <2>2. conn' \in ConnType
    <3>1. \A f \in BOOLEAN : [conn EXCEPT !.fin = f] \in ConnType
      BY <1>1 DEF ConnType
    <3> QED BY <2>1, <3>1, Zenon
  <2>3. /\ conn'.status = conn.status /\ conn'.owner = conn.owner /\ conn'.fd = conn.fd
        /\ conn'.cbs = conn.cbs /\ conn'.wbuf = conn.wbuf /\ conn'.sent = conn.sent
        /\ conn'.accepted = conn.accepted /\ conn'.inq = conn.inq /\ conn'.badio = conn.badio
    BY <1>1, <2>1 DEF ConnType
  <2>4. chunks' \in 0..MaxChunks /\ Counts'
    BY <1>5, <2>3 DEF PeerShutdown, Inv, Types, Counts
  <2> QED BY <1>2, <1>5, <2>2, <2>3, <2>4 DEF PeerShutdown
<1>6. CASE PeerReset
  <2>1. conn' = [conn EXCEPT !.reset = TRUE, !.inq = <<>>]
    BY <1>6 DEF PeerReset
  <2>2. conn' \in ConnType
    <3>1. \A f \in BOOLEAN, p \in Seq(Chunk) : [conn EXCEPT !.reset = f, !.inq = p] \in ConnType
      BY <1>1 DEF ConnType
    <3>2. <<>> \in Seq(Chunk)
      OBVIOUS
    <3> QED BY <2>1, <3>1, <3>2, Zenon
  <2>3. /\ conn'.status = conn.status /\ conn'.owner = conn.owner /\ conn'.fd = conn.fd
        /\ conn'.cbs = conn.cbs /\ conn'.wbuf = conn.wbuf /\ conn'.sent = conn.sent
        /\ conn'.accepted = conn.accepted /\ conn'.inq = <<>> /\ conn'.badio = conn.badio
    BY <1>1, <2>1 DEF ConnType
  <2>4. chunks' \in 0..MaxChunks /\ Counts'
    <3>1. PICK n \in Nat, q \in Nat, h \in Nat :
            n = count[LoopThread] /\ q = Len(conn.inq) /\ h = chunks
      BY <1>1 DEF Inv, Types, Writers
    <3>2. n + q <= SetupWrites + h
      BY <3>1 DEF Inv, Counts
    <3>3. Len(conn'.inq) = 0 /\ chunks' = h /\ count' = count
      BY <1>6, <2>3, <3>1 DEF PeerReset
    <3>4. 0 <= h /\ n + 0 <= SetupWrites + h
      BY <3>2
    <3>5. Counts'
      BY <3>1, <3>3, <3>4 DEF Inv, Counts
    <3> QED BY <1>6, <3>5 DEF PeerReset, Inv, Types
  <2> QED BY <1>2, <1>6, <2>2, <2>3, <2>4 DEF PeerReset
<1> QED
  BY <1>3, <1>4, <1>5, <1>6

LEMMA NextInv == Inv /\ [Next]_vars => Inv'
<1> SUFFICES ASSUME Inv, [Next]_vars PROVE Inv'
  OBVIOUS
<1>1. CASE UNCHANGED vars
  BY <1>1 DEF vars, Inv, Types, Counts, Written, Queued
<1>2. ASSUME NEW c \in Callers, CloseTest(c) \/ SubmitCall(c) PROVE Inv'
  BY <1>2, CloseTestInv, SubmitCallInv
<1>3. CASE LoopStep
  BY <1>3, LoopKeepsInv, HandleReadInv, RunMissionInv DEF LoopStep
<1> QED
  BY <1>1, <1>2, <1>3, SetupWriteInv, LoopKeepsInv, WriteTestInv, CloseRequestInv, PeerInv
  DEF Next, CallerStep

LEMMA Invariance == Spec => []Inv
  BY InitInv, NextInv, PTL DEF Spec

-----------------------------------------------------------------------------
(* The state is well formed for any number of callers, messages and chunks. *)
THEOREM TypeCorrect == Spec => []TypeOK
<1>1. Inv => TypeOK
  BY DEF Inv, Sound, Types, TypeOK
<1> QED
  BY <1>1, Invariance, PTL

(* Over all partial writes, flushes and interleavings of callers, what the  *)
(* kernel was given and what is buffered are together exactly what          *)
(* WriteInThread accepted, and each writer's messages keep the order of its *)
(* Write calls, through the mission queue too.                              *)
THEOREM StreamNeverTorn == Spec => []StreamIntact
<1>1. Inv => StreamIntact
  BY DEF Inv, Sound, Written, Ordered, StreamIntact
<1> QED
  BY <1>1, Invariance, PTL

(* Whatever calls, errors, timeouts and queued missions meet, a connection  *)
(* is torn down once and completely.                                        *)
THEOREM ClosedOnce == Spec => []TornDownOnce
<1>1. Inv => TornDownOnce
  BY DEF Inv, Sound, TornDownOnce
<1> QED
  BY <1>1, Invariance, PTL

(* No stale event and no late mission reaches the closed descriptor.        *)
THEOREM DescriptorSafe == Spec => []NoIOAfterClose
<1>1. Inv => NoIOAfterClose
  BY DEF Inv, Sound, NoIOAfterClose
<1> QED
  BY <1>1, Invariance, PTL

(* One step of any thread or of the peer on a connection that is closing.   *)
Final(s, t) ==
  s.status # "kConnecting" =>
    /\ t.status # "kConnecting"
    /\ t.accepted = s.accepted
    /\ Len(t.wbuf) <= Len(s.wbuf)

LEMMA StepIsFinal ==
  ASSUME Inv, [Next]_vars
  PROVE  Final(conn, conn')
<1> USE SizesAssumption
<1>1. Sound(conn) /\ conn \in ConnType /\ conn.inq \in Seq(Chunk)
  BY DEF Inv, Sound, ConnType
<1>2. ASSUME NEW t, Keeps(conn, t) PROVE Final(conn, t)
  BY <1>2 DEF Keeps, Final
<1>3. ASSUME NEW t, NEW m, Takes(conn, t, m) PROVE Final(conn, t)
  BY <1>3 DEF Takes, Final
<1>4. Final(conn, conn)
  BY <1>1 DEF Final, ConnType
<1>5. ASSUME NEW t, conn.status # "kConnecting" => t = conn PROVE Final(conn, t)
  BY <1>4, <1>5 DEF Final
<1>6. CASE conn' = conn
  BY <1>4, <1>6
<1>7. CASE SetupWrite
  BY <1>5, <1>7 DEF SetupWrite, Write, WriteInThread
<1>8. CASE SetupClose \/ Expire \/ HandleErrorOrClose
  <2>1. conn' = Close(conn)
    BY <1>8 DEF SetupClose, Expire, HandleErrorOrClose
  <2> QED BY <1>1, <1>2, <2>1, CloseKeeps
<1>9. CASE SetupDone
  BY <1>1, <1>2, <1>9, ActivateKeeps DEF SetupDone
<1>10. CASE HandleRead
  BY <1>5, <1>10 DEF HandleRead, Read
<1>11. CASE HandleWrite
  BY <1>1, <1>2, <1>11, WriteFdKeeps DEF HandleWrite
<1>12. CASE RunMission
  <2>1. CASE conn' = WriteInThread(conn, Head(missions).msg)
    BY <1>5, <2>1 DEF WriteInThread
  <2>2. CASE conn' = CloseInThread(conn)
    BY <1>1, <1>2, <2>2, CloseInThreadKeeps
  <2> QED BY <1>12, <2>1, <2>2 DEF RunMission
<1>13. ASSUME NEW t, t.status = conn.status, t.accepted = conn.accepted, t.wbuf = conn.wbuf
       PROVE  Final(conn, t)
  BY <1>4, <1>13 DEF Final
<1>14. ASSUME NEW c \in Callers, CloseRequest(c) PROVE Final(conn, conn')
  <2>1. /\ conn'.status = conn.status /\ conn'.accepted = conn.accepted
        /\ conn'.wbuf = conn.wbuf
    BY <1>1, <1>14 DEF CloseRequest, ConnType
  <2> QED BY <1>13, <2>1
<1>15. ASSUME NEW k \in Chunk, PeerSend(k) PROVE Final(conn, conn')
  <2>1. /\ conn'.status = conn.status /\ conn'.accepted = conn.accepted
        /\ conn'.wbuf = conn.wbuf
    BY <1>1, <1>15 DEF PeerSend, ConnType
  <2> QED BY <1>13, <2>1
<1>16. CASE PeerTakes \/ PeerShutdown \/ PeerReset
  <2>1. /\ conn'.status = conn.status /\ conn'.accepted = conn.accepted
        /\ conn'.wbuf = conn.wbuf
    BY <1>1, <1>16 DEF PeerTakes, PeerShutdown, PeerReset, ConnType
  <2> QED BY <1>13, <2>1
<1>17. CASE Poll \/ HandleDone \/ Swap \/ MissionsDone \/ UNCHANGED vars
  BY <1>6, <1>17 DEF Poll, HandleDone, Swap, MissionsDone, vars
<1>18. ASSUME NEW c \in Callers, WriteTest(c) \/ CallerStep(c) PROVE Final(conn, conn')
  BY <1>6, <1>18 DEF WriteTest, CallerStep, CloseTest, SubmitCall
<1> QED
  BY <1>7, <1>8, <1>9, <1>10, <1>11, <1>12, <1>14, <1>15, <1>16, <1>17, <1>18
  DEF Next, LoopStep

(* Closing is final: whoever takes the next step, a closing connection      *)
(* accepts nothing more, its buffer does not grow and status_ does not go   *)
(* back.                                                                    *)
THEOREM NoWayBack == Spec => ClosingIsFinal
<1>1. Inv /\ [Next]_vars =>
        [conn.status # "kConnecting" =>
           /\ conn'.status # "kConnecting"
           /\ conn'.accepted = conn.accepted
           /\ Len(conn'.wbuf) <= Len(conn.wbuf)]_vars
  BY StepIsFinal DEF Final
<1> QED
  BY <1>1, Invariance, PTL DEF Spec, ClosingIsFinal
=============================================================================
