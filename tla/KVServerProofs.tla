--------------------------- MODULE KVServerProofs ---------------------------
(***************************************************************************)
(* Theorems about KVServer, for any connections, packets and limits, and any *)
(* way the stream is cut into reads.  First come facts about sequences and   *)
(* the stream of packets, then the inductive invariant with the framing it   *)
(* implies, then the codec, and last the refinement of the abstract map.     *)
(***************************************************************************)
EXTENDS KVServer, SequenceTheorems, WellFoundedInduction, TLAPS

-----------------------------------------------------------------------------
(* Induction by a least counterexample.                                     *)

LEMMA Least ==
  ASSUME NEW T, T \subseteq Nat, T # {}
  PROVE  \E m \in T : \A k \in T : m <= k
<1>1. PICK m \in T : \A k \in T : ~(<<k, m>> \in OpToRel(<, Nat))
  BY WFMin, NatLessThanWellFounded
<1>2. ASSUME NEW k \in T PROVE m <= k
  <2>1. k \in Nat /\ m \in Nat
    OBVIOUS
  <2>2. CASE k < m
    <3>1. <<k, m>> \in OpToRel(<, Nat)
      BY <2>1, <2>2 DEF OpToRel
    <3> QED
      BY <1>1, <3>1
  <2> QED
    BY <2>1, <2>2
<1> QED
  BY <1>2

-----------------------------------------------------------------------------
(* Sequences of units.                                                      *)

Flow == Seq(Unit)

LEMMA Regroup ==
  ASSUME NEW x \in Flow, NEW y \in Flow, NEW z \in Flow
  PROVE  (x \o y) \o z = x \o (y \o z)
  BY ConcatAssociative DEF Flow

LEMMA Joined ==
  ASSUME NEW x \in Flow, NEW y \in Flow
  PROVE  /\ x \o y \in Flow
         /\ Len(x) \in Nat /\ Len(x \o y) = Len(x) + Len(y)
         /\ \A i \in 1..(Len(x) + Len(y)) :
              (x \o y)[i] = IF i <= Len(x) THEN x[i] ELSE y[i - Len(x)]
  BY ConcatProperties, LenProperties DEF Flow

LEMMA Empty ==
  /\ <<>> \in Flow /\ Len(<<>>) = 0
  /\ \A x \in Flow : x \o <<>> = x /\ <<>> \o x = x
  BY ConcatEmptySeq, EmptySeq DEF Flow

(* A read splits what is on the wire.                                       *)
LEMMA Split ==
  ASSUME NEW x \in Flow, NEW n \in 0..Len(x)
  PROVE  /\ SubSeq(x, 1, n) \in Flow /\ SubSeq(x, n + 1, Len(x)) \in Flow
         /\ SubSeq(x, 1, n) \o SubSeq(x, n + 1, Len(x)) = x
<1>1. Len(x) \in Nat /\ \A i \in 1..Len(x) : x[i] \in Unit
  BY LenProperties, ElementOfSeq DEF Flow
<1>2. PICK l \in Nat : l = Len(x)
  BY <1>1
<1>3. PICK k \in Nat : k = n /\ k <= l
  BY <1>2
<1>4. SubSeq(x, 1, k) \in Flow
  BY <1>1, <1>2, <1>3, SubSeqProperties DEF Flow
<1>5. SubSeq(x, k + 1, l) \in Flow
  BY <1>1, <1>2, <1>3, SubSeqProperties DEF Flow
<1>6. SubSeq(x, 1, k) \o SubSeq(x, k + 1, l) = SubSeq(x, 1, l)
  <2>1. /\ x \in Seq(Unit) /\ 1 \in 1..(Len(x) + 1) /\ k \in (1 - 1)..Len(x)
        /\ l \in k..Len(x)
    BY <1>2, <1>3 DEF Flow
  <2> QED
    BY <2>1, ConcatAdjacentSubSeq, Zenon
<1>7. SubSeq(x, 1, l) = x
  BY <1>2, SubSeqFull DEF Flow
<1> QED
  BY <1>2, <1>3, <1>4, <1>5, <1>6, <1>7

(* Taking a prefix u off the front of a flow that is held in two parts, x   *)
(* and y, leaves v.                                                         *)
Leaves(x, y, u, v) ==
  /\ SubSeq(x, 1, Len(u)) = u
  /\ SubSeq(x, Len(u) + 1, Len(x)) \in Flow
  /\ SubSeq(x, Len(u) + 1, Len(x)) \o y = v

LEMMA TakePrefix ==
  ASSUME NEW x \in Flow, NEW y \in Flow, NEW u \in Flow, NEW v \in Flow,
         x \o y = u \o v, Len(u) <= Len(x)
  PROVE  Leaves(x, y, u, v)
<1>1. Len(u) \in 0..Len(x)
  BY Joined
<1>2. PICK a \in Flow, d \in Flow :
        /\ a = SubSeq(x, 1, Len(u))
        /\ d = SubSeq(x, Len(u) + 1, Len(x))
        /\ a \o d = x
  BY <1>1, Split
<1>3. Len(a) = Len(u)
  <2>1. Len(u) \in Nat /\ Len(x) \in Nat
    BY Joined
  <2>2. \A i \in 1..Len(u) : x[i] \in Unit
    BY <2>1, ElementOfSeq DEF Flow
  <2> QED
    BY <1>2, <2>1, <2>2, SubSeqProperties
<1>4. a \o (d \o y) = u \o v
  <2>1. (a \o d) \o y = a \o (d \o y)
    BY Regroup
  <2> QED
    BY <1>2, <2>1, Zenon
<1>5. d \o y \in Flow
  BY <1>2, Joined
<1>6. PICK z \in Flow : z = d \o y
  BY <1>5
<1>7. a \o z = u \o v
  BY <1>4, <1>6
<1>8. a = u
  <2>1. ASSUME NEW i \in 1..Len(u) PROVE a[i] = u[i]
    <3>1. (a \o z)[i] = a[i]
      <4>1. Len(a) \in Nat /\ Len(z) \in Nat
        BY Joined
      <4>2. i \in 1..(Len(a) + Len(z)) /\ i <= Len(a)
        BY <1>3, <4>1
      <4> QED
        BY <4>2, Joined
    <3>2. (u \o v)[i] = u[i]
      BY Joined
    <3> QED
      BY <1>7, <3>1, <3>2
  <2> QED
    BY <1>2, <1>3, <2>1, SeqEqual DEF Flow
<1>9. z = v
  BY <1>6, <1>7, <1>8, ConcatSimplifications DEF Flow
<1> QED
  BY <1>2, <1>6, <1>8, <1>9 DEF Leaves

-----------------------------------------------------------------------------
(* What the encoder produces, and what the decoder reads from its front.    *)

HeadUnits(h) == <<h.magic, h.version, h.msg_type, h.opcode, h.status,
                  h.body_length, h.request_id>>

LEMMA HeadRead ==
  ASSUME NEW h \in PacketHead
  PROVE  /\ HeadUnits(h) \in Flow /\ Len(HeadUnits(h)) = HeadSize
         /\ HeadAt(HeadUnits(h)) = h
<1>1. /\ h.magic \in Unit /\ h.version \in Unit /\ h.msg_type \in Unit
      /\ h.opcode \in Unit /\ h.status \in Unit /\ h.body_length \in Unit
      /\ h.request_id \in Unit
  BY DEF PacketHead, Unit
<1>2. HeadUnits(h) \in Flow /\ Len(HeadUnits(h)) = HeadSize
  BY <1>1 DEF HeadUnits, Flow, HeadSize
<1>3. HeadAt(HeadUnits(h)) = h
  BY DEF HeadUnits, HeadAt, PacketHead
<1> QED
  BY <1>2, <1>3

LEMMA EncodedPacket ==
  ASSUME NEW p \in Packet
  PROVE  /\ EncodePacketToFlow(p) \in Flow
         /\ EncodePacketToFlow(p) = HeadUnits(p.head) \o p.body
         /\ Len(EncodePacketToFlow(p)) = HeadSize + Len(p.body)
         /\ p.head \in PacketHead /\ p.body \in Flow /\ Len(p.body) \in Nat
<1>1. p.head \in PacketHead /\ p.body \in Flow
  BY DEF Packet, Flow
<1>2. EncodePacketToFlow(p) = HeadUnits(p.head) \o p.body
  BY DEF EncodePacketToFlow, HeadUnits
<1>3. HeadUnits(p.head) \in Flow /\ Len(HeadUnits(p.head)) = HeadSize
  BY <1>1, HeadRead
<1>4. /\ HeadUnits(p.head) \o p.body \in Flow
      /\ Len(HeadUnits(p.head) \o p.body) = Len(HeadUnits(p.head)) + Len(p.body)
      /\ Len(p.body) \in Nat
  BY <1>1, <1>3, Joined
<1> QED
  BY <1>1, <1>2, <1>3, <1>4

(* The header is in the first units of a flow.                              *)
LEMMA SameHead ==
  ASSUME NEW x, NEW y, \A i \in 1..7 : x[i] = y[i]
  PROVE  HeadAt(x) = HeadAt(y)
  BY DEF HeadAt

-----------------------------------------------------------------------------
(* The stream of a sequence of packets.                                     *)

(* f is the function that Stream(s, n) computes, up to k.                   *)
IsStream(f, s, n, k) ==
  f = [i \in 0..k |->
         IF i < n THEN <<>> ELSE f[i - 1] \o EncodePacketToFlow(s[i])]

LEMMA StreamUnfolds ==
  ASSUME NEW f, NEW s, NEW n, NEW k, IsStream(f, s, n, k)
  PROVE  \A i \in 0..k :
           f[i] = IF i < n THEN <<>> ELSE f[i - 1] \o EncodePacketToFlow(s[i])
  BY DEF IsStream

(* The recursion is well founded.                                           *)
LEMMA StreamExists ==
  ASSUME NEW s, NEW n \in Nat \ {0}, NEW len \in Nat
  PROVE  \E f : IsStream(f, s, n, len)
<1> DEFINE T == {k \in Nat : ~\E f : IsStream(f, s, n, k)}
<1>1. SUFFICES ASSUME T # {} PROVE FALSE
  OBVIOUS
<1>2. PICK m \in T : \A k \in T : m <= k
  BY <1>1, Least
<1>3. m \in Nat /\ ~\E f : IsStream(f, s, n, m)
  OBVIOUS
<1>4. CASE m = 0
  <2> DEFINE f == [i \in 0..0 |-> <<>>]
  <2>1. f = [i \in 0..0 |->
               IF i < n THEN <<>> ELSE f[i - 1] \o EncodePacketToFlow(s[i])]
    OBVIOUS
  <2> QED
    BY <1>3, <1>4, <2>1 DEF IsStream
<1>5. CASE m # 0
  <2>1. m - 1 \in Nat /\ m - 1 \notin T
    BY <1>2, <1>3, <1>5
  <2>2. PICK g : IsStream(g, s, n, m - 1)
    BY <2>1
  <2>3. g = [i \in 0..(m - 1) |->
               IF i < n THEN <<>> ELSE g[i - 1] \o EncodePacketToFlow(s[i])]
    BY <2>2 DEF IsStream
  <2> DEFINE last == IF m < n THEN <<>> ELSE g[m - 1] \o EncodePacketToFlow(s[m])
             f == [i \in 0..m |-> IF i = m THEN last ELSE g[i]]
  <2>4. ASSUME NEW i \in 0..m
        PROVE  f[i] =
                 IF i < n THEN <<>> ELSE f[i - 1] \o EncodePacketToFlow(s[i])
    <3>1. CASE i = m
      <4>1. ~(m < n) => f[m - 1] = g[m - 1]
        BY <1>3, <1>5
      <4> QED
        BY <1>3, <3>1, <4>1
    <3>2. CASE i # m
      <4>1. i \in 0..(m - 1) /\ f[i] = g[i]
        BY <1>3, <3>2
      <4>2. ~(i < n) => f[i - 1] = g[i - 1]
        BY <1>3, <4>1
      <4>3. g[i] = IF i < n THEN <<>> ELSE g[i - 1] \o EncodePacketToFlow(s[i])
        BY <2>2, <4>1, StreamUnfolds
      <4> QED
        BY <4>1, <4>2, <4>3
    <3> QED
      BY <3>1, <3>2
  <2>5. f = [i \in 0..m |-> f[i]]
    OBVIOUS
  <2> HIDE DEF f
  <2>6. IsStream(f, s, n, m)
    BY <2>4, <2>5 DEF IsStream
  <2> QED
    BY <1>3, <2>6
<1> QED
  BY <1>4, <1>5

(* So Stream(s, n) is the last value of a function that satisfies it.       *)
LEMMA StreamIs ==
  ASSUME NEW s \in Seq(Packet), NEW n \in Nat \ {0}
  PROVE  \E f : IsStream(f, s, n, Len(s)) /\ Stream(s, n) = f[Len(s)]
<1> DEFINE flow == CHOOSE f : IsStream(f, s, n, Len(s))
<1>1. Len(s) \in Nat
  BY LenProperties
<1>2. \E f : IsStream(f, s, n, Len(s))
  BY <1>1, StreamExists
<1>3. IsStream(flow, s, n, Len(s))
  BY <1>2
<1>4. Stream(s, n) = flow[Len(s)]
  BY DEF Stream, IsStream
<1> QED
  BY <1>3, <1>4

LEMMA StreamType ==
  ASSUME NEW s \in Seq(Packet), NEW n \in Nat \ {0}, NEW f,
         IsStream(f, s, n, Len(s))
  PROVE  \A i \in 0..Len(s) : f[i] \in Flow
<1> DEFINE T == {k \in Nat : k <= Len(s) /\ f[k] \notin Flow}
<1>1. Len(s) \in Nat
  BY LenProperties
<1>2. CASE T = {}
  BY <1>1, <1>2
<1>3. CASE T # {}
  <2>1. PICK m \in T : \A k \in T : m <= k
    BY <1>3, Least
  <2>2. m \in Nat /\ m \in 0..Len(s) /\ f[m] \notin Flow
    BY <1>1
  <2> HIDE DEF T
  <2>3. f[m] = IF m < n THEN <<>> ELSE f[m - 1] \o EncodePacketToFlow(s[m])
    BY <2>2, StreamUnfolds
  <2>4. ~(m < n)
    BY <2>2, <2>3, Empty
  <2>5. m - 1 \in Nat /\ m - 1 <= Len(s) /\ ~(m <= m - 1) /\ m \in 1..Len(s)
    BY <1>1, <2>2, <2>4
  <2>6. m - 1 \notin T
    BY <2>1, <2>5
  <2>7. f[m - 1] \in Flow
    BY <2>5, <2>6 DEF T
  <2>8. s[m] \in Packet
    BY <2>5, ElementOfSeq
  <2>9. EncodePacketToFlow(s[m]) \in Flow
    BY <2>8, EncodedPacket
  <2>10. f[m - 1] \o EncodePacketToFlow(s[m]) \in Flow
    BY <2>7, <2>9, Joined
  <2> QED
    BY <2>2, <2>3, <2>4, <2>10
<1> QED
  BY <1>2, <1>3

(* Nothing is left of the stream behind its last packet.                    *)
LEMMA StreamEnd ==
  ASSUME NEW s \in Seq(Packet)
  PROVE  Stream(s, Len(s) + 1) = <<>>
<1>1. Len(s) \in Nat
  BY LenProperties
<1>2. PICK f : IsStream(f, s, Len(s) + 1, Len(s))
               /\ Stream(s, Len(s) + 1) = f[Len(s)]
  BY <1>1, StreamIs
<1> QED
  BY <1>1, <1>2, StreamUnfolds

LEMMA StreamIsFlow ==
  ASSUME NEW s \in Seq(Packet), NEW n \in Nat \ {0}
  PROVE  Stream(s, n) \in Flow
<1>1. Len(s) \in Nat
  BY LenProperties
<1>2. PICK f : IsStream(f, s, n, Len(s)) /\ Stream(s, n) = f[Len(s)]
  BY StreamIs
<1> QED
  BY <1>1, <1>2, StreamType

(* One more packet is sent.                                                 *)
LEMMA StreamAppend ==
  ASSUME NEW s \in Seq(Packet), NEW p \in Packet, NEW n \in Nat \ {0},
         n <= Len(s) + 1
  PROVE  Stream(Append(s, p), n) = Stream(s, n) \o EncodePacketToFlow(p)
<1>1. PICK l \in Nat : l = Len(s)
  BY LenProperties
<1>2. /\ Append(s, p) \in Seq(Packet) /\ Len(Append(s, p)) = l + 1
      /\ Append(s, p)[l + 1] = p
      /\ \A i \in 1..l : Append(s, p)[i] = s[i]
  BY <1>1, AppendProperties
<1>3. PICK t \in Seq(Packet) : t = Append(s, p)
  BY <1>2
<1>4. PICK f : IsStream(f, s, n, l) /\ Stream(s, n) = f[l]
  BY <1>1, StreamIs
<1>5. PICK g : IsStream(g, t, n, l + 1) /\ Stream(t, n) = g[l + 1]
  BY <1>2, <1>3, StreamIs
<1>6. \A i \in 1..l : t[i] = s[i]
  BY <1>2, <1>3
<1>7. t[l + 1] = p
  BY <1>2, <1>3
<1>8. \A i \in 0..l :
        f[i] = IF i < n THEN <<>> ELSE f[i - 1] \o EncodePacketToFlow(s[i])
  BY <1>4, StreamUnfolds
<1>9. \A i \in 0..(l + 1) :
        g[i] = IF i < n THEN <<>> ELSE g[i - 1] \o EncodePacketToFlow(t[i])
  BY <1>5, StreamUnfolds
<1>10. f[l] = g[l]
  <2> DEFINE T == {k \in Nat : k <= l /\ f[k] # g[k]}
  <2>1. CASE T = {}
    BY <2>1
  <2>2. CASE T # {}
    <3>1. PICK m \in T : \A k \in T : m <= k
      BY <2>2, Least
    <3>2. m \in Nat /\ m \in 0..l /\ m \in 0..(l + 1) /\ f[m] # g[m]
      OBVIOUS
    <3> HIDE DEF T
    <3>3. /\ f[m] = IF m < n THEN <<>> ELSE f[m - 1] \o EncodePacketToFlow(s[m])
          /\ g[m] = IF m < n THEN <<>> ELSE g[m - 1] \o EncodePacketToFlow(t[m])
      BY <1>8, <1>9, <3>2
    <3>4. ~(m < n)
      BY <3>2, <3>3
    <3>5. m - 1 \in Nat /\ m - 1 <= l /\ ~(m <= m - 1) /\ m \in 1..l
      BY <3>2, <3>4
    <3>6. m - 1 \notin T
      BY <3>1, <3>5
    <3>7. f[m - 1] = g[m - 1]
      BY <3>5, <3>6 DEF T
    <3> QED
      BY <1>6, <3>2, <3>3, <3>4, <3>5, <3>7
  <2> QED
    BY <2>1, <2>2
<1>11. g[l + 1] = g[l] \o EncodePacketToFlow(t[l + 1])
  <2>1. l + 1 \in 0..(l + 1) /\ ~(l + 1 < n) /\ (l + 1) - 1 = l
    BY <1>1
  <2> QED
    BY <1>9, <2>1
<1> QED
  BY <1>3, <1>4, <1>5, <1>7, <1>10, <1>11

(* The first packet is taken.                                               *)
LEMMA StreamDrop ==
  ASSUME NEW s \in Seq(Packet), NEW n \in 1..Len(s)
  PROVE  Stream(s, n) = EncodePacketToFlow(s[n]) \o Stream(s, n + 1)
<1>1. PICK l \in Nat : l = Len(s)
  BY LenProperties
<1>2. n \in Nat \ {0} /\ n + 1 \in Nat \ {0} /\ n <= l
  BY <1>1
<1>3. PICK f : IsStream(f, s, n, l) /\ Stream(s, n) = f[l]
  BY <1>1, <1>2, StreamIs
<1>4. PICK g : IsStream(g, s, n + 1, l) /\ Stream(s, n + 1) = g[l]
  BY <1>1, <1>2, StreamIs
<1>5. \A i \in 0..l :
        f[i] = IF i < n THEN <<>> ELSE f[i - 1] \o EncodePacketToFlow(s[i])
  BY <1>3, StreamUnfolds
<1>6. \A i \in 0..l :
        g[i] = IF i < n + 1 THEN <<>> ELSE g[i - 1] \o EncodePacketToFlow(s[i])
  BY <1>4, StreamUnfolds
<1>7. \A i \in 0..l : g[i] \in Flow
  BY <1>1, <1>2, <1>4, StreamType
<1>8. \A i \in 1..l : EncodePacketToFlow(s[i]) \in Flow
  BY <1>1, EncodedPacket, ElementOfSeq
<1>9. PICK e \in Flow : e = EncodePacketToFlow(s[n])
  BY <1>2, <1>8
<1>10. f[l] = e \o g[l]
  <2> DEFINE T == {k \in Nat : n <= k /\ k <= l /\ f[k] # e \o g[k]}
  <2>1. CASE T = {}
    <3>1. l \notin T
      BY <2>1
    <3> QED
      BY <1>2, <3>1
  <2>2. CASE T # {}
    <3>1. PICK m \in T : \A k \in T : m <= k
      BY <2>2, Least
    <3>2. m \in Nat /\ m \in 0..l /\ n <= m /\ f[m] # e \o g[m]
      BY <1>2
    <3> HIDE DEF T
    <3>3. f[m] = f[m - 1] \o EncodePacketToFlow(s[m])
      <4>1. ~(m < n)
        BY <1>2, <3>2
      <4> QED
        BY <1>5, <3>2, <4>1
    <3>4. CASE m = n
      <4>1. g[m] = <<>>
        BY <1>2, <1>6, <3>2, <3>4
      <4>2. f[m - 1] = <<>>
        BY <1>2, <1>5, <3>2, <3>4
      <4>3. f[m] = e
        BY <1>9, <3>3, <3>4, <4>2, Empty
      <4> QED
        BY <3>2, <4>1, <4>3, Empty
    <3>5. CASE m # n
      <4>1. /\ m - 1 \in Nat /\ m - 1 \in 0..l /\ n <= m - 1 /\ ~(m <= m - 1)
            /\ ~(m < n + 1) /\ m \in 1..l
        BY <1>2, <3>2, <3>5
      <4>2. m - 1 \notin T
        BY <3>1, <4>1
      <4>3. f[m - 1] = e \o g[m - 1]
        BY <4>1, <4>2 DEF T
      <4>4. g[m] = g[m - 1] \o EncodePacketToFlow(s[m])
        BY <1>6, <3>2, <4>1
      <4>5. PICK x \in Flow, y \in Flow :
              x = g[m - 1] /\ y = EncodePacketToFlow(s[m])
        BY <1>7, <1>8, <4>1
      <4>6. (e \o x) \o y = e \o (x \o y)
        BY Regroup
      <4> QED
        BY <3>2, <3>3, <4>3, <4>4, <4>5, <4>6, Zenon
    <3> QED
      BY <3>4, <3>5
  <2> QED
    BY <2>1, <2>2
<1> QED
  BY <1>3, <1>4, <1>9, <1>10

-----------------------------------------------------------------------------
(* The service on a packet.                                                 *)

MapOK(m) == \A k \in DOMAIN m : IsKey(k) /\ IsValue(m[k])

(* What the decoder finds in a buffer that holds a whole packet.            *)
LEMMA HeadType ==
  ASSUME NEW b \in Flow, Len(b) >= HeadSize
  PROVE  HeadAt(b) \in PacketHead
<1>1. \A i \in 1..7 : b[i] \in Nat
  BY LenProperties, ElementOfSeq DEF Flow, HeadSize, Unit
<1> QED
  BY <1>1 DEF HeadAt, PacketHead

LEMMA PacketType ==
  ASSUME NEW b \in Flow, Len(b) >= HeadSize + HeadAt(b).body_length,
         HeadAt(b) \in PacketHead
  PROVE  /\ PacketAt(b) \in Packet /\ PacketAt(b).head = HeadAt(b)
         /\ PacketAt(b).body =
              SubSeq(b, HeadSize + 1, HeadSize + HeadAt(b).body_length)
<1>1. PICK n \in Nat : n = HeadAt(b).body_length
  BY DEF PacketHead
<1>2. \A i \in (HeadSize + 1)..(HeadSize + n) : b[i] \in Unit
  BY <1>1, LenProperties, ElementOfSeq DEF Flow, HeadSize
<1>3. SubSeq(b, HeadSize + 1, HeadSize + n) \in Flow
  BY <1>2, SubSeqProperties DEF Flow, HeadSize
<1> QED
  BY <1>1, <1>3 DEF PacketAt, Packet, Flow

(* BodyCheck lets only the requests through that decode.                    *)
LEMMA BodyChecked ==
  ASSUME NEW p \in Packet
  PROVE  /\ BodyCheck(p) \in Packet
         /\ BodyCheck(p).head.opcode = p.head.opcode
         /\ BodyCheck(p).head.request_id = p.head.request_id
         /\ BodyCheck(p).head.status = kOk =>
              /\ BodyCheck(p) = p
              /\ IsSupportedOpcode(p.head.opcode) /\ IsKVRequest(p)
<1>1. ASSUME NEW n \in Nat
      PROVE  /\ [p EXCEPT !.head.status = n] \in Packet
             /\ [p EXCEPT !.head.status = n].head.opcode = p.head.opcode
             /\ [p EXCEPT !.head.status = n].head.request_id = p.head.request_id
             /\ [p EXCEPT !.head.status = n].head.status = n
  BY DEF Packet, PacketHead
<1>2. CASE ~IsSupportedOpcode(p.head.opcode)
  <2>1. BodyCheck(p) = [p EXCEPT !.head.status = kUnsupportedOpcode]
    BY <1>2 DEF BodyCheck
  <2>2. kUnsupportedOpcode \in Nat /\ kUnsupportedOpcode # kOk
    BY DEF kUnsupportedOpcode, kOk
  <2> QED
    BY <1>1, <2>1, <2>2
<1>3. CASE IsSupportedOpcode(p.head.opcode) /\ ~IsKVRequest(p)
  <2>1. BodyCheck(p) = [p EXCEPT !.head.status = kBadRequest]
    BY <1>3 DEF BodyCheck
  <2>2. kBadRequest \in Nat /\ kBadRequest # kOk
    BY DEF kBadRequest, kOk
  <2> QED
    BY <1>1, <2>1, <2>2
<1>4. CASE IsSupportedOpcode(p.head.opcode) /\ IsKVRequest(p)
  <2>1. BodyCheck(p) = p
    BY <1>4 DEF BodyCheck
  <2> QED
    BY <1>4, <2>1
<1> QED
  BY <1>2, <1>3, <1>4

(* A request that decodes is within the limits.                             *)
LEMMA RequestWithinLimits ==
  ASSUME NEW p \in Packet, IsKVRequest(p)
  PROVE  /\ KVRequestOf(p).opcode = p.head.opcode
         /\ p.head.opcode \in {kPing, kPut, kGet, kDel}
         /\ p.head.opcode # kPing => IsKey(KVRequestOf(p).key)
         /\ p.head.opcode = kPut => IsValue(KVRequestOf(p).value)
<1> USE DEF kPing, kPut, kGet, kDel
<1>1. PICK body \in Flow : body = p.body
  BY DEF Packet, Flow
<1>2. PICK l \in Nat : l = Len(body)
  BY LenProperties DEF Flow
<1>3. \A i \in 1..l : body[i] \in Nat
  BY <1>2, ElementOfSeq DEF Flow, Unit
<1>4. ASSUME NEW lo \in Nat, NEW n \in Nat, lo + n <= l, lo # 0
      PROVE  /\ SubSeq(body, lo + 1, lo + n) \in Flow
             /\ Len(SubSeq(body, lo + 1, lo + n)) = n
  BY <1>3, <1>4, SubSeqProperties DEF Flow, Unit
<1>5. CASE p.head.opcode = kPing
  BY <1>5 DEF KVRequestOf
<1>6. CASE p.head.opcode = kPut
  <2>1. PutBodyOK(body)
    BY <1>1, <1>6 DEF IsKVRequest
  <2>2. PICK n \in Nat, v \in Nat : n = body[1] /\ v = body[2]
    BY <1>2, <1>3, <2>1 DEF PutBodyOK
  <2>3. 2 + n + v = l /\ n # 0 /\ n <= kMaxKeyLength /\ v <= kMaxValueLength
    BY <1>2, <2>1, <2>2 DEF PutBodyOK, KeyFits
  <2>4. /\ KVRequestOf(p).opcode = kPut
        /\ KVRequestOf(p).key = SubSeq(body, 2 + 1, 2 + n)
        /\ KVRequestOf(p).value = SubSeq(body, 2 + n + 1, l)
    <3>1. KVRequestOf(p) =
            [opcode |-> p.head.opcode,
             key    |-> SubSeq(p.body, 2 + 1, 2 + p.body[1]),
             value  |-> SubSeq(p.body, 2 + p.body[1] + 1, Len(p.body))]
      BY <1>6 DEF KVRequestOf
    <3>2. KVRequestOf(p) =
            [opcode |-> kPut,
             key    |-> SubSeq(body, 2 + 1, 2 + n),
             value  |-> SubSeq(body, 2 + n + 1, l)]
      BY <1>1, <1>2, <1>6, <2>2, <3>1, Zenon
    <3> QED
      BY <3>2
  <2>5. IsKey(KVRequestOf(p).key)
    <3>1. 2 + n <= l /\ 2 # 0
      BY <2>3
    <3>2. /\ SubSeq(body, 2 + 1, 2 + n) \in Flow
          /\ Len(SubSeq(body, 2 + 1, 2 + n)) = n
      BY <1>4, <3>1
    <3> QED
      BY <2>3, <2>4, <3>2 DEF IsKey, Flow
  <2>6. l = (2 + n) + v /\ 2 + n \in Nat /\ 2 + n # 0
    BY <2>3
  <2>7. /\ SubSeq(body, 2 + n + 1, l) \in Flow
        /\ Len(SubSeq(body, 2 + n + 1, l)) = v
    BY <1>4, <2>6
  <2>8. IsValue(KVRequestOf(p).value)
    BY <2>3, <2>4, <2>7 DEF IsValue, Flow
  <2> QED
    BY <1>6, <2>4, <2>5, <2>8
<1>7. CASE p.head.opcode \in {kGet, kDel}
  <2>1. KeyBodyOK(body)
    BY <1>1, <1>7 DEF IsKVRequest
  <2>2. PICK n \in Nat : n = body[1]
    BY <1>2, <1>3, <2>1 DEF KeyBodyOK
  <2>3. 1 + n = l /\ n # 0 /\ n <= kMaxKeyLength
    BY <1>2, <2>1, <2>2 DEF KeyBodyOK, KeyFits
  <2>4. /\ KVRequestOf(p).opcode = p.head.opcode
        /\ KVRequestOf(p).key = SubSeq(body, 1 + 1, 1 + n)
    BY <1>1, <1>7, <2>2 DEF KVRequestOf
  <2>5. IsKey(KVRequestOf(p).key)
    <3>1. 1 + n <= l /\ 1 # 0
      BY <2>3
    <3>2. /\ SubSeq(body, 1 + 1, 1 + n) \in Flow
          /\ Len(SubSeq(body, 1 + 1, 1 + n)) = n
      BY <1>4, <3>1
    <3> QED
      BY <2>3, <2>4, <3>2 DEF IsKey, Flow
  <2> QED
    BY <1>7, <2>4, <2>5
<1> QED
  BY <1>5, <1>6, <1>7 DEF IsKVRequest

(* The store keeps to the limits, and answers with what it holds.           *)
LEMMA StoreType ==
  ASSUME NEW m, MapOK(m), NEW r, IsKey(r.key)
  PROVE  /\ IsValue(r.value) => MapOK(Put(m, r).mp)
         /\ MapOK(Get(m, r).mp) /\ MapOK(Del(m, r).mp)
         /\ IsValue(Get(m, r).value)
         /\ Put(m, r).status \in Nat /\ Get(m, r).status \in Nat
         /\ Del(m, r).status \in Nat
         /\ Put(m, r).value = <<>> /\ Del(m, r).value = <<>>
<1>1. ASSUME IsValue(r.value) PROVE MapOK(Put(m, r).mp)
  <2> DEFINE q == [k \in DOMAIN m \cup {r.key} |->
                     IF k = r.key THEN r.value ELSE m[k]]
  <2>1. Put(m, r).mp = q
    BY DEF Put
  <2>2. DOMAIN q = DOMAIN m \cup {r.key}
    OBVIOUS
  <2>3. ASSUME NEW k \in DOMAIN q PROVE IsKey(k) /\ IsValue(q[k])
    BY <1>1, <2>2 DEF MapOK
  <2> HIDE DEF q
  <2> QED
    BY <2>1, <2>3 DEF MapOK
<1>2. MapOK(Get(m, r).mp)
  BY DEF Get
<1>3. MapOK(Del(m, r).mp)
  <2> DEFINE q == [k \in DOMAIN m \ {r.key} |-> m[k]]
  <2>1. Del(m, r).mp = q
    BY DEF Del
  <2>2. ASSUME NEW k \in DOMAIN q PROVE IsKey(k) /\ IsValue(q[k])
    BY DEF MapOK
  <2> HIDE DEF q
  <2> QED
    BY <2>1, <2>2 DEF MapOK
<1>4. IsValue(<<>>)
  BY Empty, LimitsAssumption DEF IsValue, Flow
<1>5. IsValue(Get(m, r).value)
  BY <1>4 DEF Get, MapOK
<1>6. /\ Put(m, r).status \in Nat /\ Get(m, r).status \in Nat
      /\ Del(m, r).status \in Nat
  BY DEF Put, Get, Del, kOk, kNotFound
<1>7. Put(m, r).value = <<>> /\ Del(m, r).value = <<>>
  BY DEF Put, Del
<1> QED
  BY <1>1, <1>2, <1>3, <1>5, <1>6, <1>7

LEMMA ExecutedType ==
  ASSUME MapOK(mp), NEW p \in Packet, p.head.status = kOk => IsKVRequest(p)
  PROVE  /\ MapOK(Executed(p).mp) /\ Executed(p).status \in Nat
         /\ IsValue(Executed(p).value)
<1>1. IsValue(<<>>) /\ p.head.status \in Nat
  BY Empty, LimitsAssumption DEF IsValue, Flow, Packet, PacketHead
<1>2. CASE p.head.status # kOk
  <2>1. Executed(p) = [mp |-> mp, status |-> p.head.status, value |-> <<>>]
    BY <1>2 DEF Executed
  <2> QED
    BY <1>1, <2>1
<1>3. CASE p.head.status = kOk
  <2>1. IsKVRequest(p)
    BY <1>3
  <2>2. PICK r : r = KVRequestOf(p)
    OBVIOUS
  <2>3. /\ r.opcode = p.head.opcode
        /\ r.opcode \in {kPing, kPut, kGet, kDel}
        /\ r.opcode # kPing => IsKey(r.key)
        /\ r.opcode = kPut => IsValue(r.value)
    BY <2>1, <2>2, RequestWithinLimits
  <2>4. Executed(p) =
          CASE r.opcode = kPing -> [mp |-> mp, status |-> kOk, value |-> <<>>]
            [] r.opcode = kPut  -> Put(mp, r)
            [] r.opcode = kGet  -> Get(mp, r)
            [] r.opcode = kDel  -> Del(mp, r)
    BY <1>3, <2>2 DEF Executed
  <2> USE DEF kPing, kPut, kGet, kDel
  <2>5. CASE r.opcode = kPing
    <3>1. Executed(p) = [mp |-> mp, status |-> kOk, value |-> <<>>]
      BY <2>4, <2>5
    <3> QED
      BY <1>1, <3>1 DEF kOk
  <2>6. CASE r.opcode = kPut
    <3>1. Executed(p) = Put(mp, r)
      BY <2>4, <2>6
    <3>2. IsKey(r.key) /\ IsValue(r.value)
      BY <2>3, <2>6
    <3>3. /\ MapOK(Put(mp, r).mp) /\ Put(mp, r).status \in Nat
          /\ Put(mp, r).value = <<>>
      BY <3>2, StoreType
    <3> QED
      BY <1>1, <3>1, <3>3
  <2>7. CASE r.opcode = kGet
    <3>1. Executed(p) = Get(mp, r)
      BY <2>4, <2>7
    <3> QED
      BY <2>3, <2>7, <3>1, StoreType
  <2>8. CASE r.opcode = kDel
    <3>1. Executed(p) = Del(mp, r)
      BY <2>4, <2>8
    <3> QED
      BY <1>1, <2>3, <2>8, <3>1, StoreType
  <2> QED
    BY <2>3, <2>5, <2>6, <2>7, <2>8
<1> QED
  BY <1>2, <1>3

LEMMA MadePacket ==
  ASSUME NEW type \in Nat, NEW opcode \in Nat, NEW status \in Nat,
         NEW id \in Nat, NEW body \in Flow
  PROVE  MakePacket(type, opcode, status, id, body) \in Packet
<1>1. Len(body) \in Nat
  BY LenProperties DEF Flow
<1> QED
  BY <1>1 DEF MakePacket, Packet, PacketHead, Flow, kDefaultMagic,
              kDefaultVersion

(* Every response can be encoded: the values in the store fit.              *)
LEMMA ResponseType ==
  ASSUME NEW p \in Packet, NEW res, res.status \in Nat, IsValue(res.value)
  PROVE  /\ ResponseTo(p, res) \in Packet
         /\ ResponseTo(p, res) =
              EncodeKVResponseToPacket(res.status, res.value, p.head.opcode,
                                       p.head.request_id)
<1>1. ResponseFits(res.status, res.value, p.head.opcode)
  BY DEF ResponseFits, IsValue
<1>2. ResponseTo(p, res) =
        EncodeKVResponseToPacket(res.status, res.value, p.head.opcode,
                                 p.head.request_id)
  BY <1>1 DEF ResponseTo
<1>3. PICK v \in Flow : v = res.value
  BY DEF IsValue, Flow
<1>4. <<Len(v)>> \in Flow
  BY LenProperties DEF Flow, Unit
<1>5. <<Len(v)>> \o v \in Flow
  BY <1>4, Joined
<1>6. PICK body \in Flow :
        body = IF p.head.opcode = kGet /\ res.status = kOk
               THEN <<Len(v)>> \o v ELSE <<>>
  BY <1>5, Empty
<1>7. p.head.opcode \in Nat /\ p.head.request_id \in Nat /\ kResponse \in Nat
  BY DEF Packet, PacketHead, kResponse
<1>8. MakePacket(kResponse, p.head.opcode, res.status, p.head.request_id, body)
        \in Packet
  BY <1>7, MadePacket
<1>9. EncodeKVResponseToPacket(res.status, res.value, p.head.opcode,
                               p.head.request_id)
        = MakePacket(kResponse, p.head.opcode, res.status, p.head.request_id,
                     body)
  BY <1>3, <1>6 DEF EncodeKVResponseToPacket
<1> QED
  BY <1>2, <1>8, <1>9

-----------------------------------------------------------------------------
(* The inductive invariant, connection by connection.                       *)

ConnTypes(c) ==
  /\ wire[c] \in Flow /\ buf[c] \in Flow
  /\ pc[c] \in {"out", "in", "reply"}
  /\ echo[c] \in Packet
  /\ out[c] \in Seq(Flow)
  /\ sent[c] \in Seq(Packets[c])
  /\ taken[c] \in Nat /\ taken[c] <= Len(sent[c])
  /\ pieces[c] \in 0..MaxPieces[c]

ConnFlags(c) == up[c] \in BOOLEAN /\ gone[c] \in BOOLEAN /\ closed[c] \in BOOLEAN

ConnSync(c) == buf[c] \o wire[c] = Stream(sent[c], taken[c] + 1)

(* Between two requests nothing is left to answer; a reply under way says   *)
(* how long its body is; a connection that the service has closed is never  *)
(* looked at again.                                                         *)
ConnReply(c) ==
  /\ pc[c] # "reply" => echo[c] = NoEcho
  /\ pc[c] = "reply" => echo[c].head.body_length = Len(echo[c].body)
  /\ closed[c] => pc[c] = "out" /\ ~up[c]

ConnInv(c) == ConnTypes(c) /\ ConnFlags(c) /\ ConnSync(c) /\ ConnReply(c)

Shaped(f) == f = [c \in Conns |-> f[c]]
AllShaped ==
  /\ Shaped(wire) /\ Shaped(buf) /\ Shaped(pc) /\ Shaped(echo) /\ Shaped(out)
  /\ Shaped(up) /\ Shaped(gone) /\ Shaped(closed) /\ Shaped(sent)
  /\ Shaped(taken) /\ Shaped(pieces)

Inv ==
  /\ checks \in Checks /\ MapOK(mp) /\ AllShaped
  /\ \A c \in Conns : ConnInv(c)

OthersKept(c) ==
  \A d \in Conns \ {c} :
    /\ wire'[d] = wire[d] /\ buf'[d] = buf[d] /\ pc'[d] = pc[d]
    /\ echo'[d] = echo[d] /\ out'[d] = out[d] /\ up'[d] = up[d]
    /\ gone'[d] = gone[d] /\ closed'[d] = closed[d] /\ sent'[d] = sent[d]
    /\ taken'[d] = taken[d] /\ pieces'[d] = pieces[d]

LEMMA Frame ==
  ASSUME Inv, NEW c \in Conns, checks' = checks, MapOK(mp'), AllShaped',
         OthersKept(c), ConnInv(c)'
  PROVE  Inv'
<1>1. ASSUME NEW d \in Conns, d # c PROVE ConnInv(d)'
  <2>1. /\ wire'[d] = wire[d] /\ buf'[d] = buf[d] /\ pc'[d] = pc[d]
        /\ echo'[d] = echo[d] /\ out'[d] = out[d] /\ up'[d] = up[d]
        /\ gone'[d] = gone[d] /\ closed'[d] = closed[d] /\ sent'[d] = sent[d]
        /\ taken'[d] = taken[d] /\ pieces'[d] = pieces[d]
    BY <1>1 DEF OthersKept
  <2>2. ConnInv(d)
    BY DEF Inv
  <2> QED
    BY <2>1, <2>2, Zenon
       DEF ConnInv, ConnTypes, ConnFlags, ConnSync, ConnReply
<1> QED
  BY <1>1, Zenon DEF Inv, MapOK

LEMMA InvInit == Init => Inv
<1> SUFFICES ASSUME Init PROVE Inv OBVIOUS
<1>1. checks \in Checks /\ AllShaped
  BY DEF Init, AllShaped, Shaped
<1>2. MapOK(mp)
  BY DEF Init, MapOK
<1>3. ASSUME NEW c \in Conns PROVE ConnInv(c)
  <2>1. /\ wire[c] = <<>> /\ buf[c] = <<>> /\ pc[c] = "out"
        /\ echo[c] = NoEcho /\ out[c] = <<>> /\ sent[c] = <<>>
        /\ taken[c] = 0 /\ pieces[c] = 0
    BY DEF Init
  <2>2. up[c] = TRUE /\ gone[c] = FALSE /\ closed[c] = FALSE
    BY DEF Init
  <2>3. NoEcho \in Packet
    BY Empty, MadePacket DEF NoEcho, kResponse
  <2>4. MaxPieces[c] \in Nat
    BY ClientsAssumption
  <2>5. /\ <<>> \in Seq(Flow) /\ <<>> \in Seq(Packets[c]) /\ <<>> \in Seq(Packet)
        /\ Len(<<>>) = 0
    BY EmptySeq
  <2>6. ConnTypes(c)
    BY <2>1, <2>3, <2>4, <2>5, Empty DEF ConnTypes
  <2>7. ConnFlags(c)
    BY <2>2, Zenon DEF ConnFlags
  <2>8. ConnSync(c)
    <3>1. Stream(<<>>, 0 + 1) = <<>>
      BY <2>5, StreamEnd
    <3>2. <<>> \o <<>> = <<>>
      BY Empty
    <3> QED
      BY <2>1, <3>1, <3>2 DEF ConnSync
  <2>9. ConnReply(c)
    BY <2>1, <2>2, Zenon DEF ConnReply
  <2> QED
    BY <2>6, <2>7, <2>8, <2>9 DEF ConnInv
<1> QED
  BY <1>1, <1>2, <1>3 DEF Inv

-----------------------------------------------------------------------------
(* The steps of the clients.                                                *)

LEMMA SentPackets ==
  ASSUME NEW c \in Conns, ConnTypes(c)
  PROVE  /\ sent[c] \in Seq(Packet) /\ Len(sent[c]) \in Nat
         /\ \A i \in 1..Len(sent[c]) : sent[c][i] \in Packets[c]
<1>1. Packets[c] \subseteq Packet
  BY ClientsAssumption
<1>2. sent[c] \in Seq(Packets[c])
  BY DEF ConnTypes
<1> QED
  BY <1>1, <1>2, SeqMonotonic, LenProperties, ElementOfSeq

LEMMA StepSend ==
  ASSUME Inv, NEW c \in Conns, NEW p \in Packets[c], Send(c, p)
  PROVE  Inv'
<1>1. AllShaped /\ ConnInv(c) /\ MapOK(mp)
  BY DEF Inv
<1>2. /\ AllShaped' /\ OthersKept(c)
      /\ sent'[c] = Append(sent[c], p)
      /\ wire'[c] = wire[c] \o EncodePacketToFlow(p)
  BY <1>1 DEF Send, AllShaped, OthersKept, Shaped
<1>3. /\ checks' = checks /\ mp' = mp /\ buf'[c] = buf[c] /\ pc'[c] = pc[c]
      /\ echo'[c] = echo[c] /\ out'[c] = out[c] /\ up'[c] = up[c]
      /\ gone'[c] = gone[c] /\ closed'[c] = closed[c] /\ taken'[c] = taken[c]
      /\ pieces'[c] = pieces[c]
  BY DEF Send
<1>4. p \in Packet
  BY ClientsAssumption
<1>5. EncodePacketToFlow(p) \in Flow
  BY <1>4, EncodedPacket
<1>6. ConnTypes(c)
  BY <1>1 DEF ConnInv
<1>7. wire[c] \o EncodePacketToFlow(p) \in Flow
  BY <1>5, <1>6, Joined DEF ConnTypes
<1>8. /\ Append(sent[c], p) \in Seq(Packets[c])
      /\ Len(Append(sent[c], p)) = Len(sent[c]) + 1
  <2>1. PICK S, s : S = Packets[c] /\ s = sent[c] /\ s \in Seq(S)
    BY <1>6 DEF ConnTypes
  <2>2. Append(s, p) \in Seq(S) /\ Len(Append(s, p)) = Len(s) + 1
    <3>1. s \in Seq(S) /\ p \in S
      BY <2>1
    <3> QED
      BY <3>1, AppendProperties, Zenon
  <2> QED
    BY <2>1, <2>2
<1>9. sent[c] \in Seq(Packet) /\ Len(sent[c]) \in Nat
  BY <1>6, SentPackets
<1>10. taken[c] \in Nat /\ taken[c] <= Len(sent[c])
  BY <1>6 DEF ConnTypes
<1>11. taken[c] <= Len(sent[c]) + 1
  BY <1>9, <1>10
<1>12. ConnTypes(c)'
  BY <1>2, <1>3, <1>6, <1>7, <1>8, <1>11, Zenon DEF ConnTypes
<1>13. ConnSync(c)'
  <2>1. PICK x \in Flow, y \in Flow, z \in Flow :
          x = buf[c] /\ y = wire[c] /\ z = EncodePacketToFlow(p)
    BY <1>5, <1>6 DEF ConnTypes
  <2>2. PICK s \in Seq(Packet), n \in Nat \ {0} :
          s = sent[c] /\ n = taken[c] + 1 /\ n <= Len(s) + 1
    BY <1>9, <1>10
  <2>3. x \o y = Stream(s, n)
    BY <1>1, <2>1, <2>2 DEF ConnInv, ConnSync
  <2>4. Stream(Append(s, p), n) = Stream(s, n) \o z
    BY <1>4, <2>1, <2>2, StreamAppend
  <2>5. (x \o y) \o z = x \o (y \o z)
    BY Regroup
  <2>6. x \o (y \o z) = Stream(Append(s, p), n)
    BY <2>3, <2>4, <2>5, Zenon
  <2> QED
    BY <1>2, <1>3, <2>1, <2>2, <2>6, Zenon DEF ConnSync
<1>14. ConnFlags(c)' /\ ConnReply(c)'
  BY <1>1, <1>3, Zenon DEF ConnInv, ConnFlags, ConnReply
<1>15. ConnInv(c)'
  BY <1>12, <1>13, <1>14, Zenon DEF ConnInv
<1> QED
  BY <1>1, <1>2, <1>3, <1>15, Frame, Zenon

LEMMA StepPeerGone ==
  ASSUME Inv, NEW c \in Conns, PeerGone(c)
  PROVE  Inv'
<1>1. AllShaped /\ ConnInv(c) /\ MapOK(mp)
  BY DEF Inv
<1>2. AllShaped' /\ OthersKept(c) /\ gone'[c] = TRUE
  BY <1>1 DEF PeerGone, AllShaped, OthersKept, Shaped
<1>3. /\ checks' = checks /\ mp' = mp /\ buf'[c] = buf[c] /\ pc'[c] = pc[c]
      /\ wire'[c] = wire[c] /\ echo'[c] = echo[c] /\ out'[c] = out[c]
      /\ up'[c] = up[c] /\ closed'[c] = closed[c] /\ sent'[c] = sent[c]
      /\ taken'[c] = taken[c] /\ pieces'[c] = pieces[c]
  BY DEF PeerGone
<1>4. ConnInv(c)'
  BY <1>1, <1>2, <1>3, Zenon
     DEF ConnInv, ConnTypes, ConnFlags, ConnSync, ConnReply
<1> QED
  BY <1>1, <1>2, <1>3, <1>4, Frame, Zenon

-----------------------------------------------------------------------------
(* The steps of an io thread.                                               *)

LEMMA StepDisconnect ==
  ASSUME Inv, NEW c \in Conns, Disconnect(c)
  PROVE  Inv'
<1>1. AllShaped /\ ConnInv(c) /\ MapOK(mp)
  BY DEF Inv
<1>2. AllShaped' /\ OthersKept(c) /\ up'[c] = FALSE
  BY <1>1 DEF Disconnect, AllShaped, OthersKept, Shaped
<1>3. /\ checks' = checks /\ mp' = mp /\ buf'[c] = buf[c] /\ pc'[c] = pc[c]
      /\ wire'[c] = wire[c] /\ echo'[c] = echo[c] /\ out'[c] = out[c]
      /\ gone'[c] = gone[c] /\ closed'[c] = closed[c] /\ sent'[c] = sent[c]
      /\ taken'[c] = taken[c] /\ pieces'[c] = pieces[c]
  BY DEF Disconnect
<1>4. ConnInv(c)'
  BY <1>1, <1>2, <1>3, Zenon
     DEF ConnInv, ConnTypes, ConnFlags, ConnSync, ConnReply
<1> QED
  BY <1>1, <1>2, <1>3, <1>4, Frame, Zenon

LEMMA StepReturn ==
  ASSUME Inv, NEW c \in Conns, Return(c)
  PROVE  Inv'
<1>1. AllShaped /\ ConnInv(c) /\ MapOK(mp)
  BY DEF Inv
<1>2. AllShaped' /\ OthersKept(c) /\ pc'[c] = "out" /\ pc[c] = "in"
  BY <1>1 DEF Return, AllShaped, OthersKept, Shaped
<1>3. /\ checks' = checks /\ mp' = mp /\ buf'[c] = buf[c] /\ up'[c] = up[c]
      /\ wire'[c] = wire[c] /\ echo'[c] = echo[c] /\ out'[c] = out[c]
      /\ gone'[c] = gone[c] /\ closed'[c] = closed[c] /\ sent'[c] = sent[c]
      /\ taken'[c] = taken[c] /\ pieces'[c] = pieces[c]
  BY DEF Return
<1>4. ConnTypes(c)'
  BY <1>1, <1>2, <1>3, Zenon DEF ConnInv, ConnTypes
<1>5. ConnFlags(c)' /\ ConnSync(c)'
  BY <1>1, <1>2, <1>3, Zenon DEF ConnInv, ConnFlags, ConnSync
<1>6. echo[c] = NoEcho /\ ~closed[c]
  BY <1>1, <1>2 DEF ConnInv, ConnReply
<1>7. ConnReply(c)'
  BY <1>2, <1>3, <1>6, Zenon DEF ConnReply
<1>8. ConnInv(c)'
  BY <1>4, <1>5, <1>7 DEF ConnInv
<1> QED
  BY <1>1, <1>2, <1>3, <1>8, Frame, Zenon

LEMMA StepRefuse ==
  ASSUME Inv, NEW c \in Conns, Refuse(c)
  PROVE  Inv'
<1>1. AllShaped /\ ConnInv(c) /\ MapOK(mp)
  BY DEF Inv
<1>2. /\ AllShaped' /\ OthersKept(c) /\ pc'[c] = "out" /\ pc[c] = "in"
      /\ up'[c] = FALSE /\ closed'[c] = TRUE
  BY <1>1 DEF Refuse, AllShaped, OthersKept, Shaped
<1>3. /\ checks' = checks /\ mp' = mp /\ buf'[c] = buf[c]
      /\ wire'[c] = wire[c] /\ echo'[c] = echo[c] /\ out'[c] = out[c]
      /\ gone'[c] = gone[c] /\ sent'[c] = sent[c]
      /\ taken'[c] = taken[c] /\ pieces'[c] = pieces[c]
  BY DEF Refuse
<1>4. ConnTypes(c)'
  BY <1>1, <1>2, <1>3, Zenon DEF ConnInv, ConnTypes
<1>5. ConnFlags(c)' /\ ConnSync(c)'
  BY <1>1, <1>2, <1>3, Zenon DEF ConnInv, ConnFlags, ConnSync
<1>6. echo[c] = NoEcho
  BY <1>1, <1>2 DEF ConnInv, ConnReply
<1>7. ConnReply(c)'
  BY <1>2, <1>3, <1>6, Zenon DEF ConnReply
<1>8. ConnInv(c)'
  BY <1>4, <1>5, <1>7 DEF ConnInv
<1> QED
  BY <1>1, <1>2, <1>3, <1>8, Frame, Zenon

(* A buffer in step with the stream begins with the header of the next      *)
(* packet as soon as it is long enough ...                                  *)
LEMMA FrontHead ==
  ASSUME NEW b \in Flow, NEW w \in Flow, NEW s \in Seq(Packet), NEW n \in Nat,
         n <= Len(s), b \o w = Stream(s, n + 1), Len(b) >= HeadSize
  PROVE  /\ n < Len(s) /\ n + 1 \in 1..Len(s) /\ s[n + 1] \in Packet
         /\ b \o w = EncodePacketToFlow(s[n + 1]) \o Stream(s, n + 2)
         /\ HeadAt(b) = s[n + 1].head
<1>1. Len(s) \in Nat /\ Len(b) \in Nat /\ Len(w) \in Nat
  BY LenProperties DEF Flow
<1>2. n # Len(s)
  <2>1. SUFFICES ASSUME n = Len(s) PROVE FALSE
    OBVIOUS
  <2>2. b \o w = <<>>
    BY <2>1, StreamEnd
  <2>3. Len(b \o w) = Len(b) + Len(w)
    BY Joined
  <2> QED
    BY <1>1, <2>2, <2>3, Empty DEF HeadSize
<1>3. n < Len(s) /\ n + 1 \in 1..Len(s)
  BY <1>1, <1>2
<1>4. PICK p \in Packet : p = s[n + 1]
  BY <1>3, ElementOfSeq
<1>5. Stream(s, n + 1) = EncodePacketToFlow(s[n + 1]) \o Stream(s, (n + 1) + 1)
  BY <1>3, StreamDrop
<1>6. (n + 1) + 1 = n + 2 /\ n + 2 \in Nat \ {0}
  OBVIOUS
<1>7. PICK v \in Flow : v = Stream(s, n + 2)
  BY <1>6, StreamIsFlow
<1>8. b \o w = EncodePacketToFlow(p) \o v
  BY <1>4, <1>5, <1>6, <1>7
<1>9. PICK h \in Flow, d \in Flow :
        /\ h = HeadUnits(p.head) /\ d = p.body /\ Len(h) = HeadSize
        /\ EncodePacketToFlow(p) = h \o d
  BY EncodedPacket, HeadRead
<1>10. ASSUME NEW i \in 1..7 PROVE b[i] = h[i]
  <2>1. i \in 1..(Len(b) + Len(w)) /\ i <= Len(b)
    BY <1>1 DEF HeadSize
  <2>2. (b \o w)[i] = b[i]
    BY <2>1, Joined
  <2>3. PICK e \in Flow : e = h \o d
    BY Joined
  <2>4. /\ Len(d) \in Nat /\ Len(v) \in Nat /\ Len(h) \in Nat
        /\ Len(e) = Len(h) + Len(d)
    BY <2>3, Joined
  <2>5. i \in 1..(Len(h) + Len(d)) /\ i <= Len(h)
    BY <1>9, <2>4 DEF HeadSize
  <2>6. (h \o d)[i] = h[i]
    BY <2>5, Joined
  <2>7. i \in 1..(Len(e) + Len(v)) /\ i <= Len(e)
    <3>1. PICK x \in Nat, y \in Nat : x = Len(e) /\ y = Len(v) /\ x >= 7
      <4>1. Len(h) = 7
        BY <1>9 DEF HeadSize
      <4>2. Len(e) = 7 + Len(d) /\ Len(d) \in Nat
        BY <2>4, <4>1
      <4>3. Len(e) \in Nat /\ Len(e) >= 7
        BY <4>2
      <4> QED
        BY <2>4, <4>3
    <3>2. i \in 1..(x + y) /\ i <= x
      BY <3>1
    <3> QED
      BY <3>1, <3>2, Zenon
  <2>8. (e \o v)[i] = e[i]
    BY <2>7, Joined
  <2> QED
    BY <1>8, <1>9, <2>2, <2>3, <2>6, <2>8, Zenon
<1>11. HeadAt(b) = HeadAt(h)
  BY <1>10, SameHead
<1>12. HeadAt(h) = p.head
  BY <1>9, EncodedPacket, HeadRead
<1> QED
  BY <1>3, <1>4, <1>7, <1>8, <1>11, <1>12

(* ... and with the whole packet once its body is there, behind which the   *)
(* stream goes on.                                                          *)
LEMMA FrontPacket ==
  ASSUME NEW b \in Flow, NEW w \in Flow, NEW s \in Seq(Packet), NEW n \in Nat,
         n <= Len(s), b \o w = Stream(s, n + 1), Len(b) >= HeadSize,
         s[n + 1].head.body_length = Len(s[n + 1].body),
         Len(b) >= HeadSize + HeadAt(b).body_length
  PROVE  /\ PacketAt(b) = s[n + 1]
         /\ Rest(b) \in Flow /\ Rest(b) \o w = Stream(s, n + 2)
<1>1. /\ n + 1 \in 1..Len(s) /\ HeadAt(b) = s[n + 1].head
      /\ b \o w = EncodePacketToFlow(s[n + 1]) \o Stream(s, n + 2)
  BY FrontHead
<1>2. PICK p \in Packet : p = s[n + 1]
  BY FrontHead
<1>3. PICK u \in Flow, v \in Flow :
        u = EncodePacketToFlow(p) /\ v = Stream(s, n + 2)
  <2>1. EncodePacketToFlow(p) \in Flow
    BY EncodedPacket
  <2>2. n + 2 \in Nat \ {0}
    OBVIOUS
  <2>3. Stream(s, n + 2) \in Flow
    BY <2>2, StreamIsFlow
  <2> QED
    BY <2>1, <2>3
<1>4. PICK m \in Nat : m = Len(p.body) /\ Len(u) = HeadSize + m
  BY <1>3, EncodedPacket
<1>5. HeadAt(b).body_length = m
  BY <1>1, <1>2, <1>4
<1>6. b \o w = u \o v /\ Len(u) <= Len(b)
  BY <1>1, <1>2, <1>3, <1>4, <1>5 DEF HeadSize
<1>7. /\ SubSeq(b, 1, Len(u)) = u
      /\ SubSeq(b, Len(u) + 1, Len(b)) \in Flow
      /\ SubSeq(b, Len(u) + 1, Len(b)) \o w = v
  <2>1. Leaves(b, w, u, v)
    BY <1>6, TakePrefix
  <2> QED
    BY <2>1 DEF Leaves
<1>8. Rest(b) = SubSeq(b, Len(u) + 1, Len(b))
  BY <1>4, <1>5 DEF Rest
<1>9. PICK h \in Flow, d \in Flow :
        /\ h = HeadUnits(p.head) /\ d = p.body /\ Len(h) = HeadSize
        /\ Len(d) = m /\ u = h \o d
  BY <1>3, <1>4, EncodedPacket, HeadRead
<1>10. SubSeq(b, HeadSize + 1, HeadSize + m) = d
  <2>1. Len(b) \in Nat /\ Len(u) = 7 + m /\ 7 + m <= Len(b) /\ Len(h) = 7
    BY <1>4, <1>6, <1>9, LenProperties DEF HeadSize, Flow
  <2>2. \A i \in 1..(7 + m) : b[i] = u[i] /\ b[i] \in Unit
    <3>1. \A i \in 1..Len(b) : b[i] \in Unit
      BY ElementOfSeq DEF Flow
    <3>2. \A i \in 1..(7 + m) : SubSeq(b, 1, 7 + m)[i] = b[i]
      BY <2>1, <3>1, SubSeqProperties
    <3> QED
      BY <1>7, <2>1, <3>1, <3>2
  <2>3. \A i \in 1..m : u[7 + i] = d[i]
    <3>1. \A i \in 1..(7 + m) :
            (h \o d)[i] = IF i <= 7 THEN h[i] ELSE d[i - 7]
      <4>1. \A i \in 1..(Len(h) + Len(d)) :
              (h \o d)[i] = IF i <= Len(h) THEN h[i] ELSE d[i - Len(h)]
        BY Joined
      <4>2. Len(h) = 7 /\ Len(d) = m
        BY <1>9, <2>1
      <4> QED
        BY <4>1, <4>2
    <3>2. ASSUME NEW i \in 1..m PROVE (h \o d)[7 + i] = d[i]
      <4>1. 7 + i \in 1..(7 + m) /\ ~(7 + i <= 7) /\ (7 + i) - 7 = i
        OBVIOUS
      <4> QED
        BY <3>1, <4>1
    <3> QED
      BY <1>9, <3>2
  <2>4. PICK x : x = SubSeq(b, 7 + 1, 7 + m)
    OBVIOUS
  <2>5. /\ x \in Seq(Unit) /\ Len(x) = m
        /\ \A i \in 1..m : x[i] = b[7 + i]
    <3>1. \A i \in (7 + 1)..(7 + m) : b[i] \in Unit
      BY <2>2
    <3>2. /\ x \in Seq(Unit)
          /\ Len(x) = IF 7 + 1 <= 7 + m THEN (7 + m) - (7 + 1) + 1 ELSE 0
          /\ \A i \in 1..((7 + m) - (7 + 1) + 1) : x[i] = b[(7 + 1) + i - 1]
      BY <2>4, <3>1, SubSeqProperties
    <3> QED
      BY <3>2
  <2>6. ASSUME NEW i \in 1..m PROVE x[i] = d[i]
    <3>1. 7 + i \in 1..(7 + m)
      OBVIOUS
    <3> QED
      BY <2>2, <2>3, <2>5, <3>1
  <2>7. x = d
    BY <1>9, <2>5, <2>6, SeqEqual DEF Flow
  <2> QED
    BY <2>4, <2>7 DEF HeadSize
<1>11. PacketAt(b) = [head |-> p.head, body |-> p.body]
  BY <1>1, <1>2, <1>5, <1>9, <1>10 DEF PacketAt
<1>12. p = [head |-> p.head, body |-> p.body]
  BY DEF Packet
<1> QED
  BY <1>2, <1>3, <1>7, <1>8, <1>11, <1>12

LEMMA StepRead ==
  ASSUME Inv, NEW c \in Conns, NEW n \in 1..Len(wire[c]), Read(c, n)
  PROVE  Inv'
<1>1. AllShaped /\ ConnInv(c) /\ MapOK(mp)
  BY DEF Inv
<1>2. /\ AllShaped' /\ OthersKept(c) /\ pc'[c] = "in" /\ pc[c] = "out"
      /\ buf'[c] = buf[c] \o SubSeq(wire[c], 1, n)
      /\ wire'[c] = SubSeq(wire[c], n + 1, Len(wire[c]))
      /\ pieces'[c] = IF n = Len(wire[c]) THEN pieces[c] ELSE pieces[c] + 1
  BY <1>1 DEF Read, AllShaped, OthersKept, Shaped
<1>3. /\ checks' = checks /\ mp' = mp /\ echo'[c] = echo[c] /\ out'[c] = out[c]
      /\ up'[c] = up[c] /\ gone'[c] = gone[c] /\ closed'[c] = closed[c]
      /\ sent'[c] = sent[c] /\ taken'[c] = taken[c]
  BY DEF Read
<1>4. ConnTypes(c)
  BY <1>1 DEF ConnInv
<1>5. PICK b \in Flow, w \in Flow : b = buf[c] /\ w = wire[c]
  BY <1>4 DEF ConnTypes
<1>6. PICK x \in Flow, y \in Flow :
        /\ x = SubSeq(w, 1, n) /\ y = SubSeq(w, n + 1, Len(w)) /\ x \o y = w
  <2>1. n \in 0..Len(w)
    BY <1>5, Joined
  <2> QED
    BY <2>1, Split
<1>7. PICK z \in Flow : z = b \o x
  BY Joined
<1>8. buf'[c] = z /\ wire'[c] = y
  BY <1>2, <1>5, <1>6, <1>7, Zenon
<1>9. pieces'[c] \in 0..MaxPieces[c]
  <2>1. pieces[c] \in 0..MaxPieces[c] /\ MaxPieces[c] \in Nat
    BY <1>4, ClientsAssumption DEF ConnTypes
  <2>2. n = Len(wire[c]) \/ pieces[c] < MaxPieces[c]
    BY DEF Read
  <2> QED
    BY <1>2, <2>1, <2>2
<1>10. ConnTypes(c)'
  BY <1>2, <1>3, <1>4, <1>8, <1>9, Zenon DEF ConnTypes
<1>11. ConnSync(c)'
  <2>1. (b \o x) \o y = b \o (x \o y)
    BY Regroup
  <2>2. z \o y = b \o w
    BY <1>6, <1>7, <2>1, Zenon
  <2> QED
    BY <1>1, <1>3, <1>5, <1>8, <2>2, Zenon DEF ConnInv, ConnSync
<1>12. ConnFlags(c)'
  BY <1>1, <1>3, Zenon DEF ConnInv, ConnFlags
<1>13. echo[c] = NoEcho /\ ~closed[c]
  BY <1>1, <1>2 DEF ConnInv, ConnReply, Read
<1>14. ConnReply(c)'
  BY <1>2, <1>3, <1>13, Zenon DEF ConnReply
<1>15. ConnInv(c)'
  BY <1>10, <1>11, <1>12, <1>14 DEF ConnInv
<1> QED
  BY <1>1, <1>2, <1>3, <1>15, Frame, Zenon

LEMMA StepReply ==
  ASSUME Inv, NEW c \in Conns, Reply(c)
  PROVE  Inv'
<1>1. AllShaped /\ ConnInv(c) /\ MapOK(mp)
  BY DEF Inv
<1>2. /\ AllShaped' /\ OthersKept(c) /\ pc'[c] = "in" /\ pc[c] = "reply"
      /\ echo'[c] = NoEcho
  BY <1>1 DEF Reply, AllShaped, OthersKept, Shaped
<1>3. /\ checks' = checks /\ mp' = mp /\ wire'[c] = wire[c] /\ buf'[c] = buf[c]
      /\ gone'[c] = gone[c] /\ closed'[c] = closed[c] /\ sent'[c] = sent[c]
      /\ taken'[c] = taken[c] /\ pieces'[c] = pieces[c]
  BY DEF Reply
<1>4. /\ \/ out'[c] = Append(out[c], EncodePacketToFlow(echo[c]))
         \/ out'[c] = out[c]
      /\ up'[c] = up[c] \/ up'[c] = FALSE
  BY <1>1 DEF Reply, AllShaped, Shaped
<1>5. ConnTypes(c)
  BY <1>1 DEF ConnInv
<1>6. NoEcho \in Packet
  BY Empty, MadePacket DEF NoEcho, kResponse
<1>7. out'[c] \in Seq(Flow)
  <2>1. EncodePacketToFlow(echo[c]) \in Flow
    BY <1>5, EncodedPacket DEF ConnTypes
  <2>2. out[c] \in Seq(Flow)
    BY <1>5 DEF ConnTypes
  <2>3. Append(out[c], EncodePacketToFlow(echo[c])) \in Seq(Flow)
    BY <2>1, <2>2, AppendProperties
  <2> QED
    BY <1>4, <2>2, <2>3
<1>8. ConnTypes(c)'
  BY <1>2, <1>3, <1>5, <1>6, <1>7, Zenon DEF ConnTypes
<1>9. ConnSync(c)'
  BY <1>1, <1>3, Zenon DEF ConnInv, ConnSync
<1>10. ConnFlags(c)'
  BY <1>1, <1>3, <1>4, Zenon DEF ConnInv, ConnFlags
<1>11. ~closed[c]
  BY <1>1, <1>2 DEF ConnInv, ConnReply
<1>12. ConnReply(c)'
  BY <1>2, <1>3, <1>11, Zenon DEF ConnReply
<1>13. ConnInv(c)'
  BY <1>8, <1>9, <1>10, <1>12 DEF ConnInv
<1> QED
  BY <1>1, <1>2, <1>3, <1>13, Frame, Zenon

(* What the message loop takes for a request is the next packet sent.       *)
LEMMA ServedPacket ==
  ASSUME Inv, NEW c \in Conns, Serve(c)
  PROVE  /\ taken[c] + 1 \in 1..Len(sent[c])
         /\ sent[c][taken[c] + 1] \in Packets[c]
         /\ PacketAt(buf[c]) = sent[c][taken[c] + 1]
         /\ HeadAt(buf[c]) = sent[c][taken[c] + 1].head
         /\ sent[c][taken[c] + 1].head.body_length =
              Len(sent[c][taken[c] + 1].body)
         /\ Rest(buf[c]) \in Flow
         /\ Rest(buf[c]) \o wire[c] = Stream(sent[c], taken[c] + 2)
<1>1. ConnTypes(c) /\ ConnSync(c)
  BY DEF Inv, ConnInv
<1>2. PICK b \in Flow, w \in Flow, s \in Seq(Packet), n \in Nat :
        /\ b = buf[c] /\ w = wire[c] /\ s = sent[c] /\ n = taken[c]
        /\ n <= Len(s) /\ \A i \in 1..Len(s) : s[i] \in Packets[c]
  BY <1>1, SentPackets DEF ConnTypes
<1>3. b \o w = Stream(s, n + 1)
  BY <1>1, <1>2 DEF ConnSync
<1>4. /\ Len(b) >= HeadSize /\ Len(b) >= HeadSize + HeadAt(b).body_length
      /\ ~(HeadAt(b).body_length > kMaxBodyLength)
  BY <1>2 DEF Serve, HeadCheck, ShouldGet
<1>5. /\ n + 1 \in 1..Len(s) /\ HeadAt(b) = s[n + 1].head
  <2>1. n <= Len(s)
    BY <1>2
  <2> QED
    BY <1>3, <1>4, <2>1, FrontHead
<1>6. s[n + 1] \in Packets[c]
  BY <1>2, <1>5
<1>7. s[n + 1].head.body_length = Len(s[n + 1].body)
  BY <1>4, <1>5, <1>6, ClientsAssumption
<1>8. /\ PacketAt(b) = s[n + 1] /\ Rest(b) \in Flow
      /\ Rest(b) \o w = Stream(s, n + 2)
  <2>1. n <= Len(s)
    BY <1>2
  <2> QED
    BY <1>3, <1>4, <1>7, <2>1, FrontPacket
<1> QED
  BY <1>2, <1>5, <1>6, <1>7, <1>8

LEMMA StepServe ==
  ASSUME Inv, NEW c \in Conns, Serve(c)
  PROVE  Inv'
<1>1. AllShaped /\ ConnInv(c) /\ MapOK(mp)
  BY DEF Inv
<1>2. PICK result, p, res :
        /\ result = PacketAt(buf[c]) /\ p = BodyCheck(result)
        /\ res = Executed(p) /\ mp' = res.mp
        /\ echo' = [echo EXCEPT ![c] = ResponseTo(p, res)]
  BY DEF Serve
<1>3. /\ AllShaped' /\ OthersKept(c) /\ pc'[c] = "reply" /\ pc[c] = "in"
      /\ echo'[c] = ResponseTo(p, res) /\ buf'[c] = Rest(buf[c])
      /\ taken'[c] = taken[c] + 1
  BY <1>1, <1>2 DEF Serve, AllShaped, OthersKept, Shaped
<1>4. /\ checks' = checks /\ wire'[c] = wire[c] /\ out'[c] = out[c]
      /\ up'[c] = up[c] /\ gone'[c] = gone[c] /\ closed'[c] = closed[c]
      /\ sent'[c] = sent[c] /\ pieces'[c] = pieces[c]
  BY DEF Serve
<1>5. ConnTypes(c)
  BY <1>1 DEF ConnInv
<1>6. /\ taken[c] + 1 \in 1..Len(sent[c])
      /\ result \in Packets[c] /\ result \in Packet
      /\ Rest(buf[c]) \in Flow
      /\ Rest(buf[c]) \o wire[c] = Stream(sent[c], taken[c] + 2)
  BY <1>2, ServedPacket, ClientsAssumption
<1>7. /\ p \in Packet
      /\ p.head.status = kOk => IsKVRequest(p)
  BY <1>2, <1>6, BodyChecked
<1>8. MapOK(mp') /\ res.status \in Nat /\ IsValue(res.value)
  BY <1>1, <1>2, <1>7, ExecutedType
<1>9. /\ ResponseTo(p, res) \in Packet
      /\ ResponseTo(p, res).head.body_length = Len(ResponseTo(p, res).body)
  <2>1. /\ ResponseTo(p, res) \in Packet
        /\ ResponseTo(p, res) =
             EncodeKVResponseToPacket(res.status, res.value, p.head.opcode,
                                      p.head.request_id)
    BY <1>7, <1>8, ResponseType
  <2>2. PICK d : ResponseTo(p, res) =
                   MakePacket(kResponse, p.head.opcode, res.status,
                              p.head.request_id, d)
    BY <2>1 DEF EncodeKVResponseToPacket
  <2>3. /\ ResponseTo(p, res).head.body_length = Len(d)
        /\ ResponseTo(p, res).body = d
    BY <2>2 DEF MakePacket
  <2> QED
    BY <1>7, <2>1, <2>3
<1>10. ConnTypes(c)'
  <2>1. taken[c] + 1 \in Nat /\ taken[c] + 1 <= Len(sent[c])
    BY <1>5, <1>6 DEF ConnTypes
  <2> QED
    BY <1>3, <1>4, <1>5, <1>6, <1>9, <2>1, Zenon DEF ConnTypes
<1>11. ConnSync(c)'
  <2>1. taken[c] \in Nat
    BY <1>5 DEF ConnTypes
  <2>2. (taken[c] + 1) + 1 = taken[c] + 2
    BY <2>1
  <2> QED
    BY <1>3, <1>4, <1>6, <2>2, Zenon DEF ConnSync
<1>12. ConnFlags(c)'
  BY <1>1, <1>4, Zenon DEF ConnInv, ConnFlags
<1>13. ~closed[c]
  BY <1>1, <1>3 DEF ConnInv, ConnReply
<1>14. ConnReply(c)'
  BY <1>3, <1>4, <1>9, <1>13, Zenon DEF ConnReply
<1>15. ConnInv(c)'
  BY <1>10, <1>11, <1>12, <1>14 DEF ConnInv
<1> QED
  BY <1>3, <1>4, <1>8, <1>15, Frame, Zenon

LEMMA InvStep == Inv /\ [Next]_vars => Inv'
<1> SUFFICES ASSUME Inv, [Next]_vars PROVE Inv' OBVIOUS
<1>1. CASE UNCHANGED vars
  BY <1>1, Zenon
     DEF vars, Inv, AllShaped, Shaped, MapOK, ConnInv, ConnTypes, ConnFlags,
         ConnSync, ConnReply
<1>2. CASE Next
  BY <1>2, StepSend, StepPeerGone, StepDisconnect, StepRead, StepReturn,
     StepRefuse, StepServe, StepReply DEF Next, IoStep
<1> QED
  BY <1>1, <1>2

LEMMA Invariance == Spec => []Inv
<1> QED
  BY InvInit, InvStep, PTL DEF Spec

-----------------------------------------------------------------------------
(* The theorems.                                                            *)

(* Every variable keeps its type: whatever the clients send, the store      *)
(* holds only keys and values within the limits, every reply can be         *)
(* encoded, and no more requests are taken than were sent.                  *)
THEOREM TypeCorrect == Spec => []TypeOK
<1>1. ASSUME Inv PROVE TypeOK
  <2>1. \A c \in Conns : ConnTypes(c) /\ ConnFlags(c)
    BY <1>1 DEF Inv, ConnInv
  <2>2. /\ wire \in [Conns -> Seq(Unit)] /\ buf \in [Conns -> Seq(Unit)]
        /\ pc \in [Conns -> {"out", "in", "reply"}]
        /\ echo \in [Conns -> Packet] /\ out \in [Conns -> Seq(Seq(Unit))]
    BY <1>1, <2>1 DEF Inv, AllShaped, Shaped, ConnTypes, Flow
  <2>3. /\ up \in [Conns -> BOOLEAN] /\ gone \in [Conns -> BOOLEAN]
        /\ closed \in [Conns -> BOOLEAN]
    BY <1>1, <2>1 DEF Inv, AllShaped, Shaped, ConnFlags
  <2>4. \A c \in Conns : taken[c] \in 0..Len(sent[c])
    BY <2>1, SentPackets DEF ConnTypes
  <2> QED
    BY <1>1, <2>1, <2>2, <2>3, <2>4 DEF TypeOK, Inv, MapOK, ConnTypes
<1> QED
  BY <1>1, Invariance, PTL

(* The message loop never loses its place in the stream: however TCP cuts   *)
(* it, and whatever bodies the requests have, the read buffer begins with   *)
(* the header of the next request, and nothing behind it is missing.        *)
THEOREM FramingKept == Spec => []InSync
<1>1. Inv => InSync
  BY DEF Inv, ConnInv, ConnSync, InSync
<1> QED
  BY <1>1, Invariance, PTL

-----------------------------------------------------------------------------
(* The codec: a body and the key and value in it.                           *)

(* The n units of x from lo on are d.                                       *)
Holds(x, lo, n, d) == SubSeq(x, lo + 1, lo + n) = d

LEMMA Part ==
  ASSUME NEW x, NEW lo \in Nat, NEW n \in Nat, NEW d \in Flow, Len(d) = n,
         \A i \in 1..n : x[lo + i] = d[i]
  PROVE  Holds(x, lo, n, d)
<1>1. PICK m \in Int, k \in Int : m = lo + 1 /\ k = lo + n
  OBVIOUS
<1>2. \A i \in 1..n : d[i] \in Unit
  BY ElementOfSeq DEF Flow
<1>3. ASSUME NEW j \in m..k PROVE x[j] \in Unit
  <2>1. PICK i \in 1..n : j = lo + i
    <3>1. j - lo \in 1..n /\ j = lo + (j - lo)
      BY <1>1
    <3> QED
      BY <3>1
  <2> QED
    BY <1>2, <2>1
<1>4. PICK y : y = SubSeq(x, m, k)
  OBVIOUS
<1>5. /\ y \in Seq(Unit) /\ Len(y) = IF m <= k THEN k - m + 1 ELSE 0
      /\ \A i \in 1..(k - m + 1) : y[i] = x[m + i - 1]
  BY <1>3, <1>4, SubSeqProperties
<1>6. k - m + 1 = n /\ (m <= k <=> n # 0)
  BY <1>1
<1>7. Len(y) = n
  BY <1>5, <1>6
<1>8. ASSUME NEW i \in 1..n PROVE y[i] = d[i]
  <2>1. m + i - 1 = lo + i
    BY <1>1
  <2> QED
    BY <1>5, <1>6, <2>1
<1> QED
  BY <1>1, <1>4, <1>5, <1>7, <1>8, SeqEqual DEF Flow, Holds

(* Three parts of a flow, put together and taken apart.                     *)
Parts(x, a, b, d) ==
  /\ x \in Flow /\ Len(x) = Len(a) + Len(b) + Len(d)
  /\ \A i \in 1..Len(a) : x[i] = a[i]
  /\ SubSeq(x, Len(a) + 1, Len(a) + Len(b)) = b
  /\ SubSeq(x, Len(a) + Len(b) + 1, Len(x)) = d

LEMMA ThreeParts ==
  ASSUME NEW a \in Flow, NEW b \in Flow, NEW d \in Flow, NEW x,
         x = (a \o b) \o d
  PROVE  Parts(x, a, b, d)
<1>1. PICK la \in Nat, lb \in Nat, ld \in Nat :
        la = Len(a) /\ lb = Len(b) /\ ld = Len(d)
  BY Joined
<1>2. PICK e \in Flow : e = a \o b
  BY Joined
<1>3. /\ Len(e) = la + lb
      /\ \A i \in 1..(la + lb) : e[i] = IF i <= la THEN a[i] ELSE b[i - la]
  <2>1. /\ Len(a \o b) = Len(a) + Len(b)
        /\ \A i \in 1..(Len(a) + Len(b)) :
             (a \o b)[i] = IF i <= Len(a) THEN a[i] ELSE b[i - Len(a)]
    BY Joined
  <2> QED
    BY <1>1, <1>2, <2>1
<1>4. /\ x \in Flow /\ Len(x) = la + lb + ld
      /\ \A i \in 1..(la + lb + ld) :
           x[i] = IF i <= la + lb THEN e[i] ELSE d[i - (la + lb)]
  <2>1. /\ e \o d \in Flow /\ Len(e \o d) = Len(e) + Len(d)
        /\ \A i \in 1..(Len(e) + Len(d)) :
             (e \o d)[i] = IF i <= Len(e) THEN e[i] ELSE d[i - Len(e)]
    BY Joined
  <2>2. x = e \o d
    BY <1>2
  <2> QED
    BY <1>1, <1>3, <2>1, <2>2
<1>5. \A i \in 1..la : x[i] = a[i]
  BY <1>3, <1>4
<1>6. ASSUME NEW i \in 1..lb PROVE x[la + i] = b[i]
  <2>1. /\ la + i \in 1..(la + lb + ld) /\ la + i \in 1..(la + lb)
        /\ la + i <= la + lb /\ ~(la + i <= la) /\ (la + i) - la = i
    OBVIOUS
  <2>2. x[la + i] = e[la + i]
    BY <1>4, <2>1
  <2>3. e[la + i] = b[i]
    BY <1>3, <2>1
  <2> QED
    BY <2>2, <2>3
<1>7. Holds(x, la, lb, b)
  BY <1>1, <1>6, Part
<1>8. Holds(x, la + lb, ld, d)
  <2>1. PICK lo \in Nat : lo = la + lb
    OBVIOUS
  <2>2. ASSUME NEW i \in 1..ld PROVE x[lo + i] = d[i]
    <3>1. /\ lo + i \in 1..(la + lb + ld) /\ ~(lo + i <= la + lb)
          /\ (lo + i) - (la + lb) = i
      BY <2>1
    <3> QED
      BY <1>4, <3>1
  <2>3. Holds(x, lo, ld, d)
    BY <1>1, <2>2, Part
  <2> QED
    BY <2>1, <2>3
<1> QED
  BY <1>1, <1>4, <1>5, <1>7, <1>8 DEF Holds, Parts

LEMMA PutTogether ==
  ASSUME NEW x \in Flow, NEW m \in Nat, NEW n \in Nat, m + n <= Len(x)
  PROVE  x = (SubSeq(x, 1, m) \o SubSeq(x, m + 1, m + n))
               \o SubSeq(x, m + n + 1, Len(x))
<1>1. PICK l \in Nat : l = Len(x)
  BY Joined
<1>2. m + n \in 0..Len(x)
  BY <1>1
<1>3. PICK y \in Flow, z \in Flow :
        /\ y = SubSeq(x, 1, m + n) /\ z = SubSeq(x, m + n + 1, Len(x))
        /\ y \o z = x
  BY <1>2, Split
<1>4. SubSeq(x, 1, m) \o SubSeq(x, m + 1, m + n) = SubSeq(x, 1, m + n)
  <2>1. /\ x \in Seq(Unit) /\ 1 \in 1..(Len(x) + 1) /\ m \in (1 - 1)..Len(x)
        /\ m + n \in m..Len(x)
    BY <1>1 DEF Flow
  <2> QED
    BY <2>1, ConcatAdjacentSubSeq, Zenon
<1> QED
  BY <1>3, <1>4, Zenon

-----------------------------------------------------------------------------
(* What a packet means: the decoder inverts the encoder.                    *)

LEMMA StringIsFlow ==
  ASSUME NEW lo \in Nat, NEW hi \in Nat, NEW k \in Map!Strings(lo, hi)
  PROVE  k \in Flow
<1>1. PICK n \in lo..hi : k \in [1..n -> Bytes]
  BY DEF Map!Strings
<1>2. n \in Nat /\ k \in [1..n -> Unit]
  BY <1>1, BytesAssumption
<1> QED
  BY <1>2 DEF Flow

LEMMA FlowIsString ==
  ASSUME NEW lo \in Nat, NEW hi \in Nat, NEW k \in Flow, Len(k) \in lo..hi,
         \A i \in 1..Len(k) : k[i] \in Bytes
  PROVE  k \in Map!Strings(lo, hi)
<1>1. k \in [1..Len(k) -> Bytes]
  BY LenProperties DEF Flow
<1> QED
  BY <1>1 DEF Map!Strings

(* The requests of the abstract map are the ones within the limits.         *)
Encodable(op, key, value) ==
  \/ op = kPing /\ key = <<>> /\ value = <<>>
  \/ op = kPut /\ KeyFits(Len(key)) /\ Len(value) <= kMaxValueLength
  \/ op \in {kGet, kDel} /\ KeyFits(Len(key)) /\ value = <<>>

LEMMA RequestParts ==
  ASSUME NEW r \in Map!KVRequest
  PROVE  \E op \in Nat, key \in Flow, value \in Flow :
           /\ r = [opcode |-> op, key |-> key, value |-> value]
           /\ Encodable(op, key, value)
           /\ Map!EncodeKVRequestToPacket(r).body = RequestBody(r)
<1> USE DEF kPing, kPut, kGet, kDel, Map!kPing, Map!kPut, Map!kGet, Map!kDel
<1>1. PICK op, key, value :
        /\ r = [opcode |-> op, key |-> key, value |-> value]
        /\ \/ op = kPing /\ key = <<>> /\ value = <<>>
           \/ op = kPut /\ key \in Map!Key /\ value \in Map!Value
           \/ op \in {kGet, kDel} /\ key \in Map!Key /\ value = <<>>
  BY DEF Map!KVRequest
<1>2. key \in Flow /\ value \in Flow
  <2>1. key \in Map!Key => key \in Flow
    BY StringIsFlow, LimitsAssumption DEF Map!Key
  <2>2. value \in Map!Value => value \in Flow
    BY StringIsFlow, LimitsAssumption DEF Map!Value
  <2> QED
    BY <1>1, <2>1, <2>2, Empty
<1>3. Map!RequestFits(r)
  BY DEF Map!KVRequest
<1>4. r.opcode = op /\ r.key = key /\ r.value = value
  BY <1>1
<1>5. Encodable(op, key, value)
  BY <1>1, <1>3, <1>4 DEF Encodable, Map!RequestFits, Map!KeyFits, KeyFits
<1>6. Map!EncodeKVRequestToPacket(r).body = RequestBody(r)
  BY DEF Map!EncodeKVRequestToPacket, Map!MakePacket, Map!RequestBody,
         RequestBody
<1>7. op \in Nat
  BY <1>1
<1> QED
  BY <1>1, <1>2, <1>5, <1>6, <1>7

(* The test on a body that IsKVRequest makes.                               *)
BodyDecodes(p) ==
  \/ p.head.opcode = kPing /\ p.body = <<>>
  \/ p.head.opcode = kPut /\ PutBodyOK(p.body)
  \/ p.head.opcode \in {kGet, kDel} /\ KeyBodyOK(p.body)

LEMMA DecodesWhen ==
  ASSUME NEW p \in Packet, p.head.msg_type = kRequest,
         p.head.body_length = Len(p.body), p.head.body_length <= kMaxBodyLength
  PROVE  IsKVRequest(p) <=> BodyDecodes(p)
  BY DEF IsKVRequest, BodyDecodes, kPing, kPut, kGet, kDel

(* A packet that encodes a request decodes, and to that request.            *)
LEMMA MeaningDecodes ==
  ASSUME NEW p \in Packet, NEW r \in Map!Meanings(p)
  PROVE  BodyDecodes(p) /\ r = KVRequestOf(p)
<1> USE DEF kPing, kPut, kGet, kDel
<1>1. r \in Map!KVRequest /\ p.head.opcode = r.opcode
      /\ p.body = Map!EncodeKVRequestToPacket(r).body
  BY DEF Map!Meanings
<1>2. PICK op \in Nat, key \in Flow, value \in Flow :
        /\ r = [opcode |-> op, key |-> key, value |-> value]
        /\ Encodable(op, key, value)
        /\ Map!EncodeKVRequestToPacket(r).body = RequestBody(r)
  BY <1>1, RequestParts
<1>3. r.opcode = op /\ r.key = key /\ r.value = value
  BY <1>2
<1>4. PICK body : body = p.body /\ body = RequestBody(r)
  BY <1>1, <1>2
<1>5. p.head.opcode = op
  BY <1>1, <1>3
<1>6. PICK n \in Nat, m \in Nat : n = Len(key) /\ m = Len(value)
  BY Joined
<1>7. CASE op = kPing
  <2>1. body = <<>> /\ key = <<>> /\ value = <<>>
    BY <1>2, <1>3, <1>4, <1>7 DEF RequestBody, Encodable
  <2> QED
    BY <1>2, <1>4, <1>5, <1>7, <2>1 DEF BodyDecodes, KVRequestOf
<1>8. CASE op = kPut
  <2>1. body = (<<n, m>> \o key) \o value
    BY <1>3, <1>4, <1>6, <1>8 DEF RequestBody
  <2>2. <<n, m>> \in Flow /\ Len(<<n, m>>) = 2
    BY DEF Flow, Unit
  <2>3. PICK h \in Flow : h = <<n, m>> /\ Len(h) = 2 /\ h[1] = n /\ h[2] = m
    BY <2>2
  <2>4. body = (h \o key) \o value
    BY <2>1, <2>3
  <2>5. /\ body \in Flow /\ Len(body) = Len(h) + Len(key) + Len(value)
        /\ \A i \in 1..Len(h) : body[i] = h[i]
        /\ SubSeq(body, Len(h) + 1, Len(h) + Len(key)) = key
        /\ SubSeq(body, Len(h) + Len(key) + 1, Len(body)) = value
    <3>1. Parts(body, h, key, value)
      BY <2>4, ThreeParts
    <3> QED
      BY <3>1 DEF Parts
  <2>6. /\ Len(body) = 2 + n + m /\ body[1] = n /\ body[2] = m
        /\ SubSeq(body, 2 + 1, 2 + n) = key
        /\ SubSeq(body, 2 + n + 1, Len(body)) = value
    <3>1. 1 \in 1..Len(h) /\ 2 \in 1..Len(h)
      BY <2>3
    <3>2. body[1] = n /\ body[2] = m
      BY <2>3, <2>5, <3>1
    <3>3. /\ Len(body) = 2 + n + m
          /\ SubSeq(body, 2 + 1, 2 + n) = key
          /\ SubSeq(body, 2 + n + 1, Len(body)) = value
      BY <1>6, <2>3, <2>5, Zenon
    <3> QED
      BY <3>2, <3>3
  <2>7. KeyFits(n) /\ m <= kMaxValueLength
    BY <1>2, <1>6, <1>8 DEF Encodable
  <2>8. BodyDecodes(p)
    BY <1>4, <1>5, <1>8, <2>6, <2>7 DEF BodyDecodes, PutBodyOK
  <2>9. KVRequestOf(p) =
          [opcode |-> p.head.opcode,
           key    |-> SubSeq(p.body, 2 + 1, 2 + p.body[1]),
           value  |-> SubSeq(p.body, 2 + p.body[1] + 1, Len(p.body))]
    BY <1>5, <1>8 DEF KVRequestOf
  <2>10. KVRequestOf(p) = [opcode |-> op, key |-> key, value |-> value]
    BY <1>4, <1>5, <2>6, <2>9, Zenon
  <2> QED
    BY <1>2, <2>8, <2>10
<1>9. CASE op \in {kGet, kDel}
  <2>1. body = <<n>> \o key /\ value = <<>>
    BY <1>2, <1>3, <1>4, <1>6, <1>9 DEF RequestBody, Encodable
  <2>2. <<n>> \in Flow /\ Len(<<n>>) = 1
    BY DEF Flow, Unit
  <2>3. PICK h \in Flow : h = <<n>> /\ Len(h) = 1 /\ h[1] = n
    BY <2>2
  <2>4. body = (h \o key) \o value
    <3>1. h \o key \in Flow
      BY Joined
    <3> QED
      BY <2>1, <2>3, <3>1, Empty
  <2>5. /\ body \in Flow /\ Len(body) = Len(h) + Len(key) + Len(value)
        /\ \A i \in 1..Len(h) : body[i] = h[i]
        /\ SubSeq(body, Len(h) + 1, Len(h) + Len(key)) = key
        /\ SubSeq(body, Len(h) + Len(key) + 1, Len(body)) = value
    <3>1. Parts(body, h, key, value)
      BY <2>4, ThreeParts
    <3> QED
      BY <3>1 DEF Parts
  <2>6. /\ Len(body) = 1 + n /\ body[1] = n
        /\ SubSeq(body, 1 + 1, 1 + n) = key
        /\ SubSeq(body, 1 + n + 1, Len(body)) = value
    BY <1>6, <2>1, <2>3, <2>5, Empty
  <2>7. KeyFits(n)
    BY <1>2, <1>6, <1>9 DEF Encodable
  <2>8. BodyDecodes(p)
    BY <1>4, <1>5, <1>9, <2>6, <2>7 DEF BodyDecodes, KeyBodyOK
  <2>9. KVRequestOf(p) =
          [opcode |-> p.head.opcode,
           key    |-> SubSeq(p.body, 1 + 1, 1 + p.body[1]),
           value  |-> SubSeq(p.body, 1 + p.body[1] + 1, Len(p.body))]
    <3>1. p.head.opcode # kPing /\ p.head.opcode # kPut
      BY <1>5, <1>9
    <3> QED
      BY <3>1 DEF KVRequestOf
  <2>10. KVRequestOf(p) = [opcode |-> op, key |-> key, value |-> value]
    BY <1>4, <1>5, <2>6, <2>9, Zenon
  <2> QED
    BY <1>2, <2>8, <2>10
<1> QED
  BY <1>2, <1>7, <1>8, <1>9 DEF Encodable

IsPiece(x, lo, n, y) ==
  /\ y \in Flow /\ Holds(x, lo, n, y) /\ Len(y) = n
  /\ \A i \in 1..n : y[i] = x[lo + i]

LEMMA Piece ==
  ASSUME NEW x \in Flow, NEW lo \in Nat, NEW n \in Nat, lo + n <= Len(x)
  PROVE  \E y : IsPiece(x, lo, n, y)
<1>1. PICK l \in Nat : l = Len(x)
  BY Joined
<1>2. \A i \in 1..l : x[i] \in Unit
  BY <1>1, ElementOfSeq DEF Flow
<1>3. PICK m \in Int, k \in Int : m = lo + 1 /\ k = lo + n
  OBVIOUS
<1>4. \A i \in m..k : x[i] \in Unit
  BY <1>1, <1>2, <1>3
<1>5. PICK y : y = SubSeq(x, m, k)
  OBVIOUS
<1>6. /\ y \in Seq(Unit) /\ Len(y) = IF m <= k THEN k - m + 1 ELSE 0
      /\ \A i \in 1..(k - m + 1) : y[i] = x[m + i - 1]
  BY <1>4, <1>5, SubSeqProperties
<1>7. k - m + 1 = n /\ (m <= k <=> n # 0)
  BY <1>3
<1>8. y \in Flow /\ Len(y) = n
  BY <1>6, <1>7 DEF Flow
<1>9. ASSUME NEW i \in 1..n PROVE y[i] = x[lo + i]
  <2>1. m + i - 1 = lo + i
    BY <1>3
  <2> QED
    BY <1>6, <1>7, <2>1
<1>10. Holds(x, lo, n, y)
  BY <1>3, <1>5 DEF Holds
<1> QED
  BY <1>8, <1>9, <1>10 DEF IsPiece

(* A request that decodes is the encoding of what it decodes to.            *)
LEMMA DecodedIsMeaning ==
  ASSUME NEW c \in Conns, NEW p \in Packets[c], BodyDecodes(p)
  PROVE  KVRequestOf(p) \in Map!Meanings(p)
<1> USE DEF kPing, kPut, kGet, kDel, Map!kPing, Map!kPut, Map!kGet, Map!kDel
<1>1. PICK body \in Flow : body = p.body
  BY ClientsAssumption DEF Packet, Flow
<1>2. PICK l \in Nat : l = Len(body)
  BY Joined
<1>3. \A i \in 1..l : body[i] \in Nat
  BY <1>2, ElementOfSeq DEF Flow, Unit
<1>4. PICK r : r = KVRequestOf(p)
  OBVIOUS
<1>5. SUFFICES /\ r \in [opcode : {kPing}, key : {<<>>}, value : {<<>>}]
                         \cup [opcode : {kPut}, key : Map!Key, value : Map!Value]
                         \cup [opcode : {kGet, kDel}, key : Map!Key,
                               value : {<<>>}]
               /\ Map!RequestFits(r)
               /\ p.head.opcode = r.opcode
               /\ body = Map!EncodeKVRequestToPacket(r).body
  BY <1>1, <1>4 DEF Map!Meanings, Map!KVRequest
<1>6. Map!EncodeKVRequestToPacket(r).body = RequestBody(r)
  BY DEF Map!EncodeKVRequestToPacket, Map!MakePacket, Map!RequestBody,
         RequestBody
<1>7. CASE p.head.opcode = kPing
  <2>1. r = [opcode |-> kPing, key |-> <<>>, value |-> <<>>] /\ body = <<>>
    BY <1>1, <1>4, <1>7 DEF KVRequestOf, BodyDecodes
  <2>2. RequestBody(r) = <<>>
    BY <2>1 DEF RequestBody
  <2> QED
    BY <1>6, <1>7, <2>1, <2>2 DEF Map!RequestFits
<1>8. CASE p.head.opcode = kPut
  <2>1. PutBodyOK(body)
    BY <1>1, <1>8 DEF BodyDecodes
  <2>2. PICK n \in Nat, m \in Nat : n = body[1] /\ m = body[2]
    BY <1>2, <1>3, <2>1 DEF PutBodyOK
  <2>3. /\ (2 + n) + m = l /\ n # 0 /\ n <= kMaxKeyLength /\ m <= kMaxValueLength
        /\ 2 + n <= l /\ 2 + n \in Nat
    BY <1>2, <2>1, <2>2 DEF PutBodyOK, KeyFits
  <2>4. PICK key \in Flow : /\ Holds(body, 2, n, key) /\ Len(key) = n
                            /\ \A i \in 1..n : key[i] = body[2 + i]
    <3>1. 2 + n <= Len(body)
      BY <1>2, <2>3
    <3>2. \E y : IsPiece(body, 2, n, y)
      BY <3>1, Piece
    <3> QED
      BY <3>2, Zenon DEF IsPiece
  <2>5. PICK value \in Flow :
          /\ Holds(body, 2 + n, m, value) /\ Len(value) = m
          /\ \A i \in 1..m : value[i] = body[(2 + n) + i]
    <3>1. (2 + n) + m <= Len(body)
      BY <1>2, <2>3
    <3>2. \E y : IsPiece(body, 2 + n, m, y)
      BY <2>3, <3>1, Piece
    <3> QED
      BY <3>2, Zenon DEF IsPiece
  <2>6. r = [opcode |-> kPut, key |-> key, value |-> value]
    <3>1. r = [opcode |-> p.head.opcode,
               key    |-> SubSeq(p.body, 2 + 1, 2 + p.body[1]),
               value  |-> SubSeq(p.body, 2 + p.body[1] + 1, Len(p.body))]
      BY <1>4, <1>8 DEF KVRequestOf
    <3>2. /\ SubSeq(body, 2 + 1, 2 + n) = key
          /\ SubSeq(body, 2 + n + 1, l) = value
      BY <2>3, <2>4, <2>5 DEF Holds
    <3> QED
      BY <1>1, <1>2, <1>8, <2>2, <3>1, <3>2, Zenon
  <2>7. \A i \in 3..l : body[i] \in Bytes
    BY <1>1, <1>2, <1>8, BytesAssumption
  <2>8. key \in Map!Key
    <3>1. ASSUME NEW i \in 1..n PROVE key[i] \in Bytes
      <4>1. 2 + i \in 3..l
        BY <2>3
      <4> QED
        BY <2>4, <2>7, <4>1
    <3> QED
      BY <2>3, <2>4, <3>1, FlowIsString, LimitsAssumption DEF Map!Key
  <2>9. value \in Map!Value
    <3>1. ASSUME NEW i \in 1..m PROVE value[i] \in Bytes
      <4>1. (2 + n) + i \in 3..l
        BY <2>3
      <4> QED
        BY <2>5, <2>7, <4>1
    <3> QED
      BY <2>3, <2>5, <3>1, FlowIsString, LimitsAssumption DEF Map!Value
  <2>10. RequestBody(r) = body
    <3>1. PICK h \in Flow : /\ Holds(body, 0, 2, h) /\ Len(h) = 2
                            /\ \A i \in 1..2 : h[i] = body[0 + i]
      <4>1. 0 + 2 <= Len(body)
        BY <1>2, <2>3
      <4>2. \E y : IsPiece(body, 0, 2, y)
        BY <4>1, Piece
      <4> QED
        BY <4>2, Zenon DEF IsPiece
    <3>2. h = <<n, m>>
      <4>1. h[1] = n /\ h[2] = m
        BY <2>2, <3>1
      <4>2. <<n, m>> \in Seq(Unit) /\ Len(<<n, m>>) = 2
        BY DEF Unit
      <4> QED
        BY <3>1, <4>1, <4>2, SeqEqual DEF Flow
    <3>3. body = (SubSeq(body, 1, 2) \o SubSeq(body, 2 + 1, 2 + n))
                   \o SubSeq(body, 2 + n + 1, Len(body))
      BY <1>2, <2>3, PutTogether
    <3>4. /\ SubSeq(body, 1, 2) = h /\ SubSeq(body, 2 + 1, 2 + n) = key
          /\ SubSeq(body, 2 + n + 1, Len(body)) = value
      <4>1. 0 + 1 = 1 /\ 0 + 2 = 2 /\ (2 + n) + m = Len(body)
        BY <1>2, <2>3
      <4> QED
        BY <2>4, <2>5, <3>1, <4>1, Zenon DEF Holds
    <3>5. body = (<<n, m>> \o key) \o value
      BY <3>2, <3>3, <3>4, Zenon
    <3>6. RequestBody(r) = (<<Len(key), Len(value)>> \o key) \o value
      BY <2>6 DEF RequestBody
    <3> QED
      BY <2>4, <2>5, <3>5, <3>6, Zenon
  <2>11. Map!RequestFits(r)
    BY <2>3, <2>4, <2>5, <2>6 DEF Map!RequestFits, Map!KeyFits
  <2> QED
    BY <1>6, <1>8, <2>6, <2>8, <2>9, <2>10, <2>11
<1>9. CASE p.head.opcode \in {kGet, kDel}
  <2>1. KeyBodyOK(body)
    BY <1>1, <1>9 DEF BodyDecodes
  <2>2. PICK n \in Nat : n = body[1]
    BY <1>2, <1>3, <2>1 DEF KeyBodyOK
  <2>3. 1 + n = l /\ n # 0 /\ n <= kMaxKeyLength
    BY <1>2, <2>1, <2>2 DEF KeyBodyOK, KeyFits
  <2>4. PICK key \in Flow : /\ Holds(body, 1, n, key) /\ Len(key) = n
                            /\ \A i \in 1..n : key[i] = body[1 + i]
    <3>1. 1 + n <= Len(body)
      BY <1>2, <2>3
    <3>2. \E y : IsPiece(body, 1, n, y)
      BY <3>1, Piece
    <3> QED
      BY <3>2, Zenon DEF IsPiece
  <2>5. SubSeq(body, 1 + n + 1, l) = <<>>
    BY <2>3, SubSeqEmpty
  <2>6. r = [opcode |-> p.head.opcode, key |-> key, value |-> <<>>]
    <3>1. p.head.opcode # kPing /\ p.head.opcode # kPut
      BY <1>9
    <3>2. r = [opcode |-> p.head.opcode,
               key    |-> SubSeq(p.body, 1 + 1, 1 + p.body[1]),
               value  |-> SubSeq(p.body, 1 + p.body[1] + 1, Len(p.body))]
      BY <1>4, <3>1 DEF KVRequestOf
    <3>3. SubSeq(body, 1 + 1, 1 + n) = key
      BY <2>4 DEF Holds
    <3> QED
      BY <1>1, <1>2, <2>2, <2>5, <3>2, <3>3, Zenon
  <2>7. \A i \in 2..l : body[i] \in Bytes
    BY <1>1, <1>2, <1>9, BytesAssumption
  <2>8. key \in Map!Key
    <3>1. ASSUME NEW i \in 1..n PROVE key[i] \in Bytes
      <4>1. 1 + i \in 2..l
        BY <2>3
      <4> QED
        BY <2>4, <2>7, <4>1
    <3> QED
      BY <2>3, <2>4, <3>1, FlowIsString, LimitsAssumption DEF Map!Key
  <2>9. RequestBody(r) = body
    <3>1. PICK h \in Flow : /\ Holds(body, 0, 1, h) /\ Len(h) = 1
                            /\ \A i \in 1..1 : h[i] = body[0 + i]
      <4>1. 0 + 1 <= Len(body)
        BY <1>2, <2>3
      <4>2. \E y : IsPiece(body, 0, 1, y)
        BY <4>1, Piece
      <4> QED
        BY <4>2, Zenon DEF IsPiece
    <3>2. h = <<n>>
      <4>1. h[1] = n
        BY <2>2, <3>1
      <4>2. <<n>> \in Seq(Unit) /\ Len(<<n>>) = 1
        BY DEF Unit
      <4> QED
        BY <3>1, <4>1, <4>2, SeqEqual DEF Flow
    <3>3. body = (SubSeq(body, 1, 1) \o SubSeq(body, 1 + 1, 1 + n))
                   \o SubSeq(body, 1 + n + 1, Len(body))
      <4>1. 1 \in Nat /\ 1 + n <= Len(body)
        BY <1>2, <2>3
      <4> QED
        BY <4>1, PutTogether, Zenon
    <3>4. /\ SubSeq(body, 1, 1) = h /\ SubSeq(body, 1 + 1, 1 + n) = key
          /\ SubSeq(body, 1 + n + 1, Len(body)) = <<>>
      BY <1>2, <2>4, <2>5, <3>1 DEF Holds
    <3>5. h \o key \in Flow
      BY Joined
    <3>6. body = h \o key
      BY <3>3, <3>4, <3>5, Empty, Zenon
    <3>7. RequestBody(r) = <<Len(key)>> \o key
      BY <1>9, <2>6 DEF RequestBody
    <3> QED
      BY <2>4, <3>2, <3>6, <3>7, Zenon
  <2>10. Map!RequestFits(r)
    BY <1>9, <2>3, <2>4, <2>6 DEF Map!RequestFits, Map!KeyFits
  <2> QED
    BY <1>6, <1>9, <2>6, <2>8, <2>9, <2>10
<1> QED
  BY <1>7, <1>8, <1>9 DEF BodyDecodes

LEMMA OneMeaning ==
  ASSUME NEW c \in Conns, NEW p \in Packets[c], BodyDecodes(p)
  PROVE  Map!Meanings(p) = {KVRequestOf(p)}
<1>1. p \in Packet
  BY ClientsAssumption
<1>2. KVRequestOf(p) \in Map!Meanings(p)
  BY DecodedIsMeaning
<1>3. \A r \in Map!Meanings(p) : r = KVRequestOf(p)
  BY <1>1, MeaningDecodes
<1> QED
  BY <1>2, <1>3

LEMMA NoMeaning ==
  ASSUME NEW p \in Packet, ~BodyDecodes(p)
  PROVE  Map!Meanings(p) = {}
  BY MeaningDecodes

-----------------------------------------------------------------------------
(* The server implements the map.                                           *)

(* A client reads from a reply what the service put into it.                *)
LEMMA AnswerRead ==
  ASSUME NEW status, NEW value, IsValue(value), NEW opcode, NEW id,
         (opcode = kGet /\ status = kOk) \/ value = <<>>
  PROVE  AnswerIn(EncodeKVResponseToPacket(status, value, opcode, id)) =
           [id |-> id, status |-> status, value |-> value]
<1>1. PICK v \in Flow : v = value
  BY DEF IsValue, Flow
<1>2. CASE opcode = kGet /\ status = kOk
  <2>1. PICK n \in Nat : n = Len(v) /\ n <= kMaxValueLength
    BY <1>1, Joined DEF IsValue
  <2>2. <<n>> \in Flow /\ Len(<<n>>) = 1
    BY DEF Flow, Unit
  <2>3. PICK h \in Flow : h = <<n>> /\ Len(h) = 1 /\ h[1] = n
    BY <2>2
  <2>4. PICK body \in Flow : body = h \o v
    BY Joined
  <2>5. PICK p : p = EncodeKVResponseToPacket(status, value, opcode, id)
    OBVIOUS
  <2>6. /\ p.body = body /\ p.head.opcode = kGet /\ p.head.status = kOk
        /\ p.head.request_id = id
    BY <1>1, <1>2, <2>1, <2>3, <2>4, <2>5
       DEF EncodeKVResponseToPacket, MakePacket
  <2>7. Parts(body, h, v, <<>>)
    <3>1. body = (h \o v) \o <<>> /\ <<>> \in Flow
      BY <2>4, Empty
    <3> QED
      BY <3>1, ThreeParts
  <2>8. /\ Len(body) = 1 + n /\ body[1] = n /\ SubSeq(body, 2, Len(body)) = v
    <3>1. /\ Len(body) = Len(h) + Len(v) + 0
          /\ \A i \in 1..Len(h) : body[i] = h[i]
          /\ SubSeq(body, Len(h) + 1, Len(h) + Len(v)) = v
      BY <2>7, Empty DEF Parts
    <3>2. Len(body) = 1 + n /\ body[1] = n
      BY <2>1, <2>3, <3>1
    <3>3. Len(h) + 1 = 2 /\ Len(h) + Len(v) = Len(body)
      BY <2>1, <2>3, <3>2
    <3> QED
      BY <3>1, <3>2, <3>3, Zenon
  <2>9. Tail(body) = v
    <3>1. body # <<>>
      BY <2>1, <2>8, Empty
    <3>2. Tail(body) = SubSeq(body, 2, Len(body))
      BY <3>1, TailIsSubSeq DEF Flow
    <3> QED
      BY <2>8, <3>2
  <2>10. HasValue(p) /\ IsKVResponse(p)
    BY <2>1, <2>6, <2>8 DEF HasValue, IsKVResponse
  <2>11. KVResponseValue(p) = v
    BY <2>6, <2>9, <2>10 DEF KVResponseValue
  <2> QED
    BY <1>1, <1>2, <2>5, <2>6, <2>10, <2>11 DEF AnswerIn
<1>3. CASE ~(opcode = kGet /\ status = kOk)
  <2>1. PICK p : p = EncodeKVResponseToPacket(status, value, opcode, id)
    OBVIOUS
  <2>2. /\ p.body = <<>> /\ p.head.opcode = opcode /\ p.head.status = status
        /\ p.head.request_id = id
    BY <1>3, <2>1 DEF EncodeKVResponseToPacket, MakePacket
  <2>3. ~HasValue(p)
    BY <1>3, <2>2 DEF HasValue
  <2>4. IsKVResponse(p) /\ KVResponseValue(p) = <<>>
    BY <2>2, <2>3 DEF IsKVResponse, KVResponseValue
  <2> QED
    BY <1>3, <2>1, <2>2, <2>4 DEF AnswerIn
<1> QED
  BY <1>2, <1>3

(* The reply is on the wire what it was in the packet.                      *)
LEMMA RoundTrip ==
  ASSUME NEW p \in Packet, p.head.body_length = Len(p.body)
  PROVE  PacketAt(EncodePacketToFlow(p)) = p
<1>1. PICK s \in Seq(Packet) : Len(s) = 1 /\ s[1] = p
  <2>1. <<p>> \in Seq(Packet) /\ Len(<<p>>) = 1 /\ <<p>>[1] = p
    OBVIOUS
  <2> QED
    BY <2>1
<1>2. PICK b \in Flow : b = EncodePacketToFlow(p)
  BY EncodedPacket
<1>3. PICK n \in Nat : n = Len(p.body) /\ Len(b) = HeadSize + n
  BY <1>2, EncodedPacket
<1>4. b \o <<>> = Stream(s, 0 + 1)
  <2>1. Stream(s, 1) = EncodePacketToFlow(s[1]) \o Stream(s, 1 + 1)
    <3>1. 1 \in 1..Len(s)
      BY <1>1
    <3> QED
      BY <3>1, StreamDrop, Zenon
  <2>2. Stream(s, 1 + 1) = <<>>
    BY <1>1, StreamEnd
  <2>3. 0 + 1 = 1
    OBVIOUS
  <2> QED
    BY <1>1, <1>2, <2>1, <2>2, <2>3, Zenon
<1>5. HeadAt(b) = p.head
  <2>1. Len(b) >= HeadSize /\ 0 <= Len(s) /\ <<>> \in Flow
    BY <1>1, <1>3, Empty DEF HeadSize
  <2>2. HeadAt(b) = s[0 + 1].head
    BY <1>4, <2>1, FrontHead
  <2> QED
    BY <1>1, <2>2
<1>6. /\ Len(b) >= HeadSize /\ 0 <= Len(s) /\ <<>> \in Flow
      /\ Len(b) >= HeadSize + HeadAt(b).body_length
      /\ s[0 + 1].head.body_length = Len(s[0 + 1].body)
  BY <1>1, <1>3, <1>5, Empty DEF HeadSize
<1>7. PacketAt(b) = s[0 + 1]
  BY <1>4, <1>6, FrontPacket
<1> QED
  BY <1>1, <1>2, <1>7

(* BodyCheck and ShouldEcho do to the store, and say to the client, what    *)
(* the abstract map does and says.                                          *)
Agrees(p, m, res) ==
  /\ res.mp = Map!Effect(p, m)
  /\ [id |-> p.head.request_id, status |-> res.status, value |-> res.value]
       \in Map!Answers(p, m)
  /\ (p.head.opcode = kGet /\ res.status = kOk) \/ res.value = <<>>

(* An illegal request is left alone and answered with an error.             *)
LEMMA IllegalAgrees ==
  ASSUME NEW p, NEW m, NEW s, ~Map!Legal(p), s \in Map!Verdicts(p)
  PROVE  Agrees(p, m, [mp |-> m, status |-> s, value |-> <<>>])
<1>1. Map!Effect(p, m) = m
  BY DEF Map!Effect
<1>2. [id |-> p.head.request_id, status |-> s, value |-> <<>>]
        \in Map!Answers(p, m)
  BY DEF Map!Answers
<1>3. PICK res : res = [mp |-> m, status |-> s, value |-> <<>>]
  OBVIOUS
<1>4. res.mp = m /\ res.status = s /\ res.value = <<>>
  BY <1>3
<1>5. Agrees(p, m, res)
  BY <1>1, <1>2, <1>4 DEF Agrees
<1> QED
  BY <1>3, <1>5

LEMMA ServiceIsMap ==
  ASSUME NEW c \in Conns, NEW p \in Packets[c], p.head.msg_type = kRequest,
         p.head.body_length = Len(p.body), p.head.body_length <= kMaxBodyLength
  PROVE  Agrees(p, mp, Executed(BodyCheck(p)))
<1> USE DEF kPing, kPut, kGet, kDel, Map!kPing, Map!kPut, Map!kGet, Map!kDel,
            kOk, kNotFound, kBadRequest, kUnsupportedOpcode, Map!kOk,
            Map!kNotFound, Map!kBadRequest, Map!kUnsupportedOpcode, Map!Opcodes
<1>1. p \in Packet
  BY ClientsAssumption
<1>2. IsKVRequest(p) <=> BodyDecodes(p)
  BY <1>1, DecodesWhen
<1>3. CASE ~IsSupportedOpcode(p.head.opcode)
  <2>1. BodyCheck(p) = [p EXCEPT !.head.status = kUnsupportedOpcode]
    BY <1>3 DEF BodyCheck
  <2>2. BodyCheck(p).head.status = 4
    BY <1>1, <2>1 DEF Packet, PacketHead
  <2>3. Executed(BodyCheck(p)) = [mp |-> mp, status |-> 4, value |-> <<>>]
    BY <2>2 DEF Executed
  <2>4. p.head.opcode \notin {1, 2, 3, 4}
    BY <1>3 DEF IsSupportedOpcode
  <2>5. Map!Meanings(p) = {}
    BY <1>1, <2>4, NoMeaning DEF BodyDecodes
  <2>6. ~Map!Legal(p)
    BY <2>5 DEF Map!Legal
  <2>7. 4 \in Map!Verdicts(p)
    BY <2>4 DEF Map!Verdicts
  <2> QED
    BY <2>3, <2>6, <2>7, IllegalAgrees
<1>4. CASE IsSupportedOpcode(p.head.opcode) /\ ~IsKVRequest(p)
  <2>1. BodyCheck(p) = [p EXCEPT !.head.status = kBadRequest]
    BY <1>4 DEF BodyCheck
  <2>2. BodyCheck(p).head.status = 2
    BY <1>1, <2>1 DEF Packet, PacketHead
  <2>3. Executed(BodyCheck(p)) = [mp |-> mp, status |-> 2, value |-> <<>>]
    BY <2>2 DEF Executed
  <2>4. p.head.opcode \in {1, 2, 3, 4}
    BY <1>4 DEF IsSupportedOpcode
  <2>5. Map!Meanings(p) = {}
    BY <1>1, <1>2, <1>4, NoMeaning
  <2>6. ~Map!Legal(p)
    BY <2>5 DEF Map!Legal
  <2>7. 2 \in Map!Verdicts(p)
    BY <2>4, <2>5 DEF Map!Verdicts
  <2> QED
    BY <2>3, <2>6, <2>7, IllegalAgrees
<1>5. CASE IsSupportedOpcode(p.head.opcode) /\ IsKVRequest(p)
  <2>1. BodyCheck(p) = p
    BY <1>5 DEF BodyCheck
  <2>2. PICK r : r = KVRequestOf(p)
    OBVIOUS
  <2>3. Map!Meanings(p) = {r}
    BY <1>2, <1>5, <2>2, OneMeaning
  <2>4. Map!Meaning(p) = r /\ Map!Meanings(p) # {}
    BY <2>3 DEF Map!Meaning
  <2>5. r.opcode = p.head.opcode /\ p.head.opcode \in {1, 2, 3, 4}
    BY <1>1, <1>5, <2>2, RequestWithinLimits
  <2>6. CASE p.head.status # 0
    <3>1. Executed(p) = [mp |-> mp, status |-> p.head.status, value |-> <<>>]
      BY <2>6 DEF Executed
    <3>2. ~Map!Legal(p)
      BY <2>6 DEF Map!Legal
    <3>3. p.head.status \in Map!Verdicts(p)
      <4>1. p.head.status \in Nat
        BY <1>1 DEF Packet, PacketHead
      <4>2. Map!Verdicts(p) = Nat \ {0}
        BY <2>4, <2>5 DEF Map!Verdicts
      <4> QED
        BY <2>6, <4>1, <4>2
    <3> QED
      BY <2>1, <3>1, <3>2, <3>3, IllegalAgrees
  <2>7. CASE p.head.status = 0
    <3>1. Executed(p) =
            CASE r.opcode = 1 -> [mp |-> mp, status |-> 0, value |-> <<>>]
              [] r.opcode = 2 -> Put(mp, r)
              [] r.opcode = 3 -> Get(mp, r)
              [] r.opcode = 4 -> Del(mp, r)
      BY <2>2, <2>7 DEF Executed
    <3>2. Map!Effect(p, mp) =
            CASE r.opcode = 2 -> [k \in DOMAIN mp \cup {r.key} |->
                                    IF k = r.key THEN r.value ELSE mp[k]]
              [] r.opcode = 4 -> [k \in DOMAIN mp \ {r.key} |-> mp[k]]
              [] OTHER -> mp
      BY <2>4, <2>7 DEF Map!Effect, Map!Legal
    <3>3. ASSUME NEW res, NEW s, NEW v, res.mp = Map!Effect(p, mp),
                 res.status = s, res.value = v,
                 s = IF r.opcode \in {3, 4} => r.key \in DOMAIN mp
                     THEN 0 ELSE 1,
                 v = IF r.opcode = 3 /\ r.key \in DOMAIN mp
                     THEN mp[r.key] ELSE <<>>
          PROVE  Agrees(p, mp, res)
      <4>1. Map!Result(p, mp) =
              [id |-> p.head.request_id, status |-> s, value |-> v]
        BY <2>4, <3>3 DEF Map!Result
      <4>2. Map!Answers(p, mp) = {Map!Result(p, mp)}
        BY <2>4, <2>7 DEF Map!Answers, Map!Legal
      <4>3. (p.head.opcode = 3 /\ s = 0) \/ v = <<>>
        BY <2>5, <3>3
      <4> QED
        BY <3>3, <4>1, <4>2, <4>3 DEF Agrees
    <3>4. CASE r.opcode = 1
      <4>1. Executed(p) = [mp |-> mp, status |-> 0, value |-> <<>>]
        BY <3>1, <3>4
      <4>2. Map!Effect(p, mp) = mp
        BY <3>2, <3>4
      <4> QED
        BY <2>1, <3>3, <3>4, <4>1, <4>2
    <3>5. CASE r.opcode = 2
      <4>1. Executed(p) = Put(mp, r)
        BY <3>1, <3>5
      <4>2. Map!Effect(p, mp) = Put(mp, r).mp
        BY <3>2, <3>5 DEF Put
      <4>3. Put(mp, r).status = 0 /\ Put(mp, r).value = <<>>
        BY DEF Put
      <4> QED
        BY <2>1, <3>3, <3>5, <4>1, <4>2, <4>3
    <3>6. CASE r.opcode = 3
      <4>1. Executed(p) = Get(mp, r)
        BY <3>1, <3>6
      <4>2. Map!Effect(p, mp) = mp
        BY <3>2, <3>6
      <4>3. CASE r.key \in DOMAIN mp
        <5>1. Get(mp, r) = [mp |-> mp, status |-> 0, value |-> mp[r.key]]
          BY <4>3 DEF Get
        <5> QED
          BY <2>1, <3>3, <3>6, <4>1, <4>2, <4>3, <5>1
      <4>4. CASE r.key \notin DOMAIN mp
        <5>1. Get(mp, r) = [mp |-> mp, status |-> 1, value |-> <<>>]
          BY <4>4 DEF Get
        <5> QED
          BY <2>1, <3>3, <3>6, <4>1, <4>2, <4>4, <5>1
      <4> QED
        BY <4>3, <4>4
    <3>7. CASE r.opcode = 4
      <4>1. Executed(p) = Del(mp, r)
        BY <3>1, <3>7
      <4>2. Map!Effect(p, mp) = Del(mp, r).mp
        BY <3>2, <3>7 DEF Del
      <4>3. /\ Del(mp, r).status = IF r.key \in DOMAIN mp THEN 0 ELSE 1
            /\ Del(mp, r).value = <<>>
        BY DEF Del
      <4> QED
        BY <2>1, <3>3, <3>7, <4>1, <4>2, <4>3
    <3> QED
      BY <2>5, <3>4, <3>5, <3>6, <3>7
  <2> QED
    BY <1>1, <2>6, <2>7
<1> QED
  BY <1>3, <1>4, <1>5

(* The state of the map, as the server's state shows it.                    *)
PendingOf == [c \in Conns |-> SubSeq(sent[c], taken[c] + 1, Len(sent[c]))]
AnswerOf ==
  [c \in Conns |-> IF pc[c] = "reply" THEN {AnswerIn(echo[c])} ELSE {}]
AnsweredOf ==
  [c \in Conns |-> [i \in 1..Len(out[c]) |-> AnswerIn(PacketAt(out[c][i]))]]

LEMMA PendingAppend ==
  ASSUME NEW S, NEW s \in Seq(S), NEW p \in S, NEW t \in 0..Len(s)
  PROVE  SubSeq(Append(s, p), t + 1, Len(Append(s, p))) =
           Append(SubSeq(s, t + 1, Len(s)), p)
<1>1. PICK l \in Nat, k \in Nat : l = Len(s) /\ k = t /\ k <= l
  BY LenProperties
<1>2. /\ Append(s, p) \in Seq(S) /\ Len(Append(s, p)) = l + 1
      /\ \A i \in 1..l : Append(s, p)[i] = s[i]
      /\ Append(s, p)[l + 1] = p
  BY <1>1, AppendProperties
<1>3. PICK a \in Seq(S) : a = Append(s, p)
  BY <1>2
<1>4. /\ \A i \in 1..l : a[i] = s[i] /\ a[i] \in S
      /\ a[l + 1] = p
  BY <1>1, <1>2, <1>3, ElementOfSeq
<1>5. PICK x : x = SubSeq(s, k + 1, l)
  OBVIOUS
<1>6. /\ x \in Seq(S) /\ Len(x) = l - k /\ \A i \in 1..(l - k) : x[i] = s[k + i]
  <2>1. \A i \in (k + 1)..l : s[i] \in S
    BY <1>1, ElementOfSeq
  <2>2. /\ x \in Seq(S) /\ Len(x) = IF k + 1 <= l THEN l - (k + 1) + 1 ELSE 0
        /\ \A i \in 1..(l - (k + 1) + 1) : x[i] = s[(k + 1) + i - 1]
    BY <1>5, <2>1, SubSeqProperties
  <2>3. (IF k + 1 <= l THEN l - (k + 1) + 1 ELSE 0) = l - k
    BY <1>1
  <2>4. ASSUME NEW i \in 1..(l - k) PROVE x[i] = s[k + i]
    <3>1. i \in 1..(l - (k + 1) + 1) /\ (k + 1) + i - 1 = k + i
      OBVIOUS
    <3> QED
      BY <2>2, <3>1
  <2> QED
    BY <2>2, <2>3, <2>4
<1>7. PICK y : y = SubSeq(a, k + 1, l + 1)
  OBVIOUS
<1>8. /\ y \in Seq(S) /\ Len(y) = l + 1 - k
      /\ \A i \in 1..(l + 1 - k) : y[i] = a[k + i]
  <2>1. \A i \in (k + 1)..(l + 1) : a[i] \in S
    BY <1>4
  <2>2. /\ y \in Seq(S)
        /\ Len(y) = IF k + 1 <= l + 1 THEN (l + 1) - (k + 1) + 1 ELSE 0
        /\ \A i \in 1..((l + 1) - (k + 1) + 1) : y[i] = a[(k + 1) + i - 1]
    BY <1>7, <2>1, SubSeqProperties
  <2> QED
    BY <1>1, <2>2
<1>9. /\ Append(x, p) \in Seq(S) /\ Len(Append(x, p)) = Len(x) + 1
      /\ \A i \in 1..Len(x) : Append(x, p)[i] = x[i]
      /\ Append(x, p)[Len(x) + 1] = p
  <2>1. x \in Seq(S)
    BY <1>6
  <2> QED
    BY <2>1, AppendProperties
<1>10. PICK z \in Seq(S) : z = Append(x, p)
  BY <1>9
<1>11. Len(z) = Len(y)
  BY <1>1, <1>6, <1>8, <1>9, <1>10
<1>12. ASSUME NEW i \in 1..Len(y) PROVE y[i] = z[i]
  <2>1. i \in 1..(l + 1 - k)
    BY <1>8
  <2>2. y[i] = a[k + i]
    BY <1>8, <2>1
  <2>3. CASE i <= l - k
    <3>1. k + i \in 1..l /\ i \in 1..(l - k)
      BY <1>1, <2>1, <2>3
    <3>2. z[i] = x[i] /\ x[i] = s[k + i]
      BY <1>6, <1>9, <1>10, <3>1
    <3> QED
      BY <1>4, <2>2, <3>1, <3>2
  <2>4. CASE i = l - k + 1
    <3>1. k + i = l + 1 /\ i = Len(x) + 1
      BY <1>1, <1>6, <2>4
    <3> QED
      BY <1>4, <1>9, <1>10, <2>2, <3>1
  <2> QED
    BY <1>1, <2>1, <2>3, <2>4
<1>13. y = z
  BY <1>8, <1>11, <1>12, SeqEqual
<1> QED
  BY <1>1, <1>2, <1>3, <1>5, <1>7, <1>10, <1>13

(* The packet the message loop has next is the oldest pending one.          *)
LEMMA NextPending ==
  ASSUME NEW S, NEW s \in Seq(S), NEW t \in Nat, t + 1 \in 1..Len(s)
  PROVE  /\ SubSeq(s, t + 1, Len(s)) # <<>>
         /\ Head(SubSeq(s, t + 1, Len(s))) = s[t + 1]
         /\ Tail(SubSeq(s, t + 1, Len(s))) = SubSeq(s, (t + 1) + 1, Len(s))
<1>1. PICK l \in Nat, m \in Nat : l = Len(s) /\ m = t + 1 /\ m \in 1..l
  BY LenProperties
<1>2. l \in m..Len(s) /\ m \in 1..Len(s)
  BY <1>1
<1>3. /\ Head(SubSeq(s, m, l)) = s[m]
      /\ Tail(SubSeq(s, m, l)) = SubSeq(s, m + 1, l)
  BY <1>2, HeadTailOfSubSeq
<1>4. SubSeq(s, m, l) # <<>>
  <2>1. \A i \in m..l : s[i] \in S
    BY <1>1, ElementOfSeq
  <2>2. Len(SubSeq(s, m, l)) = IF m <= l THEN l - m + 1 ELSE 0
    BY <1>1, <2>1, SubSeqProperties
  <2>3. Len(SubSeq(s, m, l)) = l - m + 1 /\ l - m + 1 # 0
    BY <1>1, <2>2
  <2>4. Len(<<>>) = 0
    BY Empty
  <2> QED
    BY <2>3, <2>4, Zenon
<1> QED
  BY <1>1, <1>3, <1>4

LEMMA RefusedKept ==
  ASSUME checks' = checks
  PROVE  RefusedPackets' = RefusedPackets
  BY DEF RefusedPackets

(* What the clients of the map see is unchanged.                            *)
Quiet ==
  /\ mp' = mp /\ PendingOf' = PendingOf /\ AnswerOf' = AnswerOf
  /\ AnsweredOf' = AnsweredOf /\ gone' = gone /\ closed' = closed
  /\ RefusedPackets' = RefusedPackets

LEMMA QuietStutters ==
  ASSUME Quiet
  PROVE  UNCHANGED Map!mapvars
  BY DEF Quiet, Map!mapvars, PendingOf, AnswerOf, AnsweredOf

LEMMA ImplInit == Init => Map!Init
<1> SUFFICES ASSUME Init PROVE Map!Init OBVIOUS
<1>1. ASSUME NEW c \in Conns
      PROVE  /\ SubSeq(sent[c], taken[c] + 1, Len(sent[c])) = <<>>
             /\ [i \in 1..Len(out[c]) |-> AnswerIn(PacketAt(out[c][i]))] = <<>>
  <2>1. sent[c] = <<>> /\ taken[c] = 0 /\ out[c] = <<>>
    BY DEF Init
  <2>2. SubSeq(<<>>, 0 + 1, Len(<<>>)) = <<>>
    BY Empty, SubSeqProperties
  <2>3. [i \in 1..Len(<<>>) |-> AnswerIn(PacketAt(<<>>[i]))] = <<>>
    BY Empty
  <2> QED
    BY <2>1, <2>2, <2>3, Zenon
<1>2. RefusedPackets \subseteq UNION {Packets[c] : c \in Conns}
  BY DEF RefusedPackets
<1>3. PendingOf = [c \in Conns |-> <<>>] /\ AnsweredOf = [c \in Conns |-> <<>>]
  BY <1>1 DEF PendingOf, AnsweredOf
<1>4. AnswerOf = [c \in Conns |-> {}]
  BY DEF AnswerOf, Init
<1> QED
  BY <1>2, <1>3, <1>4 DEF Map!Init, Init, PendingOf, AnswerOf, AnsweredOf

LEMMA ImplSend ==
  ASSUME Inv, NEW c \in Conns, NEW p \in Packets[c], Send(c, p)
  PROVE  Map!Send(c, p)
<1>1. ConnTypes(c) /\ AllShaped
  BY DEF Inv, ConnInv
<1>2. SubSeq(Append(sent[c], p), taken[c] + 1, Len(Append(sent[c], p))) =
        Append(SubSeq(sent[c], taken[c] + 1, Len(sent[c])), p)
  <2>1. sent[c] \in Seq(Packets[c]) /\ taken[c] \in 0..Len(sent[c])
    BY <1>1, SentPackets DEF ConnTypes
  <2> QED
    BY <2>1, PendingAppend, Zenon
<1>3. PendingOf' = [PendingOf EXCEPT ![c] = Append(@, p)]
  <2>1. ASSUME NEW d \in Conns, d # c PROVE PendingOf'[d] = PendingOf[d]
    BY <1>1, <2>1 DEF Send, PendingOf, AllShaped, Shaped
  <2>2. PendingOf'[c] = Append(PendingOf[c], p)
    <3>1. sent'[c] = Append(sent[c], p) /\ taken' = taken
      BY <1>1 DEF Send, AllShaped, Shaped
    <3> QED
      BY <1>2, <3>1 DEF PendingOf
  <2> QED
    BY <2>1, <2>2 DEF PendingOf
<1>4. /\ mp' = mp /\ AnswerOf' = AnswerOf /\ AnsweredOf' = AnsweredOf
      /\ gone' = gone /\ closed' = closed /\ checks' = checks
  BY DEF Send, AnswerOf, AnsweredOf
<1>5. RefusedPackets' = RefusedPackets
  BY <1>4, RefusedKept
<1> QED
  BY <1>3, <1>4, <1>5 DEF Map!Send, PendingOf, AnswerOf, AnsweredOf

LEMMA ImplPeerGone ==
  ASSUME NEW c \in Conns, PeerGone(c)
  PROVE  Map!HangUp(c)
<1>1. /\ mp' = mp /\ PendingOf' = PendingOf /\ AnswerOf' = AnswerOf
      /\ AnsweredOf' = AnsweredOf /\ closed' = closed /\ checks' = checks
      /\ gone' = [gone EXCEPT ![c] = TRUE]
  BY DEF PeerGone, PendingOf, AnswerOf, AnsweredOf
<1>2. RefusedPackets' = RefusedPackets
  BY <1>1, RefusedKept
<1> QED
  BY <1>1, <1>2 DEF Map!HangUp, PendingOf, AnswerOf, AnsweredOf

LEMMA ImplQuiet ==
  ASSUME AllShaped,
         \/ UNCHANGED vars
         \/ \E c \in Conns : \/ \E n \in 1..Len(wire[c]) : Read(c, n)
                             \/ Return(c) \/ Disconnect(c)
  PROVE  UNCHANGED Map!mapvars
<1>1. /\ mp' = mp /\ sent' = sent /\ taken' = taken /\ echo' = echo
      /\ out' = out /\ gone' = gone /\ closed' = closed /\ checks' = checks
  BY DEF Read, Return, Disconnect, vars
<1>2. PendingOf' = PendingOf /\ AnsweredOf' = AnsweredOf
  BY <1>1 DEF PendingOf, AnsweredOf
<1>3. ASSUME NEW d \in Conns PROVE pc'[d] = "reply" <=> pc[d] = "reply"
  BY DEF Read, Return, Disconnect, vars, AllShaped, Shaped
<1>4. AnswerOf' = AnswerOf
  BY <1>1, <1>3 DEF AnswerOf
<1>5. RefusedPackets' = RefusedPackets
  BY <1>1, RefusedKept
<1> QED
  BY <1>1, <1>2, <1>4, <1>5, QuietStutters DEF Quiet

LEMMA ImplRefuse ==
  ASSUME Inv, NEW c \in Conns, Refuse(c)
  PROVE  Map!Refuse(c)
<1>1. ConnTypes(c) /\ ConnSync(c)
  BY DEF Inv, ConnInv
<1>2. PICK b \in Flow, w \in Flow, s \in Seq(Packet), n \in Nat :
        /\ b = buf[c] /\ w = wire[c] /\ s = sent[c] /\ n = taken[c]
        /\ n <= Len(s) /\ \A i \in 1..Len(s) : s[i] \in Packets[c]
  BY <1>1, SentPackets DEF ConnTypes
<1>3. b \o w = Stream(s, n + 1)
  BY <1>1, <1>2 DEF ConnSync
<1>4. Len(b) >= HeadSize /\ HeadCheck(b)
  BY <1>2 DEF Refuse
<1>5. n + 1 \in 1..Len(s) /\ HeadAt(b) = s[n + 1].head
  <2>1. n <= Len(s)
    BY <1>2
  <2> QED
    BY <1>3, <1>4, <2>1, FrontHead
<1>6. PICK p \in Packets[c] : p = s[n + 1]
  BY <1>2, <1>5
<1>7. p \in RefusedPackets
  <2>1. p \in UNION {Packets[d] : d \in Conns}
    BY <1>6
  <2>2. p \in Packet /\ Len(p.body) \in Nat
    BY ClientsAssumption, LenProperties DEF Packet
  <2>3. \/ checks = "default" /\ ~Decodes(b, HeadSize)
        \/ p.head.magic # kDefaultMagic \/ p.head.version # kDefaultVersion
        \/ p.head.msg_type # kRequest \/ p.head.body_length > kMaxBodyLength
    BY <1>4, <1>5, <1>6 DEF HeadCheck, HeadDecodes
  <2>4. ~Decodes(b, HeadSize) => p.head.body_length > 0
    BY <1>4, <1>5, <1>6, <2>2 DEF Decodes, Packet, PacketHead, HeadSize
  <2> QED
    BY <2>1, <2>3, <2>4 DEF RefusedPackets
<1>8. PendingOf[c] # <<>> /\ Head(PendingOf[c]) \in RefusedPackets
  <2>1. /\ SubSeq(s, n + 1, Len(s)) # <<>>
        /\ Head(SubSeq(s, n + 1, Len(s))) = s[n + 1]
    BY <1>5, NextPending
  <2>2. PendingOf[c] = SubSeq(s, n + 1, Len(s))
    BY <1>2 DEF PendingOf
  <2> QED
    BY <1>6, <1>7, <2>1, <2>2
<1>9. /\ mp' = mp /\ PendingOf' = PendingOf /\ AnsweredOf' = AnsweredOf
      /\ gone' = gone /\ checks' = checks /\ echo' = echo
      /\ closed' = [closed EXCEPT ![c] = TRUE]
  BY DEF Refuse, PendingOf, AnsweredOf
<1>10. RefusedPackets' = RefusedPackets
  BY <1>9, RefusedKept
<1>11. AnswerOf' = AnswerOf
  <2>1. ASSUME NEW d \in Conns PROVE pc'[d] = "reply" <=> pc[d] = "reply"
    BY DEF Refuse, Inv, AllShaped, Shaped
  <2> QED
    BY <1>9, <2>1 DEF AnswerOf
<1> QED
  BY <1>8, <1>9, <1>10, <1>11 DEF Map!Refuse, PendingOf, AnswerOf, AnsweredOf

(* One more reply is one more answer.                                       *)
LEMMA OneMoreAnswer ==
  ASSUME NEW o \in Seq(Flow), NEW x \in Flow
  PROVE  [i \in 1..Len(Append(o, x)) |-> AnswerIn(PacketAt(Append(o, x)[i]))] =
           Append([i \in 1..Len(o) |-> AnswerIn(PacketAt(o[i]))],
                  AnswerIn(PacketAt(x)))
<1>1. PICK l \in Nat : l = Len(o)
  BY LenProperties
<1>2. PICK q : q = Append(o, x)
  OBVIOUS
<1>3. /\ Len(q) = l + 1 /\ q[l + 1] = x
      /\ \A i \in 1..l : q[i] = o[i]
  BY <1>1, <1>2, AppendProperties
<1>4. PICK f : f = [i \in 1..l |-> AnswerIn(PacketAt(o[i]))]
  OBVIOUS
<1>5. PICK g : g = [i \in 1..(l + 1) |-> AnswerIn(PacketAt(q[i]))]
  OBVIOUS
<1>6. PICK a : a = AnswerIn(PacketAt(x))
  OBVIOUS
<1>7. PICK S : (\A i \in 1..l : f[i] \in S) /\ a \in S
  <2>1. PICK S : S = {f[i] : i \in 1..l} \cup {a}
    OBVIOUS
  <2> QED
    BY <2>1
<1>8. f \in Seq(S) /\ Len(f) = l
  <2>1. f \in [1..l -> S]
    BY <1>4, <1>7
  <2> QED
    BY <2>1
<1>9. /\ Append(f, a) \in Seq(S) /\ Len(Append(f, a)) = l + 1
      /\ \A i \in 1..l : Append(f, a)[i] = f[i]
      /\ Append(f, a)[l + 1] = a
  BY <1>7, <1>8, AppendProperties
<1>10. PICK z \in Seq(S) : z = Append(f, a)
  BY <1>9
<1>11. ASSUME NEW i \in 1..(l + 1) PROVE g[i] = z[i] /\ g[i] \in S
  <2>1. CASE i \in 1..l
    BY <1>3, <1>4, <1>5, <1>7, <1>9, <1>10, <2>1
  <2>2. CASE i = l + 1
    BY <1>3, <1>5, <1>6, <1>7, <1>9, <1>10, <2>2
  <2> QED
    BY <2>1, <2>2
<1>12. g \in Seq(S) /\ Len(g) = l + 1
  <2>1. g \in [1..(l + 1) -> S]
    BY <1>5, <1>11
  <2> QED
    BY <2>1
<1>13. g = z
  BY <1>9, <1>10, <1>11, <1>12, SeqEqual
<1> QED
  BY <1>1, <1>2, <1>3, <1>4, <1>5, <1>6, <1>10, <1>13

LEMMA ImplReply ==
  ASSUME Inv, NEW c \in Conns, Reply(c)
  PROVE  Map!Reply(c) \/ Map!Lose(c)
<1>1. ConnTypes(c) /\ AllShaped
  BY DEF Inv, ConnInv
<1>2. /\ echo[c] \in Packet /\ pc[c] = "reply"
      /\ echo[c].head.body_length = Len(echo[c].body)
  BY DEF Reply, Inv, ConnInv, ConnTypes, ConnReply
<1>3. PICK a : a = AnswerIn(echo[c]) /\ AnswerOf[c] = {a}
  BY <1>2 DEF AnswerOf
<1>4. AnswerOf' = [AnswerOf EXCEPT ![c] = {}]
  <2>1. ASSUME NEW d \in Conns, d # c PROVE AnswerOf'[d] = AnswerOf[d]
    BY <1>1, <2>1 DEF Reply, AnswerOf, AllShaped, Shaped
  <2>2. AnswerOf'[c] = {}
    <3>1. pc'[c] = "in"
      BY <1>1 DEF Reply, AllShaped, Shaped
    <3> QED
      BY <3>1 DEF AnswerOf
  <2> QED
    BY <2>1, <2>2 DEF AnswerOf
<1>5. /\ mp' = mp /\ PendingOf' = PendingOf /\ gone' = gone
      /\ closed' = closed /\ checks' = checks
  BY DEF Reply, PendingOf
<1>6. RefusedPackets' = RefusedPackets
  BY <1>5, RefusedKept
<1>7. CASE out' = [out EXCEPT ![c] = Append(@, EncodePacketToFlow(echo[c]))]
  <2>1. PICK x \in Flow, o \in Seq(Flow) :
          x = EncodePacketToFlow(echo[c]) /\ o = out[c]
    BY <1>1, <1>2, EncodedPacket DEF ConnTypes
  <2>2. PacketAt(x) = echo[c]
    BY <1>2, <2>1, RoundTrip
  <2>3. ASSUME NEW d \in Conns, d # c PROVE AnsweredOf'[d] = AnsweredOf[d]
    BY <1>1, <1>7, <2>3 DEF AnsweredOf, AllShaped, Shaped
  <2>4. AnsweredOf'[c] = Append(AnsweredOf[c], a)
    <3>1. out'[c] = Append(o, x)
      BY <1>1, <1>7, <2>1 DEF AllShaped, Shaped
    <3>2. AnsweredOf'[c] = [i \in 1..Len(out'[c]) |->
                              AnswerIn(PacketAt(out'[c][i]))]
      BY DEF AnsweredOf, AnswerIn
    <3>3. AnsweredOf[c] = [i \in 1..Len(o) |-> AnswerIn(PacketAt(o[i]))]
      BY <2>1 DEF AnsweredOf
    <3>4. a = AnswerIn(PacketAt(x))
      BY <1>3, <2>2
    <3>5. [i \in 1..Len(Append(o, x)) |-> AnswerIn(PacketAt(Append(o, x)[i]))] =
           Append([i \in 1..Len(o) |-> AnswerIn(PacketAt(o[i]))],
                  AnswerIn(PacketAt(x)))
      BY OneMoreAnswer
    <3> QED
      BY <3>1, <3>2, <3>3, <3>4, <3>5
  <2>5. AnsweredOf' = [AnsweredOf EXCEPT ![c] = Append(@, a)]
    BY <2>3, <2>4 DEF AnsweredOf
  <2> QED
    BY <1>3, <1>4, <1>5, <1>6, <2>5
       DEF Map!Reply, PendingOf, AnswerOf, AnsweredOf
<1>8. CASE gone[c] /\ out' = out
  <2>1. AnsweredOf' = AnsweredOf
    BY <1>8 DEF AnsweredOf
  <2> QED
    BY <1>3, <1>4, <1>5, <1>6, <1>8, <2>1
       DEF Map!Lose, PendingOf, AnswerOf, AnsweredOf
<1> QED
  BY <1>7, <1>8 DEF Reply

LEMMA ImplServe ==
  ASSUME Inv, NEW c \in Conns, Serve(c)
  PROVE  Map!Execute(c)
<1>1. ConnTypes(c) /\ AllShaped /\ MapOK(mp)
  BY DEF Inv, ConnInv
<1>2. PICK p \in Packets[c], s \in Seq(Packets[c]), t \in Nat :
        /\ s = sent[c] /\ t = taken[c] /\ p = s[t + 1] /\ t + 1 \in 1..Len(s)
        /\ p = PacketAt(buf[c]) /\ HeadAt(buf[c]) = p.head
        /\ p.head.body_length = Len(p.body)
  BY <1>1, ServedPacket DEF ConnTypes
<1>3. PICK q, res :
        /\ q = BodyCheck(p) /\ res = Executed(q) /\ mp' = res.mp
        /\ echo' = [echo EXCEPT ![c] = ResponseTo(q, res)]
  BY <1>2 DEF Serve
<1>4. p \in Packet
  BY ClientsAssumption
<1>5. /\ ~(checks = "default" /\ ~Decodes(buf[c], HeadSize))
      /\ p.head.magic = kDefaultMagic /\ p.head.version = kDefaultVersion
      /\ p.head.msg_type = kRequest /\ ~(p.head.body_length > kMaxBodyLength)
  BY <1>2 DEF Serve, HeadCheck, HeadDecodes
<1>6. p.head.body_length \in Nat
  BY <1>4 DEF Packet, PacketHead
<1>7. p.head.body_length <= kMaxBodyLength
  BY <1>5, <1>6, LimitsAssumption
<1>8. p \notin RefusedPackets
  <2>1. Decodes(buf[c], HeadSize) => ~(p.head.body_length > 0)
    BY <1>2, <1>6 DEF Decodes, HeadSize
  <2> QED
    BY <1>5, <2>1 DEF RefusedPackets
<1>9. Agrees(p, mp, res)
  BY <1>2, <1>3, <1>5, <1>7, ServiceIsMap
<1>10. /\ q \in Packet /\ q.head.opcode = p.head.opcode
       /\ q.head.request_id = p.head.request_id
       /\ q.head.status = kOk => IsKVRequest(q)
  BY <1>3, <1>4, BodyChecked
<1>11. res.status \in Nat /\ IsValue(res.value)
  BY <1>1, <1>3, <1>10, ExecutedType
<1>12. ResponseTo(q, res) =
         EncodeKVResponseToPacket(res.status, res.value, p.head.opcode,
                                  p.head.request_id)
  BY <1>10, <1>11, ResponseType
<1>13. AnswerIn(ResponseTo(q, res)) =
         [id |-> p.head.request_id, status |-> res.status, value |-> res.value]
  BY <1>9, <1>11, <1>12, AnswerRead DEF Agrees
<1>14. PICK a : a = AnswerIn(ResponseTo(q, res))
  OBVIOUS
<1>15. a \in Map!Answers(p, mp)
  BY <1>9, <1>13, <1>14 DEF Agrees
<1>16. AnswerOf' = [AnswerOf EXCEPT ![c] = {a}]
  <2>1. ASSUME NEW d \in Conns, d # c PROVE AnswerOf'[d] = AnswerOf[d]
    BY <1>1, <1>3, <2>1 DEF Serve, AnswerOf, AllShaped, Shaped
  <2>2. AnswerOf'[c] = {a}
    <3>1. echo'[c] = ResponseTo(q, res) /\ pc'[c] = "reply"
      BY <1>1, <1>3 DEF Serve, AllShaped, Shaped
    <3>2. AnswerOf'[c] = {AnswerIn(echo'[c])}
      BY <3>1 DEF AnswerOf, AnswerIn
    <3> QED
      BY <1>14, <3>1, <3>2
  <2> QED
    BY <2>1, <2>2 DEF AnswerOf
<1>17. /\ PendingOf[c] # <<>> /\ Head(PendingOf[c]) = p
       /\ PendingOf' = [PendingOf EXCEPT ![c] = Tail(@)]
  <2>1. /\ SubSeq(s, t + 1, Len(s)) # <<>>
        /\ Head(SubSeq(s, t + 1, Len(s))) = s[t + 1]
        /\ Tail(SubSeq(s, t + 1, Len(s))) = SubSeq(s, (t + 1) + 1, Len(s))
    BY <1>2, NextPending
  <2>2. PendingOf[c] = SubSeq(s, t + 1, Len(s))
    BY <1>2 DEF PendingOf
  <2>3. PendingOf'[c] = Tail(PendingOf[c])
    <3>1. taken'[c] = t + 1 /\ sent'[c] = s
      BY <1>1, <1>2 DEF Serve, AllShaped, Shaped
    <3>2. PendingOf'[c] = SubSeq(s, (t + 1) + 1, Len(s))
      BY <3>1 DEF PendingOf
    <3> QED
      BY <2>1, <2>2, <3>2
  <2>4. ASSUME NEW d \in Conns, d # c PROVE PendingOf'[d] = PendingOf[d]
    BY <1>1, <2>4 DEF Serve, PendingOf, AllShaped, Shaped
  <2>5. PendingOf' = [PendingOf EXCEPT ![c] = Tail(@)]
    BY <2>3, <2>4 DEF PendingOf
  <2> QED
    BY <1>2, <2>1, <2>2, <2>5
<1>18. AnswerOf[c] = {} /\ ~closed[c]
  BY DEF Serve, Inv, ConnInv, ConnReply, AnswerOf
<1>19. /\ AnsweredOf' = AnsweredOf /\ gone' = gone /\ closed' = closed
       /\ checks' = checks
  BY DEF Serve, AnsweredOf
<1>20. RefusedPackets' = RefusedPackets
  BY <1>19, RefusedKept
<1>21. mp' = Map!Effect(p, mp)
  BY <1>3, <1>9 DEF Agrees
<1>22. a \in AnswerOf'[c]
  BY <1>16 DEF AnswerOf
<1> QED
  BY <1>8, <1>15, <1>16, <1>17, <1>18, <1>19, <1>20, <1>21, <1>22
     DEF Map!Execute, PendingOf, AnswerOf, AnsweredOf

LEMMA ImplStep ==
  ASSUME Inv, [Next]_vars
  PROVE  [Map!Next]_(Map!mapvars)
<1>1. CASE UNCHANGED vars
  BY <1>1, ImplQuiet DEF Inv
<1>2. CASE Next
  <2>1. PICK c \in Conns :
          IoStep(c) \/ PeerGone(c) \/ \E p \in Packets[c] : Send(c, p)
    BY <1>2 DEF Next
  <2>2. CASE (\E n \in 1..Len(wire[c]) : Read(c, n)) \/ Return(c) \/ Disconnect(c)
    BY <2>2, ImplQuiet DEF Inv
  <2>3. CASE Refuse(c)
    BY <2>3, ImplRefuse DEF Map!Next
  <2>4. CASE Serve(c)
    BY <2>4, ImplServe DEF Map!Next
  <2>5. CASE Reply(c)
    BY <2>5, ImplReply DEF Map!Next
  <2>6. CASE PeerGone(c)
    BY <2>6, ImplPeerGone DEF Map!Next
  <2>7. CASE \E p \in Packets[c] : Send(c, p)
    BY <2>7, ImplSend DEF Map!Next
  <2> QED
    BY <2>1, <2>2, <2>3, <2>4, <2>5, <2>6, <2>7 DEF IoStep
<1> QED
  BY <1>1, <1>2

(* The server implements the abstract map, for every number of connections  *)
(* and requests, whatever their ids and however the stream is cut: each     *)
(* legal request takes effect once, in its connection's order and at one    *)
(* instant before its answer is written, and the client reads under its own *)
(* id what the map held at that instant; an illegal one leaves the map      *)
(* alone and is answered with an error.  A body means what the encoder      *)
(* would have had to encode.                                                *)
THEOREM ServerImplementsMap == Spec => ImplementsMap
<1>1. Init => Map!Init
  BY ImplInit
<1>2. Inv /\ [Next]_vars => [Map!Next]_(Map!mapvars)
  BY ImplStep
<1> QED
  BY <1>1, <1>2, Invariance, PTL DEF Spec, ImplementsMap, Map!Spec
=============================================================================
