-------------------------- MODULE TcpServerProofs --------------------------
(***************************************************************************)
(* Theorems about TcpServer, for any number of io loops and connections and  *)
(* any resizing of the pool.  The fairness part of the specification is not  *)
(* used.                                                                     *)
(***************************************************************************)
EXTENDS TcpServer, SequenceTheorems, FiniteSetTheorems, TLAPS

-----------------------------------------------------------------------------
(* The inductive invariant, by subject.                                     *)

(* Before Start nothing has happened.                                       *)
FreshInv ==
  main = "new" =>
    /\ ~running /\ maxnum = 0 /\ ~listening
    /\ bpc = "idle" /\ ~bquit /\ bq = <<>>
    /\ \A l \in Loops : ipc[l] = "absent" /\ iq[l] = <<>>
    /\ \A c \in Conns : cst[c] = "none"

(* The pool runs as long as the base loop may accept, and its threads exist *)
(* as long as the base loop does.                                           *)
PoolInv ==
  /\ running => num <= maxnum
  /\ bpc \in {"accept", "picked"} => listening
  /\ bpc # "dead" /\ listening => running
  /\ \A i \in 1..Len(bq) : bq[i].op = "listen" /\ bpc # "dead" => running
  /\ \A l \in Loops : /\ quit[l] => bpc = "dead"
                      /\ ipc[l] = "dead" => quit[l]
                      /\ l < maxnum <=> ipc[l] # "absent"
                      /\ iq[l] # <<>> => l < maxnum

(* The threads have ended when the pool has been joined.                    *)
JoinedInv ==
  main \in {"closed", "destroy", "gone"} =>
    \A l \in Loops : ipc[l] \in {"absent", "dead"}

(* What the accept callback holds between the two halves of GetOneThread.   *)
PickedInv ==
  bpc = "picked" =>
    /\ picked \in Loops /\ picked < maxnum
    /\ fd \in Conns /\ cst[fd] = "accepted" /\ owner[fd] = picked

(* A connection queued for setup is queued once, in its own loop.           *)
QueuedInv ==
  \A l \in Loops :
    /\ \A i \in 1..Len(iq[l]) :
         cst[iq[l][i]] = "queued" /\ owner[iq[l][i]] = l
    /\ \A i, j \in 1..Len(iq[l]) : i # j => iq[l][i] # iq[l][j]

(* A loop inside a setup task holds a connection of its own that is not     *)
(* open yet, and after the wait that connection is registered.              *)
SetupInv ==
  \A l \in Loops :
    /\ ipc[l] \in {"wait", "setup"} =>
         cur[l] \in Conns /\ cst[cur[l]] = "made" /\ owner[cur[l]] = l
    /\ ipc[l] \notin {"wait", "setup"} => cur[l] = 0
    /\ ipc[l] = "setup" => cur[l] \in tcpst

(* The missions of the base loop: an erasure is of a closed connection, an  *)
(* insertion of one whose io loop waits for it, and is queued once.         *)
MissionInv ==
  /\ \A i \in 1..Len(bq) :
       /\ bq[i].op # "listen" => bq[i].c \in Conns
       /\ bq[i].op = "erase" => cst[bq[i].c] = "closed"
       /\ bq[i].op = "insert" =>
            \E l \in Loops : ipc[l] = "wait" /\ cur[l] = bq[i].c
  /\ \A i, j \in 1..Len(bq) :
       i # j /\ bq[i].op = "insert" /\ bq[j].op = "insert" =>
         bq[i].c # bq[j].c

Inv ==
  /\ TypeOK /\ FreshInv /\ PoolInv /\ JoinedInv /\ PickedInv /\ QueuedInv
  /\ SetupInv /\ MissionInv
  /\ NeverRefused /\ OpenAreRegistered /\ NoGhosts
-----------------------------------------------------------------------------
(* Facts about the data.                                                    *)

LEMMA Remainder ==
  ASSUME NEW a \in Nat, NEW b \in Nat \ {0}
  PROVE  a % b \in 0..(b - 1)
  OBVIOUS

LEMMA SetOfAppend ==
  ASSUME NEW S, NEW s \in Seq(S), NEW e \in S
  PROVE  SetOf(Append(s, e)) = SetOf(s) \cup {e}
  BY DEF SetOf

(* The members of a queue without its head.                                 *)
LEMMA TailMembers ==
  ASSUME NEW S, NEW s \in Seq(S), s # <<>>
  PROVE  /\ Head(s) = s[1] /\ Head(s) \in S
         /\ Tail(s) \in Seq(S)
         /\ 1 \in 1..Len(s)
         /\ Len(Tail(s)) = Len(s) - 1
         /\ \A i \in 1..Len(Tail(s)) :
              i + 1 \in 1..Len(s) /\ Tail(s)[i] = s[i + 1]
  OBVIOUS

LEMMA SetOfTail ==
  ASSUME NEW S, NEW s \in Seq(S), s # <<>>
  PROVE  SetOf(s) = SetOf(Tail(s)) \cup {Head(s)}
<1>1. /\ Head(s) = s[1] /\ 1 \in 1..Len(s) /\ Len(Tail(s)) = Len(s) - 1
      /\ \A i \in 1..Len(Tail(s)) :
           i + 1 \in 1..Len(s) /\ Tail(s)[i] = s[i + 1]
  BY TailMembers
<1>5. PICK t : t = Tail(s)
  OBVIOUS
<1>2. PICK n \in Nat : t = Tail(s) /\ n = Len(s) /\ Len(t) = n - 1
  BY <1>1, <1>5, LenProperties
<1>3. /\ 1 \in 1..n /\ \A i \in 1..(n - 1) : i + 1 \in 1..n /\ t[i] = s[i + 1]
  BY <1>1, <1>2
<1>4. ASSUME NEW i \in 1..n
      PROVE  s[i] \in {t[j] : j \in 1..(n - 1)} \cup {s[1]}
  <2>1. CASE i # 1
    <3>1. i - 1 \in 1..(n - 1) /\ (i - 1) + 1 = i
      BY <2>1
    <3>2. t[i - 1] = s[i]
      BY <1>3, <3>1
    <3> QED
      BY <3>1, <3>2
  <2> QED
    BY <2>1
<1>6. SetOf(s) = {s[i] : i \in 1..n}
  BY <1>2 DEF SetOf
<1>7. SetOf(t) = {t[i] : i \in 1..(n - 1)}
  BY <1>2 DEF SetOf
<1>8. {s[i] : i \in 1..n} \subseteq {t[j] : j \in 1..(n - 1)} \cup {s[1]}
  BY <1>4
<1>9. {t[j] : j \in 1..(n - 1)} \cup {s[1]} \subseteq {s[i] : i \in 1..n}
  BY <1>3
<1> QED
  BY <1>1, <1>2, <1>6, <1>7, <1>8, <1>9

LEMMA MissionMember ==
  /\ [op |-> "listen", c |-> 0] \in Mission
  /\ \A k \in {0} \cup Conns : /\ [op |-> "insert", c |-> k] \in Mission
                              /\ [op |-> "erase", c |-> k] \in Mission
  BY DEF Mission

-----------------------------------------------------------------------------
(* Type correctness.                                                        *)

LEMMA TypeInit == Init => TypeOK
<1> SUFFICES ASSUME Init PROVE TypeOK OBVIOUS
<1>1. bq \in Seq(Mission) /\ iq \in [Loops -> Seq(Conns)]
  BY EmptySeq DEF Init
<1>2. /\ ipc \in [Loops -> IoPC] /\ quit \in [Loops -> BOOLEAN]
      /\ cur \in [Loops -> {0} \cup Conns] /\ cst \in [Conns -> Stage]
      /\ owner \in [Conns -> {-1} \cup Loops]
  BY DEF Init, IoPC, Stage
<1>3. num \in 1..MaxSize /\ maxnum \in 0..MaxSize /\ pos \in Loops
  BY ServerBounds DEF Init, Loops
<1> QED
  BY <1>1, <1>2, <1>3 DEF Init, TypeOK, MainPC, BasePC

LEMMA TypeMain ==
  ASSUME TypeOK,
         \/ \E n \in 0..MaxSize : SetSize(n)
         \/ Start
         \/ \E byOwner \in BOOLEAN : Close(byOwner)
         \/ MainStep \/ CloseAgain
  PROVE  TypeOK'
<1> USE ServerBounds DEF TypeOK, poolVars, baseVars, ioVars, connVars
<1>1. ASSUME NEW n \in 0..MaxSize, SetSize(n) PROVE TypeOK'
  <2>1. num' \in 1..MaxSize
    BY <1>1 DEF SetSize, AtLeast, AtMost
  <2>2. resized' \in BOOLEAN
    BY <1>1 DEF SetSize
  <2> QED
    BY <1>1, <2>1, <2>2 DEF SetSize
<1>2. CASE Start
  <2>1. bq' \in Seq(Mission)
    <3>1. bq' = bq \/ bq' = Append(bq, [op |-> "listen", c |-> 0])
      BY <1>2 DEF Start, Listen
    <3>2. Append(bq, [op |-> "listen", c |-> 0]) \in Seq(Mission)
      BY MissionMember, AppendProperties
    <3> QED
      BY <3>1, <3>2
  <2>2. ipc' \in [Loops -> IoPC]
    BY <1>2 DEF Start, PoolStart, IoPC
  <2>3. main' \in MainPC /\ maxnum' \in 0..MaxSize
    BY <1>2 DEF Start, PoolStart, Listen, MainPC
  <2> QED
    BY <1>2, <2>1, <2>2, <2>3 DEF Start, PoolStart
<1>3. ASSUME NEW byOwner \in BOOLEAN, Close(byOwner) PROVE TypeOK'
  BY <1>3 DEF Close, MainPC
<1>4. CASE JoinBase
  <2>1. quit' \in [Loops -> BOOLEAN]
    BY <1>4 DEF JoinBase, Loops
  <2> QED
    BY <1>4, <2>1 DEF JoinBase, MainPC
<1>5. CASE JoinPool
  BY <1>5 DEF JoinPool, MainPC
<1>6. CASE Destroy
  BY <1>6 DEF Destroy, UseDeadLoop, MainPC
<1>7. CASE CloseAgain
  BY <1>7 DEF CloseAgain, UseDeadLoop
<1> QED
  BY <1>1, <1>2, <1>3, <1>4, <1>5, <1>6, <1>7 DEF MainStep

LEMMA TypeBase ==
  ASSUME TypeOK, PickedInv, MissionInv,
         BaseStep \/ AcceptOne \/ BaseMission \/ BaseLeave
  PROVE  TypeOK'
<1> USE ServerBounds DEF TypeOK, poolVars, baseVars, ioVars, connVars
<1>1. CASE AcceptBegin
  BY <1>1 DEF AcceptBegin, BasePC
<1>2. CASE HandOver
  <2>1. fd \in Conns /\ picked \in Loops
    BY <1>2 DEF HandOver, PickedInv
  <2>2. iq' \in [Loops -> Seq(Conns)]
    BY <1>2, <2>1 DEF HandOver
  <2>3. (pos + 1) % num \in 0..(num - 1)
    BY Remainder DEF Loops
  <2>4. pos' \in Loops
    BY <1>2, <2>3 DEF HandOver, Loops
  <2>5. cst' \in [Conns -> Stage]
    BY <1>2 DEF HandOver, Stage
  <2> QED
    BY <1>2, <2>2, <2>4, <2>5 DEF HandOver, BasePC
<1>3. CASE AcceptEnd
  BY <1>3 DEF AcceptEnd, BasePC
<1>4. CASE AcceptOne
  <2>1. pos % num \in 0..(num - 1)
    BY Remainder DEF Loops
  <2>2. pos % num \in Loops
    BY <2>1 DEF Loops
  <2>3. cst' \in [Conns -> Stage] /\ fd' \in {0} \cup Conns
    BY <1>4 DEF AcceptOne, Backlog, Stage
  <2>4. /\ owner' \in [Conns -> {-1} \cup Loops] /\ pos' \in Loops
        /\ picked' \in {-1} \cup Loops /\ bpc' \in BasePC
    BY <1>4, <2>2 DEF AcceptOne, Backlog, BasePC
  <2> QED
    BY <1>4, <2>3, <2>4 DEF AcceptOne
<1>5. CASE BaseMission
  <2>1. bq # <<>> /\ bq' = Tail(bq)
    BY <1>5 DEF BaseMission, BaseListen, BaseInsert, BaseErase, NextMission
  <2>2. Head(bq) \in Mission /\ bq' \in Seq(Mission)
    BY <2>1, TailMembers
  <2>3. CASE BaseListen
    BY <2>2, <2>3 DEF BaseListen, MainPC
  <2>4. CASE BaseInsert
    <3>1. ipc' \in [Loops -> IoPC]
      BY <2>4 DEF BaseInsert, IoPC
    <3>2. Head(bq).c \in Conns
      BY <2>1, <2>4, TailMembers DEF BaseInsert, NextMission, MissionInv
    <3> QED
      BY <2>2, <2>4, <3>1, <3>2 DEF BaseInsert
  <2>5. CASE BaseErase
    BY <2>2, <2>5 DEF BaseErase
  <2> QED
    BY <1>5, <2>3, <2>4, <2>5 DEF BaseMission
<1>6. CASE BaseLeave
  BY <1>6 DEF BaseLeave, BasePC
<1> QED
  BY <1>1, <1>2, <1>3, <1>4, <1>5, <1>6 DEF BaseStep

LEMMA TypeIo ==
  ASSUME TypeOK,
         \/ \E c \in Conns : PeerConnect(c) \/ IoClose(c)
         \/ \E l \in Loops : IoStep(l) \/ IoReject(l) \/ IoLeaveExpiring(l)
  PROVE  TypeOK'
<1> USE ServerBounds DEF TypeOK, poolVars, baseVars, ioVars, connVars
<1>1. ASSUME NEW c \in Conns, PeerConnect(c) PROVE TypeOK'
  BY <1>1 DEF PeerConnect, Stage
<1>2. ASSUME NEW c \in Conns, IoClose(c) PROVE TypeOK'
  <2>1. CASE bpc = "dead"
    BY <1>2, <2>1 DEF IoClose, UseDeadLoop
  <2>2. CASE bpc # "dead"
    <3>1. bq' \in Seq(Mission) /\ cst' \in [Conns -> Stage]
      <4>1. bq' = Append(bq, [op |-> "erase", c |-> c])
        BY <1>2, <2>2 DEF IoClose, TearDown
      <4>2. bq' \in Seq(Mission)
        BY <4>1, MissionMember, AppendProperties
      <4> QED
        BY <1>2, <2>2, <4>2 DEF IoClose, TearDown, Stage
    <3> QED
      BY <1>2, <2>2, <3>1 DEF IoClose
  <2> QED
    BY <2>1, <2>2
<1>3. ASSUME NEW l \in Loops, IoTake(l) PROVE TypeOK'
  <2>1. CASE bpc = "dead"
    BY <1>3, <2>1 DEF IoTake, UseDeadLoop
  <2>2. CASE bpc # "dead"
    <3>1. Head(iq[l]) \in Conns /\ Tail(iq[l]) \in Seq(Conns)
      BY <1>3, TailMembers DEF IoTake
    <3>2. bq' \in Seq(Mission) /\ cst' \in [Conns -> Stage]
      <4>1. bq' = Append(bq, [op |-> "insert", c |-> Head(iq[l])])
        BY <1>3, <2>2 DEF IoTake
      <4>2. bq' \in Seq(Mission)
        BY <3>1, <4>1, MissionMember, AppendProperties
      <4> QED
        BY <1>3, <2>2, <4>2 DEF IoTake, Stage
    <3>3. iq' \in [Loops -> Seq(Conns)]
      BY <1>3, <2>2, <3>1 DEF IoTake
    <3>4. ipc' \in [Loops -> IoPC]
      BY <1>3, <2>2 DEF IoTake, IoPC
    <3>5. cur' \in [Loops -> {0} \cup Conns]
      <4> DEFINE k == Head(iq[l])
      <4>1. cur' = [cur EXCEPT ![l] = k]
        BY <1>3, <2>2 DEF IoTake
      <4> HIDE DEF k
      <4>2. k \in Conns
        BY <3>1 DEF k
      <4> QED
        BY <4>1, <4>2
    <3> QED
      BY <1>3, <2>2, <3>2, <3>3, <3>4, <3>5 DEF IoTake
  <2> QED
    BY <2>1, <2>2
<1>4. ASSUME NEW l \in Loops, IoActivate(l) PROVE TypeOK'
  BY <1>4 DEF IoActivate, IoPC, Stage
<1>5. ASSUME NEW l \in Loops, IoReject(l) PROVE TypeOK'
  <2>1. CASE bpc = "dead"
    BY <1>5, <2>1 DEF IoReject, UseDeadLoop
  <2>2. CASE bpc # "dead"
    <3>1. bq' \in Seq(Mission) /\ cst' \in [Conns -> Stage]
      <4>1. bq' = Append(bq, [op |-> "erase", c |-> cur[l]])
        BY <1>5, <2>2 DEF IoReject, TearDown
      <4>2. bq' \in Seq(Mission)
        BY <4>1, MissionMember, AppendProperties
      <4> QED
        BY <1>5, <2>2, <4>2 DEF IoReject, TearDown, Stage
    <3>2. /\ ipc' \in [Loops -> IoPC] /\ cur' \in [Loops -> {0} \cup Conns]
      BY <1>5, <2>2 DEF IoReject, IoPC
    <3> QED
      BY <1>5, <2>2, <3>1, <3>2 DEF IoReject
  <2> QED
    BY <2>1, <2>2
<1>6. ASSUME NEW l \in Loops, IoLeave(l) PROVE TypeOK'
  <2>1. cst' \in [Conns -> Stage] /\ ipc' \in [Loops -> IoPC]
    BY <1>6 DEF IoLeave, IoPC, Stage
  <2>2. iq' \in [Loops -> Seq(Conns)]
    BY <1>6, EmptySeq DEF IoLeave
  <2> QED
    BY <1>6, <2>1, <2>2 DEF IoLeave
<1>7. ASSUME NEW l \in Loops, IoLeaveExpiring(l) PROVE TypeOK'
  BY <1>7 DEF IoLeaveExpiring, UseDeadLoop
<1> QED
  BY <1>1, <1>2, <1>3, <1>4, <1>5, <1>6, <1>7 DEF IoStep

LEMMA TypeStep == TypeOK /\ PickedInv /\ MissionInv /\ [Next]_vars => TypeOK'
<1> SUFFICES ASSUME TypeOK, PickedInv, MissionInv, [Next]_vars PROVE TypeOK'
  OBVIOUS
<1>1. CASE UNCHANGED vars
  BY <1>1 DEF TypeOK, vars, poolVars, baseVars, ioVars, connVars
<1> QED
  BY <1>1, TypeMain, TypeBase, TypeIo DEF Next
-----------------------------------------------------------------------------
(* The steps preserve the invariant: one lemma per action.  The parts that  *)
(* an action cannot disturb are taken together.                             *)

Rest ==
  /\ FreshInv /\ PoolInv /\ JoinedInv /\ PickedInv /\ QueuedInv
  /\ SetupInv /\ MissionInv
  /\ NeverRefused /\ OpenAreRegistered /\ NoGhosts

(* What the base loop finds at the head of its queue.                       *)
LEMMA HeadMission ==
  ASSUME Inv, bq # <<>>
  PROVE  /\ \A i \in 1..Len(Tail(bq)) :
              i + 1 \in 1..Len(bq) /\ Tail(bq)[i] = bq[i + 1]
         /\ 1 \in 1..Len(bq) /\ Head(bq) = bq[1]
         /\ SetOf(bq) = SetOf(Tail(bq)) \cup {Head(bq)}
         /\ Head(bq).op # "listen" => Head(bq).c \in Conns
         /\ Head(bq).op = "erase" => cst[Head(bq).c] = "closed"
         /\ Head(bq).op = "insert" =>
              \E l \in Loops : /\ ipc[l] = "wait" /\ cur[l] = Head(bq).c
                               /\ cst[Head(bq).c] = "made"
                               /\ \A m \in Loops : cur[m] = Head(bq).c <=> m = l
<1>1. bq \in Seq(Mission)
  BY DEF Inv, TypeOK
<1>2. /\ \A i \in 1..Len(Tail(bq)) :
           i + 1 \in 1..Len(bq) /\ Tail(bq)[i] = bq[i + 1]
      /\ 1 \in 1..Len(bq) /\ Head(bq) = bq[1]
      /\ SetOf(bq) = SetOf(Tail(bq)) \cup {Head(bq)}
  BY <1>1, TailMembers, SetOfTail
<1>3. /\ Head(bq).op # "listen" => Head(bq).c \in Conns
      /\ Head(bq).op = "erase" => cst[Head(bq).c] = "closed"
  BY <1>2 DEF Inv, MissionInv
<1>4. ASSUME Head(bq).op = "insert"
      PROVE  \E l \in Loops : /\ ipc[l] = "wait" /\ cur[l] = Head(bq).c
                               /\ cst[Head(bq).c] = "made"
                               /\ \A m \in Loops : cur[m] = Head(bq).c <=> m = l
  <2>1. PICK l \in Loops : ipc[l] = "wait" /\ cur[l] = Head(bq).c
    BY <1>2, <1>4 DEF Inv, MissionInv
  <2>2. Head(bq).c # 0
    BY <1>3, <1>4, ServerBounds DEF Conns
  <2> QED
    BY <2>1, <2>2 DEF Inv, SetupInv
<1> QED
  BY <1>2, <1>3, <1>4

(* A connection queued for setup.                                           *)
LEMMA QueueMembers ==
  ASSUME Inv, NEW l \in Loops, NEW i \in 1..Len(iq[l])
  PROVE  iq[l][i] \in Conns /\ cst[iq[l][i]] = "queued" /\ owner[iq[l][i]] = l
<1>1. iq[l] \in Seq(Conns)
  BY DEF Inv, TypeOK
<1> QED
  BY <1>1 DEF Inv, QueuedInv

(* What the base loop's queue looks like after a mission is appended.       *)
LEMMA AppendedMission ==
  ASSUME Inv, NEW m \in Mission, bq' = Append(bq, m)
  PROVE  /\ SetOf(bq') = SetOf(bq) \cup {m}
         /\ Len(bq') = Len(bq) + 1 /\ Len(bq) \in Nat
         /\ \A i \in 1..Len(bq') : \/ i \in 1..Len(bq) /\ bq'[i] = bq[i]
                                   \/ i = Len(bq) + 1 /\ bq'[i] = m
<1>1. bq \in Seq(Mission)
  BY DEF Inv, TypeOK
<1> QED
  BY <1>1, SetOfAppend

LEMMA StepSetSize ==
  ASSUME Inv, TypeOK', NEW n \in 0..MaxSize, SetSize(n)
  PROVE  Rest'
<1>1. FreshInv' /\ JoinedInv' /\ NeverRefused' /\ OpenAreRegistered'
  BY ServerBounds DEF Inv, TypeOK, FreshInv, JoinedInv, NeverRefused,
         OpenAreRegistered, SetSize, AtLeast, AtMost, poolVars, baseVars,
         ioVars, connVars
<1>2. PoolInv' /\ PickedInv'
  BY ServerBounds DEF Inv, TypeOK, PoolInv, PickedInv, FreshInv, SetSize,
         AtLeast, AtMost, poolVars, baseVars, ioVars, connVars
<1>3. QueuedInv' /\ SetupInv' /\ MissionInv' /\ NoGhosts'
  BY ServerBounds DEF Inv, TypeOK, QueuedInv, SetupInv, MissionInv, NoGhosts,
         FreshInv, SetSize, AtLeast, AtMost, poolVars, baseVars, ioVars,
         connVars
<1> QED
  BY <1>1, <1>2, <1>3 DEF Rest

LEMMA StepStart ==
  ASSUME Inv, TypeOK', Start
  PROVE  Rest'
<1>1. FreshInv' /\ JoinedInv' /\ NeverRefused' /\ OpenAreRegistered'
  BY ServerBounds DEF Inv, TypeOK, FreshInv, JoinedInv, NeverRefused,
         OpenAreRegistered, Start, PoolStart, Listen, poolVars, baseVars,
         ioVars, connVars
<1>2. PoolInv' /\ PickedInv'
  BY ServerBounds DEF Inv, TypeOK, PoolInv, PickedInv, FreshInv, Start,
         PoolStart, Listen, poolVars, baseVars, ioVars, connVars
<1>3. QueuedInv' /\ SetupInv' /\ MissionInv' /\ NoGhosts'
  BY ServerBounds DEF Inv, TypeOK, QueuedInv, SetupInv, MissionInv, NoGhosts,
         FreshInv, Start, PoolStart, Listen, poolVars, baseVars, ioVars,
         connVars
<1> QED
  BY <1>1, <1>2, <1>3 DEF Rest

LEMMA StepClose ==
  ASSUME Inv, TypeOK', NEW byOwner \in BOOLEAN, Close(byOwner)
  PROVE  Rest'
<1>1. FreshInv' /\ JoinedInv' /\ NeverRefused' /\ OpenAreRegistered'
  BY ServerBounds DEF Inv, TypeOK, FreshInv, JoinedInv, NeverRefused,
         OpenAreRegistered, Close, poolVars, baseVars, ioVars, connVars
<1>2. PoolInv' /\ PickedInv'
  BY ServerBounds DEF Inv, TypeOK, PoolInv, PickedInv, FreshInv, Close,
         poolVars, baseVars, ioVars, connVars
<1>3. QueuedInv' /\ SetupInv' /\ MissionInv' /\ NoGhosts'
  BY ServerBounds DEF Inv, TypeOK, QueuedInv, SetupInv, MissionInv, NoGhosts,
         FreshInv, Close, poolVars, baseVars, ioVars, connVars
<1> QED
  BY <1>1, <1>2, <1>3 DEF Rest

LEMMA StepJoinBase ==
  ASSUME Inv, TypeOK', JoinBase
  PROVE  Rest'
<1>1. PoolInv'
  BY DEF Inv, PoolInv, JoinBase, baseVars, TypeOK
<1>2. FreshInv' /\ JoinedInv' /\ NeverRefused' /\ OpenAreRegistered'
  BY ServerBounds DEF Inv, TypeOK, FreshInv, JoinedInv, NeverRefused,
         OpenAreRegistered, JoinBase, poolVars, baseVars, ioVars, connVars
<1>3. PickedInv'
  BY ServerBounds DEF Inv, TypeOK, PickedInv, FreshInv, JoinBase, poolVars,
         baseVars, ioVars, connVars
<1>4. QueuedInv' /\ SetupInv' /\ MissionInv' /\ NoGhosts'
  BY ServerBounds DEF Inv, TypeOK, QueuedInv, SetupInv, MissionInv, NoGhosts,
         FreshInv, JoinBase, poolVars, baseVars, ioVars, connVars
<1> QED
  BY <1>1, <1>2, <1>3, <1>4 DEF Rest

LEMMA StepJoinPool ==
  ASSUME Inv, TypeOK', JoinPool
  PROVE  Rest'
<1>1. FreshInv' /\ JoinedInv' /\ NeverRefused' /\ OpenAreRegistered'
  BY ServerBounds DEF Inv, TypeOK, FreshInv, JoinedInv, NeverRefused,
         OpenAreRegistered, JoinPool, poolVars, baseVars, ioVars, connVars
<1>2. PoolInv' /\ PickedInv'
  BY ServerBounds DEF Inv, TypeOK, PoolInv, PickedInv, FreshInv, JoinPool,
         poolVars, baseVars, ioVars, connVars
<1>3. QueuedInv' /\ SetupInv' /\ MissionInv' /\ NoGhosts'
  BY ServerBounds DEF Inv, TypeOK, QueuedInv, SetupInv, MissionInv, NoGhosts,
         FreshInv, JoinPool, poolVars, baseVars, ioVars, connVars
<1> QED
  BY <1>1, <1>2, <1>3 DEF Rest

LEMMA StepDestroy ==
  ASSUME Inv, TypeOK', Destroy
  PROVE  Rest'
<1>1. SetupInv'
  BY DEF Inv, SetupInv, JoinedInv, Destroy, UseDeadLoop, ioVars, connVars
<1>2. FreshInv' /\ JoinedInv' /\ NeverRefused' /\ OpenAreRegistered'
  BY ServerBounds DEF Inv, TypeOK, FreshInv, JoinedInv, NeverRefused,
         OpenAreRegistered, Destroy, UseDeadLoop, poolVars, baseVars, ioVars,
         connVars
<1>3. PoolInv' /\ PickedInv'
  BY ServerBounds DEF Inv, TypeOK, PoolInv, PickedInv, FreshInv, Destroy,
         UseDeadLoop, poolVars, baseVars, ioVars, connVars
<1>4. QueuedInv' /\ MissionInv' /\ NoGhosts'
  BY ServerBounds DEF Inv, TypeOK, QueuedInv, MissionInv, NoGhosts, FreshInv,
         Destroy, UseDeadLoop, poolVars, baseVars, ioVars, connVars
<1> QED
  BY <1>1, <1>2, <1>3, <1>4 DEF Rest

LEMMA StepPeerConnect ==
  ASSUME Inv, TypeOK', NEW c \in Conns, PeerConnect(c)
  PROVE  Rest'
<1>1. FreshInv' /\ JoinedInv' /\ NeverRefused' /\ OpenAreRegistered'
  BY ServerBounds DEF Inv, TypeOK, FreshInv, JoinedInv, NeverRefused,
         OpenAreRegistered, PeerConnect, poolVars, baseVars, ioVars, connVars
<1>2. PoolInv' /\ PickedInv'
  BY ServerBounds DEF Inv, TypeOK, PoolInv, PickedInv, FreshInv, PeerConnect,
         poolVars, baseVars, ioVars, connVars
<1>3. QueuedInv' /\ SetupInv' /\ MissionInv' /\ NoGhosts'
  BY ServerBounds DEF Inv, TypeOK, QueuedInv, SetupInv, MissionInv, NoGhosts,
         FreshInv, PeerConnect, poolVars, baseVars, ioVars, connVars
<1> QED
  BY <1>1, <1>2, <1>3 DEF Rest

LEMMA StepAcceptBegin ==
  ASSUME Inv, TypeOK', AcceptBegin
  PROVE  Rest'
<1>1. FreshInv' /\ JoinedInv' /\ NeverRefused' /\ OpenAreRegistered'
  BY ServerBounds DEF Inv, TypeOK, FreshInv, JoinedInv, NeverRefused,
         OpenAreRegistered, AcceptBegin, poolVars, baseVars, ioVars, connVars
<1>2. PoolInv' /\ PickedInv'
  BY ServerBounds DEF Inv, TypeOK, PoolInv, PickedInv, FreshInv, AcceptBegin,
         poolVars, baseVars, ioVars, connVars
<1>3. QueuedInv' /\ SetupInv' /\ MissionInv' /\ NoGhosts'
  BY ServerBounds DEF Inv, TypeOK, QueuedInv, SetupInv, MissionInv, NoGhosts,
         FreshInv, AcceptBegin, poolVars, baseVars, ioVars, connVars
<1> QED
  BY <1>1, <1>2, <1>3 DEF Rest

LEMMA StepAcceptOne ==
  ASSUME Inv, TypeOK', AcceptOne
  PROVE  Rest'
<1>1. running
  BY DEF Inv, PoolInv, AcceptOne
<1>2. NeverRefused'
  BY <1>1 DEF Inv, NeverRefused, AcceptOne, TypeOK
<1>3. PickedInv'
  <2>1. pos % num \in 0..(num - 1) /\ num <= maxnum
    BY <1>1, Remainder, ServerBounds DEF Inv, PoolInv, TypeOK, Loops
  <2>2. pos % num \in Loops /\ pos % num < maxnum
    <3>1. PICK r : r = pos % num
      OBVIOUS
    <3>2. num \in Nat /\ maxnum \in Nat /\ maxnum <= MaxSize
      BY ServerBounds DEF Inv, TypeOK
    <3> QED
      BY <2>1, <3>1, <3>2, ServerBounds DEF Loops
  <2> QED
    BY <1>1, <2>2 DEF Inv, PickedInv, AcceptOne, Backlog, TypeOK
<1>4. FreshInv' /\ JoinedInv' /\ OpenAreRegistered'
  BY ServerBounds DEF Inv, TypeOK, FreshInv, JoinedInv, OpenAreRegistered,
         AcceptOne, Backlog, poolVars, baseVars, ioVars, connVars
<1>5. PoolInv'
  BY ServerBounds DEF Inv, TypeOK, PoolInv, FreshInv, AcceptOne, Backlog,
         poolVars, baseVars, ioVars, connVars
<1>6. QueuedInv' /\ SetupInv' /\ MissionInv' /\ NoGhosts'
  BY ServerBounds DEF Inv, TypeOK, QueuedInv, SetupInv, MissionInv, NoGhosts,
         FreshInv, AcceptOne, Backlog, poolVars, baseVars, ioVars, connVars
<1> QED
  BY <1>2, <1>3, <1>4, <1>5, <1>6 DEF Rest

LEMMA StepHandOver ==
  ASSUME Inv, TypeOK', HandOver
  PROVE  Rest'
<1>1. /\ picked \in Loops /\ picked < maxnum /\ fd \in Conns
      /\ cst[fd] = "accepted" /\ owner[fd] = picked
  BY DEF Inv, PickedInv, HandOver
<1>2. /\ iq' = [iq EXCEPT ![picked] = Append(iq[picked], fd)]
      /\ cst' = [cst EXCEPT ![fd] = "queued"]
      /\ owner' = owner /\ ipc' = ipc /\ cur' = cur /\ bq' = bq
      /\ tcpst' = tcpst
      /\ quit' = quit /\ maxnum' = maxnum /\ num' = num /\ running' = running
      /\ listening' = listening /\ bpc = "picked" /\ bpc' = "accept"
  BY DEF HandOver
<1>3. PoolInv'
  BY <1>1, <1>2 DEF Inv, PoolInv, TypeOK
<1>4. QueuedInv'
  <2>1. \A l \in Loops : l # picked => iq'[l] = iq[l]
    BY <1>2 DEF Inv, TypeOK
  <2>2. /\ iq'[picked] = Append(iq[picked], fd) /\ iq[picked] \in Seq(Conns)
    BY <1>1, <1>2 DEF Inv, TypeOK
  <2>3. \A c \in Conns : cst'[c] = IF c = fd THEN "queued" ELSE cst[c]
    BY <1>2 DEF Inv, TypeOK
  <2>4. \A l \in Loops : \A i \in 1..Len(iq[l]) :
          iq[l][i] # fd /\ iq[l][i] \in Conns
    <3>1. \A l \in Loops : iq[l] \in Seq(Conns)
      BY DEF Inv, TypeOK
    <3>2. \A l \in Loops : \A i \in 1..Len(iq[l]) : iq[l][i] \in Conns
      BY <3>1
    <3> QED
      BY <1>1, <3>2 DEF Inv, QueuedInv
  <2>5. \A i \in 1..Len(iq'[picked]) :
           \/ i \in 1..Len(iq[picked]) /\ iq'[picked][i] = iq[picked][i]
           \/ i = Len(iq[picked]) + 1 /\ iq'[picked][i] = fd
    BY <1>1, <2>2
  <2>6. ASSUME NEW l \in Loops
        PROVE  /\ \A i \in 1..Len(iq'[l]) :
                    cst'[iq'[l][i]] = "queued" /\ owner'[iq'[l][i]] = l
               /\ \A i, j \in 1..Len(iq'[l]) : i # j => iq'[l][i] # iq'[l][j]
    <3>1. CASE l = picked
      BY <1>1, <1>2, <2>3, <2>4, <2>5, <3>1 DEF Inv, QueuedInv
    <3>2. CASE l # picked
      BY <1>2, <2>1, <2>3, <2>4, <3>2 DEF Inv, QueuedInv
    <3> QED BY <3>1, <3>2
  <2> QED
    BY <2>6 DEF QueuedInv
<1>5. \A c \in Conns : cst'[c] = IF c = fd THEN "queued" ELSE cst[c]
  BY <1>2 DEF Inv, TypeOK
<1>6. SetupInv'
  BY <1>1, <1>2, <1>5 DEF Inv, SetupInv
<1>7. MissionInv'
  BY <1>1, <1>2, <1>5 DEF Inv, MissionInv
<1>8. FreshInv' /\ JoinedInv' /\ NeverRefused' /\ OpenAreRegistered'
  BY ServerBounds DEF Inv, TypeOK, FreshInv, JoinedInv, NeverRefused,
         OpenAreRegistered, HandOver, poolVars, baseVars, ioVars, connVars
<1>9. PickedInv'
  BY ServerBounds DEF Inv, TypeOK, PickedInv, FreshInv, HandOver, poolVars,
         baseVars, ioVars, connVars
<1>10. NoGhosts'
  BY ServerBounds DEF Inv, TypeOK, NoGhosts, FreshInv, HandOver, poolVars,
         baseVars, ioVars, connVars
<1> QED
  BY <1>3, <1>4, <1>6, <1>7, <1>8, <1>9, <1>10 DEF Rest

LEMMA StepAcceptEnd ==
  ASSUME Inv, TypeOK', AcceptEnd
  PROVE  Rest'
<1>1. FreshInv' /\ JoinedInv' /\ NeverRefused' /\ OpenAreRegistered'
  BY ServerBounds DEF Inv, TypeOK, FreshInv, JoinedInv, NeverRefused,
         OpenAreRegistered, AcceptEnd, poolVars, baseVars, ioVars, connVars
<1>2. PoolInv' /\ PickedInv'
  BY ServerBounds DEF Inv, TypeOK, PoolInv, PickedInv, FreshInv, AcceptEnd,
         poolVars, baseVars, ioVars, connVars
<1>3. QueuedInv' /\ SetupInv' /\ MissionInv' /\ NoGhosts'
  BY ServerBounds DEF Inv, TypeOK, QueuedInv, SetupInv, MissionInv, NoGhosts,
         FreshInv, AcceptEnd, poolVars, baseVars, ioVars, connVars
<1> QED
  BY <1>1, <1>2, <1>3 DEF Rest

LEMMA StepBaseListen ==
  ASSUME Inv, TypeOK', BaseListen
  PROVE  Rest'
<1>1. /\ bq # <<>> /\ Head(bq).op = "listen" /\ bq' = Tail(bq)
      /\ tcpst' = tcpst /\ bpc' = bpc /\ cst' = cst
  BY DEF BaseListen, NextMission, connVars
<1>2. SetOf(bq) = SetOf(bq') \cup {Head(bq)}
  BY <1>1, HeadMission
<1>3. NoGhosts'
  BY <1>1, <1>2 DEF Inv, NoGhosts
<1>4. FreshInv' /\ JoinedInv' /\ NeverRefused' /\ OpenAreRegistered'
  BY ServerBounds DEF Inv, TypeOK, FreshInv, JoinedInv, NeverRefused,
         OpenAreRegistered, BaseListen, NextMission, poolVars, baseVars,
         ioVars, connVars
<1>5. PoolInv' /\ PickedInv'
  BY ServerBounds DEF Inv, TypeOK, PoolInv, PickedInv, FreshInv, BaseListen,
         NextMission, poolVars, baseVars, ioVars, connVars
<1>6. QueuedInv' /\ SetupInv' /\ MissionInv'
  BY ServerBounds DEF Inv, TypeOK, QueuedInv, SetupInv, MissionInv, FreshInv,
         BaseListen, NextMission, poolVars, baseVars, ioVars, connVars
<1> QED
  BY <1>3, <1>4, <1>5, <1>6 DEF Rest

LEMMA StepBaseInsert ==
  ASSUME Inv, TypeOK', BaseInsert
  PROVE  Rest'
<1> DEFINE k == Head(bq).c
<1>1. /\ bq # <<>> /\ Head(bq).op = "insert" /\ bq' = Tail(bq)
      /\ tcpst' = tcpst \cup {k}
      /\ cst' = cst /\ owner' = owner /\ cur' = cur /\ main' = main
  BY DEF BaseInsert, NextMission
<1>2. PICK l \in Loops : /\ ipc[l] = "wait" /\ cur[l] = k
                         /\ cst[k] = "made"
                         /\ \A m \in Loops : cur[m] = k <=> m = l
  BY <1>1, HeadMission
<1>3. \A m \in Loops : ipc'[m] = IF m = l THEN "setup" ELSE ipc[m]
  BY <1>2 DEF BaseInsert
<1>4. k \in Conns
  BY <1>1, HeadMission
<1> HIDE DEF k
<1>5. JoinedInv'
  BY <1>1, <1>2, <1>3 DEF Inv, JoinedInv
<1>9. PoolInv'
  <2>1. /\ \A i \in 1..Len(bq') : i + 1 \in 1..Len(bq) /\ bq'[i] = bq[i + 1]
        /\ bpc' = bpc /\ running' = running /\ num' = num /\ maxnum' = maxnum
        /\ listening' = listening /\ quit' = quit /\ iq' = iq
    BY <1>1, HeadMission DEF BaseInsert, poolVars
  <2> QED
    BY <1>2, <1>3, <2>1 DEF Inv, PoolInv
<1>6. SetupInv'
  BY <1>1, <1>2, <1>3, <1>4 DEF Inv, SetupInv
<1>7. MissionInv'
  <2>1. /\ bq[1].op = "insert" /\ bq[1].c = k /\ 1 \in 1..Len(bq)
        /\ \A i \in 1..Len(bq') :
             i + 1 \in 1..Len(bq) /\ bq'[i] = bq[i + 1] /\ i + 1 # 1
    BY <1>1, HeadMission DEF k
  <2>2. \A i \in 1..Len(bq') : bq'[i].op = "insert" => bq'[i].c # k
    BY <2>1 DEF Inv, MissionInv
  <2>3. \A i \in 1..Len(bq') : bq'[i].op = "insert" =>
          \E m \in Loops : ipc'[m] = "wait" /\ cur'[m] = bq'[i].c
    BY <1>1, <1>2, <1>3, <2>1, <2>2 DEF Inv, MissionInv
  <2>4. \A i, j \in 1..Len(bq') : i # j => i + 1 # j + 1
    OBVIOUS
  <2> QED
    BY <1>1, <2>1, <2>3, <2>4 DEF Inv, MissionInv
<1>8. NoGhosts'
  <2>1. SetOf(bq) = SetOf(bq') \cup {Head(bq)} /\ Head(bq).op = "insert"
    BY <1>1, HeadMission
  <2>2. \A c \in tcpst' : cst'[c] = "closed" => c \in tcpst
    BY <1>1, <1>2
  <2>3. bpc' = bpc
    BY DEF BaseInsert
  <2> QED
    BY <1>1, <2>1, <2>2, <2>3 DEF Inv, NoGhosts
<1>10. FreshInv' /\ NeverRefused' /\ OpenAreRegistered'
  BY ServerBounds DEF Inv, TypeOK, FreshInv, NeverRefused, OpenAreRegistered,
         BaseInsert, NextMission, poolVars, baseVars, ioVars, connVars
<1>11. PickedInv'
  BY ServerBounds DEF Inv, TypeOK, PickedInv, FreshInv, BaseInsert,
         NextMission, poolVars, baseVars, ioVars, connVars
<1>12. QueuedInv'
  BY ServerBounds DEF Inv, TypeOK, QueuedInv, FreshInv, BaseInsert,
         NextMission, poolVars, baseVars, ioVars, connVars
<1> QED
  BY <1>5, <1>9, <1>6, <1>7, <1>8, <1>10, <1>11, <1>12 DEF Rest

LEMMA StepBaseErase ==
  ASSUME Inv, TypeOK', BaseErase
  PROVE  Rest'
<1>1. /\ bq # <<>> /\ Head(bq).op = "erase" /\ bq' = Tail(bq)
      /\ tcpst' = tcpst \ {Head(bq).c} /\ bpc' = bpc
      /\ cst' = cst /\ owner' = owner /\ cur' = cur /\ ipc' = ipc
  BY DEF BaseErase, NextMission, ioVars
<1>2. cst[Head(bq).c] = "closed" /\ SetOf(bq) = SetOf(bq') \cup {Head(bq)}
  BY <1>1, HeadMission
<1>3. SetupInv' /\ OpenAreRegistered'
  BY <1>1, <1>2 DEF Inv, SetupInv, OpenAreRegistered
<1>4. NoGhosts'
  BY <1>1, <1>2 DEF Inv, NoGhosts
<1>5. FreshInv' /\ JoinedInv' /\ NeverRefused'
  BY ServerBounds DEF Inv, TypeOK, FreshInv, JoinedInv, NeverRefused,
         BaseErase, NextMission, poolVars, baseVars, ioVars, connVars
<1>6. PoolInv' /\ PickedInv'
  BY ServerBounds DEF Inv, TypeOK, PoolInv, PickedInv, FreshInv, BaseErase,
         NextMission, poolVars, baseVars, ioVars, connVars
<1>7. QueuedInv' /\ MissionInv'
  BY ServerBounds DEF Inv, TypeOK, QueuedInv, MissionInv, FreshInv, BaseErase,
         NextMission, poolVars, baseVars, ioVars, connVars
<1> QED
  BY <1>3, <1>4, <1>5, <1>6, <1>7 DEF Rest

LEMMA StepBaseLeave ==
  ASSUME Inv, TypeOK', BaseLeave
  PROVE  Rest'
<1>1. FreshInv' /\ JoinedInv' /\ NeverRefused' /\ OpenAreRegistered'
  BY ServerBounds DEF Inv, TypeOK, FreshInv, JoinedInv, NeverRefused,
         OpenAreRegistered, BaseLeave, poolVars, baseVars, ioVars, connVars
<1>2. PoolInv' /\ PickedInv'
  BY ServerBounds DEF Inv, TypeOK, PoolInv, PickedInv, FreshInv, BaseLeave,
         poolVars, baseVars, ioVars, connVars
<1>3. QueuedInv' /\ SetupInv' /\ MissionInv' /\ NoGhosts'
  BY ServerBounds DEF Inv, TypeOK, QueuedInv, SetupInv, MissionInv, NoGhosts,
         FreshInv, BaseLeave, poolVars, baseVars, ioVars, connVars
<1> QED
  BY <1>1, <1>2, <1>3 DEF Rest

LEMMA StepIoTake ==
  ASSUME Inv, TypeOK', NEW l \in Loops, IoTake(l), bpc # "dead"
  PROVE  Rest'
<1> DEFINE k == Head(iq[l])
           m == [op |-> "insert", c |-> k]
<1>0. ipc[l] = "idle"
  BY DEF IoTake
<1>1. iq[l] \in Seq(Conns) /\ iq[l] # <<>>
  BY DEF Inv, TypeOK, IoTake
<1>2. /\ k = iq[l][1] /\ 1 \in 1..Len(iq[l]) /\ Len(iq[l]) \in Nat
      /\ Len(Tail(iq[l])) = Len(iq[l]) - 1
      /\ \A i \in 1..Len(Tail(iq[l])) :
           i + 1 \in 1..Len(iq[l]) /\ Tail(iq[l])[i] = iq[l][i + 1]
  BY <1>1, TailMembers
<1>3. k \in Conns /\ cst[k] = "queued" /\ owner[k] = l
  BY <1>2, QueueMembers
<1>4. /\ \A c \in Conns : cst'[c] = IF c = k THEN "made" ELSE cst[c]
      /\ \A n \in Loops : ipc'[n] = IF n = l THEN "wait" ELSE ipc[n]
      /\ \A n \in Loops : cur'[n] = IF n = l THEN k ELSE cur[n]
      /\ \A n \in Loops : iq'[n] = IF n = l THEN Tail(iq[l]) ELSE iq[n]
      /\ bq' = Append(bq, m)
      /\ owner' = owner /\ tcpst' = tcpst /\ bpc' = bpc
      /\ fd' = fd /\ picked' = picked /\ maxnum' = maxnum /\ num' = num
      /\ running' = running /\ listening' = listening /\ quit' = quit
  BY DEF Inv, TypeOK, IoTake, poolVars
<1>5. m \in Mission /\ m.op = "insert" /\ m.c = k
  BY <1>3, MissionMember
<1>6. /\ SetOf(bq') = SetOf(bq) \cup {m}
      /\ Len(bq') = Len(bq) + 1 /\ Len(bq) \in Nat
      /\ \A i \in 1..Len(bq') : \/ i \in 1..Len(bq) /\ bq'[i] = bq[i]
                                \/ i = Len(bq) + 1 /\ bq'[i] = m
  BY <1>4, <1>5, AppendedMission
<1> HIDE DEF k, m
<1>7. PoolInv'
  BY <1>0, <1>1, <1>4, <1>5, <1>6 DEF Inv, PoolInv
<1>8. PickedInv' /\ SetupInv'
  BY <1>0, <1>3, <1>4 DEF Inv, PickedInv, SetupInv
<1>9. QueuedInv'
  <2>1. \A n \in Loops : \A i \in 1..Len(iq'[n]) :
          /\ iq'[n][i] \in Conns /\ iq'[n][i] # k
          /\ cst[iq'[n][i]] = "queued" /\ owner[iq'[n][i]] = n
    <3> SUFFICES ASSUME NEW n \in Loops, NEW i \in 1..Len(iq'[n])
                 PROVE  /\ iq'[n][i] \in Conns /\ iq'[n][i] # k
                        /\ cst[iq'[n][i]] = "queued" /\ owner[iq'[n][i]] = n
      OBVIOUS
    <3>1. CASE n = l
      <4>0. iq'[n] = Tail(iq[l])
        BY <1>4, <3>1
      <4>1. i + 1 \in 1..Len(iq[l]) /\ iq'[n][i] = iq[l][i + 1] /\ i + 1 # 1
        BY <1>2, <4>0
      <4>2. iq[l][i + 1] # iq[l][1]
        BY <1>2, <4>1 DEF Inv, QueuedInv
      <4> QED
        BY <1>2, <3>1, <4>1, <4>2, QueueMembers
    <3>2. CASE n # l
      <4>1. iq'[n] = iq[n]
        BY <1>4, <3>2
      <4> QED
        BY <1>3, <3>2, <4>1, QueueMembers
    <3> QED
      BY <3>1, <3>2
  <2>2. \A n \in Loops : \A i, j \in 1..Len(iq'[n]) :
          i # j => iq'[n][i] # iq'[n][j]
    <3> SUFFICES ASSUME NEW n \in Loops, NEW i \in 1..Len(iq'[n]),
                        NEW j \in 1..Len(iq'[n]), i # j
                 PROVE  iq'[n][i] # iq'[n][j]
      OBVIOUS
    <3>1. CASE n = l
      <4>0. iq'[n] = Tail(iq[l])
        BY <1>4, <3>1
      <4>1. /\ i + 1 \in 1..Len(iq[l]) /\ iq'[n][i] = iq[l][i + 1]
            /\ j + 1 \in 1..Len(iq[l]) /\ iq'[n][j] = iq[l][j + 1]
            /\ i + 1 # j + 1
        BY <1>2, <4>0
      <4> QED
        BY <4>1 DEF Inv, QueuedInv
    <3>2. CASE n # l
      BY <1>4, <3>2 DEF Inv, QueuedInv
    <3> QED
      BY <3>1, <3>2
  <2> QED
    BY <1>4, <2>1, <2>2 DEF QueuedInv
<1>10. MissionInv'
  <2>1. \A i \in 1..Len(bq) : bq[i].op = "insert" => bq[i].c # k
    BY <1>3 DEF Inv, MissionInv, SetupInv
  <2>2. \A i \in 1..Len(bq) : bq[i].op = "insert" =>
          \E n \in Loops : ipc'[n] = "wait" /\ cur'[n] = bq[i].c
    BY <1>0, <1>4 DEF Inv, MissionInv
  <2>3. \E n \in Loops : ipc'[n] = "wait" /\ cur'[n] = k
    BY <1>4
  <2> QED
    BY <1>3, <1>4, <1>5, <1>6, <2>1, <2>2, <2>3 DEF Inv, MissionInv
<1>11. NoGhosts'
  BY <1>3, <1>4, <1>6 DEF Inv, NoGhosts, TypeOK
<1>12. FreshInv' /\ JoinedInv' /\ NeverRefused' /\ OpenAreRegistered'
  BY ServerBounds DEF Inv, TypeOK, FreshInv, JoinedInv, NeverRefused,
         OpenAreRegistered, IoTake, poolVars, baseVars, ioVars, connVars
<1> QED
  BY <1>7, <1>8, <1>9, <1>10, <1>11, <1>12 DEF Rest

LEMMA StepIoActivate ==
  ASSUME Inv, TypeOK', NEW l \in Loops, IoActivate(l)
  PROVE  Rest'
<1> DEFINE k == cur[l]
<1>1. /\ k \in Conns /\ cst[k] = "made" /\ owner[k] = l /\ k \in tcpst
      /\ ipc[l] = "setup"
  BY DEF Inv, SetupInv, IoActivate
<1>2. /\ \A c \in Conns : cst'[c] = IF c = k THEN "open" ELSE cst[c]
      /\ \A m \in Loops : ipc'[m] = IF m = l THEN "idle" ELSE ipc[m]
      /\ \A m \in Loops : cur'[m] = IF m = l THEN 0 ELSE cur[m]
      /\ iq' = iq /\ owner' = owner /\ tcpst' = tcpst /\ bq' = bq /\ bpc' = bpc
      /\ fd' = fd /\ picked' = picked /\ maxnum' = maxnum
  BY DEF Inv, TypeOK, IoActivate, poolVars, baseVars
<1> HIDE DEF k
<1>3. PickedInv'
  BY <1>1, <1>2 DEF Inv, PickedInv
<1>4. QueuedInv'
  BY <1>1, <1>2, QueueMembers DEF Inv, QueuedInv
<1>5. MissionInv'
  BY <1>1, <1>2 DEF Inv, MissionInv, k
<1>6. OpenAreRegistered'
  BY <1>1, <1>2 DEF Inv, OpenAreRegistered
<1>7. FreshInv' /\ JoinedInv' /\ NeverRefused'
  BY ServerBounds DEF Inv, TypeOK, FreshInv, JoinedInv, NeverRefused,
         IoActivate, poolVars, baseVars, ioVars, connVars
<1>8. PoolInv'
  BY ServerBounds DEF Inv, TypeOK, PoolInv, FreshInv, IoActivate, poolVars,
         baseVars, ioVars, connVars
<1>9. SetupInv' /\ NoGhosts'
  BY ServerBounds DEF Inv, TypeOK, SetupInv, NoGhosts, FreshInv, IoActivate,
         poolVars, baseVars, ioVars, connVars
<1> QED
  BY <1>3, <1>4, <1>5, <1>6, <1>7, <1>8, <1>9 DEF Rest

LEMMA StepIoReject ==
  ASSUME Inv, TypeOK', NEW l \in Loops, IoReject(l), bpc # "dead"
  PROVE  Rest'
<1> DEFINE k == cur[l]
           m == [op |-> "erase", c |-> k]
<1>1. /\ k \in Conns /\ cst[k] = "made" /\ owner[k] = l /\ k \in tcpst
      /\ ipc[l] = "setup"
  BY DEF Inv, SetupInv, IoReject
<1>2. /\ \A c \in Conns : cst'[c] = IF c = k THEN "closed" ELSE cst[c]
      /\ \A n \in Loops : ipc'[n] = IF n = l THEN "idle" ELSE ipc[n]
      /\ \A n \in Loops : cur'[n] = IF n = l THEN 0 ELSE cur[n]
      /\ bq' = Append(bq, m)
      /\ iq' = iq /\ owner' = owner /\ tcpst' = tcpst /\ bpc' = bpc
      /\ fd' = fd /\ picked' = picked /\ maxnum' = maxnum /\ num' = num
      /\ running' = running /\ listening' = listening /\ quit' = quit
  BY DEF Inv, TypeOK, IoReject, TearDown, poolVars
<1>3. m \in Mission /\ m.op = "erase" /\ m.c = k
  BY <1>1, MissionMember
<1>4. /\ SetOf(bq') = SetOf(bq) \cup {m}
      /\ Len(bq') = Len(bq) + 1 /\ Len(bq) \in Nat
      /\ \A i \in 1..Len(bq') : \/ i \in 1..Len(bq) /\ bq'[i] = bq[i]
                                \/ i = Len(bq) + 1 /\ bq'[i] = m
  BY <1>2, <1>3, AppendedMission
<1> HIDE DEF k, m
<1>5. PoolInv'
  BY <1>1, <1>2, <1>3, <1>4 DEF Inv, PoolInv
<1>6. PickedInv' /\ QueuedInv'
  BY <1>1, <1>2, QueueMembers DEF Inv, PickedInv, QueuedInv
<1>7. MissionInv'
  BY <1>1, <1>2, <1>3, <1>4 DEF Inv, MissionInv, k
<1>8. NoGhosts'
  BY <1>1, <1>2, <1>4 DEF Inv, NoGhosts, TypeOK, m
<1>9. FreshInv' /\ JoinedInv' /\ NeverRefused' /\ OpenAreRegistered'
  BY ServerBounds DEF Inv, TypeOK, FreshInv, JoinedInv, NeverRefused,
         OpenAreRegistered, IoReject, TearDown, poolVars, baseVars, ioVars,
         connVars
<1>10. SetupInv'
  BY ServerBounds DEF Inv, TypeOK, SetupInv, FreshInv, IoReject, TearDown,
         poolVars, baseVars, ioVars, connVars
<1> QED
  BY <1>5, <1>6, <1>7, <1>8, <1>9, <1>10 DEF Rest

LEMMA StepIoClose ==
  ASSUME Inv, TypeOK', NEW k \in Conns, IoClose(k), bpc # "dead"
  PROVE  Rest'
<1> DEFINE m == [op |-> "erase", c |-> k]
<1>1. cst[k] = "open"
  BY DEF IoClose
<1>2. /\ \A c \in Conns : cst'[c] = IF c = k THEN "closed" ELSE cst[c]
      /\ bq' = Append(bq, m)
      /\ ipc' = ipc /\ cur' = cur
      /\ iq' = iq /\ owner' = owner /\ tcpst' = tcpst /\ bpc' = bpc
      /\ fd' = fd /\ picked' = picked /\ maxnum' = maxnum /\ num' = num
      /\ running' = running /\ listening' = listening /\ quit' = quit
  BY DEF Inv, TypeOK, IoClose, TearDown, poolVars, ioVars
<1>3. m \in Mission /\ m.op = "erase" /\ m.c = k
  BY <1>1, MissionMember
<1>4. /\ SetOf(bq') = SetOf(bq) \cup {m}
      /\ Len(bq') = Len(bq) + 1 /\ Len(bq) \in Nat
      /\ \A i \in 1..Len(bq') : \/ i \in 1..Len(bq) /\ bq'[i] = bq[i]
                                \/ i = Len(bq) + 1 /\ bq'[i] = m
  BY <1>2, <1>3, AppendedMission
<1> HIDE DEF m
<1>5. PoolInv'
  BY <1>1, <1>2, <1>3, <1>4 DEF Inv, PoolInv
<1>6. PickedInv' /\ QueuedInv' /\ SetupInv'
  BY <1>1, <1>2, QueueMembers DEF Inv, PickedInv, QueuedInv, SetupInv
<1>7. MissionInv'
  BY <1>1, <1>2, <1>3, <1>4 DEF Inv, MissionInv, SetupInv
<1>8. NoGhosts'
  BY <1>1, <1>2, <1>4 DEF Inv, NoGhosts, TypeOK, m
<1>9. FreshInv' /\ JoinedInv' /\ NeverRefused' /\ OpenAreRegistered'
  BY ServerBounds DEF Inv, TypeOK, FreshInv, JoinedInv, NeverRefused,
         OpenAreRegistered, IoClose, TearDown, poolVars, baseVars, ioVars,
         connVars
<1> QED
  BY <1>5, <1>6, <1>7, <1>8, <1>9 DEF Rest

LEMMA StepIoLeave ==
  ASSUME Inv, TypeOK', NEW l \in Loops, IoLeave(l)
  PROVE  Rest'
<1>1. /\ ipc[l] = "idle" /\ quit[l] /\ bpc = "dead"
      /\ \A c \in Conns :
           cst'[c] = IF c \in SetOf(iq[l]) THEN "lost" ELSE cst[c]
      /\ \A n \in Loops : ipc'[n] = IF n = l THEN "dead" ELSE ipc[n]
      /\ \A n \in Loops : iq'[n] = IF n = l THEN <<>> ELSE iq[n]
      /\ cur' = cur /\ bq' = bq /\ owner' = owner /\ tcpst' = tcpst
      /\ bpc' = bpc
  BY DEF Inv, TypeOK, IoLeave, PoolInv, baseVars
<1>2. \A c \in SetOf(iq[l]) : c \in Conns /\ cst[c] = "queued" /\ owner[c] = l
  BY QueueMembers DEF SetOf
<1>3. PickedInv'
  BY <1>1 DEF PickedInv
<1>4. QueuedInv'
  <2>1. \A n \in Loops : \A i \in 1..Len(iq'[n]) :
          /\ iq'[n][i] \in Conns /\ iq'[n][i] \notin SetOf(iq[l])
          /\ cst[iq'[n][i]] = "queued" /\ owner[iq'[n][i]] = n
    BY <1>1, <1>2, QueueMembers
  <2>2. \A n \in Loops : \A i, j \in 1..Len(iq'[n]) :
          i # j => iq'[n][i] # iq'[n][j]
    BY <1>1 DEF Inv, QueuedInv
  <2> QED
    BY <1>1, <2>1, <2>2 DEF QueuedInv
<1>5. SetupInv'
  BY <1>1, <1>2 DEF Inv, SetupInv
<1>6. MissionInv'
  BY <1>1, <1>2 DEF Inv, MissionInv
<1>7. FreshInv' /\ JoinedInv' /\ NeverRefused' /\ OpenAreRegistered'
  BY ServerBounds DEF Inv, TypeOK, FreshInv, JoinedInv, NeverRefused,
         OpenAreRegistered, IoLeave, poolVars, baseVars, ioVars, connVars
<1>8. PoolInv'
  BY ServerBounds DEF Inv, TypeOK, PoolInv, FreshInv, IoLeave, poolVars,
         baseVars, ioVars, connVars
<1>9. NoGhosts'
  BY ServerBounds DEF Inv, TypeOK, NoGhosts, FreshInv, IoLeave, poolVars,
         baseVars, ioVars, connVars
<1> QED
  BY <1>3, <1>4, <1>5, <1>6, <1>7, <1>8, <1>9 DEF Rest


(* A step that uses a dead loop, or none, changes nothing else.             *)
LEMMA StepStutter ==
  ASSUME Inv, UseDeadLoop \/ UNCHANGED vars
  PROVE  Rest'
<1>1. /\ UNCHANGED <<main, running, num, maxnum, listening, bpc, bquit, bq, fd,
                     picked>>
      /\ UNCHANGED <<ipc, quit, iq, cur, cst, owner, tcpst>>
  BY DEF UseDeadLoop, vars, poolVars, baseVars, ioVars, connVars
<1>2. FreshInv' /\ PoolInv' /\ JoinedInv' /\ PickedInv'
  BY <1>1 DEF Inv, FreshInv, PoolInv, JoinedInv, PickedInv
<1>3. QueuedInv' /\ SetupInv' /\ MissionInv'
  BY <1>1 DEF Inv, QueuedInv, SetupInv, MissionInv
<1>4. NeverRefused' /\ OpenAreRegistered' /\ NoGhosts'
  BY <1>1 DEF Inv, NeverRefused, OpenAreRegistered, NoGhosts
<1> QED
  BY <1>2, <1>3, <1>4 DEF Rest

-----------------------------------------------------------------------------
(* The invariant holds in every reachable state.                            *)

LEMMA InvInit == Init => Inv
<1> SUFFICES ASSUME Init PROVE Inv OBVIOUS
<1>1. TypeOK
  BY TypeInit
<1>2. Len(bq) = 0 /\ \A l \in Loops : Len(iq[l]) = 0
  BY DEF Init
<1>3. FreshInv /\ PoolInv /\ JoinedInv /\ PickedInv
  BY <1>1, <1>2, ServerBounds
     DEF Init, FreshInv, PoolInv, JoinedInv, PickedInv, Loops
<1>4. QueuedInv /\ SetupInv /\ MissionInv
  BY <1>2 DEF Init, QueuedInv, SetupInv, MissionInv
<1>5. NeverRefused /\ OpenAreRegistered /\ NoGhosts
  BY DEF Init, NeverRefused, OpenAreRegistered, NoGhosts
<1> QED
  BY <1>1, <1>3, <1>4, <1>5 DEF Inv

LEMMA InvStep == Inv /\ [Next]_vars => Inv'
<1> SUFFICES ASSUME Inv, [Next]_vars PROVE Inv' OBVIOUS
<1>1. TypeOK'
  BY TypeStep DEF Inv
<1>2. CASE UNCHANGED vars
  BY <1>1, <1>2, StepStutter DEF Inv, Rest
<1>3. ASSUME \/ \E n \in 0..MaxSize : SetSize(n)
             \/ Start
             \/ \E byOwner \in BOOLEAN : Close(byOwner)
             \/ MainStep \/ CloseAgain
      PROVE  Rest'
  BY <1>1, <1>3, StepSetSize, StepStart, StepClose, StepJoinBase, StepJoinPool,
     StepDestroy, StepStutter DEF MainStep, CloseAgain
<1>4. ASSUME BaseStep \/ AcceptOne \/ BaseMission \/ BaseLeave
      PROVE  Rest'
  BY <1>1, <1>4, StepAcceptBegin, StepHandOver, StepAcceptEnd, StepAcceptOne,
     StepBaseListen, StepBaseInsert, StepBaseErase, StepBaseLeave
     DEF BaseStep, BaseMission
<1>5. ASSUME NEW c \in Conns, PeerConnect(c) \/ IoClose(c) PROVE Rest'
  <2>1. CASE bpc = "dead" /\ IoClose(c)
    BY <2>1, StepStutter DEF IoClose
  <2> QED
    BY <1>1, <1>5, <2>1, StepPeerConnect, StepIoClose
<1>6. ASSUME NEW l \in Loops, IoStep(l) \/ IoReject(l) \/ IoLeaveExpiring(l)
      PROVE  Rest'
  <2>1. CASE bpc = "dead" /\ IoTake(l)
    BY <2>1, StepStutter DEF IoTake
  <2>2. CASE bpc = "dead" /\ IoReject(l)
    BY <2>2, StepStutter DEF IoReject
  <2>3. CASE IoLeaveExpiring(l)
    BY <2>3, StepStutter DEF IoLeaveExpiring
  <2> QED
    BY <1>1, <1>6, <2>1, <2>2, <2>3, StepIoTake, StepIoReject, StepIoActivate,
       StepIoLeave DEF IoStep
<1>7. ASSUME Next PROVE Rest'
  BY <1>3, <1>4, <1>5, <1>6, <1>7 DEF Next
<1> QED
  BY <1>1, <1>2, <1>7 DEF Inv, Rest

LEMMA Invariance == Spec => []Inv
<1> QED
  BY InvInit, InvStep, PTL DEF Spec

-----------------------------------------------------------------------------
(* The theorems.                                                            *)

(* Every variable of the server keeps its type, whatever the pool's size;   *)
(* in particular pos_ and the loop GetOneThread picks index existing slots. *)
THEOREM TypeCorrect == Spec => []TypeOK
<1>1. Inv => TypeOK
  BY DEF Inv
<1> QED
  BY <1>1, Invariance, PTL

(* A connection whose channel is active is in tcpst_: the SubmitAndWait of  *)
(* the setup task orders the insertion before the activation, and the       *)
(* erasure, queued behind it, is of a closed connection.                    *)
THEOREM OpenConnectionsRegistered == Spec => []OpenAreRegistered
<1>1. Inv => OpenAreRegistered
  BY DEF Inv
<1> QED
  BY <1>1, Invariance, PTL

(* A closed connection leaves tcpst_ through an erasure that is queued, as  *)
(* long as the base loop runs.                                              *)
THEOREM SetHasNoGhosts == Spec => []NoGhosts
<1>1. Inv => NoGhosts
  BY DEF Inv
<1> QED
  BY <1>1, Invariance, PTL

(* GetOneThread never returns nullptr to the accept callback, and while the *)
(* base loop lives it returns only loops whose thread exists, however       *)
(* SetSubThreadNum is called meanwhile.                                     *)
THEOREM HandedToLiveLoops == Spec => []HandedToLiveLoop
<1>1. Inv => NeverRefused
  BY DEF Inv
<1>2. ASSUME Inv, bpc # "dead", NEW l \in Loops, iq[l] # <<>>
      PROVE  ipc[l] \in {"idle", "wait", "setup"}
  <2>1. ipc[l] # "absent" /\ ipc[l] # "dead"
    BY <1>2 DEF Inv, PoolInv
  <2>2. ipc[l] \in IoPC
    BY <1>2 DEF Inv, TypeOK
  <2> QED
    BY <2>1, <2>2 DEF IoPC
<1>3. Inv => HandedToLiveLoop
  BY <1>1, <1>2 DEF HandedToLiveLoop
<1> QED
  BY <1>3, Invariance, PTL

-----------------------------------------------------------------------------
(* Round robin.                                                             *)

(* The connections of a loop.                                               *)
Given(l) == {c \in Conns : owner[c] = l}

(* The next connection goes to the first of the loops that have not had one *)
(* in this round: the loops before pos_ are one ahead, and the one picked   *)
(* but not yet passed is, too.                                              *)
Ahead(l) == l < pos \/ (bpc = "picked" /\ l = pos)
Rounds(m) ==
  \A l \in 0..(maxnum - 1) : Load(l) = IF Ahead(l) THEN m + 1 ELSE m

(* What Balanced needs to be inductive: the loads are level up to the round *)
(* under way, which begins at loop 0.                                       *)
RoundInv ==
  /\ \A c \in Conns : cst[c] \in {"none", "backlog"} => owner[c] = -1
  /\ main = "new" => pos = 0
  /\ running /\ ~resized =>
       num = maxnum /\ pos < num /\ \E m \in Nat : Rounds(m)

LEMMA GivenFinite ==
  ASSUME NEW l
  PROVE  IsFiniteSet(Given(l)) /\ Load(l) = Cardinality(Given(l))
         /\ Load(l) \in Nat
<1>1. IsFiniteSet(Conns)
  BY FS_Interval, ServerBounds DEF Conns
<1>2. IsFiniteSet(Given(l))
  BY <1>1, FS_Subset DEF Given
<1> QED
  BY <1>2, FS_CardinalityType DEF Load, Given

LEMMA RoundInit == Init => RoundInv
  BY DEF Init, RoundInv

(* A step that leaves the pool and the owners alone.                        *)
LEMMA RoundKept ==
  ASSUME RoundInv, UNCHANGED <<running, num, maxnum, pos, resized, owner>>,
         bpc = "picked" <=> bpc' = "picked",
         main' = "new" => main = "new",
         \A c \in Conns :
           cst'[c] \in {"none", "backlog"} => cst[c] \in {"none", "backlog"}
  PROVE  RoundInv'
<1>1. \A l : Load(l)' = Load(l) /\ Ahead(l)' = Ahead(l)
  BY DEF Load, Ahead
<1>2. ASSUME NEW m \in Nat, Rounds(m) PROVE Rounds(m)'
  BY <1>1, <1>2 DEF Rounds
<1> QED
  BY <1>2 DEF RoundInv

LEMMA RoundStart == ASSUME Inv, RoundInv, Start PROVE RoundInv'
<1>1. \A c \in Conns : owner[c] = -1
  BY DEF Inv, FreshInv, RoundInv, Start
<1>2. /\ owner' = owner /\ cst' = cst /\ pos' = 0 /\ maxnum' = num
      /\ num' = num /\ main' # "new" /\ bpc' = "idle" /\ num \in 1..MaxSize
  BY DEF Inv, TypeOK, FreshInv, RoundInv, Start, PoolStart, Listen, connVars
<1>3. ASSUME NEW l \in 0..(num - 1) PROVE Load(l)' = 0 /\ ~Ahead(l)'
  <2>1. Given(l)' = {}
    BY <1>1, <1>2 DEF Given
  <2>2. Load(l)' = 0
    BY <2>1, FS_EmptySet DEF Load, Given
  <2> QED
    BY <1>2, <2>2 DEF Ahead
<1>4. Rounds(0)'
  BY <1>2, <1>3 DEF Rounds
<1> QED
  BY <1>1, <1>2, <1>4 DEF RoundInv

LEMMA RoundSetSize ==
  ASSUME Inv, RoundInv, NEW n \in 0..MaxSize, SetSize(n)
  PROVE  RoundInv'
<1>1. CASE running /\ num' # num
  BY <1>1 DEF RoundInv, SetSize, connVars
<1>2. CASE running /\ num' = num
  <2>1. resized' = resized
    BY <1>2 DEF SetSize, Inv, TypeOK
  <2> QED
    BY <1>2, <2>1, RoundKept DEF SetSize, connVars, baseVars
<1>3. CASE ~running
  BY <1>3 DEF RoundInv, SetSize, connVars
<1> QED
  BY <1>1, <1>2, <1>3

LEMMA RoundAccept == ASSUME Inv, RoundInv, AcceptOne PROVE RoundInv'
<1>1. running
  BY DEF AcceptOne, Inv, PoolInv
<1>2. PICK c \in Backlog :
        /\ cst' = [cst EXCEPT ![c] = "accepted"]
        /\ owner' = [owner EXCEPT ![c] = pos % num]
        /\ pos' = pos % num
        /\ bpc' = "picked"
  BY <1>1 DEF AcceptOne
<1>3. /\ c \in Conns /\ owner[c] = -1 /\ bpc = "accept"
      /\ UNCHANGED <<main, running, num, maxnum, resized>>
  BY DEF AcceptOne, Backlog, RoundInv
<1>4. /\ cst \in [Conns -> Stage] /\ owner \in [Conns -> {-1} \cup Loops]
      /\ pos \in Nat /\ num \in Nat \ {0} /\ maxnum \in Nat
  BY ServerBounds DEF Inv, TypeOK, Loops
<1>5. \A d \in Conns : cst'[d] \in {"none", "backlog"} => owner'[d] = -1
  BY <1>2, <1>3, <1>4 DEF RoundInv
<1>6. main' # "new"
  BY <1>1, <1>3 DEF Inv, FreshInv
<1>7. ASSUME ~resized
      PROVE  num = maxnum /\ pos' < num /\ \E m \in Nat : Rounds(m)'
  <2>1. num = maxnum /\ pos < num /\ pos' = pos
    BY <1>1, <1>2, <1>4, <1>7 DEF RoundInv
  <2>2. PICK m \in Nat : Rounds(m)
    BY <1>1, <1>7 DEF RoundInv
  <2>3. ASSUME NEW l \in 0..(maxnum - 1)
        PROVE  Load(l)' = IF Ahead(l)' THEN m + 1 ELSE m
    <3>1. Load(l) = IF l < pos THEN m + 1 ELSE m
      BY <1>3, <2>2 DEF Rounds, Ahead
    <3>2. Ahead(l)' = (l < pos \/ l = pos)
      BY <1>2, <2>1 DEF Ahead
    <3>3. CASE l = pos
      <4>1. Given(l)' = Given(l) \cup {c} /\ c \notin Given(l)
        BY <1>2, <1>3, <1>4, <2>1, <3>3 DEF Given
      <4>2. Cardinality(Given(l)') = Cardinality(Given(l)) + 1
        BY <4>1, FS_AddElement, GivenFinite
      <4>3. Load(l)' = Load(l) + 1
        BY <4>2, GivenFinite DEF Load, Given
      <4>4. ~(l < pos) /\ Ahead(l)'
        <5>1. ~(l < pos)
          BY <1>4, <3>3
        <5>2. Ahead(l)'
          BY <1>2, <2>1, <3>3 DEF Ahead
        <5> QED
          BY <5>1, <5>2
      <4>5. Load(l) = m
        BY <3>1, <4>4
      <4> QED
        BY <4>3, <4>4, <4>5
    <3>4. CASE l # pos
      <4>1. Given(l)' = Given(l)
        BY <1>2, <1>3, <1>4, <2>1, <3>4 DEF Given
      <4>2. Load(l)' = Load(l)
        BY <4>1 DEF Load, Given
      <4> QED
        BY <3>1, <3>2, <3>4, <4>2
    <3> QED
      BY <3>3, <3>4
  <2>4. Rounds(m)'
    BY <1>3, <2>3 DEF Rounds
  <2> QED
    BY <2>1, <2>4
<1> QED
  BY <1>3, <1>5, <1>6, <1>7 DEF RoundInv

LEMMA RoundHandOver == ASSUME Inv, RoundInv, HandOver PROVE RoundInv'
<1>1. /\ bpc = "picked" /\ bpc' = "accept" /\ pos' = (pos + 1) % num
      /\ UNCHANGED <<main, running, num, maxnum, resized, owner>>
      /\ cst' = [cst EXCEPT ![fd] = "queued"]
  BY DEF HandOver
<1>2. /\ cst \in [Conns -> Stage] /\ pos \in Nat /\ num \in Nat \ {0}
      /\ maxnum \in Nat
  BY ServerBounds DEF Inv, TypeOK, Loops
<1>3. \A d \in Conns : cst'[d] \in {"none", "backlog"} => owner'[d] = -1
  BY <1>1, <1>2 DEF RoundInv
<1>4. main' # "new"
  BY <1>1 DEF Inv, FreshInv
<1>5. ASSUME running, ~resized
      PROVE  num = maxnum /\ pos' < num /\ \E m \in Nat : Rounds(m)'
  <2>1. num = maxnum /\ pos < num
    BY <1>5 DEF RoundInv
  <2>2. PICK m \in Nat : Rounds(m)
    BY <1>5 DEF RoundInv
  <2>3. \A l \in 0..(maxnum - 1) :
          Load(l)' = IF l < pos + 1 THEN m + 1 ELSE m
    <3>1. \A l : Load(l)' = Load(l)
      BY <1>1 DEF Load
    <3>2. \A l \in 0..(maxnum - 1) : Ahead(l) <=> l < pos + 1
      BY <1>1, <1>2 DEF Ahead
    <3> QED
      BY <2>2, <3>1, <3>2 DEF Rounds
  <2>4. CASE pos + 1 < num
    <3>1. pos' = pos + 1
      BY <1>1, <1>2, <2>4
    <3>2. Rounds(m)'
      BY <1>1, <2>3, <3>1 DEF Rounds, Ahead
    <3> QED
      BY <2>1, <2>4, <3>1, <3>2
  <2>5. CASE ~(pos + 1 < num)
    <3>1. pos + 1 = num /\ pos' = 0
      BY <1>1, <1>2, <2>1, <2>5
    <3>2. \A l \in 0..(maxnum - 1) : l < pos + 1 /\ ~Ahead(l)'
      BY <1>1, <1>2, <2>1, <3>1 DEF Ahead
    <3>3. Rounds(m + 1)'
      BY <1>1, <2>3, <3>2 DEF Rounds
    <3> QED
      BY <1>2, <2>1, <3>1, <3>3
  <2> QED
    BY <2>4, <2>5
<1> QED
  BY <1>1, <1>3, <1>4, <1>5 DEF RoundInv

LEMMA RoundStep == Inv /\ RoundInv /\ [Next]_vars => RoundInv'
<1> SUFFICES ASSUME Inv, RoundInv, [Next]_vars PROVE RoundInv' OBVIOUS
<1> USE DEF poolVars, baseVars, ioVars, connVars
<1>1. CASE UNCHANGED vars
  BY <1>1, RoundKept DEF vars
<1>2. CASE UseDeadLoop
  BY <1>2, RoundKept DEF UseDeadLoop
<1>3. ASSUME NEW byOwner, Close(byOwner) PROVE RoundInv'
  BY <1>3, RoundKept DEF Close
<1>4. CASE JoinBase
  BY <1>4 DEF JoinBase, RoundInv
<1>5. CASE JoinPool \/ Destroy
  BY <1>2, <1>5, RoundKept DEF JoinPool, Destroy
<1>6. ASSUME NEW c \in Conns, PeerConnect(c) PROVE RoundInv'
  BY <1>6, RoundKept DEF PeerConnect, Inv, TypeOK
<1>7. ASSUME NEW c \in Conns, IoClose(c) PROVE RoundInv'
  BY <1>2, <1>7, RoundKept DEF IoClose, TearDown, Inv, TypeOK
<1>8. CASE AcceptBegin \/ AcceptEnd \/ BaseLeave
  BY <1>8, RoundKept DEF AcceptBegin, AcceptEnd, BaseLeave
<1>9. CASE BaseMission
  BY <1>9, RoundKept
     DEF BaseMission, BaseListen, BaseInsert, BaseErase, NextMission
<1>10. ASSUME NEW l \in Loops,
              IoStep(l) \/ IoReject(l) \/ IoLeaveExpiring(l)
       PROVE  RoundInv'
  <2>1. CASE IoTake(l)
    BY <1>2, <2>1, RoundKept DEF IoTake, Inv, TypeOK
  <2>2. CASE IoActivate(l)
    BY <2>2, RoundKept DEF IoActivate, Inv, TypeOK
  <2>3. CASE IoLeave(l)
    BY <2>3, RoundKept DEF IoLeave, Inv, TypeOK
  <2>4. CASE IoReject(l)
    BY <1>2, <2>4, RoundKept DEF IoReject, TearDown, Inv, TypeOK
  <2>5. CASE IoLeaveExpiring(l)
    BY <1>2, <2>5 DEF IoLeaveExpiring
  <2> QED
    BY <1>10, <2>1, <2>2, <2>3, <2>4, <2>5 DEF IoStep
<1>11. CASE CloseAgain
  BY <1>2, <1>11 DEF CloseAgain
<1> QED
  BY <1>1, <1>3, <1>4, <1>5, <1>6, <1>7, <1>8, <1>9, <1>10, <1>11, RoundSetSize,
     RoundStart, RoundAccept, RoundHandOver DEF Next, MainStep, BaseStep

(* Between two resizings GetOneThread deals the connections out evenly: the *)
(* loads of any two loops of the pool differ by at most one, for any number *)
(* of loops and connections, also between its two reads of num_.            *)
THEOREM RoundRobin == Spec => []Balanced
<1>1. ASSUME Inv, RoundInv PROVE Balanced
  <2> SUFFICES ASSUME running, ~resized, NEW k \in 0..(maxnum - 1),
                      NEW l \in 0..(maxnum - 1)
               PROVE  Load(k) <= Load(l) + 1
    BY DEF Balanced
  <2>1. PICK m \in Nat : Rounds(m)
    BY <1>1 DEF RoundInv
  <2>2. /\ Load(k) = m \/ Load(k) = m + 1
        /\ Load(l) = m \/ Load(l) = m + 1
    BY <2>1 DEF Rounds
  <2> QED
    BY <2>1, <2>2
<1> QED
  BY <1>1, RoundInit, RoundStep, Invariance, PTL DEF Spec
=============================================================================
