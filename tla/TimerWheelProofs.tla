-------------------------- MODULE TimerWheelProofs --------------------------
(***************************************************************************)
(* Theorems about TimerWheel, for any set of connections and any wheel size *)
(* N > 0.                                                                   *)
(***************************************************************************)
EXTENDS TimerWheel, TLAPS

-----------------------------------------------------------------------------
(* Arithmetic of the wheel.                                                 *)

(* A number below the modulus is its own remainder, and one below twice the *)
(* modulus loses it once.                                                   *)
LEMMA ModSmall ==
  \A a \in Nat, m \in Nat \ {0} :
    a < m + m => a % m = IF a < m THEN a ELSE a - m
  OBVIOUS

LEMMA InsertPosValue ==
  ASSUME ptr \in Slots
  PROVE  /\ InsertPos = IF ptr = 0 THEN N - 1 ELSE ptr - 1
         /\ InsertPos \in Slots
         /\ Age(InsertPos) = 0
<1>1. N \in Nat \ {0} /\ ptr \in 0..(N - 1)
  BY WheelAssumption DEF Slots
<1>2. ptr - 1 + N \in Nat /\ ptr - 1 + N < N + N
  BY <1>1
<1> DEFINE a == ptr - 1 + N
<1>3. a % N = IF a < N THEN a ELSE a - N
  <2> HIDE DEF a
  <2>1. a \in Nat /\ a < N + N
    BY <1>2 DEF a
  <2> QED
    BY <1>1, <2>1, ModSmall, Zenon
<1>4. InsertPos = IF ptr = 0 THEN N - 1 ELSE ptr - 1
  BY <1>1, <1>3 DEF InsertPos
<1> QED
  BY <1>1, <1>4 DEF Slots, Age

LEMMA NextPtr ==
  ASSUME ptr \in Slots
  PROVE  /\ (ptr + 1) % N = IF ptr = N - 1 THEN 0 ELSE ptr + 1
         /\ (ptr + 1) % N \in Slots
<1>1. N \in Nat \ {0} /\ ptr \in 0..(N - 1)
  BY WheelAssumption DEF Slots
<1>2. ptr + 1 \in Nat /\ ptr + 1 < N + N
  BY <1>1
<1> DEFINE a == ptr + 1
<1>3. a % N = IF a < N THEN a ELSE a - N
  <2> HIDE DEF a
  <2>1. a \in Nat /\ a < N + N
    BY <1>2 DEF a
  <2> QED
    BY <1>1, <2>1, ModSmall, Zenon
<1> QED
  BY <1>1, <1>3 DEF Slots

(* Ages are 0 .. N-1, distinct for distinct slots.                          *)
LEMMA AgeRange ==
  ASSUME ptr \in Slots, NEW s \in Slots
  PROVE  /\ Age(s) \in 0..(N - 1)
         /\ Age(s) = N - 1 <=> s = ptr
         /\ Age(s) = 0 <=> s = InsertPos
  BY WheelAssumption, InsertPosValue DEF Slots, Age

(* A tick makes every slot but the cleared one a tick older.                *)
LEMMA AgeTick ==
  ASSUME ptr \in Slots, ptr' = (ptr + 1) % N, NEW s \in Slots
  PROVE  Age(s)' = IF s = ptr THEN 0 ELSE Age(s) + 1
  BY WheelAssumption, NextPtr DEF Slots, Age

-----------------------------------------------------------------------------
(* Type correctness.                                                        *)

LEMMA InsertType ==
  ASSUME TypeOK, NEW c \in Conns, InsertInThread(c)
  PROVE  wheel' \in [Slots -> [Conns -> Nat]] /\ last' \in [Conns -> Slots \cup {-1}]
<1>1. InsertPos \in Slots
  BY InsertPosValue DEF TypeOK
<1>2. wheel' \in [Slots -> [Conns -> Nat]]
  BY <1>1 DEF TypeOK, InsertInThread
<1>3. last' \in [Conns -> Slots \cup {-1}]
  <2> HIDE DEF Slots
  <2> QED BY <1>1 DEF TypeOK, InsertInThread
<1> QED
  BY <1>2, <1>3

LEMMA TypeStep == TypeOK /\ [Next]_vars => TypeOK'
<1> SUFFICES ASSUME TypeOK, [Next]_vars PROVE TypeOK' OBVIOUS
<1> USE DEF TypeOK
<1>1. ASSUME NEW c \in Conns, SaveLife(c) PROVE TypeOK'
  BY <1>1, InsertType DEF SaveLife
<1>2. ASSUME NEW c \in Conns, ReadData(c) PROVE TypeOK'
  BY <1>2, InsertType DEF ReadData
<1>3. ASSUME NEW c \in Conns, Leave(c) PROVE TypeOK'
  BY <1>3 DEF Leave
<1>4. CASE TimerExpires
  BY <1>4, BurstAssumption DEF TimerExpires
<1>5. CASE TimerRead
  BY <1>5, BurstAssumption DEF TimerRead
<1>6. CASE Tick
  <2>1. ptr' \in Slots
    BY <1>6, NextPtr DEF Tick
  <2>2. wheel' \in [Slots -> [Conns -> Nat]]
    BY <1>6 DEF Tick, Cleared
  <2>3. /\ hb' \in [Conns -> {"none", "alive", "dead"}]
        /\ st' \in [Conns -> {"new", "open", "closed"}]
    BY <1>6 DEF Tick
  <2>4. times' \in 0..MaxBurst
    BY <1>6, BurstAssumption DEF Tick
  <2> QED
    BY <1>6, <2>1, <2>2, <2>3, <2>4 DEF Tick
<1>7. CASE UNCHANGED vars
  BY <1>7 DEF vars
<1> QED
  BY <1>1, <1>2, <1>3, <1>4, <1>5, <1>6, <1>7 DEF Next

(* Every variable keeps its type; ptr_ and every position inserted into are *)
(* slots of the wheel.                                                      *)
THEOREM TypeCorrect == Spec => []TypeOK
<1>1. Init => TypeOK
  BY WheelAssumption, BurstAssumption DEF Init, TypeOK, Slots
<1> QED
  BY <1>1, TypeStep, PTL DEF Spec

-----------------------------------------------------------------------------
(* The inductive invariant.  The newest pointer of a live object is in the  *)
(* slot last_insert_pos_ names, and no pointer of it is in a newer slot;    *)
(* an object that is not alive has no pointer in the wheel.                 *)

Newest(c) ==
  /\ last[c] \in Slots
  /\ wheel[last[c]][c] > 0
  /\ \A s \in Slots : wheel[s][c] > 0 => Age(s) >= Age(last[c])

ConnInv(c) ==
  /\ hb[c] = "none" <=> st[c] = "new"
  /\ hb[c] = "none" => last[c] = -1
  /\ hb[c] # "alive" => \A s \in Slots : wheel[s][c] = 0
  /\ hb[c] = "alive" => Newest(c)
  /\ \A s \in Slots : wheel[s][c] <= 1

WheelInv == \A c \in Conns : ConnInv(c)

(* A connection whose part of the wheel a step leaves alone.                *)
LEMMA ConnFrame ==
  ASSUME NEW c \in Conns, ConnInv(c), ptr' = ptr, last'[c] = last[c],
         hb'[c] = hb[c],
         st'[c] = st[c] \/ (st[c] = "open" /\ st'[c] = "closed"),
         \A s \in Slots : wheel'[s][c] = wheel[s][c]
  PROVE  ConnInv(c)'
  BY DEF ConnInv, Newest, Age

(* Insertion touches one connection.                                        *)
LEMMA InsertOthers ==
  ASSUME TypeOK, NEW c \in Conns, InsertInThread(c), NEW d \in Conns, d # c
  PROVE  last'[d] = last[d] /\ \A s \in Slots : wheel'[s][d] = wheel[s][d]
<1>1. InsertPos \in Slots
  BY InsertPosValue DEF TypeOK
<1> QED
  BY <1>1 DEF TypeOK, InsertInThread

(* After an insertion the newest slot holds the object, once.               *)
LEMMA InsertOwn ==
  ASSUME TypeOK, NEW c \in Conns, ConnInv(c), InsertInThread(c), ptr' = ptr,
         hb[c] # "dead"
  PROVE  /\ Newest(c)'
         /\ last'[c] = InsertPos
         /\ \A s \in Slots : wheel'[s][c] <= 1
<1>1. InsertPos \in Slots /\ Age(InsertPos) = 0
  BY InsertPosValue DEF TypeOK
<1>2. \A s \in Slots : Age(s) \in Nat /\ (Age(s) = 0 <=> s = InsertPos)
  BY AgeRange DEF TypeOK
<1>3. \A s \in Slots : Age(s)' = Age(s)
  BY DEF Age
<1>4. CASE last[c] = InsertPos
  <2>1. hb[c] = "alive"
    BY <1>1, <1>4, WheelAssumption DEF ConnInv, TypeOK, Slots
  <2>2. wheel' = wheel /\ last' = last
    BY <1>4 DEF InsertInThread
  <2> QED
    BY <1>1, <1>3, <1>4, <2>1, <2>2 DEF ConnInv, Newest
<1>5. CASE last[c] # InsertPos
  <2>1. /\ last'[c] = InsertPos
        /\ wheel'[InsertPos][c] = wheel[InsertPos][c] + 1
        /\ \A s \in Slots : s # InsertPos => wheel'[s][c] = wheel[s][c]
    BY <1>1, <1>5 DEF InsertInThread, TypeOK
  <2>2. wheel[InsertPos][c] = 0
    <3>1. CASE hb[c] = "alive"
      <4>1. wheel[InsertPos][c] \in Nat
        BY <1>1 DEF TypeOK
      <4>2. wheel[InsertPos][c] > 0 => last[c] = InsertPos
        BY <1>1, <1>2, <3>1 DEF ConnInv, Newest
      <4> QED BY <1>5, <4>1, <4>2
    <3>2. CASE hb[c] # "alive"
      BY <1>1, <3>2 DEF ConnInv
    <3> QED BY <3>1, <3>2
  <2>3. \A s \in Slots : wheel'[s][c] <= 1
    BY <2>1, <2>2 DEF ConnInv
  <2>4. Newest(c)'
    BY <1>1, <1>2, <1>3, <2>1, <2>2 DEF Newest
  <2> QED
    BY <2>1, <2>3, <2>4
<1> QED
  BY <1>4, <1>5

(* The objects a tick destroys are those last inserted into the slot it     *)
(* clears.                                                                  *)
LEMMA ReleasedIff ==
  ASSUME TypeOK, NEW c \in Conns, ConnInv(c)
  PROVE  Released(c) <=> hb[c] = "alive" /\ last[c] = ptr
<1>1. ptr \in Slots /\ \A s \in Slots :
        /\ Age(s) \in 0..(N - 1)
        /\ Age(s) = N - 1 <=> s = ptr
        /\ wheel[s][c] \in Nat
        /\ Cleared[s][c] = IF s = ptr THEN 0 ELSE wheel[s][c]
  BY AgeRange DEF TypeOK, Cleared
<1>2. ASSUME hb[c] = "alive", last[c] = ptr PROVE Released(c)
  <2>1. \A s \in Slots : wheel[s][c] > 0 => s = ptr
    BY <1>1, <1>2, WheelAssumption DEF ConnInv, Newest
  <2> QED
    BY <1>1, <1>2, <2>1 DEF Released
<1>3. ASSUME Released(c) PROVE last[c] = ptr
  BY <1>1, <1>3 DEF Released, ConnInv, Newest
<1> QED
  BY <1>2, <1>3 DEF Released

LEMMA TickConn ==
  ASSUME TypeOK, NEW c \in Conns, ConnInv(c), Tick
  PROVE  ConnInv(c)'
<1>1. ptr \in Slots /\ \A s \in Slots :
        /\ wheel'[s][c] = IF s = ptr THEN 0 ELSE wheel[s][c]
        /\ Age(s) \in 0..(N - 1)
        /\ Age(s)' = IF s = ptr THEN 0 ELSE Age(s) + 1
  BY AgeRange, AgeTick DEF TypeOK, Tick, Cleared
<1>2. /\ last' = last
      /\ hb'[c] = IF Released(c) THEN "dead" ELSE hb[c]
      /\ st'[c] = IF Released(c) THEN "closed" ELSE st[c]
  BY DEF Tick
<1>3. CASE Released(c)
  <2>1. \A s \in Slots : wheel'[s][c] = 0
    BY <1>3 DEF Released, Tick
  <2> QED
    BY <1>2, <1>3, <2>1 DEF ConnInv
<1>4. CASE ~Released(c)
  <2>1. hb[c] = "alive" => last[c] # ptr
    BY <1>4, ReleasedIff
  <2>2. hb[c] = "alive" => Newest(c)'
    BY <1>1, <1>2, <2>1, WheelAssumption DEF ConnInv, Newest
  <2> QED
    BY <1>1, <1>2, <1>4, <2>2 DEF ConnInv
<1> QED
  BY <1>3, <1>4

LEMMA WheelStep == TypeOK /\ WheelInv /\ [Next]_vars => WheelInv'
<1> SUFFICES ASSUME TypeOK, WheelInv, [Next]_vars, NEW d \in Conns
             PROVE  ConnInv(d)'
  BY DEF WheelInv
<1>0. ConnInv(d)
  BY DEF WheelInv
<1>1. ASSUME NEW c \in Conns, SaveLife(c) PROVE ConnInv(d)'
  <2>1. CASE d = c
    <3>1. hb[c] = "none" /\ hb'[c] = "alive" /\ st'[c] = "open"
      BY <1>0, <1>1, <2>1 DEF SaveLife, ConnInv, TypeOK
    <3>2. Newest(c)' /\ \A s \in Slots : wheel'[s][c] <= 1
      BY <1>0, <1>1, <2>1, <3>1, InsertOwn DEF SaveLife
    <3> QED
      BY <2>1, <3>1, <3>2 DEF ConnInv
  <2>2. CASE d # c
    <3>1. last'[d] = last[d] /\ \A s \in Slots : wheel'[s][d] = wheel[s][d]
      BY <1>1, <2>2, InsertOthers DEF SaveLife
    <3>2. ptr' = ptr /\ hb'[d] = hb[d] /\ st'[d] = st[d]
      BY <1>1, <2>2 DEF SaveLife, TypeOK
    <3> QED
      BY <1>0, <3>1, <3>2, ConnFrame
  <2> QED BY <2>1, <2>2
<1>2. ASSUME NEW c \in Conns, ReadData(c) PROVE ConnInv(d)'
  <2>1. ptr' = ptr /\ hb' = hb /\ st' = st /\ InsertInThread(c) /\ hb[c] = "alive"
    BY <1>2 DEF ReadData
  <2>2. CASE d = c
    BY <1>0, <2>1, <2>2, InsertOwn DEF ConnInv
  <2>3. CASE d # c
    BY <1>0, <2>1, <2>3, InsertOthers, ConnFrame
  <2> QED BY <2>2, <2>3
<1>3. ASSUME NEW c \in Conns, Leave(c) PROVE ConnInv(d)'
  BY <1>0, <1>3, ConnFrame DEF Leave, TypeOK
<1>4. CASE TimerExpires \/ TimerRead
  BY <1>0, <1>4, ConnFrame DEF TimerExpires, TimerRead
<1>5. CASE Tick
  BY <1>0, <1>5, TickConn
<1>6. CASE UNCHANGED vars
  BY <1>0, <1>6, ConnFrame DEF vars
<1> QED
  BY <1>1, <1>2, <1>3, <1>4, <1>5, <1>6 DEF Next

LEMMA WheelCorrect == Spec => []WheelInv
<1>1. Init => WheelInv
  BY DEF Init, WheelInv, ConnInv
<1> QED
  BY <1>1, WheelStep, TypeCorrect, PTL DEF Spec

(* The wheel holds at most one pointer per connection and slot, whatever    *)
(* the traffic: refreshes within a tick are absorbed by last_insert_pos_.   *)
THEOREM WheelIsBounded == Spec => []WheelBounded
<1>1. WheelInv => WheelBounded
  BY DEF WheelInv, ConnInv, WheelBounded
<1> QED
  BY <1>1, WheelCorrect, PTL

-----------------------------------------------------------------------------
(* The wheel implements IdleTimeout.                                        *)

LEMMA InitRefines == Init => Abstract!Init
  BY DEF Init, Abstract!Init, Ticks

(* Steps that move neither ptr_ nor an object: all counts stay.             *)
LEMMA TicksSame ==
  ASSUME NEW c \in Conns, ptr' = ptr, last'[c] = last[c], hb'[c] = hb[c]
  PROVE  Ticks(c)' = Ticks(c)
  BY DEF Ticks, Age

LEMMA TicksInserted ==
  ASSUME TypeOK, NEW c \in Conns, ptr' = ptr, last'[c] = InsertPos,
         hb'[c] = "alive"
  PROVE  Ticks(c)' = 0
  BY InsertPosValue DEF Ticks, Age, TypeOK

LEMMA SaveLifeRefines ==
  ASSUME TypeOK, WheelInv, NEW c \in Conns, SaveLife(c)
  PROVE  Abstract!Begin(c)
<1>1. ConnInv(c) /\ hb[c] = "none" /\ st[c] = "new"
  BY DEF WheelInv, ConnInv, SaveLife
<1>2. Ticks(c) = 0 /\ Ticks(c)' = 0
  BY <1>1, InsertOwn, TicksInserted DEF SaveLife, Ticks, TypeOK
<1>3. \A d \in Conns : d # c => Ticks(d)' = Ticks(d)
  BY InsertOthers, TicksSame DEF SaveLife, TypeOK
<1>4. [d \in Conns |-> Ticks(d)'] = [d \in Conns |-> Ticks(d)]
  BY <1>2, <1>3
<1>5. [d \in Conns |-> hb'[d] = "alive"]
        = [[d \in Conns |-> hb[d] = "alive"] EXCEPT ![c] = TRUE]
  BY DEF SaveLife, TypeOK
<1> QED
  BY <1>1, <1>4, <1>5 DEF Abstract!Begin, SaveLife

LEMMA ReadDataRefines ==
  ASSUME TypeOK, WheelInv, NEW c \in Conns, ReadData(c)
  PROVE  Abstract!Refresh(c)
<1>1. ConnInv(c) /\ hb[c] = "alive" /\ st[c] = "open" /\ hb' = hb /\ st' = st
  BY DEF WheelInv, ReadData
<1>2. Ticks(c)' = 0
  BY <1>1, InsertOwn, TicksInserted DEF ReadData
<1>3. \A d \in Conns : d # c => Ticks(d)' = Ticks(d)
  BY <1>1, InsertOthers, TicksSame DEF ReadData
<1>4. [d \in Conns |-> Ticks(d)'] = [[d \in Conns |-> Ticks(d)] EXCEPT ![c] = 0]
  BY <1>2, <1>3
<1> QED
  BY <1>1, <1>4 DEF Abstract!Refresh

LEMMA TickRefines ==
  ASSUME TypeOK, WheelInv, Tick
  PROVE  Abstract!Tick
<1>1. ASSUME NEW c \in Conns
      PROVE  /\ Released(c) <=> hb[c] = "alive" /\ Ticks(c) = N - 1
             /\ (hb'[c] = "alive") <=> (hb[c] = "alive" /\ ~Released(c))
             /\ st'[c] = IF Released(c) THEN "closed" ELSE st[c]
             /\ Ticks(c)' = IF hb[c] = "alive" /\ ~Released(c)
                            THEN Ticks(c) + 1 ELSE 0
  <2>1. ConnInv(c) /\ ptr \in Slots
    BY DEF WheelInv, TypeOK
  <2>2. Released(c) <=> hb[c] = "alive" /\ last[c] = ptr
    BY <2>1, ReleasedIff
  <2>3. hb[c] = "alive" => /\ last[c] \in Slots
                           /\ Age(last[c]) = N - 1 <=> last[c] = ptr
    BY <2>1, AgeRange DEF ConnInv, Newest
  <2>4. /\ last' = last
        /\ hb'[c] = IF Released(c) THEN "dead" ELSE hb[c]
        /\ st'[c] = IF Released(c) THEN "closed" ELSE st[c]
    BY DEF Tick
  <2>5. hb[c] = "alive" /\ last[c] # ptr => Age(last[c])' = Age(last[c]) + 1
    <3>1. ASSUME hb[c] = "alive", last[c] # ptr
          PROVE  Age(last[c])' = Age(last[c]) + 1
      <4>1. \A s \in Slots : Age(s)' = IF s = ptr THEN 0 ELSE Age(s) + 1
        BY <2>1, AgeTick DEF Tick
      <4>2. Age(last[c])' = Age(last[c]) + 1
        BY <2>3, <2>4, <3>1, <4>1 DEF Age
      <4> QED BY <4>2
    <3> QED BY <3>1
  <2> QED
    BY <2>2, <2>3, <2>4, <2>5 DEF Ticks
<1> HIDE DEF Tick, Released, Ticks
<1>2. \A c \in Conns : Abstract!Expiring(c) <=> Released(c)
  BY <1>1 DEF Abstract!Expiring
<1>3. st' = [c \in Conns |-> IF Abstract!Expiring(c) THEN "closed" ELSE st[c]]
  BY <1>2 DEF Tick
<1>4. [c \in Conns |-> hb'[c] = "alive"]
        = [c \in Conns |-> [d \in Conns |-> hb[d] = "alive"][c]
                             /\ ~Abstract!Expiring(c)]
  BY <1>1, <1>2
<1>5. [c \in Conns |-> Ticks(c)']
        = [c \in Conns |->
             IF [d \in Conns |-> hb[d] = "alive"][c] /\ ~Abstract!Expiring(c)
             THEN [d \in Conns |-> Ticks(d)][c] + 1 ELSE 0]
  BY <1>1, <1>2
<1> QED
  BY <1>3, <1>4, <1>5 DEF Abstract!Tick

(* Slots, wrap-around, duplicate suppression and shared pointers together   *)
(* are a per-connection count of ticks: a connection is closed exactly at   *)
(* the N-th tick after its last refresh, for every wheel size.              *)
THEOREM WheelImplementsIdleTimeout == Spec => ImplementsIdleTimeout
<1>1. TypeOK /\ WheelInv /\ [Next]_vars => [Abstract!Next]_(Abstract!ivars)
  <2> SUFFICES ASSUME TypeOK, WheelInv, [Next]_vars
               PROVE  Abstract!Next \/ UNCHANGED Abstract!ivars
    OBVIOUS
  <2>1. ASSUME NEW c \in Conns, SaveLife(c) PROVE Abstract!Next
    BY <2>1, SaveLifeRefines DEF Abstract!Next
  <2>2. ASSUME NEW c \in Conns, ReadData(c) PROVE Abstract!Next
    BY <2>2, ReadDataRefines DEF Abstract!Next
  <2>3. ASSUME NEW c \in Conns, Leave(c) PROVE Abstract!Next
    <3>1. ptr' = ptr /\ last' = last /\ hb' = hb
      BY <2>3 DEF Leave
    <3>2. [d \in Conns |-> Ticks(d)'] = [d \in Conns |-> Ticks(d)]
      BY <3>1, TicksSame
    <3>3. Abstract!Leave(c)
      BY <2>3, <3>1, <3>2 DEF Leave, Abstract!Leave
    <3> QED BY <3>3 DEF Abstract!Next
  <2>4. CASE TimerExpires \/ TimerRead \/ UNCHANGED vars
    <3>1. ptr' = ptr /\ last' = last /\ hb' = hb /\ st' = st
      BY <2>4 DEF TimerExpires, TimerRead, vars
    <3>2. [d \in Conns |-> Ticks(d)'] = [d \in Conns |-> Ticks(d)]
      BY <3>1, TicksSame
    <3> QED
      BY <3>1, <3>2 DEF Abstract!ivars
  <2>5. CASE Tick
    BY <2>5, TickRefines DEF Abstract!Next
  <2> QED
    BY <2>1, <2>2, <2>3, <2>4, <2>5 DEF Next
<1> QED
  BY <1>1, InitRefines, TypeCorrect, WheelCorrect, PTL
  DEF Spec, ImplementsIdleTimeout, Abstract!Spec
=============================================================================
