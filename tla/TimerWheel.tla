----------------------------- MODULE TimerWheel -----------------------------
(***************************************************************************)
(* The timing wheel of one EventLoop and the HeartBeatObj of its            *)
(* connections (src/src/timer/timer.cpp, heartbeatobj.cpp, and the calls    *)
(* TcpConnection makes to them).                                            *)
(*                                                                          *)
(* A slot of the wheel holds shared pointers to HeartBeatObj; it is         *)
(* represented by how many it holds for each connection.  The object of a   *)
(* connection dies, and closes the connection, when the last pointer in     *)
(* the wheel goes.  Everything happens on the loop thread except the        *)
(* expirations of the timerfd, which accumulate in the kernel while the     *)
(* thread is busy and are then ticked through in one callback.              *)
(***************************************************************************)
EXTENDS Integers, FiniteSets

CONSTANTS
  Conns,      \* connections of this loop
  N,          \* heartbeat_num: slots of the wheel
  MaxBurst    \* bound: expirations that accumulate before the timerfd is read

ASSUME WheelAssumption == N \in Nat \ {0}
ASSUME BurstAssumption == MaxBurst \in Nat \ {0}

VARIABLES
  wheel,   \* timerwheel_st_: wheel[s][c] pointers to c's object in slot s
  ptr,     \* ptr_
  last,    \* last_insert_pos_ of each connection's object
  hb,      \* each connection's object: "none" yet, "alive" or "dead"
  st,      \* each connection: "new", "open" or "closed"
  due,     \* expirations of the timerfd not yet read
  times    \* ticks the read callback still has to make

vars == <<wheel, ptr, last, hb, st, due, times>>

Slots == 0..(N - 1)

Init ==
  /\ wheel = [s \in Slots |-> [c \in Conns |-> 0]]
  /\ ptr = 0
  /\ last = [c \in Conns |-> -1]
  /\ hb = [c \in Conns |-> "none"]
  /\ st = [c \in Conns |-> "new"]
  /\ due = 0
  /\ times = 0

-----------------------------------------------------------------------------
(* Mutant: the slot under ptr_ instead of the one behind it.                *)
InsertPosUnder == ptr

InsertPos == (ptr - 1 + N) % N

(* Mutant: no check of last_insert_pos_.                                    *)
InsertAlways(c) ==
  /\ last' = [last EXCEPT ![c] = InsertPos]
  /\ wheel' = [wheel EXCEPT ![InsertPos][c] = @ + 1]

(* InsertInThread: nothing happens when the object is already in the slot.  *)
InsertInThread(c) ==
  IF last[c] # InsertPos
  THEN /\ last' = [last EXCEPT ![c] = InsertPos]
       /\ wheel' = [wheel EXCEPT ![InsertPos][c] = @ + 1]
  ELSE UNCHANGED <<last, wheel>>

(* The loop thread is not inside the timer's callback.                      *)
Idle == times = 0

(* SaveLifeMechanism: the object is made and inserted.                      *)
SaveLife(c) ==
  /\ Idle
  /\ st[c] = "new"
  /\ st' = [st EXCEPT ![c] = "open"]
  /\ hb' = [hb EXCEPT ![c] = "alive"]
  /\ InsertInThread(c)
  /\ UNCHANGED <<ptr, due, times>>

(* Read() got data and heartbeat_ptr_ can still be locked.                  *)
ReadData(c) ==
  /\ Idle
  /\ st[c] = "open"
  /\ hb[c] = "alive"
  /\ InsertInThread(c)
  /\ UNCHANGED <<ptr, hb, st, due, times>>

(* The connection closes for another reason; its object stays in the wheel. *)
Leave(c) ==
  /\ Idle
  /\ st[c] = "open"
  /\ st' = [st EXCEPT ![c] = "closed"]
  /\ UNCHANGED <<wheel, ptr, last, hb, due, times>>

(* The timerfd expires; the kernel counts.                                  *)
TimerExpires ==
  /\ due < MaxBurst
  /\ due' = due + 1
  /\ UNCHANGED <<wheel, ptr, last, hb, st, times>>

(* The read callback: as many ticks as there were expirations.              *)
TimerRead ==
  /\ Idle
  /\ due > 0
  /\ times' = due
  /\ due' = 0
  /\ UNCHANGED <<wheel, ptr, last, hb, st>>

(* What the wheel holds once the slot under ptr_ is cleared, and whose last *)
(* pointer that was: ~HeartBeatObj closes the connection.                   *)
Cleared == [wheel EXCEPT ![ptr] = [c \in Conns |-> 0]]

Released(c) == hb[c] = "alive" /\ \A s \in Slots : Cleared[s][c] = 0

(* Mutant: ptr_ does not wrap.                                              *)
TickNoWrap ==
  /\ times > 0
  /\ times' = times - 1
  /\ wheel' = Cleared
  /\ hb' = [c \in Conns |-> IF Released(c) THEN "dead" ELSE hb[c]]
  /\ st' = [c \in Conns |-> IF Released(c) THEN "closed" ELSE st[c]]
  /\ ptr' = ptr + 1
  /\ UNCHANGED <<last, due>>

(* Mutant: ptr_ does not move.                                              *)
TickStuck ==
  /\ times > 0
  /\ times' = times - 1
  /\ wheel' = Cleared
  /\ hb' = [c \in Conns |-> IF Released(c) THEN "dead" ELSE hb[c]]
  /\ st' = [c \in Conns |-> IF Released(c) THEN "closed" ELSE st[c]]
  /\ UNCHANGED <<last, due, ptr>>

Tick ==
  /\ times > 0
  /\ times' = times - 1
  /\ wheel' = Cleared
  /\ hb' = [c \in Conns |-> IF Released(c) THEN "dead" ELSE hb[c]]
  /\ st' = [c \in Conns |-> IF Released(c) THEN "closed" ELSE st[c]]
  /\ ptr' = (ptr + 1) % N
  /\ UNCHANGED <<last, due>>

-----------------------------------------------------------------------------
Next ==
  \/ \E c \in Conns : SaveLife(c) \/ ReadData(c) \/ Leave(c)
  \/ TimerExpires \/ TimerRead \/ Tick

(* Time passes, and a loop that is not stuck reads its timerfd.             *)
Fairness == WF_vars(TimerExpires) /\ WF_vars(TimerRead) /\ WF_vars(Tick)

Spec == Init /\ [][Next]_vars
FairSpec == Spec /\ Fairness

-----------------------------------------------------------------------------
(* Properties.                                                              *)

TypeOK ==
  /\ wheel \in [Slots -> [Conns -> Nat]]
  /\ ptr \in Slots
  /\ last \in [Conns -> Slots \cup {-1}]
  /\ hb \in [Conns -> {"none", "alive", "dead"}]
  /\ st \in [Conns -> {"new", "open", "closed"}]
  /\ due \in 0..MaxBurst
  /\ times \in 0..MaxBurst

(* However often a connection is refreshed, a slot holds at most one        *)
(* pointer to its object: the wheel does not grow with the traffic.         *)
WheelBounded == \A s \in Slots : \A c \in Conns : wheel[s][c] <= 1

(* Ticks since slot s was the slot to insert into: 0 for the newest slot,   *)
(* N - 1 for the one the next tick clears.                                  *)
Age(s) == IF s < ptr THEN ptr - 1 - s ELSE ptr - 1 - s + N

(* The count IdleTimeout keeps, read off the wheel.                         *)
Ticks(c) == IF hb[c] = "alive" THEN Age(last[c]) ELSE 0

Abstract == INSTANCE IdleTimeout
  WITH tracked <- [c \in Conns |-> hb[c] = "alive"],
       idle <- [c \in Conns |-> Ticks(c)]

(* The wheel closes a connection exactly at the N-th tick after its last    *)
(* refresh, over refreshes that find the object already in the slot, wraps  *)
(* of ptr_ and bursts of ticks.                                             *)
ImplementsIdleTimeout == Abstract!Spec

(* A connection that falls silent is reclaimed.                             *)
SilentReclaimed ==
  \A c \in Conns :
    <>[][~ReadData(c)]_vars => (st[c] = "open" ~> st[c] = "closed")
=============================================================================
