---------------------------- MODULE IdleTimeout ----------------------------
(***************************************************************************)
(* What the heartbeat promises, without wheel, slots or shared pointers:    *)
(* each tracked connection has a count of the ticks since it was last       *)
(* refreshed, and is closed at the tick that makes this count N, not        *)
(* earlier and not later.                                                   *)
(***************************************************************************)
EXTENDS Integers

CONSTANTS Conns,     \* connections
          N          \* ticks without a refresh after which one is closed

VARIABLES st,        \* "new", "open" or "closed"
          tracked,   \* the timeout of the connection is running
          idle       \* ticks since the last refresh, 0 when not tracked

ivars == <<st, tracked, idle>>

Init ==
  /\ st = [c \in Conns |-> "new"]
  /\ tracked = [c \in Conns |-> FALSE]
  /\ idle = [c \in Conns |-> 0]

Begin(c) ==
  /\ st[c] = "new"
  /\ st' = [st EXCEPT ![c] = "open"]
  /\ tracked' = [tracked EXCEPT ![c] = TRUE]
  /\ UNCHANGED idle

Refresh(c) ==
  /\ st[c] = "open" /\ tracked[c]
  /\ idle' = [idle EXCEPT ![c] = 0]
  /\ UNCHANGED <<st, tracked>>

Leave(c) ==
  /\ st[c] = "open"
  /\ st' = [st EXCEPT ![c] = "closed"]
  /\ UNCHANGED <<tracked, idle>>

Expiring(c) == tracked[c] /\ idle[c] = N - 1

Tick ==
  /\ st' = [c \in Conns |-> IF Expiring(c) THEN "closed" ELSE st[c]]
  /\ tracked' = [c \in Conns |-> tracked[c] /\ ~Expiring(c)]
  /\ idle' = [c \in Conns |->
                IF tracked[c] /\ ~Expiring(c) THEN idle[c] + 1 ELSE 0]

Next == (\E c \in Conns : Begin(c) \/ Refresh(c) \/ Leave(c)) \/ Tick

Spec == Init /\ [][Next]_ivars
=============================================================================
