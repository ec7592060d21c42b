------------------------------ MODULE Lifetime ------------------------------
(***************************************************************************)
(* Who keeps a TcpConnection, and with it its Channel, alive while raw       *)
(* pointers to the channel are in epoll and in the active_list of a loop     *)
(* (src/src/channel.cpp, epoll.cpp, tcpserver.cpp, tcpconnection.cpp).       *)
(*                                                                          *)
(* The connections share one io loop.  A reference is a shared_ptr: in the   *)
(* server's set, in an erasure queued for the base loop, with a user, the    *)
(* guard of Channel::Handle, or WriteFd's local self.  Without references a  *)
(* connection is destroyed, on whichever thread; as its channel has left the *)
(* loop by then (OutlivesRegistration), the destructor's RemoveFromLoop does *)
(* nothing.                                                                  *)
(*                                                                          *)
(* The two places that tear a connection down differ in their order.         *)
(* CloseInThread takes the channel out of the loop and only then submits the *)
(* erasure; WriteFd, after the last flush of a closing connection, submits   *)
(* the erasure first, and the base thread may run it before WriteFd goes on. *)
(* A callback of Handle is one step; which callbacks run, and whether they   *)
(* close anything at once, is left open (module TcpConnection).              *)
(***************************************************************************)
EXTENDS FiniteSets, SequencesExt

CONSTANTS
  Conns,       \* connections of the loop
  Timer,       \* the channel of the loop's timer
  Heartbeats   \* whether isheartbeat_ may be set

ASSUME ChannelsAssumption ==
  /\ IsFiniteSet(Conns) /\ Timer \notin Conns
  /\ Heartbeats \subseteq BOOLEAN

VARIABLES
  heartbeat,   \* isheartbeat_
  ch,          \* the channel of each connection
  made,        \* connections set up so far
  closed,      \* status_ is kDisConnected
  refs,        \* the references to each connection
  asked,       \* Close missions of other threads, queued with a weak_ptr
  lpc,         \* where the io thread is
  list,        \* the rest of active_list
  cur,         \* the channel whose Handle runs
  stage,       \* the callback Handle comes to next: read, write, error, close
  fresh,       \* cur was open when its Handle began
  uaf          \* a destroyed channel was used: in its own Handle, or stale

vars == <<heartbeat, ch, made, closed, refs, asked, lpc, list, cur, stage,
          fresh, uaf>>

Ref == {"set", "erase", "user", "guard", "self"}
Alive(c) == refs[c] # {}

Init ==
  /\ heartbeat \in Heartbeats
  /\ ch = [c \in Conns |-> [owner |-> FALSE, reg |-> FALSE, tied |-> FALSE]]
  /\ made = {} /\ closed = {} /\ asked = {}
  /\ refs = [c \in Conns |-> {}]
  /\ lpc = "poll"
  /\ list = <<>> /\ cur = Timer /\ stage = 1 /\ fresh = FALSE
  /\ uaf = "no"

-----------------------------------------------------------------------------
(* Channel and Epoll, as functions on a channel.                            *)

(* owner_ is set before epoll_ctl is tried, and stays set when it fails.    *)
AddChannel(h, ok) == [h EXCEPT !.owner = TRUE, !.reg = ok]

Tie(h) == [h EXCEPT !.tied = TRUE]

(* epoll_ctl refuses to delete what it does not have.                       *)
DeleteChannel(h) ==
  IF h.owner /\ h.reg THEN [h EXCEPT !.reg = FALSE, !.owner = FALSE] ELSE h

(* Mutant: the tie is kept.                                                 *)
RemoveFromLoopTied(h) == [DeleteChannel(h) EXCEPT !.owner = FALSE]

RemoveFromLoop(h) ==
  [DeleteChannel(h) EXCEPT !.owner = FALSE, !.tied = FALSE]

-----------------------------------------------------------------------------
(* CloseInThread with nothing buffered, for the connections S: each leaves  *)
(* the loop, and its close callback queues an erasure that holds it.  One   *)
(* step: until the erasure is queued the set holds the connection, and      *)
(* CloseInThread does not touch it afterwards.                              *)

(* Mutant: the erasure is not queued.                                       *)
CloseForget(S) ==
  /\ closed' = closed \cup S
  /\ ch' = [c \in Conns |-> IF c \in S THEN RemoveFromLoop(ch[c]) ELSE ch[c]]
  /\ refs' = refs

Close(S) ==
  /\ closed' = closed \cup S
  /\ ch' = [c \in Conns |-> IF c \in S THEN RemoveFromLoop(ch[c]) ELSE ch[c]]
  /\ refs' = [c \in Conns |-> IF c \in S THEN refs[c] \cup {"erase"} ELSE refs[c]]

-----------------------------------------------------------------------------
(* The io thread.                                                           *)

Open == made \ closed

(* epoll_wait reports registered channels, in any order.                    *)
Poll ==
  /\ lpc = "poll"
  /\ list' \in SetToAllKPermutations(
                 {c \in Conns : ch[c].reg} \cup {t \in {Timer} : heartbeat})
  /\ lpc' = "batch"
  /\ UNCHANGED <<heartbeat, ch, made, closed, refs, asked, cur, stage, fresh,
                 uaf>>

(* The timer's Handle: ticks destroy the HeartBeatObj of silent connections. *)
HandleTimer ==
  /\ lpc = "batch" /\ list # <<>> /\ Head(list) = Timer
  /\ \E S \in SUBSET Open : Close(S)
  /\ list' = Tail(list)
  /\ UNCHANGED <<heartbeat, made, asked, lpc, cur, stage, fresh, uaf>>

Crash(kind) ==
  /\ uaf' = kind /\ lpc' = "crashed"
  /\ UNCHANGED <<ch, closed, refs>>

(* Mutant: the tie is not looked at.                                        *)
HandleUntied ==
  /\ lpc = "batch" /\ list # <<>> /\ Head(list) \in Conns
  /\ cur' = Head(list) /\ list' = Tail(list)
  /\ stage' = 1 /\ fresh' = (cur' \notin closed)
  /\ IF Alive(cur')
     THEN lpc' = "handle" /\ UNCHANGED <<ch, closed, refs, uaf>>
     ELSE Crash("stale")
  /\ UNCHANGED <<heartbeat, made, asked>>

(* Handle begins: tied_ is read through the raw pointer, and a tied channel *)
(* holds its connection.                                                    *)
Handle ==
  /\ lpc = "batch" /\ list # <<>> /\ Head(list) \in Conns
  /\ cur' = Head(list) /\ list' = Tail(list)
  /\ stage' = 1 /\ fresh' = (cur' \notin closed)
  /\ IF Alive(cur')
     THEN /\ refs' = [refs EXCEPT ![cur'] =
                        IF ch[cur'].tied THEN @ \cup {"guard"} ELSE @]
          /\ lpc' = "handle"
          /\ UNCHANGED <<ch, closed, uaf>>
     ELSE Crash("stale")
  /\ UNCHANGED <<heartbeat, made, asked>>

(* active_events_ is read and the callback of this stage is run, or not.    *)
(* In it the connection, and connections the user holds, may be closed; on  *)
(* a closed connection every callback returns at once.                      *)
Callback ==
  /\ lpc = "handle" /\ stage <= 4
  /\ IF Alive(cur)
     THEN /\ \E S \in SUBSET {c \in Open : /\ cur \in Open
                                           /\ c = cur \/ "user" \in refs[c]} :
               Close(S)
          /\ UNCHANGED <<lpc, uaf>>
     ELSE Crash(IF fresh THEN "own" ELSE "stale")
  /\ stage' = stage + 1
  /\ UNCHANGED <<heartbeat, made, asked, list, cur, fresh>>

(* The write callback has flushed the rest of a closing connection: WriteFd *)
(* holds it and submits its erasure while the channel is still in the loop. *)

(* Mutant: WriteFd does not hold the connection.                            *)
FlushCloseUnheld ==
  /\ lpc = "handle" /\ stage = 2 /\ cur \in Open /\ Alive(cur)
  /\ closed' = closed \cup {cur}
  /\ refs' = [refs EXCEPT ![cur] = @ \cup {"erase"}]
  /\ lpc' = "flush"
  /\ UNCHANGED <<heartbeat, ch, made, asked, list, cur, stage, fresh, uaf>>

FlushClose ==
  /\ lpc = "handle" /\ stage = 2 /\ cur \in Open /\ Alive(cur)
  /\ closed' = closed \cup {cur}
  /\ refs' = [refs EXCEPT ![cur] = @ \cup {"self", "erase"}]
  /\ lpc' = "flush"
  /\ UNCHANGED <<heartbeat, ch, made, asked, list, cur, stage, fresh, uaf>>

(* WriteFd goes on: the channel leaves the loop and self goes.              *)
FlushRemove ==
  /\ lpc = "flush"
  /\ ch' = [ch EXCEPT ![cur] = RemoveFromLoop(@)]
  /\ refs' = [refs EXCEPT ![cur] = @ \ {"self"}]
  /\ lpc' = "handle" /\ stage' = stage + 1
  /\ UNCHANGED <<heartbeat, made, closed, asked, list, cur, fresh, uaf>>

(* Handle returns and its guard goes.                                       *)
HandleDone ==
  /\ lpc = "handle" /\ stage = 5
  /\ refs' = [refs EXCEPT ![cur] = @ \ {"guard"}]
  /\ cur' = Timer /\ stage' = 1 /\ fresh' = FALSE
  /\ lpc' = "batch"
  /\ UNCHANGED <<heartbeat, ch, made, closed, asked, list, uaf>>

BatchDone ==
  /\ lpc = "batch" /\ list = <<>>
  /\ lpc' = "missions"
  /\ UNCHANGED <<heartbeat, ch, made, closed, refs, asked, list, cur, stage,
                 fresh, uaf>>

(* The setup mission: the connection is made and tied, the base loop        *)
(* inserts it into the set, the new-connection callback may keep a copy.    *)
(* Only then does the mission's own reference go.                           *)
Setup(c, ok, keep) ==
  /\ lpc = "missions" /\ c \notin made
  /\ made' = made \cup {c}
  /\ ch' = [ch EXCEPT ![c] = IF heartbeat THEN Tie(AddChannel(@, ok))
                             ELSE AddChannel(@, ok)]
  /\ refs' = [refs EXCEPT ![c] = IF keep THEN {"set", "user"} ELSE {"set"}]
  /\ UNCHANGED <<heartbeat, closed, asked, lpc, list, cur, stage, fresh, uaf>>

(* A Close mission locks its weak_ptr first.                                *)
RunClose(c) ==
  /\ lpc = "missions" /\ c \in asked
  /\ asked' = asked \ {c}
  /\ IF Alive(c) THEN Close({c} \cap Open) ELSE UNCHANGED <<ch, closed, refs>>
  /\ UNCHANGED <<heartbeat, made, lpc, list, cur, stage, fresh, uaf>>

MissionsDone ==
  /\ lpc = "missions"
  /\ lpc' = "poll"
  /\ UNCHANGED <<heartbeat, ch, made, closed, refs, asked, list, cur, stage,
                 fresh, uaf>>

-----------------------------------------------------------------------------
(* The base loop and the users' threads.                                    *)

(* tcpst_.erase, and the end of the mission that held the connection.       *)
Erase(c) ==
  /\ uaf = "no" /\ "erase" \in refs[c]
  /\ refs' = [refs EXCEPT ![c] = @ \ {"set", "erase"}]
  /\ UNCHANGED <<heartbeat, ch, made, closed, asked, lpc, list, cur, stage,
                 fresh, uaf>>

AskClose(c) ==
  /\ uaf = "no" /\ "user" \in refs[c] /\ ch[c].owner
  /\ asked' = asked \cup {c}
  /\ UNCHANGED <<heartbeat, ch, made, closed, refs, lpc, list, cur, stage,
                 fresh, uaf>>

Drop(c) ==
  /\ uaf = "no" /\ "user" \in refs[c]
  /\ refs' = [refs EXCEPT ![c] = @ \ {"user"}]
  /\ UNCHANGED <<heartbeat, ch, made, closed, asked, lpc, list, cur, stage,
                 fresh, uaf>>

-----------------------------------------------------------------------------
LoopStep ==
  \/ Poll \/ HandleTimer \/ Handle \/ Callback \/ FlushClose \/ FlushRemove
  \/ HandleDone \/ BatchDone \/ MissionsDone

Next ==
  \/ LoopStep
  \/ \E c \in Conns :
       \/ \E ok, keep \in BOOLEAN : Setup(c, ok, keep)
       \/ RunClose(c) \/ Erase(c) \/ AskClose(c) \/ Drop(c)

(* Both loops run.                                                          *)
Spec == Init /\ [][Next]_vars
FairSpec ==
  Spec /\ WF_vars(LoopStep) /\ \A c \in Conns : WF_vars(Erase(c))

-----------------------------------------------------------------------------
(* Properties.                                                              *)

(* Types; a tied or registered channel has an owner.                        *)
TypeOK ==
  /\ heartbeat \in Heartbeats
  /\ ch \in [Conns -> [owner : BOOLEAN, reg : BOOLEAN, tied : BOOLEAN]]
  /\ \A c \in Conns : ch[c].reg \/ ch[c].tied => ch[c].owner
  /\ made \subseteq Conns /\ closed \subseteq made /\ asked \subseteq made
  /\ refs \in [Conns -> SUBSET Ref]
  /\ lpc \in {"poll", "batch", "handle", "flush", "missions", "crashed"}
  /\ list \in Seq(Conns \cup {Timer}) /\ cur \in Conns \cup {Timer}
  /\ stage \in 1..5 /\ fresh \in BOOLEAN
  /\ uaf \in {"no", "own", "stale"}

(* No raw pointer in epoll dangles: a connection is destroyed only after it *)
(* has left its loop, whoever drops the last reference and on which thread, *)
(* and also when the base thread erases it in the middle of WriteFd.        *)
OutlivesRegistration == \A c \in Conns : ch[c].owner => Alive(c)

(* With heartbeats on, a connection that one of its own callbacks closes    *)
(* survives until Channel::Handle has read active_events_ for the last      *)
(* time, although the base loop may erase it meanwhile.                     *)
GuardedByTie == heartbeat => uaf # "own"

(* A closed connection that no user keeps is destroyed: neither the tie nor *)
(* the set, the queued erasure or a queued Close keeps it for ever.         *)
Reclaimed ==
  \A c \in Conns :
    c \in closed ~> ~Alive(c) \/ "user" \in refs[c] \/ uaf # "no"
=============================================================================
