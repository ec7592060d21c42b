--------------------------- MODULE TcpConnection ---------------------------
(***************************************************************************)
(* One TcpConnection with its Channel, driven by the loop thread that owns  *)
(* it, called by other threads, and talking to a peer through the kernel    *)
(* (src/src/tcpconnection.cpp, channel.cpp, epoll.cpp).                     *)
(*                                                                          *)
(* The loop is the one EventLoop specifies: poll, dispatch of the active    *)
(* events, then the missions queued at the swap, in FIFO order.  What runs  *)
(* on the loop thread between two such points is one step; a call from      *)
(* another thread is several, because it reads close_requested_ and the     *)
(* channel's owner_ without a lock and queues the rest as a mission.        *)
(*                                                                          *)
(* Output is a sequence of units, each tagged with its writer, its message  *)
(* and its position.  The connection object stays alive throughout; who     *)
(* keeps it alive is the subject of module Lifetime.                        *)
(***************************************************************************)
EXTENDS Integers, Sequences, FiniteSets

CONSTANTS
  Callers,      \* threads other than the loop's that call Write and Close
  LoopThread,   \* the loop thread, as a writer
  MsgLen,       \* units in a message
  SndCap,       \* units the kernel's send buffer holds
  MaxWrites,    \* bound: messages of a caller, and of any two together
  SetupWrites,  \* bound: messages written by the new-connection callback
  MaxChunks,    \* bound: chunks the peer sends
  Resets        \* the peer may reset the connection

ASSUME WritersAssumption == LoopThread \notin Callers
ASSUME SizesAssumption ==
  /\ MsgLen \in Nat \ {0} /\ SndCap \in Nat \ {0}
  /\ MaxWrites \in Nat /\ SetupWrites \in Nat /\ MaxChunks \in Nat
  /\ Resets \in BOOLEAN

VARIABLES
  conn,      \* the connection object and the kernel's socket, see ConnType
  lpc,       \* where the loop thread is
  act,       \* active_events_ still to be dispatched
  missions,  \* the loop's mission queue
  todo,      \* how many of them the current DoCrossThreadMission runs
  pc,        \* where each caller is
  count,     \* messages written so far, per writer
  chunks,    \* chunks the peer has sent
  expired    \* the HeartBeatObj has been destroyed

vars == <<conn, lpc, act, missions, todo, pc, count, chunks, expired>>

Writers == Callers \cup {LoopThread}
Unit == Writers \X (1..(MaxWrites + SetupWrites + MaxChunks)) \X (1..MsgLen)
Message(w, n) == [k \in 1..MsgLen |-> <<w, n, k>>]

(* What one read delivers, as far as onmessage_ tells: part of a frame, a   *)
(* whole frame, a length above the limit, or a frame followed by one.       *)
Chunk == {"part", "frame", "huge", "frame_huge"}

(* kRead, kWrite, kError, kClose                                            *)
Event == {"r", "w", "e", "c"}

ConnType ==
  [status : {"kConnecting", "kDisConnecting", "kDisConnected"},
   close_requested : BOOLEAN,
   owner  : BOOLEAN,       \* channel_->owner_ is not null
   events : SUBSET Event,  \* channel_->events_
   wbuf   : Seq(Unit),     \* write_buffer_
   fd     : BOOLEAN,       \* socket_ is open
   cbs    : Nat,           \* calls of close_callback_
   room   : 0..SndCap,     \* free space in the kernel's send buffer
   inq    : Seq(Chunk),    \* received and not read
   fin    : BOOLEAN,       \* the peer has shut down its side
   reset  : BOOLEAN,       \* the peer has reset the connection
   sent   : Seq(Unit),     \* history: handed to the kernel
   accepted : Seq(Unit),   \* history: what WriteInThread took on
   badio  : BOOLEAN]       \* history: a system call on the closed descriptor

Init ==
  /\ conn = [status |-> "kConnecting", close_requested |-> FALSE,
             owner |-> TRUE, events |-> {}, wbuf |-> <<>>, fd |-> TRUE,
             cbs |-> 0, room |-> SndCap, inq |-> <<>>, fin |-> FALSE,
             reset |-> FALSE, sent |-> <<>>, accepted |-> <<>>,
             badio |-> FALSE]
  /\ lpc = "setup"
  /\ act = {}
  /\ missions = <<>>
  /\ todo = 0
  /\ pc = [c \in Callers |-> "idle"]
  /\ count = [w \in Writers |-> 0]
  /\ chunks = 0
  /\ expired = FALSE

-----------------------------------------------------------------------------
(* The member functions that run on the loop thread, as functions on conn.  *)

(* A system call on the socket; a closed descriptor may belong to somebody  *)
(* else by now.                                                             *)
UseFd(s) == [s EXCEPT !.badio = @ \/ ~s.fd]

(* Channel::SetActive: the events to wait for, registered while the channel *)
(* is in its loop.                                                          *)
SetActive(s, ev) == [s EXCEPT !.events = ev]

RemoveFromLoop(s) == [s EXCEPT !.owner = FALSE]

(* The end of a connection: RemoveFromLoop, Socket::Close, close_callback_. *)
(* WriteFd calls the callback first; that order matters to who keeps the    *)
(* object alive, which module Lifetime tells apart.                         *)
Disconnect(s) ==
  [RemoveFromLoop(s) EXCEPT !.status = "kDisConnected", !.fd = FALSE,
                            !.cbs = @ + 1]

(* Mutant: a second close runs the callback again.                          *)
CloseInThreadAgain(s) ==
  IF s.wbuf = <<>> THEN Disconnect(s)
  ELSE SetActive([s EXCEPT !.status = "kDisConnecting"], s.events \cup {"w"})

CloseInThread(s) ==
  CASE s.status = "kDisConnected" -> s
    [] s.status # "kDisConnected" /\ s.wbuf = <<>> -> Disconnect(s)
    [] OTHER -> SetActive([s EXCEPT !.status = "kDisConnecting"],
                          s.events \cup {"w"})

(* Close() called on the loop thread.                                       *)
Close(s) ==
  IF s.close_requested THEN s
  ELSE LET r == [s EXCEPT !.close_requested = TRUE]
       IN  IF r.owner THEN CloseInThread(r) ELSE r

(* write(2) of the units u: the kernel takes what it has room for, which    *)
(* is nothing (EAGAIN) when it has none.                                    *)
KernelTake(s, u) == IF Len(u) <= s.room THEN Len(u) ELSE s.room

(* Mutant: the rest is buffered with the length of the whole message, and   *)
(* what lies behind the message in memory goes with it.                     *)
KernelWriteOverrun(s, u) ==
  LET n == KernelTake(s, u)
  IN  [UseFd(s) EXCEPT
         !.sent = @ \o SubSeq(u, 1, n), !.room = @ - n,
         !.wbuf = IF n = Len(u) THEN <<>>
                  ELSE [i \in 1..Len(u) |->
                          IF n + i <= Len(u) THEN u[n + i] ELSE <<>>]]

KernelWrite(s, u) ==
  LET n == KernelTake(s, u)
  IN  [UseFd(s) EXCEPT !.sent = @ \o SubSeq(u, 1, n), !.room = @ - n,
                       !.wbuf = SubSeq(u, n + 1, Len(u))]

(* Unsent output is waited for with kWrite.                                 *)
Arm(s) == IF s.wbuf # <<>> THEN SetActive(s, s.events \cup {"w"}) ELSE s

(* Mutant: the message bypasses what is already buffered.                   *)
WriteInThreadBypass(s, msg) ==
  CASE s.status # "kConnecting" -> s
    [] s.status = "kConnecting" /\ s.reset -> CloseInThread(UseFd(s))
    [] OTHER -> Arm([KernelWrite(s, msg) EXCEPT !.accepted = @ \o msg])

(* Mutant: a connection that is closing still takes messages on.            *)
WriteInThreadLate(s, msg) ==
  CASE s.status = "kDisConnected" -> s
    [] s.status # "kDisConnected" /\ s.wbuf # <<>> ->
         Arm([s EXCEPT !.wbuf = @ \o msg, !.accepted = @ \o msg])
    [] s.status # "kDisConnected" /\ s.wbuf = <<>> /\ s.reset ->
         CloseInThread(UseFd(s))
    [] OTHER -> Arm([KernelWrite(s, msg) EXCEPT !.accepted = @ \o msg])

WriteInThread(s, msg) ==
  CASE s.status # "kConnecting" -> s
    [] s.status = "kConnecting" /\ s.wbuf # <<>> ->
         Arm([s EXCEPT !.wbuf = @ \o msg, !.accepted = @ \o msg])
    [] s.status = "kConnecting" /\ s.wbuf = <<>> /\ s.reset ->
         CloseInThread(UseFd(s))
    [] OTHER -> Arm([KernelWrite(s, msg) EXCEPT !.accepted = @ \o msg])

(* Write() called on the loop thread.                                       *)
Write(s, msg) == IF s.owner THEN WriteInThread(s, msg) ELSE s

(* Mutant: kWrite is dropped after every flush, complete or not.            *)
AfterFlushDisarm(s) ==
  LET r == SetActive(s, s.events \ {"w"})
  IN  IF r.wbuf = <<>> /\ r.status = "kDisConnecting" THEN Disconnect(r) ELSE r

(* Mutant: the deferred close is forgotten.                                 *)
AfterFlushForget(s) ==
  IF s.wbuf # <<>> THEN s ELSE SetActive(s, s.events \ {"w"})

(* The end of WriteFd: with nothing left, kWrite is dropped and a deferred  *)
(* close is carried out.                                                    *)
AfterFlush(s) ==
  IF s.wbuf # <<>> THEN s
  ELSE LET r == SetActive(s, s.events \ {"w"})
       IN  IF r.status = "kDisConnecting" THEN Disconnect(r) ELSE r

WriteFd(s) ==
  IF s.status = "kDisConnected" THEN s
  ELSE AfterFlush(IF s.reset THEN Close(UseFd(s)) ELSE KernelWrite(s, s.wbuf))

ActivateInThread(s) ==
  IF s.status # "kConnecting" THEN s ELSE SetActive(s, {"r", "c"})

(* Activate() called on the loop thread.                                    *)
Activate(s) == IF s.owner THEN ActivateInThread(s) ELSE s

(* The default onmessage_: a reply to each whole frame, Close on a length   *)
(* above the limit.                                                         *)
OnMessage(s, chunk, reply) ==
  CASE chunk = "part"  -> s
    [] chunk = "frame" -> Write(s, reply)
    [] chunk = "huge"  -> Close(s)
    [] chunk = "frame_huge" -> Close(Write(s, reply))

(* Mutant: Read does not look at status_ first.                             *)
ReadUnchecked(s, reply) ==
  CASE s.reset \/ (s.inq = <<>> /\ s.fin) -> Close(UseFd(s))
    [] ~s.reset /\ s.inq # <<>> ->
         OnMessage([UseFd(s) EXCEPT !.inq = Tail(@)], Head(s.inq), reply)
    [] OTHER -> UseFd(s)

Read(s, reply) ==
  CASE s.status # "kConnecting" -> s
    [] s.status = "kConnecting" /\ (s.reset \/ (s.inq = <<>> /\ s.fin)) ->
         Close(UseFd(s))
    [] s.status = "kConnecting" /\ ~s.reset /\ s.inq # <<>> ->
         OnMessage([UseFd(s) EXCEPT !.inq = Tail(@)], Head(s.inq), reply)
    [] OTHER -> UseFd(s)

(* What epoll_wait reports, level triggered; EPOLLERR and EPOLLHUP are      *)
(* reported whatever the interest.                                          *)
Ready(s) ==
  {e \in Event :
     /\ s.owner
     /\ \/ e = "r" /\ e \in s.events /\ (s.inq # <<>> \/ s.fin \/ s.reset)
        \/ e = "w" /\ e \in s.events /\ (s.room > 0 \/ s.reset)
        \/ e = "e" /\ s.reset
        \/ e = "c" /\ (s.reset \/ (e \in s.events /\ s.fin))}

-----------------------------------------------------------------------------
(* The loop thread.                                                         *)

NextMessage(w) == Message(w, count[w] + 1)
Counted(w) == [count EXCEPT ![w] = @ + 1]

(* The new-connection callback, which runs before Activate in the same      *)
(* mission, may write and close.                                            *)
SetupWrite ==
  /\ lpc = "setup"
  /\ count[LoopThread] < SetupWrites
  /\ conn' = Write(conn, NextMessage(LoopThread))
  /\ count' = Counted(LoopThread)
  /\ UNCHANGED <<lpc, act, missions, todo, pc, chunks, expired>>

SetupClose ==
  /\ lpc = "setup"
  /\ conn' = Close(conn)
  /\ UNCHANGED <<lpc, act, missions, todo, pc, count, chunks, expired>>

SetupDone ==
  /\ lpc = "setup"
  /\ conn' = Activate(conn)
  /\ lpc' = "poll"
  /\ UNCHANGED <<act, missions, todo, pc, count, chunks, expired>>

(* epoll_wait and SetActiveEvents.                                          *)
Poll ==
  /\ lpc = "poll"
  /\ act' = Ready(conn)
  /\ lpc' = "active"
  /\ UNCHANGED <<conn, missions, todo, pc, count, chunks, expired>>

(* Another channel of the same batch, or of the same iteration, is the      *)
(* timer, and its tick destroys this connection's HeartBeatObj.             *)
Expire ==
  /\ lpc \in {"active", "swap"}
  /\ ~expired
  /\ expired' = TRUE
  /\ conn' = Close(conn)
  /\ UNCHANGED <<lpc, act, missions, todo, pc, count, chunks>>

(* Channel::Handle: the callbacks of the active events, in this order.      *)
HandleRead ==
  /\ lpc \in {"active", "dispatch"}
  /\ "r" \in act
  /\ conn' = Read(conn, NextMessage(LoopThread))
  /\ count' = IF conn'.accepted # conn.accepted THEN Counted(LoopThread) ELSE count
  /\ act' = act \ {"r"}
  /\ lpc' = "dispatch"
  /\ UNCHANGED <<missions, todo, pc, chunks, expired>>

HandleWrite ==
  /\ lpc \in {"active", "dispatch"}
  /\ "w" \in act /\ "r" \notin act
  /\ conn' = WriteFd(conn)
  /\ act' = act \ {"w"}
  /\ lpc' = "dispatch"
  /\ UNCHANGED <<missions, todo, pc, count, chunks, expired>>

(* The error and the close callback both call Close().                      *)
HandleErrorOrClose ==
  /\ lpc \in {"active", "dispatch"}
  /\ act # {} /\ act \cap {"r", "w"} = {}
  /\ conn' = Close(conn)
  /\ act' = IF "e" \in act THEN act \ {"e"} ELSE {}
  /\ lpc' = "dispatch"
  /\ UNCHANGED <<missions, todo, pc, count, chunks, expired>>

HandleDone ==
  /\ lpc \in {"active", "dispatch"}
  /\ act = {}
  /\ lpc' = "swap"
  /\ UNCHANGED <<conn, act, missions, todo, pc, count, chunks, expired>>

Swap ==
  /\ lpc = "swap"
  /\ todo' = Len(missions)
  /\ lpc' = "missions"
  /\ UNCHANGED <<conn, act, missions, pc, count, chunks, expired>>

RunMission ==
  /\ lpc = "missions"
  /\ todo > 0
  /\ conn' = IF Head(missions).op = "write"
             THEN WriteInThread(conn, Head(missions).msg)
             ELSE CloseInThread(conn)
  /\ missions' = Tail(missions)
  /\ todo' = todo - 1
  /\ UNCHANGED <<lpc, act, pc, count, chunks, expired>>

MissionsDone ==
  /\ lpc = "missions"
  /\ todo = 0
  /\ lpc' = "poll"
  /\ UNCHANGED <<conn, act, missions, todo, pc, count, chunks, expired>>

-----------------------------------------------------------------------------
(* The callers.  owner_ is tested first and read again for the Submit.      *)

WriteTest(c) ==
  /\ pc[c] = "idle"
  /\ count[c] < MaxWrites
  /\ \A d \in Callers \ {c} : count[c] + count[d] < MaxWrites
  /\ pc' = [pc EXCEPT ![c] = IF conn.owner THEN "write" ELSE "idle"]
  /\ count' = Counted(c)
  /\ UNCHANGED <<conn, lpc, act, missions, todo, chunks, expired>>

CloseRequest(c) ==
  /\ pc[c] = "idle"
  /\ ~conn.close_requested
  /\ conn' = [conn EXCEPT !.close_requested = TRUE]
  /\ pc' = [pc EXCEPT ![c] = "closetest"]
  /\ UNCHANGED <<lpc, act, missions, todo, count, chunks, expired>>

CloseTest(c) ==
  /\ pc[c] = "closetest"
  /\ pc' = [pc EXCEPT ![c] = IF conn.owner THEN "close" ELSE "idle"]
  /\ UNCHANGED <<conn, lpc, act, missions, todo, count, chunks, expired>>

(* channel_->owner_->Submit(...): the mission is queued; when the pointer   *)
(* has become null meanwhile, the process dies.                             *)
SubmitCall(c) ==
  /\ pc[c] \in {"write", "close"}
  /\ IF conn.owner
     THEN /\ missions' = Append(missions,
                IF pc[c] = "write"
                THEN [op |-> "write", msg |-> Message(c, count[c])]
                ELSE [op |-> "close", msg |-> <<>>])
          /\ pc' = [pc EXCEPT ![c] = "idle"]
          /\ UNCHANGED lpc
     ELSE /\ pc' = [d \in Callers |-> "crashed"]
          /\ lpc' = "crashed"
          /\ UNCHANGED missions
  /\ UNCHANGED <<conn, act, todo, count, chunks, expired>>

-----------------------------------------------------------------------------
(* The peer and the network.                                                *)

PeerSend(k) ==
  /\ conn.fd /\ ~conn.fin /\ ~conn.reset
  /\ chunks < MaxChunks
  /\ chunks' = chunks + 1
  /\ conn' = [conn EXCEPT !.inq = Append(@, k)]
  /\ UNCHANGED <<lpc, act, missions, todo, pc, count, expired>>

PeerTakes ==
  /\ conn.fd /\ ~conn.reset
  /\ conn.room < SndCap
  /\ conn' = [conn EXCEPT !.room = @ + 1]
  /\ UNCHANGED <<lpc, act, missions, todo, pc, count, chunks, expired>>

PeerShutdown ==
  /\ conn.fd /\ ~conn.fin /\ ~conn.reset
  /\ conn' = [conn EXCEPT !.fin = TRUE]
  /\ UNCHANGED <<lpc, act, missions, todo, pc, count, chunks, expired>>

PeerReset ==
  /\ Resets
  /\ conn.fd /\ ~conn.reset
  /\ conn' = [conn EXCEPT !.reset = TRUE, !.inq = <<>>]
  /\ UNCHANGED <<lpc, act, missions, todo, pc, count, chunks, expired>>

-----------------------------------------------------------------------------
LoopStep ==
  \/ SetupDone \/ Poll \/ HandleRead \/ HandleWrite \/ HandleErrorOrClose
  \/ HandleDone \/ Swap \/ RunMission \/ MissionsDone

CallerStep(c) == CloseTest(c) \/ SubmitCall(c)

Next ==
  \/ LoopStep
  \/ SetupWrite \/ SetupClose \/ Expire
  \/ \E c \in Callers : WriteTest(c) \/ CloseRequest(c) \/ CallerStep(c)
  \/ \E k \in Chunk : PeerSend(k)
  \/ PeerTakes \/ PeerShutdown \/ PeerReset

(* The loop thread and the threads inside a call are scheduled, and the     *)
(* peer goes on reading what it is sent.                                    *)
Fairness ==
  /\ WF_vars(LoopStep)
  /\ \A c \in Callers : WF_vars(CallerStep(c))
  /\ WF_vars(PeerTakes)

Spec == Init /\ [][Next]_vars
FairSpec == Spec /\ Fairness

-----------------------------------------------------------------------------
(* Properties.                                                              *)

LoopPC == {"setup", "poll", "active", "dispatch", "swap", "missions",
           "crashed"}
CallerPC == {"idle", "write", "closetest", "close", "crashed"}
Mission == [op : {"write", "close"}, msg : Seq(Unit)]

(* Types; in the output buffer and on the wire are units of messages only,  *)
(* nothing from beyond the end of one.                                      *)
TypeOK ==
  /\ conn \in ConnType
  /\ lpc \in LoopPC
  /\ act \subseteq Event
  /\ missions \in Seq(Mission)
  /\ todo \in 0..Len(missions)
  /\ pc \in [Callers -> CallerPC]
  /\ count \in [Writers -> Nat]
  /\ chunks \in 0..MaxChunks
  /\ expired \in BOOLEAN

(* The output stream has no gap, no repetition and no reordering: what the  *)
(* kernel was given followed by what is buffered is exactly what            *)
(* WriteInThread accepted, over all partial writes and flushes; and in that *)
(* the messages of one writer keep the order of its Write calls, also when  *)
(* they travel through the mission queue.                                   *)
StreamIntact ==
  /\ conn.sent \o conn.wbuf = conn.accepted
  /\ \A i, j \in 1..Len(conn.accepted) :
       LET u == conn.accepted[i]
           v == conn.accepted[j]
       IN  i < j /\ u[1] = v[1] =>
             u[2] < v[2] \/ (u[2] = v[2] /\ u[3] < v[3])

(* A connection is torn down once and completely: exactly when it is        *)
(* kDisConnected its channel has left the loop, its descriptor is closed    *)
(* and the close callback has run, once; and nothing accepted is left       *)
(* unsent.                                                                  *)
TornDownOnce ==
  IF conn.status = "kDisConnected"
  THEN ~conn.owner /\ ~conn.fd /\ conn.cbs = 1 /\ conn.wbuf = <<>>
  ELSE conn.owner /\ conn.fd /\ conn.cbs = 0

(* No callback dispatched from a stale active_events_, and no mission queued *)
(* before the close, reads or writes the closed descriptor.                 *)
NoIOAfterClose == ~conn.badio

(* Buffered output is always being waited for: while the connection is in   *)
(* its loop and has unsent data, it is registered for writability.          *)
PendingWriteArmed ==
  conn.wbuf # <<>> /\ conn.owner => "w" \in conn.events

(* A thread never dereferences the null owner_ of a channel that has left   *)
(* its loop: Write and Close are safe to call from any thread.              *)
CallersSafe == lpc # "crashed"

(* Once closing has begun, status_ only moves towards kDisConnected and the *)
(* stream only shrinks towards empty: nothing more is accepted.             *)
ClosingIsFinal ==
  [][conn.status # "kConnecting" =>
       /\ conn'.status # "kConnecting"
       /\ conn'.accepted = conn.accepted
       /\ Len(conn'.wbuf) <= Len(conn.wbuf)]_vars

(* A requested close is completed, unless the peer resets the connection    *)
(* while output is pending (or the process has crashed).                    *)
CloseCompletes ==
  conn.close_requested ~>
    (\/ conn.status = "kDisConnected"
     \/ conn.reset /\ conn.wbuf # <<>>
     \/ lpc = "crashed")

(* Once the connection is activated, output that is waited for reaches the  *)
(* kernel, also when a close is pending.                                    *)
OutputFlushed ==
  lpc # "setup" /\ conn.wbuf # <<>> /\ "w" \in conn.events ~>
    (conn.wbuf = <<>> \/ conn.reset \/ lpc = "crashed")
=============================================================================
