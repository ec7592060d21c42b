------------------------------ MODULE TcpServer ------------------------------
(***************************************************************************)
(* A TcpServer: the base loop with its Acceptor, the EventLoopThreadPool of  *)
(* io loops, the set tcpst_ of connections and the thread that owns the      *)
(* server (src/src/tcpserver.cpp, acceptor.cpp, eventloopthreadpool.cpp).    *)
(*                                                                          *)
(* Each loop is the FIFO of missions that module EventLoop shows it to be:   *)
(* missions are taken one at a time, and a loop that has been told to quit   *)
(* may leave with missions still queued.  A connection is its stage: the     *)
(* bytes it carries are the business of module TcpConnection.  The loops     *)
(* have entered Loop() before they are stopped (module EventLoop treats the  *)
(* other case).                                                             *)
(*                                                                          *)
(* A loop object lives on the stack of its thread: a call on the loop after  *)
(* the thread has ended is undefined and ends the behaviour (`crashed').     *)
(***************************************************************************)
EXTENDS Integers, Sequences, FiniteSets

CONSTANTS
  MaxSize,        \* bound: the largest argument of SetSubThreadNum
  MaxConns,       \* bound: how many peers connect
  ExplicitClose   \* the owner may call Close() itself, before the destructor

ASSUME ServerBounds == MaxSize \in Nat \ {0} /\ MaxConns \in Nat
ASSUME CloseChoice  == ExplicitClose \in BOOLEAN

Loops == 0..(MaxSize - 1)
Conns == 1..MaxConns

VARIABLES
  main,         \* where the owner of the server is
  explicit,     \* the Close() under way was called by the owner
  isheartbeat,  \* isheartbeat_
  running,      \* pool_->running_
  num,          \* pool_->num_
  maxnum,       \* pool_->threads_.size(), 0 before Start; maxnum_ afterwards
  pos,          \* pool_->pos_
  listening,    \* the accept channel is registered for kRead
  bpc,          \* where the base loop is
  bquit,        \* quit_ of the base loop
  bq,           \* missions queued in the base loop
  fd,           \* the connection the accept callback holds (0: none)
  picked,       \* io_loop, in the accept callback
  ipc,          \* where each io loop is
  quit,         \* quit_ of each io loop
  iq,           \* connections whose setup task is queued in each io loop
  cur,          \* the connection whose setup task each io loop runs (0: none)
  cst,          \* the stage of each connection
  owner,        \* the io loop a connection was given to (-1: none)
  tcpst,        \* tcpst_
  resized,      \* history: SetSize changed a running pool
  crashed       \* history: a loop was used after its thread had ended

poolVars == <<running, num, maxnum, pos, resized>>
baseVars == <<listening, bpc, bquit, bq, fd, picked>>
ioVars   == <<ipc, quit, iq, cur>>
connVars == <<cst, owner, tcpst>>
vars == <<main, explicit, isheartbeat, poolVars, baseVars, ioVars, connVars,
          crashed>>

MainPC == {"new", "listen", "serving", "joinbase", "joinpool", "closed",
           "destroy", "gone"}
BasePC == {"idle", "accept", "picked", "dead"}
IoPC   == {"absent", "idle", "wait", "setup", "dead"}
Stage  == {"none", "backlog", "accepted", "queued", "made", "open", "closed",
           "refused", "lost"}
Mission == [op : {"listen", "insert", "erase"}, c : {0} \cup Conns]

SetOf(s) == {s[i] : i \in 1..Len(s)}

Init ==
  /\ main = "new" /\ explicit = FALSE
  /\ isheartbeat \in BOOLEAN
  /\ running = FALSE /\ num = 1 /\ maxnum = 0 /\ pos = 0 /\ resized = FALSE
  /\ listening = FALSE
  /\ bpc = "idle" /\ bquit = FALSE /\ bq = <<>> /\ fd = 0
  /\ picked = -1
  /\ ipc = [l \in Loops |-> "absent"]
  /\ quit = [l \in Loops |-> FALSE]
  /\ iq = [l \in Loops |-> <<>>]
  /\ cur = [l \in Loops |-> 0]
  /\ cst = [c \in Conns |-> "none"]
  /\ owner = [c \in Conns |-> -1]
  /\ tcpst = {}
  /\ crashed = FALSE

(* A call on a loop that no longer exists.                                  *)
UseDeadLoop ==
  /\ crashed' = TRUE
  /\ UNCHANGED <<main, explicit, isheartbeat, poolVars, baseVars, ioVars,
                 connVars>>

-----------------------------------------------------------------------------
(* The owner's thread.                                                      *)

AtLeast(n, lo) == IF n < lo THEN lo ELSE n
AtMost(n, hi) == IF n > hi THEN hi ELSE n

(* Mutant: a running pool is resized without regard to its threads.         *)
SetSizeUnclamped(n) ==
  /\ main \in {"new", "serving"}
  /\ num' = AtLeast(n, 1)
  /\ resized' = (resized \/ (running /\ num' # num))
  /\ UNCHANGED <<main, explicit, isheartbeat, running, maxnum, pos, baseVars,
                 ioVars, connVars, crashed>>

(* Mutant: a size of zero is taken as it is.                                *)
SetSizeZero(n) ==
  /\ main \in {"new", "serving"}
  /\ num' = IF running THEN AtMost(n, maxnum) ELSE n
  /\ resized' = (resized \/ (running /\ num' # num))
  /\ UNCHANGED <<main, explicit, isheartbeat, running, maxnum, pos, baseVars,
                 ioVars, connVars, crashed>>

(* SetSubThreadNum: at least one thread, and no more than a running pool has.*)
SetSize(n) ==
  /\ main \in {"new", "serving"}
  /\ num' = AtLeast(IF running THEN AtMost(n, maxnum) ELSE n, 1)
  /\ resized' = (resized \/ (running /\ num' # num))
  /\ UNCHANGED <<main, explicit, isheartbeat, running, maxnum, pos, baseVars,
                 ioVars, connVars, crashed>>

(* pool_->Start(): one thread per loop, each published before it returns.   *)
PoolStart ==
  /\ maxnum' = num
  /\ running' = TRUE
  /\ ipc' = [l \in Loops |-> IF l < num THEN "idle" ELSE "absent"]

(* acceptor_->Listen(): listen(2), whose failure nobody looks at, then      *)
(* SetActive, which off the base loop's thread is a SubmitAndWait.          *)
Listen ==
  \/ /\ bq' = Append(bq, [op |-> "listen", c |-> 0])
     /\ main' = "listen"
  \/ /\ main' = "serving"
     /\ UNCHANGED bq

Start ==
  /\ main = "new"
  /\ PoolStart
  /\ Listen
  /\ UNCHANGED <<explicit, isheartbeat, num, pos, resized, listening, bpc,
                 bquit, fd, picked, quit, iq, cur, connVars, crashed>>

(* Close(): the base loop is stopped and joined, then the pool.             *)
Close(byOwner) ==
  /\ main \in {"new", "serving"}
  /\ byOwner => ExplicitClose
  /\ explicit' = byOwner
  /\ bquit' = TRUE
  /\ main' = "joinbase"
  /\ UNCHANGED <<isheartbeat, poolVars, listening, bpc, bq, fd, picked, ioVars,
                 connVars, crashed>>

(* The base thread is joined; pool_->Close() stops every thread ...         *)
JoinBase ==
  /\ main = "joinbase"
  /\ bpc = "dead"
  /\ running' = FALSE
  /\ quit' = [l \in Loops |-> l < maxnum]
  /\ main' = "joinpool"
  /\ UNCHANGED <<explicit, isheartbeat, num, maxnum, pos, resized, baseVars,
                 ipc, iq, cur, connVars, crashed>>

(* ... and joins every thread.                                              *)
JoinPool ==
  /\ main = "joinpool"
  /\ \A l \in Loops : ipc[l] \in {"absent", "dead"}
  /\ main' = IF explicit THEN "closed" ELSE "destroy"
  /\ UNCHANGED <<explicit, isheartbeat, poolVars, baseVars, ioVars, connVars,
                 crashed>>

(* ~TcpServer after an explicit Close() calls Close() again: StopLoop on    *)
(* the base loop that has been joined.                                      *)
CloseAgain == main = "closed" /\ UseDeadLoop

(* The members of the server are destroyed, tcpst_ among them: a connection *)
(* that is still registered removes itself from its loop.                   *)
Destroy ==
  /\ main = "destroy"
  /\ IF \E c \in tcpst : cst[c] = "open"
       THEN UseDeadLoop
       ELSE /\ main' = "gone"
            /\ tcpst' = {}
            /\ UNCHANGED <<explicit, isheartbeat, poolVars, baseVars, ioVars,
                           cst, owner, crashed>>

-----------------------------------------------------------------------------
(* Peers.                                                                   *)

(* A connection is completed by the kernel and waits in the backlog.        *)
PeerConnect(c) ==
  /\ cst[c] = "none"
  /\ \A d \in Conns : d < c => cst[d] # "none"
  /\ main \notin {"new", "gone"}
  /\ cst' = [cst EXCEPT ![c] = "backlog"]
  /\ UNCHANGED <<main, explicit, isheartbeat, poolVars, baseVars, ioVars,
                 owner, tcpst, crashed>>

-----------------------------------------------------------------------------
(* The base loop.                                                           *)

Backlog == {c \in Conns : cst[c] = "backlog"}

(* epoll reports the listening socket and the read callback begins.         *)
AcceptBegin ==
  /\ bpc = "idle"
  /\ listening
  /\ Backlog # {}
  /\ bpc' = "accept"
  /\ UNCHANGED <<main, explicit, isheartbeat, poolVars, listening, bquit, bq,
                 fd, picked, ioVars, connVars, crashed>>

(* accept4 takes the oldest connection and GetOneThread gives a loop: pos_  *)
(* is brought within num_ and read.  A pool that does not run gives         *)
(* nullptr, and the descriptor is closed.                                   *)
AcceptOne ==
  /\ bpc = "accept"
  /\ \E c \in Backlog :
       /\ \A d \in Backlog : c <= d
       /\ IF running
            THEN /\ cst' = [cst EXCEPT ![c] = "accepted"]
                 /\ owner' = [owner EXCEPT ![c] = pos % num]
                 /\ pos' = pos % num
                 /\ picked' = pos % num
                 /\ fd' = c
                 /\ bpc' = "picked"
            ELSE /\ cst' = [cst EXCEPT ![c] = "refused"]
                 /\ UNCHANGED <<picked, pos, owner, fd, bpc>>
  /\ UNCHANGED <<main, explicit, isheartbeat, running, num, maxnum, resized,
                 listening, bquit, bq, ioVars, tcpst, crashed>>

(* Mutant: pos_ is not advanced.                                            *)
HandOverSameLoop ==
  /\ bpc = "picked"
  /\ iq' = [iq EXCEPT ![picked] = Append(@, fd)]
  /\ cst' = [cst EXCEPT ![fd] = "queued"]
  /\ fd' = 0
  /\ bpc' = "accept"
  /\ UNCHANGED <<main, explicit, isheartbeat, running, num, maxnum, pos,
                 resized, listening, bquit, bq, picked, ipc, quit, cur, owner,
                 tcpst, crashed>>

(* GetOneThread reads num_ a second time, SetSize by another thread may     *)
(* have changed it; then the setup task is submitted.                       *)
HandOver ==
  /\ bpc = "picked"
  /\ iq' = [iq EXCEPT ![picked] = Append(@, fd)]
  /\ cst' = [cst EXCEPT ![fd] = "queued"]
  /\ fd' = 0
  /\ pos' = (pos + 1) % num
  /\ bpc' = "accept"
  /\ UNCHANGED <<main, explicit, isheartbeat, running, num, maxnum, resized,
                 listening, bquit, bq, picked, ipc, quit, cur, owner, tcpst,
                 crashed>>

(* accept4 finds nothing (EAGAIN) or fails (out of descriptors, say): the   *)
(* callback ends and what is in the backlog stays there.                    *)
AcceptEnd ==
  /\ bpc = "accept"
  /\ bpc' = "idle"
  /\ UNCHANGED <<main, explicit, isheartbeat, poolVars, listening, bquit, bq,
                 fd, picked, ioVars, connVars, crashed>>

(* The base loop takes its next mission, if that is of the given kind.      *)
NextMission(op) ==
  /\ bpc = "idle"
  /\ bq # <<>>
  /\ Head(bq).op = op
  /\ bq' = Tail(bq)

(* The mission SetActive submitted and waits for: Listen() and Start()      *)
(* return.                                                                  *)
BaseListen ==
  /\ NextMission("listen")
  /\ listening' = TRUE
  /\ main' = "serving"
  /\ UNCHANGED <<explicit, isheartbeat, poolVars, bpc, bquit, fd, picked,
                 ioVars, connVars, crashed>>

(* Mutant: the insertion does not release the io thread that waits for it.  *)
BaseInsertNoSignal ==
  /\ NextMission("insert")
  /\ tcpst' = tcpst \cup {Head(bq).c}
  /\ UNCHANGED <<main, explicit, isheartbeat, poolVars, listening, bpc, bquit,
                 fd, picked, ioVars, cst, owner, crashed>>

(* The mission a setup task waits for.                                      *)
BaseInsert ==
  /\ NextMission("insert")
  /\ tcpst' = tcpst \cup {Head(bq).c}
  /\ ipc' = [l \in Loops |-> IF cur[l] = Head(bq).c THEN "setup" ELSE ipc[l]]
  /\ UNCHANGED <<main, explicit, isheartbeat, poolVars, listening, bpc, bquit,
                 fd, picked, quit, iq, cur, cst, owner, crashed>>

BaseErase ==
  /\ NextMission("erase")
  /\ tcpst' = tcpst \ {Head(bq).c}
  /\ UNCHANGED <<main, explicit, isheartbeat, poolVars, listening, bpc, bquit,
                 fd, picked, ioVars, cst, owner, crashed>>

BaseMission == BaseListen \/ BaseInsert \/ BaseErase

(* The loop sees quit_ and its thread ends, whatever is still queued.       *)
BaseLeave ==
  /\ bpc = "idle"
  /\ bquit
  /\ bpc' = "dead"
  /\ UNCHANGED <<main, explicit, isheartbeat, poolVars, listening, bquit, bq,
                 fd, picked, ioVars, connVars, crashed>>

-----------------------------------------------------------------------------
(* The io loops.                                                            *)

(* Mutant: the connection is registered by Submit instead of SubmitAndWait. *)
IoTakeNoWait(l) ==
  /\ ipc[l] = "idle" /\ iq[l] # <<>> /\ bpc # "dead"
  /\ iq' = [iq EXCEPT ![l] = Tail(@)]
  /\ cst' = [cst EXCEPT ![Head(iq[l])] = "made"]
  /\ cur' = [cur EXCEPT ![l] = Head(iq[l])]
  /\ bq' = Append(bq, [op |-> "insert", c |-> Head(iq[l])])
  /\ ipc' = [ipc EXCEPT ![l] = "setup"]
  /\ UNCHANGED <<main, explicit, isheartbeat, poolVars, listening, bpc, bquit,
                 fd, picked, quit, owner, tcpst, crashed>>

(* The setup task makes the TcpConnection and waits in the base loop's      *)
(* SubmitAndWait until it is in tcpst_.                                     *)
IoTake(l) ==
  /\ ipc[l] = "idle" /\ iq[l] # <<>>
  /\ IF bpc = "dead"
       THEN UseDeadLoop
       ELSE /\ iq' = [iq EXCEPT ![l] = Tail(@)]
            /\ cst' = [cst EXCEPT ![Head(iq[l])] = "made"]
            /\ cur' = [cur EXCEPT ![l] = Head(iq[l])]
            /\ bq' = Append(bq, [op |-> "insert", c |-> Head(iq[l])])
            /\ ipc' = [ipc EXCEPT ![l] = "wait"]
            /\ UNCHANGED <<main, explicit, isheartbeat, poolVars, listening,
                           bpc, bquit, fd, picked, quit, owner, tcpst, crashed>>

(* The rest of the setup task: the server's close callback is installed,    *)
(* the user's callback runs, the channel is activated.                      *)
IoActivate(l) ==
  /\ ipc[l] = "setup"
  /\ cst' = [cst EXCEPT ![cur[l]] = "open"]
  /\ ipc' = [ipc EXCEPT ![l] = "idle"]
  /\ cur' = [cur EXCEPT ![l] = 0]
  /\ UNCHANGED <<main, explicit, isheartbeat, poolVars, baseVars, quit, iq,
                 owner, tcpst, crashed>>

(* Mutant: the connection is torn down without the server's close callback. *)
TearDownForget(c) ==
  /\ cst' = [cst EXCEPT ![c] = "closed"]
  /\ UNCHANGED bq

(* CloseInThread and the server's close callback: the erasure is submitted  *)
(* to the base loop.                                                        *)
TearDown(c) ==
  /\ cst' = [cst EXCEPT ![c] = "closed"]
  /\ bq' = Append(bq, [op |-> "erase", c |-> c])

(* The user's callback closes the connection; Activate then does nothing.   *)
IoReject(l) ==
  /\ ipc[l] = "setup"
  /\ IF bpc = "dead"
       THEN UseDeadLoop
       ELSE /\ TearDown(cur[l])
            /\ ipc' = [ipc EXCEPT ![l] = "idle"]
            /\ cur' = [cur EXCEPT ![l] = 0]
            /\ UNCHANGED <<main, explicit, isheartbeat, poolVars, listening,
                           bpc, bquit, fd, picked, quit, iq, owner, tcpst,
                           crashed>>

(* An open connection is torn down: closed by its peer, by the user, by an  *)
(* error or by the heartbeat.                                               *)
IoClose(c) ==
  /\ cst[c] = "open"
  /\ ipc[owner[c]] = "idle"
  /\ IF bpc = "dead"
       THEN UseDeadLoop
       ELSE /\ TearDown(c)
            /\ UNCHANGED <<main, explicit, isheartbeat, poolVars, listening,
                           bpc, bquit, fd, picked, ioVars, owner, tcpst,
                           crashed>>

(* An io loop sees quit_ and its thread ends.  The setup tasks it has not   *)
(* run are destroyed, and with them the only copies of their descriptors.   *)
IoLeave(l) ==
  /\ ipc[l] = "idle"
  /\ quit[l]
  /\ ipc' = [ipc EXCEPT ![l] = "dead"]
  /\ cst' = [c \in Conns |-> IF c \in SetOf(iq[l]) THEN "lost" ELSE cst[c]]
  /\ iq' = [iq EXCEPT ![l] = <<>>]
  /\ UNCHANGED <<main, explicit, isheartbeat, poolVars, baseVars, quit, cur,
                 owner, tcpst, crashed>>

(* With heartbeats on, ~EventLoop destroys the timing wheel and every       *)
(* HeartBeatObj in it closes its connection: the close callback submits to  *)
(* the base loop, which has been joined.                                    *)
IoLeaveExpiring(l) ==
  /\ ipc[l] = "idle"
  /\ quit[l]
  /\ isheartbeat
  /\ \E c \in Conns : cst[c] = "open" /\ owner[c] = l
  /\ UseDeadLoop

-----------------------------------------------------------------------------
BaseStep == AcceptBegin \/ HandOver \/ AcceptEnd
IoStep(l) == IoTake(l) \/ IoActivate(l) \/ IoLeave(l)
MainStep == JoinBase \/ JoinPool \/ Destroy

Next ==
  /\ ~crashed
  /\ \/ \E n \in 0..MaxSize : SetSize(n)
     \/ Start
     \/ \E byOwner \in BOOLEAN : Close(byOwner)
     \/ MainStep \/ CloseAgain
     \/ \E c \in Conns : PeerConnect(c) \/ IoClose(c)
     \/ BaseStep \/ AcceptOne \/ BaseMission \/ BaseLeave
     \/ \E l \in Loops : IoStep(l) \/ IoReject(l) \/ IoLeaveExpiring(l)

(* Every thread that can run is scheduled.  The base loop runs its missions *)
(* and tests quit_ once per iteration, however often accept4 fails; accept4 *)
(* does not fail for ever.                                                  *)
Fairness ==
  /\ WF_vars(~crashed /\ BaseStep)
  /\ SF_vars(~crashed /\ AcceptOne)
  /\ SF_vars(~crashed /\ BaseMission)
  /\ SF_vars(~crashed /\ BaseLeave)
  /\ WF_vars(~crashed /\ MainStep)
  /\ \A l \in Loops : WF_vars(~crashed /\ IoStep(l))

Spec == Init /\ [][Next]_vars
FairSpec == Spec /\ Fairness

-----------------------------------------------------------------------------
(* Properties.                                                              *)

TypeOK ==
  /\ main \in MainPC
  /\ explicit \in BOOLEAN /\ isheartbeat \in BOOLEAN
  /\ running \in BOOLEAN
  /\ num \in 1..MaxSize /\ maxnum \in 0..MaxSize /\ pos \in Loops
  /\ listening \in BOOLEAN
  /\ bpc \in BasePC /\ bquit \in BOOLEAN
  /\ bq \in Seq(Mission)
  /\ fd \in {0} \cup Conns /\ picked \in {-1} \cup Loops
  /\ ipc \in [Loops -> IoPC]
  /\ quit \in [Loops -> BOOLEAN]
  /\ iq \in [Loops -> Seq(Conns)]
  /\ cur \in [Loops -> {0} \cup Conns]
  /\ cst \in [Conns -> Stage]
  /\ owner \in [Conns -> {-1} \cup Loops]
  /\ tcpst \subseteq Conns
  /\ resized \in BOOLEAN /\ crashed \in BOOLEAN

(* An open connection is in tcpst_, which keeps its object alive: the setup *)
(* task waits for the insertion before it activates the channel, and the    *)
(* erasure, queued by another thread, cannot overtake the insertion.        *)
OpenAreRegistered == \A c \in Conns : cst[c] = "open" => c \in tcpst

(* tcpst_ keeps no ghost: a closed connection is still in the set only while *)
(* its erasure is queued, unless the base loop has ended.                   *)
NoGhosts ==
  \A c \in tcpst : cst[c] = "closed" =>
    \/ [op |-> "erase", c |-> c] \in SetOf(bq)
    \/ bpc = "dead"

(* No accepted connection is refused for want of a loop: the pool runs      *)
(* before the acceptor listens and until the base loop has ended.           *)
NeverRefused == \A c \in Conns : cst[c] # "refused"

(* A connection is always handed to a loop, and while the base loop lives   *)
(* to one whose thread exists: SetSize stays within the threads Start made, *)
(* and the pool is closed after the base loop has ended.                    *)
HandedToLiveLoop ==
  /\ NeverRefused
  /\ bpc # "dead" =>
       \A l \in Loops : iq[l] # <<>> => ipc[l] \in {"idle", "wait", "setup"}

Load(l) == Cardinality({c \in Conns : owner[c] = l})

(* Round robin: as long as the pool has not been resized, the connections   *)
(* accepted by any two of its loops differ by at most one.                  *)
Balanced ==
  running /\ ~resized =>
    \A k, l \in 0..(maxnum - 1) : Load(k) <= Load(l) + 1

(* A connection that reaches a listening server is accepted and set up,     *)
(* across the two loops and the wait of one for the other, unless the       *)
(* server is closed.                                                        *)
Served ==
  \A c \in Conns :
    cst[c] = "backlog" /\ listening ~> cst[c] \in {"open", "closed"} \/ bquit

(* Loops outlive the calls on them: no thread calls a loop that has ended   *)
(* and none is left waiting for one (the server outlives its connections).  *)
LoopsOutliveCalls ==
  /\ ~crashed
  /\ bpc = "dead" => \A l \in Loops : ipc[l] # "wait"
=============================================================================
