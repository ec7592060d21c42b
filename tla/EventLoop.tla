----------------------------- MODULE EventLoop -----------------------------
(***************************************************************************)
(* One EventLoop, the EventLoopThread that runs it, and the threads that    *)
(* use it (src/src/eventloop.cpp, eventloopthread.cpp, epoll.cpp).          *)
(*                                                                          *)
(* The loop thread constructs the loop, publishes its address, and runs     *)
(* Loop(): test quit_, epoll_wait, handle the active channels (the wakeup   *)
(* channel drains the eventfd), then swap the mission queue out under mtx_  *)
(* and run it.  Other threads push missions under mtx_ and then write the   *)
(* eventfd; the two are separate steps.  The owner thread starts the        *)
(* EventLoopThread and finally stops and joins it.                          *)
(*                                                                          *)
(* A mission is identified by its submitter and a per-submitter number; its *)
(* body is opaque.  `executed' is a history variable, `missed' records that *)
(* a WakeUp was cut short by a signal since the last swap.                  *)
(***************************************************************************)
EXTENDS Integers, Sequences, FiniteSets

CONSTANTS
  Clients,       \* threads that hold a pointer to the loop
  Owner,         \* the client that started the EventLoopThread
  LoopThread,    \* the thread that runs Loop()
  MaxTasks,      \* bound: MaxTasks[t] is how many missions thread t submits
  EvMax,         \* the eventfd counter's largest value (2^64 - 2 in the kernel)
  Signals,       \* signals may interrupt read, write and epoll_wait (EINTR)
  PollMayFail    \* epoll_wait may fail with an error Loop() does not retry

ASSUME ClientsAssumption == Owner \in Clients /\ LoopThread \notin Clients
ASSUME BoundsAssumption  ==
         MaxTasks \in [Clients \cup {LoopThread} -> Nat] /\ EvMax \in Nat \ {0}
ASSUME FaultsAssumption  == Signals \in BOOLEAN /\ PollMayFail \in BOOLEAN

VARIABLES
  lpc,        \* where the loop thread is
  loop_,      \* EventLoopThread::loop_ is not null
  quit,       \* EventLoop::quit_
  evfd,       \* the eventfd counter
  missions,   \* EventLoop::missions_, guarded by mtx_
  batch,      \* what DoCrossThreadMission swapped out and has not run yet
  active,     \* the wakeup channel is in active_list
  pc,         \* where each client is
  done,       \* WaitState::done of each client's current SubmitAndWait
  count,      \* missions submitted so far, per thread
  executed,   \* history: missions executed, in order
  missed      \* history: a WakeUp failed with EINTR since the last swap

vars == <<lpc, loop_, quit, evfd, missions, batch, active, pc, done, count,
          executed, missed>>

Threads == Clients \cup {LoopThread}
Task == UNION {[by : {t}, n : 1..MaxTasks[t], wait : BOOLEAN] : t \in Threads}

LoopPC == {"construct", "entry", "test", "poll", "handle", "swap", "run",
           "notify", "left", "dead"}
ClientPC == {"start", "idle", "wake", "wakewait", "wait", "stop", "stopwake",
             "join", "joined"}

(* The iterations of Loop(): the loop still executes missions.              *)
Running == lpc \notin {"left", "dead"}

Init ==
  /\ lpc = "construct"
  /\ loop_ = FALSE
  /\ quit = FALSE
  /\ evfd = 0
  /\ missions = <<>>
  /\ batch = <<>>
  /\ active = FALSE
  /\ pc = [c \in Clients |-> IF c = Owner THEN "start" ELSE "idle"]
  /\ done = [c \in Clients |-> FALSE]
  /\ count = [t \in Threads |-> 0]
  /\ executed = <<>>
  /\ missed = FALSE

-----------------------------------------------------------------------------
(* The loop thread.                                                         *)

(* The lambda of EventLoopThread: the loop is built, prework_ has run, the  *)
(* address is published and Start() notified.                               *)
Publish ==
  /\ lpc = "construct"
  /\ loop_' = TRUE
  /\ lpc' = "entry"
  /\ UNCHANGED <<quit, evfd, missions, batch, active, pc, done, count,
                 executed, missed>>

(* Loop() begins by clearing quit_.                                         *)
EnterLoop ==
  /\ lpc = "entry"
  /\ quit' = FALSE
  /\ lpc' = "test"
  /\ UNCHANGED <<loop_, evfd, missions, batch, active, pc, done, count,
                 executed, missed>>

TestQuit ==
  /\ lpc = "test"
  /\ lpc' = IF quit THEN "left" ELSE "poll"
  /\ UNCHANGED <<loop_, quit, evfd, missions, batch, active, pc, done, count,
                 executed, missed>>

(* Mutant: epoll_wait without a timeout.                                    *)
PollForever ==
  /\ lpc = "poll"
  /\ evfd > 0
  /\ active' = TRUE
  /\ lpc' = "handle"
  /\ UNCHANGED <<loop_, quit, evfd, missions, batch, pc, done, count,
                 executed, missed>>

(* epoll_wait returns.  The eventfd is level triggered: its channel is      *)
(* active whenever the counter is positive, and without it the call ends    *)
(* after the 100 ms timeout or with events of other channels.               *)
PollReturn ==
  /\ lpc = "poll"
  /\ active' = (evfd > 0)
  /\ lpc' = "handle"
  /\ UNCHANGED <<loop_, quit, evfd, missions, batch, pc, done, count,
                 executed, missed>>

(* EINTR: `continue', the missions are not looked at.                       *)
PollInterrupted ==
  /\ lpc = "poll"
  /\ Signals
  /\ lpc' = "test"
  /\ UNCHANGED <<loop_, quit, evfd, missions, batch, active, pc, done, count,
                 executed, missed>>

(* Any other error: `break'.                                                *)
PollError ==
  /\ lpc = "poll"
  /\ PollMayFail
  /\ lpc' = "left"
  /\ UNCHANGED <<loop_, quit, evfd, missions, batch, active, pc, done, count,
                 executed, missed>>

(* Handle() on every active channel; the wakeup channel's callback reads    *)
(* the eventfd, which resets the counter unless the read is interrupted.    *)
HandleActive ==
  /\ lpc = "handle"
  /\ \/ evfd' = IF active THEN 0 ELSE evfd
     \/ Signals /\ UNCHANGED evfd
  /\ active' = FALSE
  /\ lpc' = "swap"
  /\ UNCHANGED <<loop_, quit, missions, batch, pc, done, count, executed,
                 missed>>

(* DoCrossThreadMission: the swap, under mtx_.                              *)
SwapMissions ==
  /\ lpc = "swap"
  /\ batch' = missions
  /\ missions' = <<>>
  /\ missed' = FALSE
  /\ lpc' = "run"
  /\ UNCHANGED <<loop_, quit, evfd, active, pc, done, count, executed>>

(* Mutant: the batch is run from its back.                                  *)
RunLastMission ==
  /\ lpc = "run"
  /\ batch # <<>>
  /\ executed' = Append(executed, batch[Len(batch)])
  /\ batch' = SubSeq(batch, 1, Len(batch) - 1)
  /\ lpc' = IF batch[Len(batch)].wait THEN "notify" ELSE "run"
  /\ UNCHANGED <<loop_, quit, evfd, missions, active, pc, done, count, missed>>

(* The next function of the batch is called; the one SubmitAndWait pushed   *)
(* goes on to mark its WaitState done.                                      *)
RunMission ==
  /\ lpc = "run"
  /\ batch # <<>>
  /\ executed' = Append(executed, Head(batch))
  /\ batch' = Tail(batch)
  /\ lpc' = IF Head(batch).wait THEN "notify" ELSE "run"
  /\ UNCHANGED <<loop_, quit, evfd, missions, active, pc, done, count, missed>>

SignalDone ==
  /\ lpc = "notify"
  /\ done' = [done EXCEPT ![executed[Len(executed)].by] = TRUE]
  /\ lpc' = "run"
  /\ UNCHANGED <<loop_, quit, evfd, missions, batch, active, pc, count,
                 executed, missed>>

(* Mutant: the eventfd is drained after the missions have been run.         *)
BatchDoneDrains ==
  /\ lpc = "run"
  /\ batch = <<>>
  /\ evfd' = 0
  /\ lpc' = "test"
  /\ UNCHANGED <<loop_, quit, missions, batch, active, pc, done, count,
                 executed, missed>>

BatchDone ==
  /\ lpc = "run"
  /\ batch = <<>>
  /\ lpc' = "test"
  /\ UNCHANGED <<loop_, quit, evfd, missions, batch, active, pc, done, count,
                 executed, missed>>

(* Submit or SubmitAndWait called on the loop's own thread, by a channel    *)
(* callback: the function is called at once and nothing is queued.          *)
SubmitInThread ==
  /\ lpc = "handle"
  /\ count[LoopThread] < MaxTasks[LoopThread]
  /\ count' = [count EXCEPT ![LoopThread] = @ + 1]
  /\ executed' = Append(executed, [by |-> LoopThread,
                                   n |-> count[LoopThread] + 1,
                                   wait |-> FALSE])
  /\ UNCHANGED <<lpc, loop_, quit, evfd, missions, batch, active, pc, done,
                 missed>>

(* Mutant: loop_ is not cleared.                                            *)
ThreadExitPublished ==
  /\ lpc = "left"
  /\ quit' = TRUE
  /\ evfd' = IF evfd < EvMax THEN evfd + 1 ELSE evfd
  /\ lpc' = "dead"
  /\ UNCHANGED <<loop_, missions, batch, active, pc, done, count, executed,
                 missed>>

(* The lambda ends: loop_ is cleared, then ~EventLoop calls StopLoop, which *)
(* stores quit_ and writes the eventfd.                                     *)
ThreadExit ==
  /\ lpc = "left"
  /\ loop_' = FALSE
  /\ quit' = TRUE
  /\ evfd' = IF evfd < EvMax THEN evfd + 1 ELSE evfd
  /\ lpc' = "dead"
  /\ UNCHANGED <<missions, batch, active, pc, done, count, executed, missed>>

-----------------------------------------------------------------------------
(* The clients.  The loop's address is known once Start() has returned.     *)

StartReturns ==
  /\ pc[Owner] = "start"
  /\ loop_
  /\ pc' = [pc EXCEPT ![Owner] = "idle"]
  /\ UNCHANGED <<lpc, loop_, quit, evfd, missions, batch, active, done, count,
                 executed, missed>>

(* Submit (wait = FALSE) and SubmitAndWait (wait = TRUE) from another       *)
(* thread: the push, under mtx_.  Only a loop that still exists is used.    *)
SubmitPush(c, w) ==
  /\ pc[c] = "idle"
  /\ pc[Owner] # "start"
  /\ lpc # "dead"
  /\ count[c] < MaxTasks[c]
  /\ count' = [count EXCEPT ![c] = @ + 1]
  /\ missions' = Append(missions, [by |-> c, n |-> count[c] + 1, wait |-> w])
  /\ done' = [done EXCEPT ![c] = FALSE]
  /\ pc' = [pc EXCEPT ![c] = IF w THEN "wakewait" ELSE "wake"]
  /\ UNCHANGED <<lpc, loop_, quit, evfd, batch, active, executed, missed>>

(* What the caller of WakeUp does next.                                     *)
AfterWake(c) ==
  CASE pc[c] = "wake"     -> "idle"
    [] pc[c] = "wakewait" -> "wait"
    [] pc[c] = "stopwake" -> "join"

(* WakeUp: the write adds one to the counter; when that would overflow it   *)
(* fails with EAGAIN and the counter, being positive, wakes the loop.       *)
WakeUp(c) ==
  /\ pc[c] \in {"wake", "wakewait", "stopwake"}
  /\ evfd' = IF evfd < EvMax THEN evfd + 1 ELSE evfd
  /\ pc' = [pc EXCEPT ![c] = AfterWake(c)]
  /\ UNCHANGED <<lpc, loop_, quit, missions, batch, active, done, count,
                 executed, missed>>

(* The write is interrupted; WakeUp returns without a retry.                *)
WakeUpInterrupted(c) ==
  /\ Signals
  /\ pc[c] \in {"wake", "wakewait", "stopwake"}
  /\ missed' = TRUE
  /\ pc' = [pc EXCEPT ![c] = AfterWake(c)]
  /\ UNCHANGED <<lpc, loop_, quit, evfd, missions, batch, active, done, count,
                 executed>>

(* Mutant: the wait does not check its predicate (a spurious wakeup).       *)
WaitReturnsSpuriously(c) ==
  /\ pc[c] = "wait"
  /\ pc' = [pc EXCEPT ![c] = "idle"]
  /\ UNCHANGED <<lpc, loop_, quit, evfd, missions, batch, active, done, count,
                 executed, missed>>

(* cv.wait of SubmitAndWait ends when done is set.                          *)
WaitReturns(c) ==
  /\ pc[c] = "wait"
  /\ done[c]
  /\ pc' = [pc EXCEPT ![c] = "idle"]
  /\ UNCHANGED <<lpc, loop_, quit, evfd, missions, batch, active, done, count,
                 executed, missed>>

(* The owner closes: EventLoopThreadPool::Close calls StopLoop on the       *)
(* pointer Start() gave it, ~EventLoopThread first looks whether loop_ is   *)
(* still set and otherwise only joins.                                      *)
BeginStop ==
  /\ pc[Owner] = "idle"
  /\ pc' = [pc EXCEPT ![Owner] = "stop"]
  /\ UNCHANGED <<lpc, loop_, quit, evfd, missions, batch, active, done, count,
                 executed, missed>>

BeginDestroy ==
  /\ pc[Owner] = "idle"
  /\ pc' = [pc EXCEPT ![Owner] = IF loop_ THEN "stop" ELSE "join"]
  /\ UNCHANGED <<lpc, loop_, quit, evfd, missions, batch, active, done, count,
                 executed, missed>>

(* StopLoop: quit_ is stored, then WakeUp is called.                        *)
StopLoop ==
  /\ pc[Owner] = "stop"
  /\ quit' = TRUE
  /\ pc' = [pc EXCEPT ![Owner] = "stopwake"]
  /\ UNCHANGED <<lpc, loop_, evfd, missions, batch, active, done, count,
                 executed, missed>>

Join ==
  /\ pc[Owner] = "join"
  /\ lpc = "dead"
  /\ pc' = [pc EXCEPT ![Owner] = "joined"]
  /\ UNCHANGED <<lpc, loop_, quit, evfd, missions, batch, active, done, count,
                 executed, missed>>

-----------------------------------------------------------------------------
(* Steps the loop thread takes by itself, the return of epoll_wait apart.   *)
LoopStep ==
  \/ Publish \/ EnterLoop \/ TestQuit
  \/ HandleActive \/ SwapMissions \/ RunMission \/ SignalDone \/ BatchDone
  \/ ThreadExit

(* Steps that finish a call a client has begun.                             *)
ClientStep(c) ==
  \/ WakeUp(c) \/ WakeUpInterrupted(c) \/ WaitReturns(c)

OwnerStep == StartReturns \/ StopLoop \/ Join

Next ==
  \/ LoopStep
  \/ PollReturn \/ PollInterrupted \/ PollError
  \/ SubmitInThread
  \/ OwnerStep \/ BeginStop \/ BeginDestroy
  \/ \E c \in Clients : \/ ClientStep(c)
                        \/ \E w \in BOOLEAN : SubmitPush(c, w)

(* Every thread that can run is scheduled.  Signals may interrupt           *)
(* epoll_wait again and again, but not for ever: its return is strongly     *)
(* fair.  Nobody is obliged to submit or to stop.                           *)
Fairness ==
  /\ WF_vars(LoopStep)
  /\ SF_vars(PollReturn)
  /\ WF_vars(OwnerStep)
  /\ \A c \in Clients : WF_vars(ClientStep(c))

Spec == Init /\ [][Next]_vars
FairSpec == Spec /\ Fairness

-----------------------------------------------------------------------------
(* Properties.                                                              *)

(* Types; and EventLoopThread's loop_, a raw pointer to an object on the    *)
(* loop thread's stack, is set exactly while that object exists.            *)
TypeOK ==
  /\ lpc \in LoopPC
  /\ loop_ \in BOOLEAN
  /\ loop_ <=> lpc \notin {"construct", "dead"}
  /\ quit \in BOOLEAN
  /\ evfd \in 0..EvMax
  /\ missions \in Seq(Task)
  /\ batch \in Seq(Task)
  /\ active \in BOOLEAN
  /\ pc \in [Clients -> ClientPC]
  /\ done \in [Clients -> BOOLEAN]
  /\ count \in [Threads -> Nat]
  /\ \A t \in Threads : count[t] <= MaxTasks[t]
  /\ executed \in Seq(Task)
  /\ missed \in BOOLEAN

(* A stop request is not slept through: when epoll_wait is entered with     *)
(* quit_ set, the eventfd is readable or StopLoop is still on its way to    *)
(* WakeUp (or a signal cut that WakeUp short).                              *)
StopNotSleptThrough ==
  lpc = "poll" /\ quit => evfd > 0 \/ pc[Owner] = "stopwake" \/ missed

(* No lost wakeup: when the loop is about to sleep in epoll_wait (or to     *)
(* test quit_ before it) with missions queued, the eventfd is already       *)
(* readable, or a submitter is between its push and its WakeUp, or a signal *)
(* cut a WakeUp short; and a stop request is not slept through either.  It  *)
(* rests on Loop() draining the eventfd before it swaps the queue.          *)
NoLostWakeup ==
  /\ lpc \in {"test", "poll"} /\ missions # <<>> =>
       \/ evfd > 0
       \/ \E c \in Clients : pc[c] \in {"wake", "wakewait"}
       \/ missed
  /\ StopNotSleptThrough

Pending == batch \o missions

(* SubmitAndWait is synchronous: a mission pushed by SubmitAndWait that has *)
(* not been executed has its submitter still inside the call, with the      *)
(* WaitState not done.                                                      *)
WaitIsSynchronous ==
  \A i \in 1..Len(Pending) :
    Pending[i].wait => /\ pc[Pending[i].by] \in {"wakewait", "wait"}
                       /\ ~done[Pending[i].by]

(* The loop implements the FIFO queue of TaskQueue: the queue is the rest   *)
(* of the batch followed by missions_.                                      *)
Queue == INSTANCE TaskQueue
           WITH queue <- Pending, executed <- executed, open <- Running

(* Every step of the loop and its clients is a step of the FIFO queue or    *)
(* leaves it alone.                                                         *)
ImplementsTaskQueue == Queue!Safety

(* A queued mission is executed unless the loop ends: eventfd or, when a    *)
(* WakeUp was interrupted, the 100 ms timeout brings the loop round.        *)
MissionsExecuted ==
  \A t \in Clients : \A n \in 1..MaxTasks[t] :
    (\E i \in 1..Len(Pending) : Pending[i].by = t /\ Pending[i].n = n) ~>
      (\/ \E i \in 1..Len(executed) : executed[i].by = t /\ executed[i].n = n
       \/ ~Running)

(* Once Loop() has begun, a stop request ends the loop thread.              *)
StopHonoured == (quit /\ lpc # "entry" ~> lpc = "dead")
=============================================================================
