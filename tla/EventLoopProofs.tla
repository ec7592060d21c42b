-------------------------- MODULE EventLoopProofs --------------------------
(***************************************************************************)
(* Theorems about EventLoop, for any set of client threads, any number of   *)
(* missions, any eventfd capacity and with or without signals and poll      *)
(* errors.  The fairness part of the specification is not used.             *)
(***************************************************************************)
EXTENDS EventLoop, SequenceTheorems, TLAPS

-----------------------------------------------------------------------------
(* Facts about sequences.                                                   *)

(* Appending to the right part of a concatenation appends to the whole.     *)
LEMMA AppendConcat ==
  ASSUME NEW S, NEW s \in Seq(S), NEW t \in Seq(S), NEW e \in S
  PROVE  s \o Append(t, e) = Append(s \o t, e)
  OBVIOUS

(* Removing the head of a non-empty left part removes the head of the       *)
(* whole.                                                                   *)
LEMMA TailConcat ==
  ASSUME NEW S, NEW s \in Seq(S), NEW t \in Seq(S), s # <<>>
  PROVE  /\ s \o t # <<>>
         /\ Head(s \o t) = Head(s)
         /\ Tail(s \o t) = Tail(s) \o t
<1>1. /\ Len(s) \in Nat \ {0}
      /\ s \o t \in Seq(S)
      /\ Len(s \o t) = Len(s) + Len(t)
  BY EmptySeq, ConcatProperties, LenProperties
<1>2. s \o t # <<>>
  BY <1>1, LenProperties
<1>3. Head(s \o t) = Head(s)
  BY <1>1, <1>2
<1>4. Tail(s \o t) = Tail(s) \o t
  <2>1. Tail(s) \o t \in Seq(S) /\ Tail(s \o t) \in Seq(S)
    BY <1>1, <1>2, HeadTailProperties, ConcatProperties
  <2>2. Len(Tail(s) \o t) = Len(Tail(s \o t))
    BY <1>1, <1>2, HeadTailProperties, ConcatProperties, LenProperties
  <2>3. \A i \in 1..Len(Tail(s \o t)) : Tail(s \o t)[i] = (Tail(s) \o t)[i]
    BY <1>1, <1>2, HeadTailProperties, ConcatProperties, LenProperties
  <2> QED
    BY <2>1, <2>2, <2>3, SeqEqual
<1> QED
  BY <1>2, <1>3, <1>4

(* A record of a thread below its bound is a task.                          *)
LEMMA TaskMember ==
  ASSUME NEW t \in Threads, NEW k \in 1..MaxTasks[t], NEW w \in BOOLEAN
  PROVE  [by |-> t, n |-> k, wait |-> w] \in Task
  BY DEF Task

(* The fields of a task.                                                    *)
LEMMA TaskFields ==
  ASSUME NEW m \in Task
  PROVE  m.by \in Threads /\ m.wait \in BOOLEAN
  BY DEF Task

-----------------------------------------------------------------------------
(* Type correctness.                                                        *)

LEMMA TypeInit == Init => TypeOK
<1> SUFFICES ASSUME Init PROVE TypeOK OBVIOUS
<1>1. /\ missions \in Seq(Task) /\ batch \in Seq(Task) /\ executed \in Seq(Task)
  BY EmptySeq DEF Init
<1>2. evfd \in 0..EvMax
  BY BoundsAssumption DEF Init
<1>3. \A t \in Threads : count[t] <= MaxTasks[t]
  BY BoundsAssumption DEF Init, Threads
<1>4. /\ pc \in [Clients -> ClientPC]
      /\ done \in [Clients -> BOOLEAN]
      /\ count \in [Threads -> Nat]
  BY DEF Init, ClientPC
<1> QED
  BY <1>1, <1>2, <1>3, <1>4 DEF Init, TypeOK, LoopPC

LEMMA TypeLoop ==
  ASSUME TypeOK, LoopStep
  PROVE  TypeOK'
<1> USE BoundsAssumption DEF TypeOK, LoopPC
<1>1. CASE Publish BY <1>1 DEF Publish
<1>2. CASE EnterLoop BY <1>2, Zenon DEF EnterLoop
<1>3. CASE TestQuit BY <1>3, Zenon DEF TestQuit
<1>4. CASE HandleActive
  <2>1. evfd' \in 0..EvMax
    BY <1>4 DEF HandleActive
  <2> QED
    BY <1>4, <2>1, Zenon DEF HandleActive
<1>5. CASE SwapMissions
  <2>1. missions' \in Seq(Task) /\ batch' \in Seq(Task)
    BY <1>5, EmptySeq, Zenon DEF SwapMissions
  <2> QED
    BY <1>5, <2>1, Zenon DEF SwapMissions
<1>6. CASE RunMission
  <2>1. Head(batch) \in Task /\ Tail(batch) \in Seq(Task)
    BY <1>6, HeadTailProperties DEF RunMission
  <2>2. executed' \in Seq(Task) /\ batch' \in Seq(Task)
    BY <1>6, <2>1 DEF RunMission
  <2>3. lpc' \in LoopPC
    BY <1>6 DEF RunMission
  <2> QED
    BY <1>6, <2>2, <2>3 DEF RunMission
<1>7. CASE SignalDone
  <2>1. done' \in [Clients -> BOOLEAN]
    BY <1>7 DEF SignalDone
  <2> QED
    BY <1>7, <2>1 DEF SignalDone
<1>8. CASE BatchDone BY <1>8 DEF BatchDone
<1>9. CASE ThreadExit
  <2>1. evfd' \in 0..EvMax
    BY <1>9 DEF ThreadExit
  <2> QED
    BY <1>9, <2>1 DEF ThreadExit
<1> QED
  BY <1>1, <1>2, <1>3, <1>4, <1>5, <1>6, <1>7, <1>8, <1>9 DEF LoopStep

LEMMA TypeOther ==
  ASSUME TypeOK,
         \/ PollReturn \/ PollInterrupted \/ PollError \/ SubmitInThread
         \/ OwnerStep \/ BeginStop \/ BeginDestroy
  PROVE  TypeOK'
<1> USE ClientsAssumption, BoundsAssumption DEF TypeOK, LoopPC, ClientPC
<1>1. CASE PollReturn BY <1>1 DEF PollReturn
<1>2. CASE PollInterrupted BY <1>2 DEF PollInterrupted
<1>3. CASE PollError BY <1>3 DEF PollError
<1>4. CASE SubmitInThread
  <2>1. /\ LoopThread \in Threads
        /\ count[LoopThread] \in Nat
        /\ MaxTasks[LoopThread] \in Nat
    BY DEF Threads
  <2>2. count[LoopThread] + 1 \in 1..MaxTasks[LoopThread]
    BY <1>4, <2>1 DEF SubmitInThread
  <2> DEFINE m == [by |-> LoopThread, n |-> count[LoopThread] + 1,
                   wait |-> FALSE]
  <2>3. executed' \in Seq(Task)
    <3>1. m \in Task
      BY <2>1, <2>2, TaskMember
    <3> HIDE DEF m
    <3>2. executed \in Seq(Task) /\ executed' = Append(executed, m)
      BY <1>4 DEF SubmitInThread, m
    <3> QED
      BY ONLY <3>1, <3>2
  <2>4. /\ count' \in [Threads -> Nat]
        /\ \A t \in Threads : count'[t] <= MaxTasks[t]
    BY <1>4, <2>1, <2>2 DEF SubmitInThread
  <2> QED
    BY <1>4, <2>3, <2>4 DEF SubmitInThread
<1>5. CASE StartReturns BY <1>5 DEF StartReturns
<1>6. CASE StopLoop BY <1>6 DEF StopLoop
<1>7. CASE Join BY <1>7 DEF Join
<1>8. CASE BeginStop BY <1>8 DEF BeginStop
<1>9. CASE BeginDestroy BY <1>9 DEF BeginDestroy
<1> QED
  BY <1>1, <1>2, <1>3, <1>4, <1>5, <1>6, <1>7, <1>8, <1>9 DEF OwnerStep

LEMMA TypeClient ==
  ASSUME TypeOK, NEW c \in Clients,
         ClientStep(c) \/ \E w \in BOOLEAN : SubmitPush(c, w)
  PROVE  TypeOK'
<1> USE BoundsAssumption DEF TypeOK, ClientPC
<1>1. CASE WakeUp(c) BY <1>1 DEF WakeUp, AfterWake
<1>2. CASE WakeUpInterrupted(c) BY <1>2 DEF WakeUpInterrupted, AfterWake
<1>3. CASE WaitReturns(c) BY <1>3 DEF WaitReturns
<1>4. ASSUME NEW w \in BOOLEAN, SubmitPush(c, w)
      PROVE  TypeOK'
  <2>1. c \in Threads /\ count[c] \in Nat /\ MaxTasks[c] \in Nat
    BY DEF Threads
  <2>2. count[c] + 1 \in 1..MaxTasks[c]
    BY <1>4, <2>1 DEF SubmitPush
  <2>3. missions' \in Seq(Task)
    BY <1>4, <2>1, <2>2, TaskMember DEF SubmitPush
  <2>4. /\ count' \in [Threads -> Nat]
        /\ \A t \in Threads : count'[t] <= MaxTasks[t]
    BY <1>4, <2>1, <2>2 DEF SubmitPush
  <2>5. pc' \in [Clients -> ClientPC]
    BY <1>4 DEF SubmitPush
  <2> QED
    BY <1>4, <2>3, <2>4, <2>5 DEF SubmitPush
<1> QED
  BY <1>1, <1>2, <1>3, <1>4 DEF ClientStep

LEMMA TypeStep == TypeOK /\ [Next]_vars => TypeOK'
<1> SUFFICES ASSUME TypeOK, [Next]_vars PROVE TypeOK' OBVIOUS
<1>1. CASE Next
  BY <1>1, TypeLoop, TypeOther, TypeClient DEF Next
<1>2. CASE UNCHANGED vars
  BY <1>2 DEF vars, TypeOK
<1> QED BY <1>1, <1>2

(* Every variable keeps its type, and loop_ points to a loop that exists.   *)
THEOREM TypeCorrect == Spec => []TypeOK
  BY TypeInit, TypeStep, PTL DEF Spec

-----------------------------------------------------------------------------
(* Wakeups.  NoLostWakeup speaks of the moments before epoll_wait; to be    *)
(* inductive it must hold wherever the loop is, except between the drain of *)
(* the eventfd and the swap of the queue, when the missions about to be     *)
(* swapped need no wakeup.                                                  *)

SomeoneWaking == \E c \in Clients : pc[c] \in {"wake", "wakewait"}

WakeInv ==
  /\ lpc \notin {"handle", "swap"} /\ missions # <<>> =>
       evfd > 0 \/ SomeoneWaking \/ missed
  /\ StopNotSleptThrough

LEMMA WakeInit == Init => WakeInv
  BY DEF Init, WakeInv, StopNotSleptThrough

LEMMA WakeLoop ==
  ASSUME TypeOK, WakeInv,
         \/ LoopStep \/ PollReturn \/ PollInterrupted \/ PollError
         \/ SubmitInThread
  PROVE  WakeInv'
<1> USE DEF WakeInv, SomeoneWaking, StopNotSleptThrough
<1>1. CASE Publish BY <1>1 DEF Publish
<1>2. CASE EnterLoop BY <1>2 DEF EnterLoop
<1>3. CASE TestQuit BY <1>3 DEF TestQuit
<1>4. CASE HandleActive BY <1>4 DEF HandleActive
<1>5. CASE SwapMissions BY <1>5 DEF SwapMissions
<1>6. CASE RunMission BY <1>6 DEF RunMission
<1>7. CASE SignalDone BY <1>7 DEF SignalDone
<1>8. CASE BatchDone BY <1>8 DEF BatchDone
<1>9. CASE ThreadExit BY <1>9, BoundsAssumption DEF ThreadExit, TypeOK
<1>10. CASE PollReturn BY <1>10 DEF PollReturn
<1>11. CASE PollInterrupted BY <1>11 DEF PollInterrupted
<1>12. CASE PollError BY <1>12 DEF PollError
<1>13. CASE SubmitInThread BY <1>13 DEF SubmitInThread
<1> QED
  BY <1>1, <1>2, <1>3, <1>4, <1>5, <1>6, <1>7, <1>8, <1>9, <1>10, <1>11,
     <1>12, <1>13 DEF LoopStep

LEMMA WakeOwner ==
  ASSUME TypeOK, WakeInv, OwnerStep \/ BeginStop \/ BeginDestroy
  PROVE  WakeInv'
<1> USE ClientsAssumption
    DEF TypeOK, WakeInv, SomeoneWaking, StopNotSleptThrough
<1>1. CASE StartReturns BY <1>1 DEF StartReturns
<1>2. CASE StopLoop BY <1>2 DEF StopLoop
<1>3. CASE Join BY <1>3 DEF Join
<1>4. CASE BeginStop BY <1>4 DEF BeginStop
<1>5. CASE BeginDestroy BY <1>5 DEF BeginDestroy
<1> QED
  BY <1>1, <1>2, <1>3, <1>4, <1>5 DEF OwnerStep

LEMMA WakeClient ==
  ASSUME TypeOK, WakeInv, NEW c \in Clients,
         ClientStep(c) \/ \E w \in BOOLEAN : SubmitPush(c, w)
  PROVE  WakeInv'
<1> USE ClientsAssumption, BoundsAssumption
    DEF TypeOK, WakeInv, SomeoneWaking, StopNotSleptThrough
<1>1. CASE WakeUp(c)
  <2>1. evfd' > 0
    BY <1>1 DEF WakeUp
  <2> QED
    BY <1>1, <2>1 DEF WakeUp
<1>2. CASE WakeUpInterrupted(c) BY <1>2 DEF WakeUpInterrupted
<1>3. CASE WaitReturns(c)
  <2>1. \A d \in Clients : pc[d] \in {"wake", "wakewait", "stopwake"} => pc'[d] = pc[d]
    BY <1>3 DEF WaitReturns
  <2> QED
    BY <1>3, <2>1 DEF WaitReturns
<1>4. ASSUME NEW w \in BOOLEAN, SubmitPush(c, w)
      PROVE  WakeInv'
  <2>1. pc'[c] \in {"wake", "wakewait"}
    BY <1>4 DEF SubmitPush
  <2>2. pc[Owner] = "stopwake" => pc'[Owner] = "stopwake"
    BY <1>4 DEF SubmitPush
  <2> QED
    BY <1>4, <2>1, <2>2 DEF SubmitPush
<1> QED
  BY <1>1, <1>2, <1>3, <1>4 DEF ClientStep

LEMMA WakeStep == TypeOK /\ WakeInv /\ [Next]_vars => WakeInv'
<1> SUFFICES ASSUME TypeOK, WakeInv, [Next]_vars PROVE WakeInv' OBVIOUS
<1>1. CASE Next
  BY <1>1, WakeLoop, WakeOwner, WakeClient DEF Next
<1>2. CASE UNCHANGED vars
  BY <1>2 DEF vars, WakeInv, SomeoneWaking, StopNotSleptThrough
<1> QED BY <1>1, <1>2

(* Neither Submit nor StopLoop loses a wakeup: the loop does not sleep on a *)
(* non-empty queue, nor with quit_ set, unless the eventfd is readable, its *)
(* write is still to come, or a signal interrupted it.                      *)
THEOREM WakeupNotLost == Spec => []NoLostWakeup
<1>1. WakeInv => NoLostWakeup
  BY DEF WakeInv, NoLostWakeup, SomeoneWaking
<1> QED
  BY <1>1, WakeInit, WakeStep, TypeCorrect, PTL DEF Spec

-----------------------------------------------------------------------------
(* The queue.  Outside DoCrossThreadMission the batch is empty, so that the *)
(* swap moves the queue without losing or reordering anything.              *)

BatchInv == lpc \notin {"run", "notify"} => batch = <<>>

LEMMA BatchStep == BatchInv /\ [Next]_vars => BatchInv'
<1> SUFFICES ASSUME BatchInv, [Next]_vars PROVE BatchInv' OBVIOUS
<1>1. CASE LoopStep
  BY <1>1 DEF BatchInv, LoopStep, Publish, EnterLoop, TestQuit, HandleActive,
              SwapMissions, RunMission, SignalDone, BatchDone, ThreadExit
<1>2. CASE PollReturn \/ PollInterrupted \/ PollError \/ SubmitInThread
  BY <1>2 DEF BatchInv, PollReturn, PollInterrupted, PollError, SubmitInThread
<1>3. CASE OwnerStep \/ BeginStop \/ BeginDestroy
  BY <1>3 DEF BatchInv, OwnerStep, StartReturns, StopLoop, Join, BeginStop,
              BeginDestroy
<1>4. CASE \E c \in Clients : \/ ClientStep(c)
                              \/ \E w \in BOOLEAN : SubmitPush(c, w)
  BY <1>4 DEF BatchInv, ClientStep, WakeUp, WakeUpInterrupted, WaitReturns,
              SubmitPush
<1>5. CASE UNCHANGED vars
  BY <1>5 DEF BatchInv, vars
<1> QED BY <1>1, <1>2, <1>3, <1>4, <1>5 DEF Next

LEMMA BatchCorrect == Spec => []BatchInv
<1>1. Init => BatchInv
  BY DEF Init, BatchInv
<1> QED BY <1>1, BatchStep, PTL DEF Spec

(* What the steps that touch the queue do to Pending.                       *)
LEMMA PendingSwap ==
  ASSUME TypeOK, BatchInv, SwapMissions
  PROVE  Pending' = Pending
<1>1. batch = <<>> /\ batch' = missions /\ missions' = <<>>
  BY DEF BatchInv, SwapMissions
<1> QED
  BY <1>1, ConcatEmptySeq DEF Pending, TypeOK

LEMMA PendingRun ==
  ASSUME TypeOK, RunMission
  PROVE  /\ Pending # <<>>
         /\ Head(Pending) = Head(batch)
         /\ Pending' = Tail(Pending)
  BY TailConcat DEF RunMission, Pending, TypeOK

LEMMA PendingPush ==
  ASSUME TypeOK, NEW c \in Clients, NEW w \in BOOLEAN, SubmitPush(c, w)
  PROVE  LET m == [by |-> c, n |-> count[c] + 1, wait |-> w]
         IN  m \in Task /\ Pending' = Append(Pending, m)
<1> DEFINE m == [by |-> c, n |-> count[c] + 1, wait |-> w]
<1>1. c \in Threads /\ count[c] \in Nat /\ MaxTasks[c] \in Nat
  BY BoundsAssumption DEF Threads, TypeOK
<1>2. m \in Task
  <2>1. count[c] + 1 \in 1..MaxTasks[c]
    BY <1>1 DEF SubmitPush
  <2> QED BY <1>1, <2>1, TaskMember
<1> HIDE DEF m
<1>3. batch' = batch /\ missions' = Append(missions, m)
  BY DEF SubmitPush, m
<1>4. Pending' = Append(Pending, m)
  BY <1>2, <1>3, AppendConcat DEF Pending, TypeOK
<1> QED BY <1>2, <1>4 DEF m

LEMMA PendingSame ==
  ASSUME UNCHANGED <<batch, missions>>
  PROVE  Pending' = Pending
  BY DEF Pending

-----------------------------------------------------------------------------
(* The loop implements TaskQueue.                                           *)

LEMMA QueueInit == Init => Queue!Init
  BY DEF Init, Queue!Init, Pending, Running

LEMMA QueueLoop ==
  ASSUME TypeOK, BatchInv, LoopStep
  PROVE  Queue!Next \/ UNCHANGED Queue!qvars
<1> USE DEF Queue!qvars, Running
<1>1. CASE Publish BY <1>1, PendingSame DEF Publish
<1>2. CASE EnterLoop BY <1>2, PendingSame DEF EnterLoop
<1>3. CASE TestQuit
  <2>1. Pending' = Pending /\ executed' = executed /\ Running
    BY <1>3, PendingSame DEF TestQuit
  <2>2. Running' \in BOOLEAN
    OBVIOUS
  <2> QED
    BY <2>1, <2>2 DEF Queue!Next, Queue!Close
<1>4. CASE HandleActive BY <1>4, PendingSame DEF HandleActive
<1>5. CASE SwapMissions BY <1>5, PendingSwap DEF SwapMissions
<1>6. CASE RunMission
  <2>1. Running /\ Running'
    BY <1>6 DEF RunMission
  <2>2. executed' = Append(executed, Head(Pending))
    BY <1>6, PendingRun DEF RunMission
  <2> QED
    BY <1>6, <2>1, <2>2, PendingRun DEF Queue!Next, Queue!Take
<1>7. CASE SignalDone BY <1>7, PendingSame DEF SignalDone
<1>8. CASE BatchDone BY <1>8, PendingSame DEF BatchDone
<1>9. CASE ThreadExit BY <1>9, PendingSame DEF ThreadExit
<1> QED
  BY <1>1, <1>2, <1>3, <1>4, <1>5, <1>6, <1>7, <1>8, <1>9 DEF LoopStep

LEMMA QueueOther ==
  ASSUME TypeOK,
         \/ PollReturn \/ PollInterrupted \/ PollError \/ SubmitInThread
         \/ OwnerStep \/ BeginStop \/ BeginDestroy
  PROVE  Queue!Next \/ UNCHANGED Queue!qvars
<1> USE DEF Queue!qvars, Running
<1>1. CASE PollReturn BY <1>1, PendingSame DEF PollReturn
<1>2. CASE PollInterrupted BY <1>2, PendingSame DEF PollInterrupted
<1>3. CASE PollError
  BY <1>3, PendingSame DEF PollError, Queue!Next, Queue!Close
<1>4. CASE SubmitInThread
  <2> DEFINE m == [by |-> LoopThread, n |-> count[LoopThread] + 1,
                   wait |-> FALSE]
  <2>1. m \in Task
    <3>1. LoopThread \in Threads /\ count[LoopThread] \in Nat
          /\ MaxTasks[LoopThread] \in Nat
      BY BoundsAssumption DEF Threads, TypeOK
    <3>2. count[LoopThread] + 1 \in 1..MaxTasks[LoopThread]
      BY <1>4, <3>1 DEF SubmitInThread
    <3> QED BY <3>1, <3>2, TaskMember
  <2>2. /\ Pending' = Pending /\ Running /\ Running'
        /\ executed' = Append(executed, m)
    BY <1>4, PendingSame DEF SubmitInThread
  <2> HIDE DEF m
  <2> QED
    BY <2>1, <2>2 DEF Queue!Next, Queue!RunNow
<1>5. CASE OwnerStep
  BY <1>5, PendingSame DEF OwnerStep, StartReturns, StopLoop, Join
<1>6. CASE BeginStop \/ BeginDestroy
  BY <1>6, PendingSame DEF BeginStop, BeginDestroy
<1> QED
  BY <1>1, <1>2, <1>3, <1>4, <1>5, <1>6

LEMMA QueueClient ==
  ASSUME TypeOK, NEW c \in Clients,
         ClientStep(c) \/ \E w \in BOOLEAN : SubmitPush(c, w)
  PROVE  Queue!Next \/ UNCHANGED Queue!qvars
<1>1. CASE ClientStep(c)
  BY <1>1, PendingSame DEF ClientStep, WakeUp, WakeUpInterrupted, WaitReturns,
                           Queue!qvars, Running
<1>2. ASSUME NEW w \in BOOLEAN, SubmitPush(c, w)
      PROVE  Queue!Next
  <2> DEFINE m == [by |-> c, n |-> count[c] + 1, wait |-> w]
  <2>1. m \in Task /\ Pending' = Append(Pending, m)
    BY <1>2, PendingPush
  <2>2. executed' = executed /\ Running' = Running
    BY <1>2 DEF SubmitPush, Running
  <2> HIDE DEF m
  <2> QED
    BY <2>1, <2>2 DEF Queue!Next, Queue!Put
<1> QED BY <1>1, <1>2

(* Behind the eventfd, the swap of the two vectors and the interleaving of  *)
(* the threads, missions are one FIFO queue: none is lost, duplicated or    *)
(* reordered while the loop runs.                                           *)
THEOREM LoopImplementsTaskQueue == Spec => ImplementsTaskQueue
<1>1. TypeOK /\ BatchInv /\ [Next]_vars => [Queue!Next]_(Queue!qvars)
  <2> SUFFICES ASSUME TypeOK, BatchInv, [Next]_vars
               PROVE  Queue!Next \/ UNCHANGED Queue!qvars
    OBVIOUS
  <2>1. CASE Next
    BY <2>1, QueueLoop, QueueOther, QueueClient DEF Next
  <2>2. CASE UNCHANGED vars
    BY <2>2, PendingSame DEF vars, Queue!qvars, Running
  <2> QED BY <2>1, <2>2
<1> QED
  BY <1>1, QueueInit, TypeCorrect, BatchCorrect, PTL
  DEF Spec, ImplementsTaskQueue, Queue!Safety

-----------------------------------------------------------------------------
(* SubmitAndWait.  WaitIsSynchronous alone is not inductive: it must also   *)
(* be known that a thread has at most one awaited mission in the queue, and *)
(* that the awaited mission just executed was the last of its thread.       *)

Inside(c) == pc[c] \in {"wakewait", "wait"}
Last(s) == s[Len(s)]

SyncInv ==
  /\ \A i \in 1..Len(Pending) : Pending[i].wait =>
       /\ Pending[i].by \in Clients
       /\ Inside(Pending[i].by)
       /\ ~done[Pending[i].by]
  /\ \A i, j \in 1..Len(Pending) :
       Pending[i].wait /\ Pending[j].wait /\ i # j =>
         Pending[i].by # Pending[j].by
  /\ lpc = "notify" =>
       /\ Last(executed).by \in Clients
       /\ Inside(Last(executed).by)
       /\ ~done[Last(executed).by]
       /\ \A i \in 1..Len(Pending) :
            Pending[i].wait => Pending[i].by # Last(executed).by

LEMMA PendingType == TypeOK => Pending \in Seq(Task)
  BY ConcatProperties DEF TypeOK, Pending

(* A step that leaves the queue alone, does not enter SignalDone, keeps     *)
(* every thread that is inside SubmitAndWait there and sets no WaitState.   *)
LEMMA SyncFrame ==
  ASSUME SyncInv,
         Pending' = Pending,
         lpc' = "notify" => lpc = "notify" /\ executed' = executed,
         \A c \in Clients : Inside(c) /\ ~done[c] => Inside(c)' /\ ~done'[c]
  PROVE  SyncInv'
  BY DEF SyncInv, Last

LEMMA SyncRun ==
  ASSUME TypeOK, SyncInv, RunMission
  PROVE  SyncInv'
<1>1. /\ Pending \in Seq(Task) /\ Pending # <<>>
      /\ Head(batch) = Pending[1]
      /\ Pending' = Tail(Pending)
  BY PendingType, PendingRun
<1>2. /\ Len(Pending) \in Nat \ {0}
      /\ Len(Pending') = Len(Pending) - 1
      /\ \A i \in 1..Len(Pending') : Pending'[i] = Pending[i + 1]
  BY <1>1, HeadTailProperties, EmptySeq
<1>3. pc' = pc /\ done' = done
  BY DEF RunMission
<1>4. Last(executed') = Pending[1]
  BY <1>1 DEF RunMission, Last, TypeOK
<1>5. lpc' = "notify" => Pending[1].wait
  BY <1>1 DEF RunMission
<1> QED
  BY <1>2, <1>3, <1>4, <1>5, SMTT(30) DEF SyncInv, Inside

LEMMA SyncPush ==
  ASSUME TypeOK, SyncInv, NEW c \in Clients, NEW w \in BOOLEAN,
         SubmitPush(c, w)
  PROVE  SyncInv'
<1> DEFINE m == [by |-> c, n |-> count[c] + 1, wait |-> w]
<1>1. m \in Task /\ Pending' = Append(Pending, m)
  BY PendingPush
<1>2. m.by = c /\ m.wait = w
  OBVIOUS
<1> HIDE DEF m
<1>3. /\ Pending \in Seq(Task) /\ Len(Pending) \in Nat
      /\ Len(Pending') = Len(Pending) + 1
      /\ \A i \in 1..Len(Pending) : Pending'[i] = Pending[i]
      /\ Pending'[Len(Pending) + 1] = m
  BY <1>1, PendingType
<1>4. /\ ~Inside(c)
      /\ done'[c] = FALSE
      /\ w => Inside(c)'
      /\ \A d \in Clients : d # c => Inside(d)' = Inside(d) /\ done'[d] = done[d]
  BY DEF SubmitPush, TypeOK, Inside
<1>5. lpc' = lpc /\ executed' = executed
  BY DEF SubmitPush
<1> QED
  BY <1>2, <1>3, <1>4, <1>5 DEF SyncInv, Last

LEMMA SyncSignal ==
  ASSUME TypeOK, SyncInv, SignalDone
  PROVE  SyncInv'
<1>1. Pending' = Pending /\ pc' = pc /\ lpc' = "run"
  BY PendingSame DEF SignalDone
<1>2. \A d \in Clients : d # Last(executed).by => done'[d] = done[d]
  BY DEF SignalDone, Last, TypeOK
<1>3. lpc = "notify"
  BY DEF SignalDone
<1> QED
  BY <1>1, <1>2, <1>3 DEF SyncInv, Inside

LEMMA SyncLoop ==
  ASSUME TypeOK, BatchInv, SyncInv, LoopStep
  PROVE  SyncInv'
<1> USE DEF Inside
<1>1. CASE Publish BY <1>1, PendingSame, SyncFrame DEF Publish
<1>2. CASE EnterLoop BY <1>2, PendingSame, SyncFrame DEF EnterLoop
<1>3. CASE TestQuit BY <1>3, PendingSame, SyncFrame DEF TestQuit
<1>4. CASE HandleActive BY <1>4, PendingSame, SyncFrame DEF HandleActive
<1>5. CASE SwapMissions BY <1>5, PendingSwap, SyncFrame DEF SwapMissions
<1>6. CASE RunMission BY <1>6, SyncRun
<1>7. CASE SignalDone BY <1>7, SyncSignal
<1>8. CASE BatchDone BY <1>8, PendingSame, SyncFrame DEF BatchDone
<1>9. CASE ThreadExit BY <1>9, PendingSame, SyncFrame DEF ThreadExit
<1> QED
  BY <1>1, <1>2, <1>3, <1>4, <1>5, <1>6, <1>7, <1>8, <1>9 DEF LoopStep

LEMMA SyncOther ==
  ASSUME TypeOK, SyncInv,
         \/ PollReturn \/ PollInterrupted \/ PollError \/ SubmitInThread
         \/ OwnerStep \/ BeginStop \/ BeginDestroy
  PROVE  SyncInv'
<1> USE DEF Inside, TypeOK
<1>1. CASE PollReturn BY <1>1, PendingSame, SyncFrame DEF PollReturn
<1>2. CASE PollInterrupted BY <1>2, PendingSame, SyncFrame DEF PollInterrupted
<1>3. CASE PollError BY <1>3, PendingSame, SyncFrame DEF PollError
<1>4. CASE SubmitInThread BY <1>4, PendingSame, SyncFrame DEF SubmitInThread
<1>5. CASE StartReturns BY <1>5, PendingSame, SyncFrame DEF StartReturns
<1>6. CASE StopLoop BY <1>6, PendingSame, SyncFrame DEF StopLoop
<1>7. CASE Join BY <1>7, PendingSame, SyncFrame DEF Join
<1>8. CASE BeginStop BY <1>8, PendingSame, SyncFrame DEF BeginStop
<1>9. CASE BeginDestroy BY <1>9, PendingSame, SyncFrame DEF BeginDestroy
<1> QED
  BY <1>1, <1>2, <1>3, <1>4, <1>5, <1>6, <1>7, <1>8, <1>9 DEF OwnerStep

LEMMA SyncClient ==
  ASSUME TypeOK, SyncInv, NEW c \in Clients,
         ClientStep(c) \/ \E w \in BOOLEAN : SubmitPush(c, w)
  PROVE  SyncInv'
<1> USE DEF Inside, TypeOK
<1>1. CASE WakeUp(c)
  BY <1>1, PendingSame, SyncFrame DEF WakeUp, AfterWake
<1>2. CASE WakeUpInterrupted(c)
  BY <1>2, PendingSame, SyncFrame DEF WakeUpInterrupted, AfterWake
<1>3. CASE WaitReturns(c)
  BY <1>3, PendingSame, SyncFrame DEF WaitReturns
<1>4. ASSUME NEW w \in BOOLEAN, SubmitPush(c, w) PROVE SyncInv'
  BY <1>4, SyncPush
<1> QED
  BY <1>1, <1>2, <1>3, <1>4 DEF ClientStep

(* SubmitAndWait does not return before its mission has been executed, for  *)
(* any interleaving of any number of callers.                               *)
THEOREM SubmitAndWaitIsSynchronous == Spec => []WaitIsSynchronous
<1>1. Init => SyncInv
  BY DEF Init, SyncInv, Pending
<1>2. TypeOK /\ BatchInv /\ SyncInv /\ [Next]_vars => SyncInv'
  <2> SUFFICES ASSUME TypeOK, BatchInv, SyncInv, [Next]_vars PROVE SyncInv'
    OBVIOUS
  <2>1. CASE Next
    BY <2>1, SyncLoop, SyncOther, SyncClient DEF Next
  <2>2. CASE UNCHANGED vars
    BY <2>2, PendingSame, SyncFrame DEF vars, Inside
  <2> QED BY <2>1, <2>2
<1>3. SyncInv => WaitIsSynchronous
  BY DEF SyncInv, WaitIsSynchronous, Inside
<1> QED
  BY <1>1, <1>2, <1>3, TypeCorrect, BatchCorrect, PTL DEF Spec
=============================================================================
