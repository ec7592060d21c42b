----------------------------- MODULE TaskQueue -----------------------------
(***************************************************************************)
(* What EventLoop::Submit promises to its callers, without threads,         *)
(* eventfd or epoll: tasks handed over from other threads form one FIFO     *)
(* queue, they are executed one at a time from its head, and a task the     *)
(* loop thread submits to itself is executed on the spot, ahead of the      *)
(* queue.  Once the loop is closed nothing is executed any more.            *)
(***************************************************************************)
EXTENDS Sequences

CONSTANT Task            \* the tasks that may be submitted

VARIABLES queue,         \* tasks accepted and not yet executed
          executed,      \* tasks executed, in the order of execution
          open           \* the loop still executes tasks

qvars == <<queue, executed, open>>

Init == queue = <<>> /\ executed = <<>> /\ open = TRUE

Put(t) ==
  /\ queue' = Append(queue, t)
  /\ UNCHANGED <<executed, open>>

Take ==
  /\ open
  /\ queue # <<>>
  /\ executed' = Append(executed, Head(queue))
  /\ queue' = Tail(queue)
  /\ UNCHANGED open

RunNow(t) ==
  /\ open
  /\ executed' = Append(executed, t)
  /\ UNCHANGED <<queue, open>>

Close ==
  /\ open
  /\ open' = FALSE
  /\ UNCHANGED <<queue, executed>>

Next == (\E t \in Task : Put(t) \/ RunNow(t)) \/ Take \/ Close

(* An open queue is eventually drained, or closed.                          *)
Fairness == WF_qvars(Take)

Safety == Init /\ [][Next]_qvars
Spec == Safety /\ Fairness
=============================================================================
