---------------------------- MODULE AsyncLogging ----------------------------
(***************************************************************************)
(* The asynchronous log backend (AsyncLogging in src/src/logger.cpp):       *)
(* producers append to current_buffer_ under mtx_, full buffers move to     *)
(* work_list_, a backend thread collects and writes them, the destructor    *)
(* stops the thread and writes what is left.                                *)
(*                                                                          *)
(* The wakeup of the backend is modelled in the code's own steps:           *)
(* wake_requested_ is set and wake_cv_ notified without wake_mtx_, so a     *)
(* notification can fall between the test of the wait's predicate and the   *)
(* wait, where it is lost and only the one second timeout helps.            *)
(*                                                                          *)
(* Buffers that are queued are represented by their number and by the       *)
(* concatenation of their contents; the log file opens and fwrite succeeds. *)
(***************************************************************************)
EXTENDS Integers, Sequences

CONSTANTS
  Producers,    \* threads that log
  BufSize,      \* kBackendbuffersize
  Limit,        \* kBackendbufferlimit
  MaxLen,       \* kLoggerbuffersize: the longest message
  MaxLogs       \* bound: messages per producer

ASSUME LogAssumption ==
  /\ BufSize \in Nat /\ MaxLen \in Nat \ {0} /\ MaxLen <= BufSize
  /\ Limit \in Nat \ {0} /\ MaxLogs \in Nat

VARIABLES
  running,    \* running_
  wake,       \* wake_requested_
  current,    \* contents of current_buffer_
  len,        \* current_buffer_len_
  next,       \* next_buffer_ is there
  empty,      \* buffers in empty_buffers_
  work,       \* contents of work_list_, in order
  nwork,      \* buffers in work_list_
  temp,       \* contents of the backend's temp_work_list, not yet written
  ntemp,      \* buffers in temp_work_list
  file,       \* what has been written to the log file
  bpc,        \* where the backend thread is
  ppc,        \* where each producer is
  dpc,        \* where the destructor is
  count,      \* messages each producer has appended or dropped
  accepted    \* history: messages appended, in order

vars == <<running, wake, current, len, next, empty, work, nwork, temp, ntemp,
          file, bpc, ppc, dpc, count, accepted>>

Log == Producers \X (1..MaxLogs) \X (1..MaxLen)

Init ==
  /\ running = TRUE
  /\ wake = FALSE
  /\ current = <<>>
  /\ len = 0
  /\ next = TRUE
  /\ empty = 0
  /\ work = <<>>
  /\ nwork = 0
  /\ temp = <<>>
  /\ ntemp = 0
  /\ file = <<>>
  /\ bpc = "test"
  /\ ppc = [p \in Producers |-> "idle"]
  /\ dpc = "alive"
  /\ count = [p \in Producers |-> 0]
  /\ accepted = <<>>

-----------------------------------------------------------------------------
(* TakeBufferLocked: from the free list if it has one, else a new one.      *)
AfterTake(e) == IF e > 0 THEN e - 1 ELSE 0

(* RecycleBufferLocked for k buffers: two at most are kept.                 *)
AfterRecycle(e, k) == IF e + k <= 2 THEN e + k ELSE 2

(* Mutant: the size check is off by one.                                    *)
AppendFitsOffByOne(p, l) ==
  /\ ppc[p] = "idle"
  /\ running
  /\ count[p] < MaxLogs
  /\ BufSize - len + 1 >= l
  /\ count' = [count EXCEPT ![p] = @ + 1]
  /\ current' = Append(current, <<p, count[p] + 1, l>>)
  /\ accepted' = Append(accepted, <<p, count[p] + 1, l>>)
  /\ len' = len + l
  /\ empty' = IF next THEN empty ELSE AfterTake(empty)
  /\ next' = TRUE
  /\ UNCHANGED <<running, wake, work, nwork, temp, ntemp, file, bpc, ppc, dpc>>

(* Append, the section under mtx_, when the message fits.                   *)
AppendFits(p, l) ==
  /\ ppc[p] = "idle"
  /\ running
  /\ count[p] < MaxLogs
  /\ BufSize - len >= l
  /\ count' = [count EXCEPT ![p] = @ + 1]
  /\ current' = Append(current, <<p, count[p] + 1, l>>)
  /\ accepted' = Append(accepted, <<p, count[p] + 1, l>>)
  /\ len' = len + l
  /\ empty' = IF next THEN empty ELSE AfterTake(empty)
  /\ next' = TRUE
  /\ UNCHANGED <<running, wake, work, nwork, temp, ntemp, file, bpc, ppc, dpc>>

(* Mutant: the queue's limit is not looked at.                              *)
AppendRollsAlways(p, l) ==
  /\ ppc[p] = "idle"
  /\ running
  /\ count[p] < MaxLogs
  /\ BufSize - len < l
  /\ count' = [count EXCEPT ![p] = @ + 1]
  /\ work' = work \o current
  /\ nwork' = nwork + 1
  /\ current' = <<<<p, count[p] + 1, l>>>>
  /\ accepted' = Append(accepted, <<p, count[p] + 1, l>>)
  /\ len' = l
  /\ empty' = IF next THEN AfterTake(empty) ELSE AfterTake(AfterTake(empty))
  /\ next' = TRUE
  /\ ppc' = [ppc EXCEPT ![p] = "flag"]
  /\ UNCHANGED <<running, wake, temp, ntemp, file, bpc, dpc>>

(* It does not fit and the queue has room: the buffer is queued, the next   *)
(* one becomes current (or one is taken) and another becomes next.          *)
AppendRolls(p, l) ==
  /\ ppc[p] = "idle"
  /\ running
  /\ count[p] < MaxLogs
  /\ BufSize - len < l
  /\ nwork < Limit
  /\ count' = [count EXCEPT ![p] = @ + 1]
  /\ work' = work \o current
  /\ nwork' = nwork + 1
  /\ current' = <<<<p, count[p] + 1, l>>>>
  /\ accepted' = Append(accepted, <<p, count[p] + 1, l>>)
  /\ len' = l
  /\ empty' = IF next THEN AfterTake(empty) ELSE AfterTake(AfterTake(empty))
  /\ next' = TRUE
  /\ ppc' = [ppc EXCEPT ![p] = "flag"]
  /\ UNCHANGED <<running, wake, temp, ntemp, file, bpc, dpc>>

(* It does not fit and the queue is full: the new message is dropped.       *)
AppendDrops(p, l) ==
  /\ ppc[p] = "idle"
  /\ running
  /\ count[p] < MaxLogs
  /\ BufSize - len < l
  /\ nwork >= Limit
  /\ count' = [count EXCEPT ![p] = @ + 1]
  /\ empty' = IF next THEN empty ELSE AfterTake(empty)
  /\ next' = TRUE
  /\ ppc' = [ppc EXCEPT ![p] = "flag"]
  /\ UNCHANGED <<running, wake, current, len, work, nwork, temp, ntemp, file,
                 bpc, dpc, accepted>>

(* wake_cv_.notify_one reaches the backend only while it is blocked.        *)
Notify == bpc' = IF bpc = "blocked" THEN "test" ELSE bpc

SetWake(p) ==
  /\ ppc[p] = "flag"
  /\ wake' = TRUE
  /\ ppc' = [ppc EXCEPT ![p] = "notify"]
  /\ UNCHANGED <<running, current, len, next, empty, work, nwork, temp, ntemp,
                 file, bpc, dpc, count, accepted>>

NotifyBackend(p) ==
  /\ ppc[p] = "notify"
  /\ Notify
  /\ ppc' = [ppc EXCEPT ![p] = "idle"]
  /\ UNCHANGED <<running, wake, current, len, next, empty, work, nwork, temp,
                 ntemp, file, dpc, count, accepted>>

-----------------------------------------------------------------------------
(* BackendThreadFunc.                                                       *)

(* wait_for: the predicate, then the wait proper.                           *)
TestWake ==
  /\ bpc = "test"
  /\ bpc' = IF wake \/ ~running THEN "awake" ELSE "block"
  /\ UNCHANGED <<running, wake, current, len, next, empty, work, nwork, temp,
                 ntemp, file, ppc, dpc, count, accepted>>

Block ==
  /\ bpc = "block"
  /\ bpc' = "blocked"
  /\ UNCHANGED <<running, wake, current, len, next, empty, work, nwork, temp,
                 ntemp, file, ppc, dpc, count, accepted>>

(* Mutant: wait instead of wait_for.                                        *)
NoTimeout ==
  /\ bpc = "blocked"
  /\ FALSE
  /\ UNCHANGED vars

(* One second has passed.                                                   *)
Timeout ==
  /\ bpc = "blocked"
  /\ bpc' = "awake"
  /\ UNCHANGED <<running, wake, current, len, next, empty, work, nwork, temp,
                 ntemp, file, ppc, dpc, count, accepted>>

ClearWake ==
  /\ bpc = "awake"
  /\ wake' = FALSE
  /\ bpc' = "collect"
  /\ UNCHANGED <<running, current, len, next, empty, work, nwork, temp, ntemp,
                 file, ppc, dpc, count, accepted>>

(* Mutant: the current buffer is collected ahead of the queue.              *)
CollectCurrentFirst ==
  /\ bpc = "collect"
  /\ temp' = current \o work
  /\ ntemp' = nwork + (IF len > 0 THEN 1 ELSE 0)
  /\ work' = <<>> /\ nwork' = 0
  /\ current' = <<>> /\ len' = 0
  /\ empty' = IF len > 0 /\ ~next THEN AfterTake(empty) ELSE empty
  /\ next' = (next /\ ~(len > 0))
  /\ bpc' = IF ~running /\ ntemp' = 0 THEN "ended" ELSE "write"
  /\ UNCHANGED <<running, wake, file, ppc, dpc, count, accepted>>

(* Mutant: a stopped backend ends with what it has just collected.          *)
CollectAndEnd ==
  /\ bpc = "collect"
  /\ temp' = work \o current
  /\ ntemp' = nwork + (IF len > 0 THEN 1 ELSE 0)
  /\ work' = <<>> /\ nwork' = 0
  /\ current' = <<>> /\ len' = 0
  /\ empty' = IF len > 0 /\ ~next THEN AfterTake(empty) ELSE empty
  /\ next' = (next /\ ~(len > 0))
  /\ bpc' = IF ~running THEN "ended" ELSE "write"
  /\ UNCHANGED <<running, wake, file, ppc, dpc, count, accepted>>

(* Mutant: only full buffers are collected.                                 *)
CollectFullOnly ==
  /\ bpc = "collect"
  /\ temp' = work
  /\ ntemp' = nwork
  /\ work' = <<>> /\ nwork' = 0
  /\ bpc' = IF ~running /\ ntemp' = 0 THEN "ended" ELSE "write"
  /\ UNCHANGED <<running, wake, current, len, next, empty, file, ppc, dpc,
                 count, accepted>>

(* Under mtx_: a non-empty current buffer is queued and replaced, the queue *)
(* is swapped out; the thread ends when it is stopped and nothing was left. *)
Collect ==
  /\ bpc = "collect"
  /\ temp' = work \o current
  /\ ntemp' = nwork + (IF len > 0 THEN 1 ELSE 0)
  /\ work' = <<>> /\ nwork' = 0
  /\ current' = <<>> /\ len' = 0
  /\ empty' = IF len > 0 /\ ~next THEN AfterTake(empty) ELSE empty
  /\ next' = (next /\ ~(len > 0))
  /\ bpc' = IF ~running /\ ntemp' = 0 THEN "ended" ELSE "write"
  /\ UNCHANGED <<running, wake, file, ppc, dpc, count, accepted>>

WriteFile ==
  /\ bpc = "write"
  /\ file' = file \o temp
  /\ temp' = <<>>
  /\ bpc' = "recycle"
  /\ UNCHANGED <<running, wake, current, len, next, empty, work, nwork, ntemp,
                 ppc, dpc, count, accepted>>

(* Under mtx_: up to two written buffers go back to the free list, and a    *)
(* missing next buffer is replaced.                                         *)
Recycle ==
  /\ bpc = "recycle"
  /\ LET e == AfterRecycle(empty, IF ntemp > 2 THEN 2 ELSE ntemp)
     IN  empty' = IF next THEN e ELSE AfterTake(e)
  /\ next' = TRUE
  /\ ntemp' = 0
  /\ bpc' = "test"
  /\ UNCHANGED <<running, wake, current, len, work, nwork, temp, file, ppc,
                 dpc, count, accepted>>

-----------------------------------------------------------------------------
(* ~AsyncLogging.                                                           *)

StopRunning ==
  /\ dpc = "alive"
  /\ running' = FALSE
  /\ dpc' = "flag"
  /\ UNCHANGED <<wake, current, len, next, empty, work, nwork, temp, ntemp,
                 file, bpc, ppc, count, accepted>>

StopWake ==
  /\ dpc = "flag"
  /\ wake' = TRUE
  /\ dpc' = "notify"
  /\ UNCHANGED <<running, current, len, next, empty, work, nwork, temp, ntemp,
                 file, bpc, ppc, count, accepted>>

StopNotify ==
  /\ dpc = "notify"
  /\ Notify
  /\ dpc' = "join"
  /\ UNCHANGED <<running, wake, current, len, next, empty, work, nwork, temp,
                 ntemp, file, ppc, count, accepted>>

(* The thread is joined and what is left is written.                        *)
JoinAndSweep ==
  /\ dpc = "join"
  /\ bpc = "ended"
  /\ file' = file \o work \o current
  /\ work' = <<>> /\ nwork' = 0
  /\ current' = <<>> /\ len' = 0
  /\ next' = FALSE
  /\ empty' = 0
  /\ dpc' = "gone"
  /\ UNCHANGED <<running, wake, temp, ntemp, bpc, ppc, count, accepted>>

-----------------------------------------------------------------------------
BackendStep ==
  \/ TestWake \/ Block \/ Timeout \/ ClearWake \/ Collect \/ WriteFile
  \/ Recycle

ProducerStep(p) == SetWake(p) \/ NotifyBackend(p)

DestructorStep == StopWake \/ StopNotify \/ JoinAndSweep

Next ==
  \/ BackendStep
  \/ \E p \in Producers :
       \/ ProducerStep(p)
       \/ \E l \in 1..MaxLen :
            AppendFits(p, l) \/ AppendRolls(p, l) \/ AppendDrops(p, l)
  \/ StopRunning \/ DestructorStep

(* Threads that can run are scheduled and the wait of one second ends.      *)
Fairness ==
  /\ WF_vars(BackendStep)
  /\ \A p \in Producers : WF_vars(ProducerStep(p))
  /\ WF_vars(DestructorStep)

Spec == Init /\ [][Next]_vars
FairSpec == Spec /\ Fairness

-----------------------------------------------------------------------------
(* Properties.                                                              *)

BackendPC == {"test", "block", "blocked", "awake", "collect", "write",
              "recycle", "ended"}

TypeOK ==
  /\ running \in BOOLEAN
  /\ wake \in BOOLEAN
  /\ current \in Seq(Log)
  /\ len \in 0..BufSize
  /\ next \in BOOLEAN
  /\ empty \in 0..2
  /\ work \in Seq(Log)
  /\ nwork \in Nat
  /\ temp \in Seq(Log)
  /\ ntemp \in Nat
  /\ file \in Seq(Log)
  /\ bpc \in BackendPC
  /\ ppc \in [Producers -> {"idle", "flag", "notify"}]
  /\ dpc \in {"alive", "flag", "notify", "join", "gone"}
  /\ count \in [Producers -> Nat]
  /\ \A p \in Producers : count[p] <= MaxLogs
  /\ accepted \in Seq(Log)

(* No accepted message is lost, repeated or reordered on its way through    *)
(* current_buffer_, work_list_, temp_work_list and the file, across all     *)
(* producers.                                                               *)
LogsConserved == file \o temp \o work \o current = accepted

(* Memory is bounded: work_list_ never exceeds its limit, the backend holds *)
(* at most one buffer more.                                                 *)
QueueBounded == nwork <= Limit /\ ntemp <= Limit + 1

(* When the destructor is done, everything accepted is in the file.         *)
FlushedWhenGone == dpc = "gone" => file = accepted

(* A message that was accepted is written, also when the notification was   *)
(* lost.                                                                    *)
LogsWritten ==
  \A k \in 1..2 : (Len(accepted) >= k) ~> (Len(file) >= k)

(* The destructor ends: the backend thread is not left waiting.             *)
DestructorEnds == dpc # "alive" ~> dpc = "gone"
=============================================================================
