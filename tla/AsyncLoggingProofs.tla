------------------------ MODULE AsyncLoggingProofs ------------------------
(***************************************************************************)
(* Theorems about AsyncLogging, for any set of producers, any buffer size   *)
(* and queue limit, and any number and length of messages.  The fairness    *)
(* part of the specification is not used.                                   *)
(***************************************************************************)
EXTENDS AsyncLogging, SequenceTheorems, TLAPS

-----------------------------------------------------------------------------
(* Appending to the last part of a concatenation appends to the whole.      *)
LEMMA AppendBehind ==
  ASSUME NEW S, NEW s \in Seq(S), NEW t \in Seq(S), NEW e \in S
  PROVE  s \o Append(t, e) = Append(s \o t, e)
  OBVIOUS

(* Concatenations of messages can be regrouped.                             *)
LEMMA Regroup ==
  \A s, t, u \in Seq(Log) : s \o t \o u = s \o (t \o u)
<1> TAKE s, t, u \in Seq(Log)
<1> DEFINE left == s \o t \o u
           right == s \o (t \o u)
<1>1. left \in Seq(Log) /\ right \in Seq(Log) /\ Len(left) = Len(right)
  BY ConcatProperties, LenProperties
<1>2. \A i \in 1..Len(left) : left[i] = right[i]
  BY ConcatProperties, LenProperties
<1> HIDE DEF left, right
<1>3. left = right
  BY <1>1, <1>2, SeqEqual
<1> QED
  BY <1>3 DEF left, right

(* The next message of a producer below its bound is a Log.                 *)
LEMMA LogMember ==
  ASSUME TypeOK, NEW p \in Producers, NEW l \in 1..MaxLen, count[p] < MaxLogs
  PROVE  /\ <<p, count[p] + 1, l>> \in Log
         /\ [count EXCEPT ![p] = @ + 1] \in [Producers -> Nat]
         /\ \A q \in Producers : [count EXCEPT ![p] = @ + 1][q] <= MaxLogs
  BY LogAssumption DEF TypeOK, Log

(* The free list keeps its bound.                                           *)
LEMMA FreeListBound ==
  ASSUME NEW e \in 0..2, NEW k \in Nat
  PROVE  AfterTake(e) \in 0..2 /\ AfterRecycle(e, k) \in 0..2
  BY DEF AfterTake, AfterRecycle

LEMMA TypeInit == Init => TypeOK
<1> SUFFICES ASSUME Init PROVE TypeOK OBVIOUS
<1>1. /\ current \in Seq(Log) /\ work \in Seq(Log) /\ temp \in Seq(Log)
      /\ file \in Seq(Log) /\ accepted \in Seq(Log)
  BY EmptySeq DEF Init
<1>2. /\ ppc \in [Producers -> {"idle", "flag", "notify"}]
      /\ count \in [Producers -> Nat]
      /\ \A p \in Producers : count[p] <= MaxLogs
  BY LogAssumption DEF Init
<1>3. len \in 0..BufSize /\ empty \in 0..2 /\ nwork \in Nat /\ ntemp \in Nat
  BY LogAssumption DEF Init
<1> QED
  BY <1>1, <1>2, <1>3 DEF Init, TypeOK, BackendPC

LEMMA TypeAppend ==
  ASSUME TypeOK, NEW p \in Producers, NEW l \in 1..MaxLen,
         AppendFits(p, l) \/ AppendRolls(p, l) \/ AppendDrops(p, l)
  PROVE  TypeOK'
<1> DEFINE m == <<p, count[p] + 1, l>>
<1>1. count[p] < MaxLogs
  BY DEF AppendFits, AppendRolls, AppendDrops
<1>2. /\ m \in Log
      /\ count' \in [Producers -> Nat]
      /\ \A q \in Producers : count'[q] <= MaxLogs
  BY <1>1, LogMember DEF AppendFits, AppendRolls, AppendDrops
<1>3. /\ Append(current, m) \in Seq(Log)
      /\ Append(accepted, m) \in Seq(Log)
      /\ <<m>> \in Seq(Log)
      /\ work \o current \in Seq(Log)
  BY <1>2, ConcatProperties, SMTT(30) DEF TypeOK
<1>4. empty' \in 0..2
  BY FreeListBound DEF TypeOK, AppendFits, AppendRolls, AppendDrops
<1> HIDE DEF m
<1>5. CASE AppendFits(p, l)
  <2>1. len' \in 0..BufSize
    BY <1>5, LogAssumption DEF TypeOK, AppendFits
  <2> QED
    BY <1>2, <1>3, <1>4, <1>5, <2>1 DEF TypeOK, AppendFits, m
<1>6. CASE AppendRolls(p, l)
  <2>1. len' \in 0..BufSize /\ nwork' \in Nat
    BY <1>6, LogAssumption DEF TypeOK, AppendRolls
  <2>2. ppc' \in [Producers -> {"idle", "flag", "notify"}]
    BY <1>6 DEF TypeOK, AppendRolls
  <2> QED
    BY <1>2, <1>3, <1>4, <1>6, <2>1, <2>2 DEF TypeOK, AppendRolls, m
<1>7. CASE AppendDrops(p, l)
  <2>1. ppc' \in [Producers -> {"idle", "flag", "notify"}]
    BY <1>7 DEF TypeOK, AppendDrops
  <2> QED
    BY <1>2, <1>4, <1>7, <2>1 DEF TypeOK, AppendDrops
<1> QED
  BY <1>5, <1>6, <1>7

LEMMA TypeBackend ==
  ASSUME TypeOK, BackendStep
  PROVE  TypeOK'
<1> USE DEF TypeOK, BackendPC
<1>1. CASE TestWake BY <1>1 DEF TestWake
<1>2. CASE Block BY <1>2 DEF Block
<1>3. CASE Timeout BY <1>3 DEF Timeout
<1>4. CASE ClearWake BY <1>4 DEF ClearWake
<1>5. CASE Collect
  <2>1. /\ temp' \in Seq(Log) /\ work' \in Seq(Log) /\ current' \in Seq(Log)
    BY <1>5, ConcatProperties, EmptySeq DEF Collect
  <2>2. ntemp' \in Nat /\ nwork' \in Nat /\ len' \in 0..BufSize
    BY <1>5, LogAssumption DEF Collect
  <2>3. empty' \in 0..2 /\ next' \in BOOLEAN
    BY <1>5, FreeListBound DEF Collect
  <2>4. bpc' \in BackendPC
    BY <1>5 DEF Collect
  <2> QED
    BY <1>5, <2>1, <2>2, <2>3, <2>4 DEF Collect
<1>6. CASE WriteFile
  <2>1. file' \in Seq(Log) /\ temp' \in Seq(Log)
    BY <1>6, ConcatProperties, EmptySeq DEF WriteFile
  <2> QED
    BY <1>6, <2>1 DEF WriteFile
<1>7. CASE Recycle
  <2>1. empty' \in 0..2
    BY <1>7, FreeListBound DEF Recycle
  <2> QED
    BY <1>7, <2>1 DEF Recycle
<1> QED
  BY <1>1, <1>2, <1>3, <1>4, <1>5, <1>6, <1>7 DEF BackendStep

LEMMA TypeOthers ==
  ASSUME TypeOK,
         (\E p \in Producers : ProducerStep(p)) \/ StopRunning \/ DestructorStep
  PROVE  TypeOK'
<1> USE DEF TypeOK, BackendPC
<1>1. ASSUME NEW p \in Producers, SetWake(p) PROVE TypeOK'
  BY <1>1 DEF SetWake
<1>2. ASSUME NEW p \in Producers, NotifyBackend(p) PROVE TypeOK'
  BY <1>2 DEF NotifyBackend, Notify
<1>3. CASE StopRunning BY <1>3 DEF StopRunning
<1>4. CASE StopWake BY <1>4 DEF StopWake
<1>5. CASE StopNotify BY <1>5 DEF StopNotify, Notify
<1>6. CASE JoinAndSweep
  <2>1. /\ work' \in Seq(Log) /\ current' \in Seq(Log) /\ file' \in Seq(Log)
    BY <1>6, ConcatProperties, EmptySeq DEF JoinAndSweep
  <2>2. len' \in 0..BufSize /\ nwork' \in Nat /\ empty' \in 0..2
    BY <1>6, LogAssumption DEF JoinAndSweep
  <2> QED
    BY <1>6, <2>1, <2>2 DEF JoinAndSweep
<1> QED
  BY <1>1, <1>2, <1>3, <1>4, <1>5, <1>6 DEF ProducerStep, DestructorStep

LEMMA TypeStep ==
  ASSUME TypeOK, [Next]_vars
  PROVE  TypeOK'
<1>1. CASE UNCHANGED vars BY <1>1 DEF vars, TypeOK
<1>2. CASE Next BY <1>2, TypeAppend, TypeBackend, TypeOthers DEF Next
<1> QED BY <1>1, <1>2

(* TypeOK is an invariant: in particular a buffer is never written past     *)
(* its end and the free list never holds more than two buffers.             *)
THEOREM TypeCorrect == Spec => []TypeOK
<1>1. Init => TypeOK BY TypeInit
<1>2. TypeOK /\ [Next]_vars => TypeOK' BY TypeStep
<1> QED BY <1>1, <1>2, PTL DEF Spec
-----------------------------------------------------------------------------
(* The path of a message.  The counters tell when the buffers they count    *)
(* are empty, which is what the backend's exit test relies on; the backend  *)
(* holds messages only between its collection and its write; and once the   *)
(* destructor has begun nothing more is accepted.                           *)
PathInv ==
  /\ LogsConserved
  /\ nwork = 0 => work = <<>>
  /\ len = 0 => current = <<>>
  /\ bpc # "write" => temp = <<>>
  /\ dpc # "alive" => ~running
  /\ dpc = "gone" => bpc = "ended" /\ work = <<>> /\ current = <<>>

LEMMA PathInit == Init => PathInv
<1> SUFFICES ASSUME Init PROVE PathInv OBVIOUS
<1>1. <<>> \in Seq(Log) /\ <<>> \o <<>> = <<>>
  BY EmptySeq, ConcatEmptySeq
<1> QED
  BY <1>1 DEF Init, PathInv, LogsConserved

(* A message is appended behind everything else.                            *)
LEMMA PathFits ==
  ASSUME TypeOK, PathInv, NEW p \in Producers, NEW l \in 1..MaxLen,
         AppendFits(p, l)
  PROVE  PathInv'
<1> DEFINE m == <<p, count[p] + 1, l>>
           before == file \o temp \o work
<1>1. m \in Log
  BY LogMember DEF AppendFits
<1>2. before \in Seq(Log)
  BY ConcatProperties DEF TypeOK
<1>3. before \o Append(current, m) = Append(before \o current, m)
  <2>1. current \in Seq(Log)
    BY DEF TypeOK
  <2> HIDE DEF m, before
  <2> QED
    BY <1>1, <1>2, <2>1, AppendBehind
<1>4. LogsConserved'
  BY <1>3 DEF AppendFits, PathInv, LogsConserved
<1>5. len' # 0
  BY LogAssumption DEF AppendFits, TypeOK
<1> QED
  BY <1>4, <1>5 DEF AppendFits, PathInv

(* The current buffer is queued behind the others, the message starts the   *)
(* new one.                                                                 *)
LEMMA PathRolls ==
  ASSUME TypeOK, PathInv, NEW p \in Producers, NEW l \in 1..MaxLen,
         AppendRolls(p, l)
  PROVE  PathInv'
<1> DEFINE m == <<p, count[p] + 1, l>>
           before == file \o temp
<1>1. m \in Log
  BY LogMember DEF AppendRolls
<1>2. before \in Seq(Log) /\ work \o current \in Seq(Log)
  BY ConcatProperties DEF TypeOK
<1>3. before \o (work \o current) = before \o work \o current
  <2>1. work \in Seq(Log) /\ current \in Seq(Log)
    BY DEF TypeOK
  <2> HIDE DEF before
  <2> QED
    BY <1>2, <2>1, Regroup
<1>4. before \o work \o current \in Seq(Log)
  BY <1>2, ConcatProperties DEF TypeOK
<1>5. Append(before \o work \o current, m)
        = (before \o work \o current) \o <<m>>
  BY <1>1, <1>4, AppendIsConcat
<1>6. LogsConserved'
  BY <1>3, <1>5 DEF AppendRolls, PathInv, LogsConserved
<1>7. len' # 0 /\ nwork' # 0
  BY DEF AppendRolls, TypeOK
<1> QED
  BY <1>6, <1>7 DEF AppendRolls, PathInv

(* The backend takes the queue and then the current buffer.                 *)
LEMMA PathCollect ==
  ASSUME TypeOK, PathInv, Collect
  PROVE  PathInv'
<1>1. temp = <<>>
  BY DEF PathInv, Collect
<1>2. work \o current \in Seq(Log)
  BY ConcatProperties DEF TypeOK
<1>3. file \o <<>> = file
  BY ConcatEmptySeq DEF TypeOK
<1>4. file \o work \o current = file \o (work \o current)
  BY Regroup DEF TypeOK
<1>5. file \o (work \o current) \in Seq(Log)
  BY <1>2, ConcatProperties DEF TypeOK
<1>6. file \o (work \o current) \o <<>> \o <<>> = file \o (work \o current)
  BY <1>5, ConcatEmptySeq
<1>7. LogsConserved'
  BY <1>1, <1>3, <1>4, <1>6 DEF Collect, PathInv, LogsConserved
<1>8. bpc' # "write" => temp' = <<>>
  <2> SUFFICES ASSUME bpc' # "write" PROVE temp' = <<>> OBVIOUS
  <2>1. ntemp' = 0
    BY DEF Collect
  <2>2. nwork = 0 /\ len = 0
    BY <2>1 DEF Collect, TypeOK
  <2>3. <<>> \o <<>> = <<>>
    BY EmptySeq, ConcatEmptySeq
  <2> QED
    BY <2>2, <2>3 DEF Collect, PathInv
<1> QED
  BY <1>7, <1>8 DEF Collect, PathInv

(* What was collected reaches the file behind what is there.                *)
LEMMA PathWrite ==
  ASSUME TypeOK, PathInv, WriteFile
  PROVE  PathInv'
<1>1. file \o temp \in Seq(Log)
  BY ConcatProperties DEF TypeOK
<1>2. (file \o temp) \o <<>> = file \o temp
  BY <1>1, ConcatEmptySeq
<1>3. LogsConserved'
  BY <1>2 DEF WriteFile, PathInv, LogsConserved
<1> QED
  BY <1>3 DEF WriteFile, PathInv

(* The destructor writes the rest.                                          *)
LEMMA PathSweep ==
  ASSUME TypeOK, PathInv, JoinAndSweep
  PROVE  PathInv'
<1>1. temp = <<>>
  BY DEF PathInv, JoinAndSweep
<1>2. file \o <<>> = file
  BY ConcatEmptySeq DEF TypeOK
<1>3. file \o work \o current \in Seq(Log)
  BY ConcatProperties DEF TypeOK
<1>4. (file \o work \o current) \o <<>> \o <<>> \o <<>> = file \o work \o current
  BY <1>3, ConcatEmptySeq
<1>5. LogsConserved'
  BY <1>1, <1>2, <1>4 DEF JoinAndSweep, PathInv, LogsConserved
<1> QED
  BY <1>1, <1>5 DEF JoinAndSweep, PathInv

LEMMA PathStep ==
  ASSUME TypeOK, PathInv, [Next]_vars
  PROVE  PathInv'
<1>1. CASE UNCHANGED vars
  BY <1>1 DEF vars, PathInv, LogsConserved
<1>2. ASSUME NEW p \in Producers, NEW l \in 1..MaxLen,
             AppendFits(p, l) \/ AppendRolls(p, l) \/ AppendDrops(p, l)
      PROVE  PathInv'
  <2>1. CASE AppendDrops(p, l)
    BY <2>1 DEF AppendDrops, PathInv, LogsConserved
  <2> QED
    BY <1>2, <2>1, PathFits, PathRolls
<1>3. CASE BackendStep
  <2>1. CASE TestWake BY <2>1 DEF TestWake, PathInv, LogsConserved
  <2>2. CASE Block BY <2>2 DEF Block, PathInv, LogsConserved
  <2>3. CASE Timeout BY <2>3 DEF Timeout, PathInv, LogsConserved
  <2>4. CASE ClearWake BY <2>4 DEF ClearWake, PathInv, LogsConserved
  <2>5. CASE Recycle BY <2>5 DEF Recycle, PathInv, LogsConserved
  <2> QED
    BY <1>3, <2>1, <2>2, <2>3, <2>4, <2>5, PathCollect, PathWrite
       DEF BackendStep
<1>4. ASSUME NEW p \in Producers, ProducerStep(p)
      PROVE  PathInv'
  <2>1. CASE SetWake(p) BY <2>1 DEF SetWake, PathInv, LogsConserved
  <2>2. CASE NotifyBackend(p)
    BY <2>2 DEF NotifyBackend, Notify, PathInv, LogsConserved
  <2> QED
    BY <1>4, <2>1, <2>2 DEF ProducerStep
<1>5. CASE StopRunning BY <1>5 DEF StopRunning, PathInv, LogsConserved
<1>6. CASE DestructorStep
  <2>1. CASE StopWake BY <2>1 DEF StopWake, PathInv, LogsConserved
  <2>2. CASE StopNotify BY <2>2 DEF StopNotify, Notify, PathInv, LogsConserved
  <2> QED
    BY <1>6, <2>1, <2>2, PathSweep DEF DestructorStep
<1> QED
  BY <1>1, <1>2, <1>3, <1>4, <1>5, <1>6 DEF Next

LEMMA PathInvariant == Spec => [](TypeOK /\ PathInv)
<1>1. Init => TypeOK /\ PathInv BY TypeInit, PathInit
<1>2. TypeOK /\ PathInv /\ [Next]_vars => TypeOK' /\ PathInv'
  BY TypeStep, PathStep
<1> QED BY <1>1, <1>2, PTL DEF Spec

(* No accepted message is lost, repeated or reordered between Append and    *)
(* the file, whatever the interleaving of producers, backend and            *)
(* destructor.                                                              *)
THEOREM AcceptedLogsConserved == Spec => []LogsConserved
<1>1. PathInv => LogsConserved BY DEF PathInv
<1> QED BY <1>1, PathInvariant, PTL

(* A finished destructor has written every accepted message: the backend's  *)
(* exit test and the final sweep leave no gap.                              *)
THEOREM DestructorFlushes == Spec => []FlushedWhenGone
<1>1. TypeOK /\ PathInv => FlushedWhenGone
  <2> SUFFICES ASSUME TypeOK, PathInv, dpc = "gone" PROVE file = accepted
    BY DEF FlushedWhenGone
  <2>1. temp = <<>> /\ work = <<>> /\ current = <<>>
    BY DEF PathInv
  <2>2. file \o <<>> \o <<>> \o <<>> = file
    BY ConcatEmptySeq DEF TypeOK
  <2> QED
    BY <2>1, <2>2 DEF PathInv, LogsConserved
<1> QED BY <1>1, PathInvariant, PTL

(* Memory is bounded whatever the producers do: work_list_ stays within     *)
(* kBackendbufferlimit and the backend holds at most one buffer more.       *)
THEOREM QueueIsBounded == Spec => []QueueBounded
<1>1. Init => QueueBounded
  BY LogAssumption DEF Init, QueueBounded
<1>2. TypeOK /\ QueueBounded /\ [Next]_vars => QueueBounded'
  <2> SUFFICES ASSUME TypeOK, QueueBounded, [Next]_vars
               PROVE  QueueBounded'
    OBVIOUS
  <2> USE LogAssumption DEF QueueBounded
  <2>1. CASE UNCHANGED vars BY <2>1 DEF vars
  <2>2. CASE BackendStep
    BY <2>2 DEF BackendStep, TestWake, Block, Timeout, ClearWake, Collect,
                WriteFile, Recycle, TypeOK
  <2>3. ASSUME NEW p \in Producers, NEW l \in 1..MaxLen,
               AppendFits(p, l) \/ AppendRolls(p, l) \/ AppendDrops(p, l)
        PROVE  QueueBounded'
    BY <2>3, SMTT(30) DEF AppendFits, AppendRolls, AppendDrops, TypeOK
  <2>4. ASSUME NEW p \in Producers, ProducerStep(p) PROVE QueueBounded'
    BY <2>4 DEF ProducerStep, SetWake, NotifyBackend
  <2>5. CASE StopRunning \/ DestructorStep
    BY <2>5 DEF StopRunning, DestructorStep, StopWake, StopNotify, JoinAndSweep
  <2> QED
    BY <2>1, <2>2, <2>3, <2>4, <2>5 DEF Next
<1> QED BY <1>1, <1>2, TypeCorrect, PTL DEF Spec
=============================================================================
