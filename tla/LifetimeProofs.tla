--------------------------- MODULE LifetimeProofs ---------------------------
(***************************************************************************)
(* Theorems about Lifetime, for any finite set of connections on a loop.    *)
(***************************************************************************)
EXTENDS Lifetime, FiniteSetTheorems, TLAPS

-----------------------------------------------------------------------------
(* Types.                                                                   *)

(* What epoll_wait reports is a sequence of channels.                       *)
LEMMA ReportType ==
  ASSUME NEW S \in SUBSET (Conns \cup {Timer}),
         NEW l \in SetToAllKPermutations(S)
  PROVE  l \in Seq(Conns \cup {Timer})
<1>1. PICK T \in SUBSET S : l \in SetToSeqs(T)
  BY DEF SetToAllKPermutations
<1>2. IsFiniteSet(Conns \cup {Timer})
  BY ChannelsAssumption, FS_AddElement
<1>3. T \in SUBSET (Conns \cup {Timer})
  OBVIOUS
<1>4. Cardinality(T) \in Nat
  BY <1>2, <1>3, FS_Subset, FS_CardinalityType
<1>5. l \in [1..Cardinality(T) -> T]
  BY <1>1 DEF SetToSeqs
<1> QED
  BY <1>3, <1>4, <1>5

(* A channel that leaves the loop is neither registered nor tied.           *)
LEMMA RemovedChannel ==
  ASSUME NEW h \in [owner : BOOLEAN, reg : BOOLEAN, tied : BOOLEAN],
         h.reg => h.owner
  PROVE  RemoveFromLoop(h) = [owner |-> FALSE, reg |-> FALSE, tied |-> FALSE]
<1>1. h = [owner |-> h.owner, reg |-> h.reg, tied |-> h.tied]
  OBVIOUS
<1>2. PICK o \in BOOLEAN :
        DeleteChannel(h) = [owner |-> o, reg |-> FALSE, tied |-> h.tied]
  <2>1. CASE h.reg
    <3>1. DeleteChannel(h) = [owner |-> FALSE, reg |-> FALSE, tied |-> h.tied]
      BY <1>1, <2>1 DEF DeleteChannel
    <3> QED BY <3>1
  <2>2. CASE ~h.reg
    <3>1. DeleteChannel(h) = [owner |-> h.owner, reg |-> FALSE, tied |-> h.tied]
      BY <1>1, <2>2 DEF DeleteChannel
    <3> QED BY <3>1
  <2> QED BY <2>1, <2>2
<1>3. /\ DOMAIN RemoveFromLoop(h) = {"owner", "reg", "tied"}
      /\ RemoveFromLoop(h)["owner"] = FALSE
      /\ RemoveFromLoop(h)["reg"] = FALSE
      /\ RemoveFromLoop(h)["tied"] = FALSE
  BY <1>2 DEF RemoveFromLoop
<1>4. RemoveFromLoop(h) = [f \in {"owner", "reg", "tied"} |-> RemoveFromLoop(h)[f]]
  BY <1>2 DEF RemoveFromLoop
<1> QED
  BY <1>3, <1>4

-----------------------------------------------------------------------------
(* The inductive invariant.  Who refers to a connection follows from what   *)
(* has happened to it: one in a loop is open, or WriteFd is tearing it down *)
(* right now; an open one is in the set, an erasure is queued only for a    *)
(* closed one, and nothing refers to one that was never made.               *)

RefsInv ==
  \A c \in Conns :
    /\ ch[c].owner => c \in Open \/ (lpc = "flush" /\ c = cur)
    /\ c \in Open => "set" \in refs[c] /\ (heartbeat => ch[c].tied)
    /\ "erase" \in refs[c] => c \in closed
    /\ refs[c] # {} => c \in made

(* A Handle that began on an open connection holds it if heartbeats are on, *)
(* and WriteFd holds the one it tears down whether they are on or not.      *)
HandleInv ==
  /\ lpc \in {"handle", "flush"} =>
       /\ cur \in Conns
       /\ fresh /\ heartbeat => "guard" \in refs[cur]
  /\ lpc = "flush" => "self" \in refs[cur] /\ cur \in closed /\ stage = 2

Inv == TypeOK /\ RefsInv /\ HandleInv /\ GuardedByTie

LEMMA InvInit == Init => Inv
<1> SUFFICES ASSUME Init PROVE Inv
  OBVIOUS
<1> USE DEF Init
<1>1. TypeOK
  <2>1. /\ ch \in [Conns -> [owner : BOOLEAN, reg : BOOLEAN, tied : BOOLEAN]]
        /\ \A c \in Conns : ch[c].reg \/ ch[c].tied => ch[c].owner
    <3>1. [owner |-> FALSE, reg |-> FALSE, tied |-> FALSE]
            \in [owner : BOOLEAN, reg : BOOLEAN, tied : BOOLEAN]
      OBVIOUS
    <3> QED BY <3>1
  <2>2. refs \in [Conns -> SUBSET Ref]
    OBVIOUS
  <2>3. fresh \in BOOLEAN
    BY Zenon
  <2> QED BY <2>1, <2>2, <2>3 DEF TypeOK
<1>2. RefsInv /\ HandleInv /\ GuardedByTie
  BY DEF RefsInv, HandleInv, GuardedByTie, Open
<1> QED BY <1>1, <1>2 DEF Inv

(* Closing open connections keeps types and references in order.            *)
LEMMA CloseKeeps ==
  ASSUME Inv, NEW S \in SUBSET Open, Close(S), UNCHANGED <<heartbeat, made>>,
         lpc # "flush"
  PROVE  /\ closed' \subseteq made /\ refs' \in [Conns -> SUBSET Ref]
         /\ ch' \in [Conns -> [owner : BOOLEAN, reg : BOOLEAN, tied : BOOLEAN]]
         /\ \A c \in Conns : ch'[c].reg \/ ch'[c].tied => ch'[c].owner
         /\ RefsInv'
         /\ \A c \in Conns : "guard" \in refs[c] => "guard" \in refs'[c]
<1> USE DEF Inv
<1>1. closed' \subseteq made
  BY DEF Close, Open, TypeOK
<1>2. /\ refs' \in [Conns -> SUBSET Ref]
      /\ \A c \in Conns : "guard" \in refs[c] => "guard" \in refs'[c]
  BY DEF Close, TypeOK, Ref
<1>3. \A c \in Conns :
        ch'[c] = IF c \in S THEN [owner |-> FALSE, reg |-> FALSE, tied |-> FALSE]
                 ELSE ch[c]
  BY RemovedChannel DEF Close, TypeOK
<1>4. /\ ch' \in [Conns -> [owner : BOOLEAN, reg : BOOLEAN, tied : BOOLEAN]]
      /\ \A c \in Conns : ch'[c].reg \/ ch'[c].tied => ch'[c].owner
  <2>1. ch' = [c \in Conns |-> ch'[c]]
    BY DEF Close
  <2>2. ASSUME NEW c \in Conns
        PROVE  /\ ch'[c] \in [owner : BOOLEAN, reg : BOOLEAN, tied : BOOLEAN]
               /\ ch'[c].reg \/ ch'[c].tied => ch'[c].owner
    <3>1. CASE c \in S
      <4> DEFINE r == [owner |-> FALSE, reg |-> FALSE, tied |-> FALSE]
      <4>1. /\ r \in [owner : BOOLEAN, reg : BOOLEAN, tied : BOOLEAN]
            /\ ~r.reg /\ ~r.tied
        OBVIOUS
      <4>2. ch'[c] = r
        BY <1>3, <3>1
      <4> HIDE DEF r
      <4> QED BY <4>1, <4>2
    <3>2. CASE c \notin S
      BY <1>3, <3>2 DEF TypeOK
    <3> QED BY <3>1, <3>2
  <2> QED BY <2>1, <2>2
<1>5. RefsInv'
  <2> SUFFICES ASSUME NEW c \in Conns
               PROVE  /\ ch'[c].owner => c \in Open'
                      /\ c \in Open' => "set" \in refs'[c]
                                        /\ (heartbeat => ch'[c].tied)
                      /\ "erase" \in refs'[c] => c \in closed'
                      /\ refs'[c] # {} => c \in made
    BY DEF RefsInv
  <2>1. Open' = Open \ S
    BY DEF Open, Close
  <2>2. refs'[c] = IF c \in S THEN refs[c] \cup {"erase"} ELSE refs[c]
    BY DEF Close
  <2>3. c \in S => c \in made /\ c \in closed'
    BY DEF Open, Close
  <2>4. closed \subseteq closed'
    BY DEF Close
  <2> QED BY <1>3, <2>1, <2>2, <2>3, <2>4 DEF RefsInv
<1> QED BY <1>1, <1>2, <1>4, <1>5

-----------------------------------------------------------------------------
(* One lemma per action.                                                    *)

LEMMA PollKeeps == Inv /\ Poll => Inv'
<1> SUFFICES ASSUME Inv, Poll PROVE Inv'
  OBVIOUS
<1> DEFINE S == {c \in Conns : ch[c].reg} \cup {t \in {Timer} : heartbeat}
<1>1. S \in SUBSET (Conns \cup {Timer}) /\ list' \in SetToAllKPermutations(S)
  BY DEF Poll
<1>2. list' \in Seq(Conns \cup {Timer})
  <2> HIDE DEF S
  <2> QED BY <1>1, ReportType
<1> QED
  BY <1>2 DEF Inv, Poll, TypeOK, RefsInv, HandleInv, GuardedByTie, Open

LEMMA TimerKeeps == Inv /\ HandleTimer => Inv'
<1> SUFFICES ASSUME Inv, HandleTimer PROVE Inv'
  OBVIOUS
<1>1. PICK S \in SUBSET Open : Close(S)
  BY DEF HandleTimer
<1>2. UNCHANGED <<heartbeat, made>> /\ lpc # "flush"
  BY DEF HandleTimer
<1>3. list' \in Seq(Conns \cup {Timer})
  BY DEF HandleTimer, Inv, TypeOK
<1> QED
  BY <1>1, <1>2, <1>3, CloseKeeps
     DEF HandleTimer, Inv, TypeOK, HandleInv, GuardedByTie

LEMMA HandleKeeps == Inv /\ Handle => Inv'
<1> SUFFICES ASSUME Inv, Handle PROVE Inv'
  OBVIOUS
<1>1. cur' \in Conns /\ list' \in Seq(Conns \cup {Timer}) /\ lpc = "batch"
  BY DEF Handle, Inv, TypeOK
<1>2. CASE Alive(cur')
  <2>1. refs' = [refs EXCEPT ![cur'] =
                   IF ch[cur'].tied THEN refs[cur'] \cup {"guard"}
                   ELSE refs[cur']]
        /\ lpc' = "handle" /\ UNCHANGED <<ch, closed, uaf, heartbeat, made, asked>>
        /\ stage' = 1 /\ fresh' = (cur' \notin closed)
    BY <1>2 DEF Handle
  <2>2. TypeOK'
    BY <1>1, <2>1 DEF Inv, TypeOK, Ref
  <2>3. RefsInv'
    BY <1>1, <1>2, <2>1 DEF Inv, TypeOK, RefsInv, Open, Alive
  <2>4. fresh' /\ heartbeat => ch[cur'].tied
    BY <1>1, <1>2, <2>1 DEF Inv, RefsInv, Open, Alive
  <2>5. HandleInv' /\ GuardedByTie'
    BY <1>1, <2>1, <2>4 DEF Inv, TypeOK, HandleInv, GuardedByTie
  <2> QED BY <2>2, <2>3, <2>5 DEF Inv
<1>3. CASE ~Alive(cur')
  <2>1. lpc' = "crashed" /\ uaf' = "stale"
        /\ UNCHANGED <<ch, closed, refs, heartbeat, made, asked>>
        /\ stage' = 1 /\ fresh' = (cur' \notin closed)
    BY <1>3 DEF Handle, Crash
  <2> QED
    BY <1>1, <2>1 DEF Inv, TypeOK, RefsInv, HandleInv, GuardedByTie, Open
<1> QED BY <1>2, <1>3

LEMMA CallbackKeeps == Inv /\ Callback => Inv'
<1> SUFFICES ASSUME Inv, Callback PROVE Inv'
  OBVIOUS
<1>1. /\ UNCHANGED <<heartbeat, made, asked, list, cur, fresh>>
      /\ lpc = "handle" /\ stage' \in 1..5
  BY DEF Callback, Inv, TypeOK
<1>2. CASE Alive(cur)
  <2>1. PICK S \in SUBSET Open : Close(S)
    BY <1>2 DEF Callback
  <2>2. UNCHANGED <<lpc, uaf>>
    BY <1>2 DEF Callback
  <2> QED
    BY <1>1, <2>1, <2>2, CloseKeeps DEF Inv, TypeOK, HandleInv, GuardedByTie
<1>3. CASE ~Alive(cur)
  <2>1. /\ lpc' = "crashed" /\ UNCHANGED <<ch, closed, refs>>
        /\ uaf' = IF fresh THEN "own" ELSE "stale"
    BY <1>3 DEF Callback, Crash
  <2>2. heartbeat => ~fresh
    BY <1>1, <1>3 DEF Inv, HandleInv, Alive
  <2> QED
    BY <1>1, <2>1, <2>2
       DEF Inv, TypeOK, RefsInv, HandleInv, GuardedByTie, Open
<1> QED BY <1>2, <1>3

(* WriteFd submits the erasure: the connection is closed and still in the   *)
(* loop.                                                                    *)
LEMMA FlushCloseKeeps == Inv /\ FlushClose => Inv'
<1> SUFFICES ASSUME Inv, FlushClose PROVE Inv'
  OBVIOUS
<1>1. /\ cur \in Conns /\ cur \in made
      /\ refs' = [refs EXCEPT ![cur] = refs[cur] \cup {"self", "erase"}]
      /\ closed' = closed \cup {cur} /\ lpc' = "flush" /\ lpc = "handle"
      /\ stage = 2
      /\ UNCHANGED <<heartbeat, ch, made, asked, list, cur, stage, fresh, uaf>>
  BY DEF FlushClose, Inv, HandleInv, Open
<1>2. TypeOK'
  BY <1>1 DEF Inv, TypeOK, Ref
<1>3. RefsInv'
  BY <1>1 DEF Inv, TypeOK, RefsInv, Open
<1>4. HandleInv' /\ GuardedByTie'
  BY <1>1 DEF Inv, TypeOK, HandleInv, GuardedByTie
<1> QED BY <1>2, <1>3, <1>4 DEF Inv

(* WriteFd takes the channel out of the loop and lets the connection go.    *)
LEMMA FlushRemoveKeeps == Inv /\ FlushRemove => Inv'
<1> SUFFICES ASSUME Inv, FlushRemove PROVE Inv'
  OBVIOUS
<1> DEFINE r == [owner |-> FALSE, reg |-> FALSE, tied |-> FALSE]
<1>1. /\ cur \in Conns /\ cur \in made /\ cur \notin Open /\ stage' = 3
      /\ refs' = [refs EXCEPT ![cur] = refs[cur] \ {"self"}]
      /\ lpc' = "handle" /\ lpc = "flush"
      /\ UNCHANGED <<heartbeat, made, closed, asked, list, cur, fresh, uaf>>
  BY DEF FlushRemove, Inv, TypeOK, HandleInv, Open
<1>2. ch' = [ch EXCEPT ![cur] = r]
  BY <1>1, RemovedChannel DEF FlushRemove, Inv, TypeOK
<1>3. /\ r \in [owner : BOOLEAN, reg : BOOLEAN, tied : BOOLEAN]
      /\ ~r.reg /\ ~r.tied /\ ~r.owner
  OBVIOUS
<1> HIDE DEF r
<1>4. TypeOK'
  BY <1>1, <1>2, <1>3 DEF Inv, TypeOK
<1>5. RefsInv'
  BY <1>1, <1>2, <1>3 DEF Inv, TypeOK, RefsInv, Open
<1>6. HandleInv' /\ GuardedByTie'
  BY <1>1 DEF Inv, TypeOK, HandleInv, GuardedByTie
<1> QED BY <1>4, <1>5, <1>6 DEF Inv

LEMMA HandleDoneKeeps == Inv /\ HandleDone => Inv'
<1> SUFFICES ASSUME Inv, HandleDone PROVE Inv'
  OBVIOUS
<1>1. cur \in Conns
  BY DEF Inv, HandleDone, HandleInv
<1>2. refs' = [refs EXCEPT ![cur] = refs[cur] \ {"guard"}]
  BY DEF HandleDone
<1>3. TypeOK'
  <2>1. fresh' \in BOOLEAN
    BY Zenon DEF HandleDone
  <2>2. refs' \in [Conns -> SUBSET Ref]
    BY <1>1, <1>2 DEF Inv, TypeOK
  <2> QED BY <2>1, <2>2 DEF Inv, HandleDone, TypeOK
<1>4. RefsInv'
  BY <1>1, <1>2 DEF Inv, HandleDone, TypeOK, RefsInv, Open
<1> QED
  BY <1>3, <1>4 DEF Inv, HandleDone, HandleInv, GuardedByTie

LEMMA SetupKeeps ==
  ASSUME Inv, NEW c \in Conns, NEW ok \in BOOLEAN, NEW keep \in BOOLEAN,
         Setup(c, ok, keep)
  PROVE  Inv'
<1>1. /\ refs' = [refs EXCEPT ![c] = IF keep THEN {"set", "user"} ELSE {"set"}]
      /\ made' = made \cup {c} /\ c \notin made
      /\ UNCHANGED <<heartbeat, closed, asked, lpc, list, cur, stage, fresh, uaf>>
      /\ lpc = "missions"
  BY DEF Setup
<1>2. ch' = [ch EXCEPT ![c] = [owner |-> TRUE, reg |-> ok, tied |-> heartbeat]]
  <2>1. ch[c].tied = FALSE
    BY DEF Inv, TypeOK, RefsInv, Open, Setup
  <2>2. heartbeat \in BOOLEAN
    BY ChannelsAssumption DEF Inv, TypeOK
  <2>3. (IF heartbeat THEN Tie(AddChannel(ch[c], ok)) ELSE AddChannel(ch[c], ok))
          = [owner |-> TRUE, reg |-> ok, tied |-> heartbeat]
    BY <2>1, <2>2 DEF Tie, AddChannel, Inv, TypeOK
  <2> QED BY <2>3 DEF Setup
<1>3. heartbeat \in BOOLEAN /\ c \notin closed
  BY <1>1, ChannelsAssumption DEF Inv, TypeOK
<1>4. TypeOK'
  BY <1>1, <1>2, <1>3 DEF Inv, TypeOK, Ref
<1>5. RefsInv'
  <2> SUFFICES ASSUME NEW d \in Conns
               PROVE  /\ ch'[d].owner => d \in Open'
                      /\ d \in Open' => "set" \in refs'[d]
                                        /\ (heartbeat' => ch'[d].tied)
                      /\ "erase" \in refs'[d] => d \in closed'
                      /\ refs'[d] # {} => d \in made'
    BY DEF RefsInv
  <2>1. CASE d = c
    BY <1>1, <1>2, <1>3, <2>1 DEF Inv, TypeOK, Open
  <2>2. CASE d # c
    BY <1>1, <1>2, <2>2 DEF Inv, TypeOK, RefsInv, Open
  <2> QED BY <2>1, <2>2
<1> QED
  BY <1>1, <1>4, <1>5 DEF Inv, HandleInv, GuardedByTie

LEMMA RunCloseKeeps ==
  ASSUME Inv, NEW c \in Conns, RunClose(c)
  PROVE  Inv'
<1>1. /\ UNCHANGED <<heartbeat, made, lpc, list, cur, stage, fresh, uaf>>
      /\ lpc = "missions" /\ asked' \subseteq made
  BY DEF RunClose, Inv, TypeOK
<1>2. CASE Alive(c)
  <2>1. Close({c} \cap Open)
    BY <1>2 DEF RunClose
  <2>2. {c} \cap Open \in SUBSET Open
    OBVIOUS
  <2> QED
    BY <1>1, <2>1, <2>2, CloseKeeps DEF Inv, TypeOK, HandleInv, GuardedByTie
<1>3. CASE ~Alive(c)
  BY <1>1, <1>3 DEF RunClose, Inv, TypeOK, RefsInv, HandleInv, GuardedByTie, Open
<1> QED BY <1>2, <1>3

(* The base loop erases only closed connections.                            *)
LEMMA EraseKeeps ==
  ASSUME Inv, NEW c \in Conns, Erase(c)
  PROVE  Inv'
<1>1. refs' = [refs EXCEPT ![c] = refs[c] \ {"set", "erase"}] /\ c \in closed
  BY DEF Erase, Inv, RefsInv
<1>2. TypeOK'
  BY <1>1 DEF Erase, Inv, TypeOK, Ref
<1>3. RefsInv'
  BY <1>1 DEF Erase, Inv, TypeOK, RefsInv, Open
<1>4. HandleInv' /\ GuardedByTie'
  BY <1>1 DEF Erase, Inv, TypeOK, HandleInv, GuardedByTie
<1> QED BY <1>2, <1>3, <1>4 DEF Inv

LEMMA DropKeeps ==
  ASSUME Inv, NEW c \in Conns, Drop(c)
  PROVE  Inv'
<1>1. refs' = [refs EXCEPT ![c] = refs[c] \ {"user"}]
  BY DEF Drop
<1>2. TypeOK'
  BY <1>1 DEF Drop, Inv, TypeOK, Ref
<1>3. RefsInv'
  BY <1>1 DEF Drop, Inv, TypeOK, RefsInv, Open
<1>4. HandleInv' /\ GuardedByTie'
  BY <1>1 DEF Drop, Inv, TypeOK, HandleInv, GuardedByTie
<1> QED BY <1>2, <1>3, <1>4 DEF Inv

(* The steps that leave the references alone.                               *)
LEMMA OthersKeep ==
  ASSUME Inv,
         \/ BatchDone \/ MissionsDone \/ UNCHANGED vars
         \/ \E c \in Conns : AskClose(c)
  PROVE  Inv'
<1> USE DEF Inv, TypeOK, RefsInv, HandleInv, GuardedByTie, Open
<1>1. CASE BatchDone
  BY <1>1 DEF BatchDone
<1>2. CASE MissionsDone
  BY <1>2 DEF MissionsDone
<1>3. CASE UNCHANGED vars
  BY <1>3 DEF vars
<1>4. ASSUME NEW c \in Conns, AskClose(c) PROVE Inv'
  BY <1>4 DEF AskClose
<1> QED BY <1>1, <1>2, <1>3, <1>4

(* Inv is an invariant.                                                     *)
THEOREM Invariance == Spec => []Inv
<1>1. Inv /\ [Next]_vars => Inv'
  <2> SUFFICES ASSUME Inv, [Next]_vars PROVE Inv'
    OBVIOUS
  <2>1. CASE LoopStep
    BY <2>1, PollKeeps, TimerKeeps, HandleKeeps, CallbackKeeps,
       FlushCloseKeeps, FlushRemoveKeeps, HandleDoneKeeps, OthersKeep
       DEF LoopStep
  <2>2. ASSUME NEW c \in Conns,
               \/ \E ok, keep \in BOOLEAN : Setup(c, ok, keep)
               \/ RunClose(c) \/ Erase(c) \/ AskClose(c) \/ Drop(c)
        PROVE  Inv'
    BY <2>2, SetupKeeps, RunCloseKeeps, EraseKeeps, DropKeeps, OthersKeep
  <2>3. CASE UNCHANGED vars
    BY <2>3, OthersKeep
  <2> QED BY <2>1, <2>2, <2>3 DEF Next
<1> QED BY <1>1, InvInit, PTL DEF Spec

-----------------------------------------------------------------------------
(* Type correctness; a channel that is registered or tied has its owner.    *)
THEOREM TypeCorrect == Spec => []TypeOK
<1>1. Inv => TypeOK
  BY DEF Inv
<1> QED BY <1>1, Invariance, PTL

(* epoll never holds a pointer to the channel of a destroyed connection,    *)
(* whether CloseInThread or WriteFd tears it down and whenever the base     *)
(* thread erases it.                                                        *)
THEOREM RegistrationsValid == Spec => []OutlivesRegistration
<1>1. Inv => OutlivesRegistration
  BY DEF Inv, RefsInv, HandleInv, OutlivesRegistration, Alive
<1> QED BY <1>1, Invariance, PTL

(* With heartbeats on, Channel::Handle never goes on with a connection that *)
(* was open when it began and has been destroyed.                           *)
THEOREM TieProtects == Spec => []GuardedByTie
<1>1. Inv => GuardedByTie
  BY DEF Inv
<1> QED BY <1>1, Invariance, PTL
=============================================================================
