------------------------------- MODULE KVMap -------------------------------
(***************************************************************************)
(* What the KV service promises to its clients, without byte flows, buffers  *)
(* and parsing: one map behind all connections.  The requests of a           *)
(* connection take effect one at a time and in order, each at one instant    *)
(* between its sending and its answer; each is answered once, with its own   *)
(* id.  An illegal request takes no effect and is answered with an error:    *)
(* which one is left open where the protocol leaves it open.  A connection   *)
(* is closed only at a request the service refuses.                          *)
(*                                                                          *)
(* What a packet means is stated through the encoder: it is the request      *)
(* whose encoding it is, if there is one within the limits.                  *)
(***************************************************************************)
EXTENDS KVCodec

CONSTANTS Conns, Packets,
          Bytes          \* the values a byte of a key or a value takes

VARIABLES mp,            \* the map
          pending,       \* per connection: requests not yet executed
          answer,        \* per connection: the answer that is due, if any
          answered,      \* per connection: the answers given, in order
          gone,          \* the peer has hung up
          closed,        \* the service has closed the connection
          refused        \* the packets at which the service closes

mapvars == <<mp, pending, answer, answered, gone, closed, refused>>

Strings(lo, hi) == UNION {[1..n -> Bytes] : n \in lo..hi}
Key == Strings(0, kMaxKeyLength)
Value == Strings(0, kMaxValueLength)

(* The requests a client can encode.                                        *)
KVRequest ==
  {r \in [opcode : {kPing}, key : {<<>>}, value : {<<>>}]
           \cup [opcode : {kPut}, key : Key, value : Value]
           \cup [opcode : {kGet, kDel}, key : Key, value : {<<>>}] :
     RequestFits(r)}

Init ==
  /\ mp = [k \in {} |-> <<>>]
  /\ pending = [c \in Conns |-> <<>>]
  /\ answer = [c \in Conns |-> {}]
  /\ answered = [c \in Conns |-> <<>>]
  /\ gone = [c \in Conns |-> FALSE]
  /\ closed = [c \in Conns |-> FALSE]
  /\ refused \subseteq UNION {Packets[c] : c \in Conns}

Send(c, p) ==
  /\ pending' = [pending EXCEPT ![c] = Append(@, p)]
  /\ UNCHANGED <<mp, answer, answered, gone, closed, refused>>

Meanings(p) ==
  {r \in KVRequest : p.head.opcode = r.opcode
                     /\ p.body = EncodeKVRequestToPacket(r).body}

Opcodes == {kPing, kPut, kGet, kDel}

(* A request the service has to execute: its status is zero and its body    *)
(* means something.                                                         *)
Legal(p) == p.head.status = kOk /\ Meanings(p) # {}

Meaning(p) == CHOOSE r \in Meanings(p) : TRUE

(* The answer to a legal request, given the map m.                          *)
Result(p, m) ==
  LET r     == Meaning(p)
      found == r.opcode \in {kGet, kDel} => r.key \in DOMAIN m
  IN  [id     |-> p.head.request_id,
       status |-> IF found THEN kOk ELSE kNotFound,
       value  |-> IF r.opcode = kGet /\ found THEN m[r.key] ELSE <<>>]

(* The statuses an illegal request may be answered with: never success.     *)
Verdicts(p) ==
  CASE p.head.opcode \notin Opcodes -> {kUnsupportedOpcode}
    [] p.head.opcode \in Opcodes /\ Meanings(p) = {} ->
         {kBadRequest, kKeyTooLarge, kValueTooLarge}
    [] OTHER -> Nat \ {kOk}

Answers(p, m) ==
  IF Legal(p) THEN {Result(p, m)}
  ELSE [id : {p.head.request_id}, status : Verdicts(p), value : {<<>>}]

(* The map after the packet: only a legal request changes it.               *)
Effect(p, m) ==
  LET r == Meaning(p)
  IN  CASE Legal(p) /\ r.opcode = kPut ->
             [k \in DOMAIN m \cup {r.key} |->
                IF k = r.key THEN r.value ELSE m[k]]
        [] Legal(p) /\ r.opcode = kDel -> [k \in DOMAIN m \ {r.key} |-> m[k]]
        [] OTHER -> m

(* The answer is some member of Answers(p, mp), looked for in answer' since *)
(* that set may be infinite.                                                *)
Execute(c) ==
  /\ ~closed[c]
  /\ pending[c] # <<>> /\ answer[c] = {}
  /\ LET p == Head(pending[c])
     IN  /\ p \notin refused
         /\ \E x \in answer'[c] :
              /\ x \in Answers(p, mp)
              /\ answer' = [answer EXCEPT ![c] = {x}]
         /\ mp' = Effect(p, mp)
  /\ pending' = [pending EXCEPT ![c] = Tail(@)]
  /\ UNCHANGED <<answered, gone, closed, refused>>

Reply(c) ==
  /\ \E x \in answer[c] : answered' = [answered EXCEPT ![c] = Append(@, x)]
  /\ answer' = [answer EXCEPT ![c] = {}]
  /\ UNCHANGED <<mp, pending, gone, closed, refused>>

(* The answer to a peer that has hung up is lost.                           *)
Lose(c) ==
  /\ gone[c] /\ answer[c] # {}
  /\ answer' = [answer EXCEPT ![c] = {}]
  /\ UNCHANGED <<mp, pending, answered, gone, closed, refused>>

Refuse(c) ==
  /\ pending[c] # <<>> /\ Head(pending[c]) \in refused
  /\ closed' = [closed EXCEPT ![c] = TRUE]
  /\ UNCHANGED <<mp, pending, answer, answered, gone, refused>>

HangUp(c) ==
  /\ gone' = [gone EXCEPT ![c] = TRUE]
  /\ UNCHANGED <<mp, pending, answer, answered, closed, refused>>

Next ==
  \E c \in Conns :
    \/ \E p \in Packets[c] : Send(c, p)
    \/ Execute(c) \/ Reply(c) \/ Lose(c) \/ Refuse(c) \/ HangUp(c)

Spec == Init /\ [][Next]_mapvars
=============================================================================
