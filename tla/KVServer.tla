------------------------------ MODULE KVServer ------------------------------
(***************************************************************************)
(* The KV server: the message callback KVServer installs on every            *)
(* connection, the KVService it consults and the KVStore behind it           *)
(* (src/src/kv/kvserver.cpp, kvservice.cpp, kvstore.cpp).                    *)
(*                                                                          *)
(* Every connection runs on an io thread of its own.  The callback is a      *)
(* loop over the read buffer: an iteration checks, takes and executes one    *)
(* request, whose store operation is a critical section, and then writes     *)
(* the reply; other threads run in between.  A reply is one Write, and the   *)
(* stream of replies is the business of module TcpConnection.                *)
(*                                                                          *)
(* KVService is built from four functions.  `checks' says which: its         *)
(* defaults, or functions a user supplies that differ from the defaults only *)
(* in reading the header by itself (not in src/).                            *)
(***************************************************************************)
EXTENDS KVCodec

CONSTANTS
  Conns,        \* connections
  Packets,      \* what the client of each connection sends
  Bytes,        \* the values a byte of a key or a value takes
  Checks,       \* which functions the service may be built from
  MaxRequests,  \* bound: packets per connection
  Cuts,         \* bound: how much a read that leaves something unread takes
  MaxPieces     \* bound: such reads per connection

ASSUME ClientsAssumption ==
  /\ \A c \in Conns : \A p \in Packets[c] :
       /\ p \in Packet
       /\ \/ p.head.body_length = Len(p.body)
          \/ p.head.body_length > kMaxBodyLength
  /\ Checks \subseteq {"default", "supplied"}
  /\ Cuts \subseteq Nat
  /\ MaxRequests \in [Conns -> Nat] /\ MaxPieces \in [Conns -> Nat]

(* Behind its lengths, the body of a request consists of bytes.             *)
ASSUME BytesAssumption ==
  /\ Bytes \subseteq Unit
  /\ \A c \in Conns : \A p \in Packets[c] :
       /\ p.head.opcode = kPut =>
            \A i \in 3..Len(p.body) : p.body[i] \in Bytes
       /\ p.head.opcode \in {kGet, kDel} =>
            \A i \in 2..Len(p.body) : p.body[i] \in Bytes

VARIABLES
  checks,   \* the functions the service was built from
  mp,       \* KVStore's map
  wire,     \* per connection: received by the kernel, not yet read
  buf,      \* read_buffer_
  pc,       \* where the io thread is: outside the callback, in it, replying
  echo,     \* the response packet, while replying
  out,      \* the replies written, as flows
  up,       \* the connection takes part: status_ is kConnecting
  gone,     \* the peer is gone, or its heartbeat has expired
  closed,   \* the callback has closed the connection
  sent,     \* history: the packets the client has sent
  taken,    \* history: how many of them have been taken from the buffer
  pieces    \* reads so far that left something unread

vars == <<checks, mp, wire, buf, pc, echo, out, up, gone, closed, sent, taken,
          pieces>>

(* What the store may hold.                                                 *)
IsKey(k) == k \in Seq(Unit) /\ Len(k) \in 1..kMaxKeyLength
IsValue(v) == v \in Seq(Unit) /\ Len(v) <= kMaxValueLength

NoEcho == MakePacket(kResponse, 0, 0, 0, <<>>)

Init ==
  /\ checks \in Checks
  /\ mp = [k \in {} |-> <<>>]
  /\ wire = [c \in Conns |-> <<>>]
  /\ buf = [c \in Conns |-> <<>>]
  /\ pc = [c \in Conns |-> "out"]
  /\ echo = [c \in Conns |-> NoEcho]
  /\ out = [c \in Conns |-> <<>>]
  /\ up = [c \in Conns |-> TRUE]
  /\ gone = [c \in Conns |-> FALSE]
  /\ closed = [c \in Conns |-> FALSE]
  /\ sent = [c \in Conns |-> <<>>]
  /\ taken = [c \in Conns |-> 0]
  /\ pieces = [c \in Conns |-> 0]

-----------------------------------------------------------------------------
(* KVStore, each operation under mtx_: the map, the status and the value.   *)

Put(m, r) ==
  [mp |-> [k \in DOMAIN m \cup {r.key} |-> IF k = r.key THEN r.value ELSE m[k]],
   status |-> kOk, value |-> <<>>]

(* Mutant: a missing key is answered with an empty value.                   *)
GetAlways(m, r) ==
  [mp |-> m, status |-> kOk,
   value |-> IF r.key \in DOMAIN m THEN m[r.key] ELSE <<>>]

Get(m, r) ==
  IF r.key \in DOMAIN m
  THEN [mp |-> m, status |-> kOk, value |-> m[r.key]]
  ELSE [mp |-> m, status |-> kNotFound, value |-> <<>>]

Del(m, r) ==
  [mp |-> [k \in DOMAIN m \ {r.key} |-> m[k]],
   status |-> IF r.key \in DOMAIN m THEN kOk ELSE kNotFound,
   value |-> <<>>]

-----------------------------------------------------------------------------
(* KVService, on the read buffer b.                                         *)

IsSupportedOpcode(op) == op \in {kPing, kPut, kGet, kDel}

(* The three default checks decode the header with a length of              *)
(* sizeof(PacketHead); supplied checks read it without asking for a body.   *)
HeadDecodes(b) == checks = "default" => Decodes(b, HeadSize)

(* TRUE: the header is not acceptable.                                      *)
HeadCheck(b) ==
  \/ ~HeadDecodes(b)
  \/ HeadAt(b).magic # kDefaultMagic
  \/ HeadAt(b).version # kDefaultVersion
  \/ HeadAt(b).msg_type # kRequest
  \/ HeadAt(b).body_length > kMaxBodyLength

ShouldGet(b) == HeadDecodes(b) /\ Len(b) >= HeadSize + HeadAt(b).body_length

(* BodyCheck leaves its verdict on the packet p it takes from the buffer in *)
(* the status field, which is the client's own otherwise.                   *)
BodyCheck(p) ==
  CASE ~IsSupportedOpcode(p.head.opcode) ->
         [p EXCEPT !.head.status = kUnsupportedOpcode]
    [] IsSupportedOpcode(p.head.opcode) /\ ~IsKVRequest(p) ->
         [p EXCEPT !.head.status = kBadRequest]
    [] OTHER -> p

(* Mutant: the body stays in the buffer.                                    *)
RestHeadOnly(b) == SubSeq(b, HeadSize + 1, Len(b))

(* What BodyCheck's ReadBuffer leaves.                                      *)
Rest(b) == SubSeq(b, HeadSize + HeadAt(b).body_length + 1, Len(b))

(* ShouldEcho on the checked packet: a request without objection goes to    *)
(* the store.                                                               *)
Executed(p) ==
  IF p.head.status # kOk
  THEN [mp |-> mp, status |-> p.head.status, value |-> <<>>]
  ELSE LET r == KVRequestOf(p)
       IN  CASE r.opcode = kPing -> [mp |-> mp, status |-> kOk, value |-> <<>>]
             [] r.opcode = kPut  -> Put(mp, r)
             [] r.opcode = kGet  -> Get(mp, r)
             [] r.opcode = kDel  -> Del(mp, r)

(* The response packet, or kInternalError when it cannot be encoded.        *)
ResponseTo(p, res) ==
  IF ResponseFits(res.status, res.value, p.head.opcode)
  THEN EncodeKVResponseToPacket(res.status, res.value, p.head.opcode,
                                p.head.request_id)
  ELSE EncodeKVResponseToPacket(kInternalError, <<>>, p.head.opcode,
                                p.head.request_id)

-----------------------------------------------------------------------------
(* The clients and the network.                                             *)

Send(c, p) ==
  /\ Len(sent[c]) < MaxRequests[c] /\ ~gone[c]
  /\ sent' = [sent EXCEPT ![c] = Append(@, p)]
  /\ wire' = [wire EXCEPT ![c] = @ \o EncodePacketToFlow(p)]
  /\ UNCHANGED <<checks, mp, buf, pc, echo, out, up, gone, closed, taken,
                 pieces>>

(* The peer hangs up or resets the connection, or its heartbeat expires.    *)
PeerGone(c) ==
  /\ ~gone[c]
  /\ gone' = [gone EXCEPT ![c] = TRUE]
  /\ UNCHANGED <<checks, mp, wire, buf, pc, echo, out, up, closed, sent, taken,
                 pieces>>

(* The loop thread notices, between two callbacks.                          *)
Disconnect(c) ==
  /\ pc[c] = "out" /\ up[c] /\ gone[c]
  /\ up' = [up EXCEPT ![c] = FALSE]
  /\ UNCHANGED <<checks, mp, wire, buf, pc, echo, out, gone, closed, sent,
                 taken, pieces>>

-----------------------------------------------------------------------------
(* The io thread of a connection.                                           *)

(* Read: the next n units, or all there is, and the message callback.       *)
Read(c, n) ==
  /\ pc[c] = "out" /\ up[c]
  /\ \/ n = Len(wire[c])
     \/ n \in Cuts /\ pieces[c] < MaxPieces[c]
  /\ buf' = [buf EXCEPT ![c] = @ \o SubSeq(wire[c], 1, n)]
  /\ wire' = [wire EXCEPT ![c] = SubSeq(@, n + 1, Len(@))]
  /\ pieces' = [pieces EXCEPT ![c] = IF n = Len(wire[c]) THEN @ ELSE @ + 1]
  /\ pc' = [pc EXCEPT ![c] = "in"]
  /\ UNCHANGED <<checks, mp, echo, out, up, gone, closed, sent, taken>>

(* No header yet, or no complete request: the callback returns.             *)
Return(c) ==
  /\ pc[c] = "in"
  /\ \/ Len(buf[c]) < HeadSize
     \/ /\ Len(buf[c]) >= HeadSize
        /\ ~HeadCheck(buf[c]) /\ ~ShouldGet(buf[c])
  /\ pc' = [pc EXCEPT ![c] = "out"]
  /\ UNCHANGED <<checks, mp, wire, buf, echo, out, up, gone, closed, sent,
                 taken, pieces>>

(* The header is refused: Close() and return.                               *)
Refuse(c) ==
  /\ pc[c] = "in"
  /\ Len(buf[c]) >= HeadSize /\ HeadCheck(buf[c])
  /\ up' = [up EXCEPT ![c] = FALSE]
  /\ closed' = [closed EXCEPT ![c] = TRUE]
  /\ pc' = [pc EXCEPT ![c] = "out"]
  /\ UNCHANGED <<checks, mp, wire, buf, echo, out, gone, sent, taken, pieces>>

(* BodyCheck and ShouldEcho: one request is taken and executed.             *)
Serve(c) ==
  /\ pc[c] = "in"
  /\ Len(buf[c]) >= HeadSize /\ ~HeadCheck(buf[c]) /\ ShouldGet(buf[c])
  /\ \E result \in {PacketAt(buf[c])} :
     \E p \in {BodyCheck(result)} :
     \E res \in {Executed(p)} :
       /\ mp' = res.mp
       /\ echo' = [echo EXCEPT ![c] = ResponseTo(p, res)]
  /\ buf' = [buf EXCEPT ![c] = Rest(@)]
  /\ taken' = [taken EXCEPT ![c] = @ + 1]
  /\ pc' = [pc EXCEPT ![c] = "reply"]
  /\ UNCHANGED <<checks, wire, out, up, gone, closed, sent, pieces>>

(* Mutant: the callback serves one request and returns.                     *)
ReplyOnce(c) ==
  /\ pc[c] = "reply"
  /\ \/ /\ up[c]
        /\ out' = [out EXCEPT ![c] = Append(@, EncodePacketToFlow(echo[c]))]
        /\ UNCHANGED up
     \/ /\ gone[c]
        /\ up' = [up EXCEPT ![c] = FALSE]
        /\ UNCHANGED out
  /\ echo' = [echo EXCEPT ![c] = NoEcho]
  /\ pc' = [pc EXCEPT ![c] = "out"]
  /\ UNCHANGED <<checks, mp, wire, buf, gone, closed, sent, taken, pieces>>

(* Write: a write to a peer that has gone may fail and close the            *)
(* connection, and is dropped when it is closed.  The loop goes on anyway.  *)
Reply(c) ==
  /\ pc[c] = "reply"
  /\ \/ /\ up[c]
        /\ out' = [out EXCEPT ![c] = Append(@, EncodePacketToFlow(echo[c]))]
        /\ UNCHANGED up
     \/ /\ gone[c]
        /\ up' = [up EXCEPT ![c] = FALSE]
        /\ UNCHANGED out
  /\ echo' = [echo EXCEPT ![c] = NoEcho]
  /\ pc' = [pc EXCEPT ![c] = "in"]
  /\ UNCHANGED <<checks, mp, wire, buf, gone, closed, sent, taken, pieces>>

-----------------------------------------------------------------------------
IoStep(c) ==
  \/ \E n \in 1..Len(wire[c]) : Read(c, n)
  \/ Return(c) \/ Refuse(c) \/ Serve(c) \/ Reply(c) \/ Disconnect(c)

Next ==
  \E c \in Conns : IoStep(c) \/ PeerGone(c) \/ \E p \in Packets[c] : Send(c, p)

(* Every io thread runs as long as it has something to do.                  *)
Spec == Init /\ [][Next]_vars
FairSpec == Spec /\ \A c \in Conns : WF_vars(IoStep(c))

-----------------------------------------------------------------------------
(* Properties.                                                              *)

TypeOK ==
  /\ checks \in Checks
  /\ \A k \in DOMAIN mp : IsKey(k) /\ IsValue(mp[k])
  /\ wire \in [Conns -> Seq(Unit)] /\ buf \in [Conns -> Seq(Unit)]
  /\ pc \in [Conns -> {"out", "in", "reply"}]
  /\ echo \in [Conns -> Packet]
  /\ out \in [Conns -> Seq(Seq(Unit))]
  /\ up \in [Conns -> BOOLEAN] /\ gone \in [Conns -> BOOLEAN]
  /\ closed \in [Conns -> BOOLEAN]
  /\ \A c \in Conns : /\ sent[c] \in Seq(Packets[c])
                      /\ taken[c] \in 0..Len(sent[c])
                      /\ pieces[c] \in 0..MaxPieces[c]

(* The flows of the packets from the n-th on.                               *)
Stream(s, n) ==
  LET flow[i \in 0..Len(s)] ==
        IF i < n THEN <<>> ELSE flow[i - 1] \o EncodePacketToFlow(s[i])
  IN  flow[Len(s)]

(* Framing is never lost: whatever the pieces the stream arrives in, and    *)
(* also behind requests with a malformed body, the buffer begins at the     *)
(* header of the next request and nothing is missing behind it.             *)
InSync ==
  \A c \in Conns : buf[c] \o wire[c] = Stream(sent[c], taken[c] + 1)

(* What a client reads from a reply.                                        *)
AnswerIn(p) ==
  [id |-> p.head.request_id, status |-> p.head.status,
   value |-> IF IsKVResponse(p) THEN KVResponseValue(p) ELSE <<-1>>]

(* The packets whose header the service does not accept.                    *)
RefusedPackets ==
  {p \in UNION {Packets[c] : c \in Conns} :
     \/ p.head.magic # kDefaultMagic \/ p.head.version # kDefaultVersion
     \/ p.head.msg_type # kRequest \/ p.head.body_length > kMaxBodyLength
     \/ checks = "default" /\ p.head.body_length > 0}

Map == INSTANCE KVMap WITH
  pending  <- [c \in Conns |-> SubSeq(sent[c], taken[c] + 1, Len(sent[c]))],
  answer   <- [c \in Conns |->
                 IF pc[c] = "reply" THEN {AnswerIn(echo[c])} ELSE {}],
  answered <- [c \in Conns |->
                 [i \in 1..Len(out[c]) |-> AnswerIn(PacketAt(out[c][i]))]],
  refused  <- RefusedPackets

(* The server implements one atomic map: each legal request takes effect    *)
(* once, in its connection's order, at one instant before its answer is     *)
(* written, and is answered under its own id with what the map held at that *)
(* instant; an illegal one has no effect and is answered with an error.     *)
ImplementsMap == Map!Spec

(* Every packet that has arrived is answered, also the ones that arrive     *)
(* together with others or in pieces, unless the connection ends.           *)
Answered ==
  \A c \in Conns : \A n \in 1..MaxRequests[c] :
    Len(sent[c]) >= n ~> Len(out[c]) >= n \/ gone[c] \/ closed[c]

(* The service closes a connection only at a header that is not a request's *)
(* header: operations with a key are served like any other.                 *)
ClosedOnlyAtBadHeader ==
  \A c \in Conns : closed[c] =>
    LET h == sent[c][taken[c] + 1].head
    IN  \/ h.magic # kDefaultMagic \/ h.version # kDefaultVersion
        \/ h.msg_type # kRequest \/ h.body_length > kMaxBodyLength
=============================================================================
