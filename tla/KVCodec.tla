------------------------------ MODULE KVCodec ------------------------------
(***************************************************************************)
(* The KV protocol's conversions between a byte flow, a packet and a         *)
(* request or response (src/src/kv/protocolcodec.cpp).                       *)
(*                                                                          *)
(* A flow is a sequence of units.  Every integer of the protocol is one      *)
(* unit, whatever its width, and so is every byte of a key or a value; sizes *)
(* are counted in units.  Byte order is left out: each integer is converted  *)
(* once on the way out and once on the way in.                               *)
(***************************************************************************)
EXTENDS Integers, Sequences

CONSTANTS kMaxKeyLength, kMaxValueLength, kMaxBodyLength

ASSUME LimitsAssumption ==
  /\ kMaxKeyLength \in Nat \ {0} /\ kMaxValueLength \in Nat
  /\ kMaxBodyLength \in Nat
  /\ 2 + kMaxKeyLength + kMaxValueLength <= kMaxBodyLength

kDefaultMagic == 102109223        \* 0x06161027
kDefaultVersion == 1
kRequest == 1
kResponse == 2
kPing == 1
kPut == 2
kGet == 3
kDel == 4
kOk == 0
kNotFound == 1
kBadRequest == 2
kInternalError == 3
kUnsupportedOpcode == 4
kKeyTooLarge == 6
kValueTooLarge == 7

Unit == Nat
PacketHead == [magic : Nat, version : Nat, msg_type : Nat, opcode : Nat,
               status : Nat, body_length : Nat, request_id : Nat]
Packet == [head : PacketHead, body : Seq(Unit)]
HeadSize == 7                    \* sizeof(PacketHead)

-----------------------------------------------------------------------------
(* Flow and packet.                                                         *)

EncodePacketToFlow(p) ==
  <<p.head.magic, p.head.version, p.head.msg_type, p.head.opcode,
    p.head.status, p.head.body_length, p.head.request_id>> \o p.body

HeadAt(src) ==
  [magic |-> src[1], version |-> src[2], msg_type |-> src[3],
   opcode |-> src[4], status |-> src[5], body_length |-> src[6],
   request_id |-> src[7]]

(* DecodeFlowToPacket(src, len, ...) succeeds: header and body fit in len.  *)
Decodes(src, len) ==
  /\ len >= HeadSize
  /\ HeadAt(src).body_length + HeadSize <= len

(* The packet it then stores.                                               *)
PacketAt(src) ==
  LET head == HeadAt(src)
  IN  [head |-> head,
       body |-> SubSeq(src, HeadSize + 1, HeadSize + head.body_length)]

-----------------------------------------------------------------------------
(* Packet and request.                                                      *)

RequestBody(r) ==
  CASE r.opcode = kPut -> <<Len(r.key), Len(r.value)>> \o r.key \o r.value
    [] r.opcode \in {kGet, kDel} -> <<Len(r.key)>> \o r.key
    [] OTHER -> <<>>

MakePacket(type, opcode, status, id, body) ==
  [head |-> [magic |-> kDefaultMagic, version |-> kDefaultVersion,
             msg_type |-> type, opcode |-> opcode, status |-> status,
             body_length |-> Len(body), request_id |-> id],
   body |-> body]

KeyFits(n) == n # 0 /\ n <= kMaxKeyLength

(* EncodeKVRequestToPacket succeeds ...                                     *)
RequestFits(r) ==
  \/ r.opcode = kPing
  \/ r.opcode = kPut /\ KeyFits(Len(r.key)) /\ Len(r.value) <= kMaxValueLength
  \/ r.opcode \in {kGet, kDel} /\ KeyFits(Len(r.key))

(* ... and stores this.                                                     *)
EncodeKVRequestToPacket(r) ==
  MakePacket(kRequest, r.opcode, kOk, 0, RequestBody(r))

(* Mutant: the limit on the value is not checked.                           *)
PutBodyOKUnlimited(body) ==
  /\ Len(body) >= 2
  /\ KeyFits(body[1])
  /\ 2 + body[1] + body[2] = Len(body)

(* The two reads of a length, the two reads of a string and the test that   *)
(* nothing is left.                                                         *)
PutBodyOK(body) ==
  /\ Len(body) >= 2
  /\ KeyFits(body[1]) /\ body[2] <= kMaxValueLength
  /\ 2 + body[1] + body[2] = Len(body)

KeyBodyOK(body) ==
  /\ Len(body) >= 1
  /\ KeyFits(body[1])
  /\ 1 + body[1] = Len(body)

(* DecodePacketToKVRequest succeeds ...                                     *)
IsKVRequest(p) ==
  /\ p.head.msg_type = kRequest
  /\ p.head.body_length = Len(p.body)
  /\ p.head.body_length <= kMaxBodyLength
  /\ CASE p.head.opcode = kPing -> p.body = <<>>
       [] p.head.opcode = kPut  -> PutBodyOK(p.body)
       [] p.head.opcode \in {kGet, kDel} -> KeyBodyOK(p.body)
       [] OTHER -> FALSE

(* ... and stores this.                                                     *)
KVRequestOf(p) ==
  LET at == IF p.head.opcode = kPut THEN 2 ELSE 1   \* units before the key
      n  == p.body[1]
  IN  IF p.head.opcode = kPing
      THEN [opcode |-> kPing, key |-> <<>>, value |-> <<>>]
      ELSE [opcode |-> p.head.opcode,
            key    |-> SubSeq(p.body, at + 1, at + n),
            value  |-> SubSeq(p.body, at + n + 1, Len(p.body))]

-----------------------------------------------------------------------------
(* Packet and response.                                                     *)

(* EncodeKVResponseToPacket succeeds ...                                    *)
ResponseFits(status, value, opcode) ==
  opcode = kGet /\ status = kOk => Len(value) <= kMaxValueLength

(* ... and stores this: only a successful get has a body.                   *)
EncodeKVResponseToPacket(status, value, opcode, id) ==
  MakePacket(kResponse, opcode, status, id,
             IF opcode = kGet /\ status = kOk
             THEN <<Len(value)>> \o value ELSE <<>>)

HasValue(p) == p.head.opcode = kGet /\ p.head.status = kOk

(* DecodePacketToKVResponse succeeds ...                                    *)
IsKVResponse(p) ==
  IF HasValue(p)
  THEN /\ Len(p.body) >= 1
       /\ p.body[1] <= kMaxValueLength
       /\ 1 + p.body[1] = Len(p.body)
  ELSE p.body = <<>>

(* ... and yields this value.                                               *)
KVResponseValue(p) == IF HasValue(p) THEN Tail(p.body) ELSE <<>>
=============================================================================
