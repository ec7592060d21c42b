----------------------------- MODULE MCKVServer -----------------------------
(* Instances of KVServer: keys and values of at most one byte, and one      *)
(* packet of each kind the service tells apart.                             *)
EXTENDS KVServer, TLC
CONSTANTS a, b

MCMaxRequests == (a :> 2) @@ (b :> 1)
MCMaxPieces == (a :> 1) @@ (b :> 0)

(* A request as the protocol encodes it, within the limits or not.          *)
Encoded(id, op, key, value) ==
  MakePacket(kRequest, op, kOk, id,
             RequestBody([opcode |-> op, key |-> key, value |-> value]))

Legal ==
  {Encoded(0, kPing, <<>>, <<>>), Encoded(2, kPut, <<1>>, <<1>>),
   Encoded(3, kGet, <<1>>, <<>>), Encoded(4, kDel, <<1>>, <<>>)}

Illegal ==
  {[Encoded(5, kPing, <<>>, <<>>) EXCEPT !.head.opcode = 9],
   Encoded(6, kPut, <<1>>, <<1, 1>>),                   \* value too long
   [Encoded(8, kDel, <<1>>, <<>>) EXCEPT !.head.status = kNotFound],
   [Encoded(9, kPing, <<>>, <<>>) EXCEPT !.head.magic = 0],
   [Encoded(10, kPing, <<>>, <<>>) EXCEPT
      !.head.body_length = kMaxBodyLength + 1]}

(* One client may send anything, the other changes what it reads.           *)
MCPackets ==
  (a :> Legal \cup Illegal)
    @@ (b :> {Encoded(1, kPut, <<1>>, <<>>)})
=============================================================================
