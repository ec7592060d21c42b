------------------------------- MODULE Buffer -------------------------------
(***************************************************************************)
(* The byte buffer a TcpConnection reads into and writes from (Buffer in    *)
(* src/src/buffer.cpp): a vector with a read and a write position, moved to *)
(* the front or enlarged when room is short, filled from a descriptor by a  *)
(* readv that scatters into the vector's free tail and a spare array.       *)
(*                                                                          *)
(* Bytes are numbered in the order they enter, so that loss, repetition and *)
(* reordering show; 0 is what resize fills a vector with.  The buffer is    *)
(* used by one thread, its calls are single steps.                          *)
(***************************************************************************)
EXTENDS Integers, Sequences

CONSTANTS
  InitSize,     \* the size the buffer is made with
  ExtraSize,    \* size of the spare array (65536)
  MaxMsg,       \* bound: bytes in one message
  MaxBytes      \* bound: bytes that pass through

ASSUME BufferAssumption ==
  /\ InitSize \in Nat /\ ExtraSize \in Nat \ {0}
  /\ MaxMsg \in Nat \ {0} /\ MaxBytes \in Nat

VARIABLES
  b,      \* [buf : buffer_, r : readptr_, w : writeptr_]
  in,     \* history: bytes put in
  out,    \* history: bytes taken out
  peak    \* history: the most bytes held at once

vars == <<b, in, out, peak>>

Size(s) == s.w - s.r

(* What ReadBuffer and CReadData show.                                      *)
Contents(s) == SubSeq(s.buf, s.r + 1, s.w)

Zeros(n) == [i \in 1..n |-> 0]

(* The next n bytes of the stream.                                          *)
Fresh(n) == [i \in 1..n |-> in + i]

Init ==
  /\ b = [buf |-> Zeros(InitSize), r |-> 0, w |-> 0]
  /\ in = 0
  /\ out = 0
  /\ peak = 0

-----------------------------------------------------------------------------
(* memmove of the bytes x to position p of the vector; what would fall      *)
(* behind its end is lost.                                                  *)
MemMove(buf, p, x) ==
  [i \in 1..Len(buf) |-> IF i > p /\ i <= p + Len(x) THEN x[i - p] ELSE buf[i]]

(* Mutant: writeptr_ is not moved with the bytes.                           *)
MovePtrKeepsWrite(s) ==
  [buf |-> MemMove(s.buf, 0, Contents(s)), r |-> 0, w |-> s.w]

MovePtr(s) ==
  [buf |-> MemMove(s.buf, 0, Contents(s)), r |-> 0, w |-> Size(s)]

Resize(s, n) == [s EXCEPT !.buf = @ \o Zeros(n - Len(@))]

Expand(s, n) == LET m == MovePtr(s) IN IF n > Len(m.buf) THEN Resize(m, n) ELSE m

(* Copy the bytes x to writeptr_ and advance it.                            *)
Store(s, x) == [s EXCEPT !.buf = MemMove(@, s.w, x), !.w = @ + Len(x)]

(* Mutant: the vector grows without the bytes being moved to the front.     *)
WriteBufferNoMove(s, x) ==
  Store(IF s.w + Len(x) > Len(s.buf) THEN Resize(s, s.w + Len(x)) ELSE s, x)

WriteBuffer(s, x) ==
  LET m == MovePtr(s)
      roomy == CASE s.w + Len(x) <= Len(s.buf) -> s
                 [] s.w + Len(x) > Len(s.buf) /\ m.w + Len(x) <= Len(m.buf) -> m
                 [] OTHER -> Resize(m, m.w + Len(x))
  IN  Store(roomy, x)

(* Mutant: what is in the spare array is stored without enlarging.          *)
ReadFdNoExpand(s, x) ==
  LET iov == Len(s.buf) - s.w
      m   == MovePtr(Store(s, SubSeq(x, 1, iov)))
  IN  IF Len(x) < iov THEN Store(s, x) ELSE Store(m, SubSeq(x, iov + 1, Len(x)))

(* ReadFd when readv delivered the bytes x: the free tail first, the rest   *)
(* in the spare array, from where it is appended once there is room.        *)
ReadFd(s, x) ==
  LET iov  == Len(s.buf) - s.w
      full == MovePtr(Store(s, SubSeq(x, 1, iov)))
      need == Len(x) - iov
      m    == IF need + full.w > Len(full.buf) THEN Expand(full, need + full.w)
              ELSE full
  IN  IF Len(x) < iov THEN Store(s, x)
      ELSE Store(m, SubSeq(x, iov + 1, Len(x)))

(* readptr_ advances by n; an empty buffer starts again at the front.       *)
Consume(s, n) ==
  IF n = Size(s) THEN [s EXCEPT !.r = 0, !.w = 0] ELSE [s EXCEPT !.r = @ + n]

-----------------------------------------------------------------------------
Put(s, n) ==
  /\ b' = s
  /\ in' = in + n
  /\ peak' = IF in + n - out > peak THEN in + n - out ELSE peak
  /\ UNCHANGED out

(* WriteBuffer: a message, or the unsent rest of one, is added.             *)
DoWriteBuffer(n) ==
  /\ n <= MaxMsg /\ in + n <= MaxBytes
  /\ Put(WriteBuffer(b, Fresh(n)), n)

(* ReadFd: the descriptor delivers up to what both vectors hold.            *)
DoReadFd(n) ==
  /\ n <= Len(b.buf) - b.w + ExtraSize /\ in + n <= MaxBytes
  /\ Put(ReadFd(b, Fresh(n)), n)

(* WriteFd: the descriptor takes n bytes, possibly none.                    *)
DoWriteFd(n) ==
  /\ n <= Size(b)
  /\ b' = Consume(b, n)
  /\ out' = out + n
  /\ UNCHANGED <<in, peak>>

(* ReadBuffer(message, len); the callers have looked at Size().             *)
DoReadBuffer(n) ==
  /\ n <= Size(b)
  /\ b' = Consume(b, n)
  /\ out' = out + n
  /\ UNCHANGED <<in, peak>>

Next ==
  \/ \E n \in 1..MaxBytes : DoWriteBuffer(n) \/ DoReadFd(n)
  \/ \E n \in 0..MaxBytes : DoWriteFd(n) \/ DoReadBuffer(n)

Spec == Init /\ [][Next]_vars

-----------------------------------------------------------------------------
(* Properties.                                                              *)

(* The positions stay inside the vector: nothing is read or written past    *)
(* its end.                                                                 *)
TypeOK ==
  /\ b \in [buf : Seq(Nat), r : Nat, w : Nat]
  /\ b.r <= b.w /\ b.w <= Len(b.buf)
  /\ in \in 0..MaxBytes /\ out \in 0..MaxBytes /\ peak \in 0..MaxBytes

(* The buffer is a FIFO of bytes: over every mixture of moves, enlargements *)
(* and scattered reads it holds exactly the bytes put in and not yet taken  *)
(* out, in order.                                                           *)
FifoIntact == Contents(b) = [i \in 1..(in - out) |-> out + i]

(* The vector is enlarged only when it must be: it never exceeds the larger *)
(* of its first size and the most bytes it ever had to hold.                *)
GrowsOnlyToPeak == Len(b.buf) <= InitSize \/ Len(b.buf) <= peak
=============================================================================
