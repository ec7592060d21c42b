---------------------------- MODULE BufferProofs ----------------------------
(***************************************************************************)
(* Theorems about Buffer, for every first size, spare array and message.    *)
(***************************************************************************)
EXTENDS Buffer, SequenceTheorems, TLAPS

-----------------------------------------------------------------------------
(* Vectors.                                                                 *)

LEMMA FunctionIsSeq ==
  ASSUME NEW S, NEW n \in Nat, NEW m \in [1..n -> S]
  PROVE  m \in Seq(S) /\ Len(m) = n
  OBVIOUS

(* The k elements behind the first p.                                       *)
LEMMA SubSeqIs ==
  ASSUME NEW u \in Seq(Nat), NEW p \in Nat, NEW k \in Nat, NEW q \in Nat,
         q = p + k, q <= Len(u)
  PROVE  /\ SubSeq(u, p + 1, q) \in Seq(Nat)
         /\ Len(SubSeq(u, p + 1, q)) = k
         /\ \A i \in 1..k : SubSeq(u, p + 1, q)[i] = u[p + i]
  OBVIOUS

(* The vector after a memmove, element by element.                          *)
LEMMA MemMoveIs ==
  ASSUME NEW u \in Seq(Nat), NEW p \in Nat, NEW x \in Seq(Nat),
         p + Len(x) <= Len(u)
  PROVE  /\ MemMove(u, p, x) \in Seq(Nat) /\ Len(MemMove(u, p, x)) = Len(u)
         /\ \A i \in 1..Len(x) : MemMove(u, p, x)[p + i] = x[i]
         /\ \A i \in 1..p : MemMove(u, p, x)[i] = u[i]
<1> DEFINE m == MemMove(u, p, x)
<1>1. Len(u) \in Nat /\ Len(x) \in Nat
  OBVIOUS
<1>2. m = [i \in 1..Len(u) |-> IF i > p /\ i <= p + Len(x) THEN x[i - p] ELSE u[i]]
  BY DEF MemMove
<1> HIDE DEF m
<1>3. \A i \in 1..Len(u) : m[i] \in Nat
  <2> SUFFICES ASSUME NEW i \in 1..Len(u) PROVE m[i] \in Nat
    OBVIOUS
  <2>1. CASE i > p /\ i <= p + Len(x)
    <3>1. i - p \in 1..Len(x)
      BY <1>1, <2>1
    <3> QED BY <1>2, <2>1, <3>1, ElementOfSeq
  <2>2. CASE ~(i > p /\ i <= p + Len(x))
    BY <1>2, <2>2, ElementOfSeq
  <2> QED BY <2>1, <2>2
<1>4. m \in [1..Len(u) -> Nat]
  BY <1>2, <1>3
<1>5. m \in Seq(Nat) /\ Len(m) = Len(u)
  BY <1>1, <1>4, FunctionIsSeq
<1>6. ASSUME NEW i \in 1..Len(x) PROVE m[p + i] = x[i]
  <2>1. /\ p + i \in 1..Len(u) /\ p + i > p /\ p + i <= p + Len(x)
        /\ (p + i) - p = i
    BY <1>1
  <2> QED BY <1>2, <2>1
<1>7. ASSUME NEW i \in 1..p PROVE m[i] = u[i]
  <2>1. i \in 1..Len(u) /\ ~(i > p)
    BY <1>1
  <2> QED BY <1>2, <2>1
<1> QED
  BY <1>5, <1>6, <1>7 DEF m

-----------------------------------------------------------------------------
(* What the member functions do to a buffer, as a reader sees it.           *)

Buf(u, r, w) == [buf |-> u, r |-> r, w |-> w]

(* s is a buffer with a vector of n bytes that shows the bytes c and ends   *)
(* them at position w.                                                      *)
Shows(s, c, w, n) ==
  \E u \in Seq(Nat), r \in Nat :
    /\ s = Buf(u, r, w) /\ Len(u) = n
    /\ w = r + Len(c) /\ w <= n
    /\ SubSeq(u, r + 1, w) = c

LEMMA ShowsIs ==
  ASSUME NEW s, NEW c \in Seq(Nat), NEW w \in Nat, NEW n \in Nat,
         Shows(s, c, w, n)
  PROVE  /\ s \in [buf : Seq(Nat), r : Nat, w : Nat]
         /\ s.w = w /\ Len(s.buf) = n /\ Size(s) = Len(c) /\ Contents(s) = c
         /\ s.r <= s.w /\ s.w <= Len(s.buf) /\ Len(c) <= w /\ w <= n
<1>1. PICK u \in Seq(Nat), r \in Nat :
        /\ s = Buf(u, r, w) /\ Len(u) = n
        /\ w = r + Len(c) /\ w <= n
        /\ SubSeq(u, r + 1, w) = c
  BY DEF Shows
<1>2. /\ s \in [buf : Seq(Nat), r : Nat, w : Nat]
      /\ s.buf = u /\ s.r = r /\ s.w = w
  BY <1>1 DEF Buf
<1>3. Len(c) \in Nat /\ w - r = Len(c) /\ r <= w /\ Len(c) <= w
  BY <1>1
<1>4. Contents(s) = c
  BY <1>1, <1>2, Zenon DEF Contents
<1>5. Size(s) = w - r
  BY <1>2 DEF Size
<1> QED
  BY <1>1, <1>2, <1>3, <1>4, <1>5

(* Moving the bytes to the front changes nothing a reader sees.             *)
LEMMA MovePtrShows ==
  ASSUME NEW s, NEW c \in Seq(Nat), NEW w \in Nat, NEW n \in Nat,
         Shows(s, c, w, n)
  PROVE  Shows(MovePtr(s), c, Len(c), n)
<1>1. PICK u \in Seq(Nat), r \in Nat :
        /\ s = Buf(u, r, w) /\ Len(u) = n
        /\ w = r + Len(c) /\ w <= n
        /\ SubSeq(u, r + 1, w) = c
  BY DEF Shows
<1> DEFINE v == MemMove(u, 0, c)
<1>2. MovePtr(s) = Buf(v, 0, Len(c))
  BY ShowsIs, <1>1 DEF MovePtr, Buf
<1>3. Len(c) \in Nat /\ Len(c) <= n
  BY <1>1
<1>4. v \in Seq(Nat) /\ Len(v) = n
  BY <1>1, <1>3, MemMoveIs
<1>5. \A i \in 1..Len(c) : v[i] = c[i]
  BY <1>1, <1>3 DEF MemMove
<1> HIDE DEF v
<1>6. PICK y \in Seq(Nat) :
        /\ y = SubSeq(v, 0 + 1, Len(c)) /\ Len(y) = Len(c)
        /\ \A i \in 1..Len(c) : y[i] = v[0 + i]
  <2>1. 0 \in Nat /\ Len(c) \in Nat /\ Len(c) = 0 + Len(c) /\ Len(c) <= Len(v)
    BY <1>3, <1>4
  <2>2. /\ SubSeq(v, 0 + 1, Len(c)) \in Seq(Nat)
        /\ Len(SubSeq(v, 0 + 1, Len(c))) = Len(c)
        /\ \A i \in 1..Len(c) : SubSeq(v, 0 + 1, Len(c))[i] = v[0 + i]
    BY <1>4, <2>1, SubSeqIs, SMTT(40)
  <2> QED BY <2>2, Zenon
<1>7. y = c
  <2>1. \A i \in 1..Len(c) : y[i] = c[i]
    BY <1>5, <1>6
  <2> QED BY <1>6, <2>1, SeqEqual
<1>8. Len(c) = 0 + Len(c) /\ SubSeq(v, 0 + 1, Len(c)) = c
  BY <1>3, <1>6, <1>7
<1> QED
  BY <1>2, <1>3, <1>4, <1>8 DEF Shows

(* Neither does a longer vector.                                            *)
LEMMA ResizeShows ==
  ASSUME NEW s, NEW c \in Seq(Nat), NEW w \in Nat, NEW n \in Nat,
         Shows(s, c, w, n), NEW m \in Nat, m >= n
  PROVE  Shows(Resize(s, m), c, w, m)
<1>1. PICK u \in Seq(Nat), r \in Nat :
        /\ s = Buf(u, r, w) /\ Len(u) = n
        /\ w = r + Len(c) /\ w <= n
        /\ SubSeq(u, r + 1, w) = c
  BY DEF Shows
<1> DEFINE z == Zeros(m - n)
           v == u \o z
<1>2. Resize(s, m) = Buf(v, r, w)
  <2>1. s = [buf |-> u, r |-> r, w |-> w] /\ s.buf = u
    BY <1>1 DEF Buf
  <2>2. Resize(s, m) = [s EXCEPT !.buf = v]
    BY <1>1, <2>1, Zenon DEF Resize
  <2> QED BY <2>1, <2>2 DEF Buf
<1>3. z \in Seq(Nat) /\ Len(z) = m - n
  BY DEF Zeros
<1> HIDE DEF z
<1>4. /\ v \in Seq(Nat) /\ Len(v) = m
      /\ \A i \in 1..n : v[i] = u[i]
  BY <1>1, <1>3, ConcatProperties
<1> HIDE DEF v
<1>5. Len(c) \in Nat /\ w <= Len(v)
  BY <1>1, <1>4
<1>6. /\ SubSeq(v, r + 1, w) \in Seq(Nat) /\ Len(SubSeq(v, r + 1, w)) = Len(c)
      /\ \A i \in 1..Len(c) : SubSeq(v, r + 1, w)[i] = v[r + i]
  <2>1. Len(c) \in Nat /\ w = r + Len(c) /\ w <= Len(v)
    BY <1>1, <1>5
  <2> QED BY <1>4, <2>1, SubSeqIs, SMTT(40)
<1>7. \A i \in 1..Len(c) : c[i] = u[r + i] /\ r + i \in 1..n
  <2>1. \A i \in 1..Len(c) : SubSeq(u, r + 1, w)[i] = u[r + i]
    <3>1. Len(c) \in Nat /\ w = r + Len(c) /\ w <= Len(u)
      BY <1>1
    <3> QED BY <3>1, SubSeqIs, SMTT(40)
  <2>2. \A i \in 1..Len(c) : r + i \in 1..n
    BY <1>1, <1>5
  <2> QED BY <1>1, <2>1, <2>2
<1>8. SubSeq(v, r + 1, w) = c
  BY <1>4, <1>6, <1>7, SeqEqual
<1> QED
  BY <1>1, <1>2, <1>4, <1>5, <1>8 DEF Shows

(* Bytes stored in the free tail are appended to what a reader sees.        *)
LEMMA StoreShows ==
  ASSUME NEW s, NEW c \in Seq(Nat), NEW w \in Nat, NEW n \in Nat,
         Shows(s, c, w, n), NEW x \in Seq(Nat), NEW k \in Nat, k = Len(x),
         w + k <= n
  PROVE  Shows(Store(s, x), c \o x, w + k, n)
<1>1. PICK u \in Seq(Nat), r \in Nat :
        /\ s = Buf(u, r, w) /\ Len(u) = n
        /\ w = r + Len(c) /\ w <= n
        /\ SubSeq(u, r + 1, w) = c
  BY DEF Shows
<1>10. PICK q \in Nat, l \in Nat : q = w + k /\ l = Len(c) + k
  OBVIOUS
<1> DEFINE v == MemMove(u, w, x)
<1>2. Store(s, x) = Buf(v, r, q)
  <2>1. s = [buf |-> u, r |-> r, w |-> w] /\ s.buf = u /\ s.w = w
    BY <1>1 DEF Buf
  <2>2. Store(s, x) = [s EXCEPT !.buf = v, !.w = q]
    BY <1>10, <2>1, Zenon DEF Store
  <2> QED BY <2>1, <2>2 DEF Buf
<1>3. /\ v \in Seq(Nat) /\ Len(v) = n
      /\ \A i \in 1..k : v[w + i] = x[i]
      /\ \A i \in 1..w : v[i] = u[i]
  <2>1. w + Len(x) <= Len(u)
    BY <1>1
  <2>2. /\ v \in Seq(Nat) /\ Len(v) = Len(u)
        /\ \A i \in 1..Len(x) : v[w + i] = x[i]
        /\ \A i \in 1..w : v[i] = u[i]
    BY <2>1, MemMoveIs, Zenon
  <2> QED BY <1>1, <2>2, Zenon
<1> HIDE DEF v
<1>4. /\ Len(c) \in Nat /\ q = r + l /\ q <= n
      /\ l = Len(c) + k /\ q = w + k
  BY <1>1, <1>10
<1>5. /\ SubSeq(v, r + 1, q) \in Seq(Nat) /\ Len(SubSeq(v, r + 1, q)) = l
      /\ \A i \in 1..l : SubSeq(v, r + 1, q)[i] = v[r + i]
  <2>1. v \in Seq(Nat) /\ q = r + l /\ q <= Len(v)
    BY <1>3, <1>4
  <2> QED BY <2>1, SubSeqIs
<1>6. \A i \in 1..Len(c) : c[i] = u[r + i] /\ r + i \in 1..w
  <2>1. \A i \in 1..Len(c) : SubSeq(u, r + 1, w)[i] = u[r + i]
    BY <1>1, <1>4
  <2>2. \A i \in 1..Len(c) : r + i \in 1..w
    BY <1>1, <1>4
  <2> QED BY <1>1, <2>1, <2>2
<1>7. /\ c \o x \in Seq(Nat) /\ Len(c \o x) = l
      /\ \A i \in 1..l :
           (c \o x)[i] = IF i <= Len(c) THEN c[i] ELSE x[i - Len(c)]
  BY <1>4, ConcatProperties
<1>8. ASSUME NEW i \in 1..l PROVE SubSeq(v, r + 1, q)[i] = (c \o x)[i]
  <2>1. CASE i <= Len(c)
    <3>1. i \in 1..Len(c)
      BY <1>4, <2>1
    <3>2. v[r + i] = u[r + i]
      BY <1>3, <1>6, <3>1
    <3> QED BY <1>5, <1>6, <1>7, <2>1, <3>1, <3>2
  <2>2. CASE ~(i <= Len(c))
    <3>1. i - Len(c) \in 1..k /\ r + i = w + (i - Len(c))
      BY <1>1, <1>4, <2>2
    <3>2. v[r + i] = x[i - Len(c)]
      BY <1>3, <3>1
    <3> QED BY <1>5, <1>7, <2>2, <3>2
  <2> QED BY <2>1, <2>2
<1>9. SubSeq(v, r + 1, q) = c \o x
  BY <1>5, <1>7, <1>8, SeqEqual
<1>11. Shows(Store(s, x), c \o x, q, n)
  BY <1>2, <1>3, <1>4, <1>7, <1>9 DEF Shows
<1> QED
  BY <1>4, <1>11

(* A reader sees c in s, whose vector is no larger than n bytes or than     *)
(* what it has to hold.                                                     *)
Fits(s, c, n) ==
  \E w \in Nat, m \in Nat : Shows(s, c, w, m) /\ (m <= n \/ m <= Len(c))

LEMMA ExpandShows ==
  ASSUME NEW s, NEW c \in Seq(Nat), NEW w \in Nat, NEW n \in Nat,
         Shows(s, c, w, n), NEW m \in Nat, m > n
  PROVE  Shows(Expand(s, m), c, Len(c), m)
<1>1. Shows(MovePtr(s), c, Len(c), n) /\ Len(c) \in Nat
  BY MovePtrShows
<1>2. Len(MovePtr(s).buf) = n
  BY <1>1, ShowsIs
<1>3. Expand(s, m) = Resize(MovePtr(s), m)
  BY <1>2 DEF Expand
<1>4. Shows(Resize(MovePtr(s), m), c, Len(c), m)
  BY <1>1, ResizeShows
<1> QED
  BY <1>3, <1>4

(* WriteBuffer appends the message, in whichever way it finds the room.     *)
LEMMA WriteBufferShows ==
  ASSUME NEW s, NEW c \in Seq(Nat), NEW w \in Nat, NEW n \in Nat,
         Shows(s, c, w, n), NEW x \in Seq(Nat)
  PROVE  Fits(WriteBuffer(s, x), c \o x, n)
<1>1. PICK k \in Nat, l \in Nat, q \in Nat : k = Len(x) /\ l = Len(c) /\ q = l + k
  OBVIOUS
<1>2. /\ c \o x \in Seq(Nat) /\ Len(c \o x) = q
      /\ w + k \in Nat
  BY <1>1, ConcatProperties
<1> DEFINE m == MovePtr(s)
<1>3. Shows(m, c, l, n)
  BY <1>1, MovePtrShows
<1>4. s.w = w /\ Len(s.buf) = n /\ m.w = l /\ Len(m.buf) = n
  BY <1>1, <1>3, ShowsIs
<1>5. CASE w + k <= n
  <2>1. WriteBuffer(s, x) = Store(s, x)
    BY <1>1, <1>4, <1>5 DEF WriteBuffer
  <2>2. Shows(Store(s, x), c \o x, w + k, n)
    BY <1>1, <1>5, StoreShows
  <2> QED BY <1>2, <2>1, <2>2 DEF Fits
<1>6. CASE ~(w + k <= n) /\ l + k <= n
  <2>1. WriteBuffer(s, x) = Store(m, x)
    BY <1>1, <1>4, <1>6 DEF WriteBuffer
  <2> HIDE DEF m
  <2>2. Shows(Store(m, x), c \o x, l + k, n)
    BY <1>1, <1>3, <1>6, StoreShows
  <2> QED BY <1>1, <1>2, <2>1, <2>2 DEF Fits
<1>7. CASE ~(w + k <= n) /\ ~(l + k <= n)
  <2>1. WriteBuffer(s, x) = Store(Resize(m, q), x)
    BY <1>1, <1>4, <1>7 DEF WriteBuffer
  <2> HIDE DEF m
  <2>2. Shows(Resize(m, q), c, l, q)
    BY <1>1, <1>3, <1>7, ResizeShows
  <2>3. Shows(Store(Resize(m, q), x), c \o x, l + k, q)
    <3>1. l + k <= q
      BY <1>1
    <3> HIDE DEF Resize
    <3> QED BY <1>1, <2>2, <3>1, StoreShows
  <2> QED BY <1>1, <1>2, <2>1, <2>3 DEF Fits
<1> QED
  BY <1>5, <1>6, <1>7

LEMMA AssocSeq ==
  ASSUME NEW S, NEW x \in Seq(S), NEW y \in Seq(S), NEW z \in Seq(S),
         NEW s \in Seq(S), s = x \o y, NEW t \in Seq(S), t = y \o z
  PROVE  s \o z = x \o t
  BY ConcatAssociative, SMTT(20)

LEMMA SplitSeq ==
  ASSUME NEW x \in Seq(Nat), NEW f \in Nat, f <= Len(x)
  PROVE  /\ SubSeq(x, 1, f) \in Seq(Nat) /\ Len(SubSeq(x, 1, f)) = f
         /\ SubSeq(x, f + 1, Len(x)) \in Seq(Nat)
         /\ Len(SubSeq(x, f + 1, Len(x))) = Len(x) - f
         /\ SubSeq(x, 1, f) \o SubSeq(x, f + 1, Len(x)) = x
<1>1. PICK k \in Nat, d \in Nat : k = Len(x) /\ d = k - f /\ k = f + d
  <2>1. Len(x) \in Nat /\ Len(x) - f \in Nat
    OBVIOUS
  <2> QED BY <2>1
<1>2. PICK y : y = SubSeq(x, 1, f)
  OBVIOUS
<1>3. PICK z : z = SubSeq(x, f + 1, k)
  OBVIOUS
<1>4. y \in Seq(Nat) /\ Len(y) = f /\ \A i \in 1..f : y[i] = x[i]
  BY <1>1, <1>2
<1>5. z \in Seq(Nat) /\ Len(z) = d /\ \A i \in 1..d : z[i] = x[f + i]
  BY <1>1, <1>3, SubSeqIs
<1>6. /\ y \o z \in Seq(Nat) /\ Len(y \o z) = k
      /\ \A i \in 1..k : (y \o z)[i] = IF i <= f THEN y[i] ELSE z[i - f]
  <2>1. y \in Seq(Nat) /\ z \in Seq(Nat) /\ Len(y) = f /\ Len(z) = d
    BY <1>4, <1>5
  <2>2. /\ y \o z \in Seq(Nat) /\ Len(y \o z) = Len(y) + Len(z)
        /\ \A i \in 1..(Len(y) + Len(z)) :
             (y \o z)[i] = IF i <= Len(y) THEN y[i] ELSE z[i - Len(y)]
    BY <2>1, ConcatProperties
  <2> QED BY <1>1, <2>1, <2>2
<1>7. ASSUME NEW i \in 1..k PROVE (y \o z)[i] = x[i]
  <2>1. CASE i <= f
    BY <1>4, <1>6, <2>1
  <2>2. CASE ~(i <= f)
    <3>1. i - f \in 1..d /\ f + (i - f) = i
      BY <1>1, <2>2
    <3> QED BY <1>5, <1>6, <2>2, <3>1
  <2> QED BY <2>1, <2>2
<1>8. y \o z = x
  BY <1>1, <1>6, <1>7, SeqEqual
<1> QED
  BY <1>1, <1>2, <1>3, <1>4, <1>5, <1>8

(* ReadFd appends what the descriptor delivered, whichever part of it came  *)
(* through the spare array.                                                 *)
LEMMA ReadFdShows ==
  ASSUME NEW s, NEW c \in Seq(Nat), NEW w \in Nat, NEW n \in Nat,
         Shows(s, c, w, n), NEW x \in Seq(Nat)
  PROVE  Fits(ReadFd(s, x), c \o x, n)
<1>1. PICK k \in Nat, l \in Nat, f \in Nat :
        k = Len(x) /\ l = Len(c) /\ f = n - w /\ w <= n
  <2>1. w <= n
    BY ShowsIs
  <2> QED BY <2>1
<1>2. s.w = w /\ Len(s.buf) = n
  BY ShowsIs
<1>3. c \o x \in Seq(Nat) /\ Len(c \o x) = l + k
  BY <1>1, ConcatProperties
<1>4. CASE k < f
  <2>1. ReadFd(s, x) = Store(s, x)
    BY <1>1, <1>2, <1>4 DEF ReadFd
  <2>2. w + k <= n
    BY <1>1, <1>4
  <2>3. Shows(Store(s, x), c \o x, w + k, n)
    BY <1>1, <2>2, StoreShows
  <2> QED BY <1>1, <2>1, <2>3 DEF Fits
<1>5. CASE ~(k < f)
  <2>1. PICK y \in Seq(Nat), z \in Seq(Nat), d \in Nat :
          /\ y = SubSeq(x, 1, f) /\ z = SubSeq(x, f + 1, Len(x))
          /\ Len(y) = f /\ Len(z) = d /\ d = k - f /\ y \o z = x
    <3>1. f <= Len(x) /\ k - f \in Nat
      BY <1>1, <1>5
    <3>2. /\ SubSeq(x, 1, f) \in Seq(Nat) /\ Len(SubSeq(x, 1, f)) = f
          /\ SubSeq(x, f + 1, Len(x)) \in Seq(Nat)
          /\ Len(SubSeq(x, f + 1, Len(x))) = Len(x) - f
          /\ SubSeq(x, 1, f) \o SubSeq(x, f + 1, Len(x)) = x
      BY <3>1, SplitSeq
    <3>3. Len(SubSeq(x, f + 1, Len(x))) = k - f
      BY <1>1, <3>2
    <3> QED BY <3>1, <3>2, <3>3, Zenon
  <2> DEFINE t == Store(s, y)
             p == MovePtr(t)
  <2>2. Shows(t, c \o y, n, n)
    <3>1. w + f <= n /\ w + f = n
      BY <1>1
    <3>2. Shows(t, c \o y, w + f, n)
      BY <2>1, <3>1, StoreShows
    <3> QED BY <3>1, <3>2
  <2>3. PICK e \in Seq(Nat), g \in Nat :
          e = c \o y /\ g = Len(e) /\ g = l + f
    <3>1. c \o y \in Seq(Nat) /\ Len(c \o y) = l + f /\ l + f \in Nat
      <4>1. Len(c) = l /\ Len(y) = f
        BY <1>1, <2>1
      <4>2. c \o y \in Seq(Nat) /\ Len(c \o y) = Len(c) + Len(y)
        BY ConcatProperties
      <4> QED BY <4>1, <4>2
    <3> QED BY <3>1, Zenon
  <2>4. e \o z = c \o x
    <3>1. e = c \o y /\ x = y \o z
      BY <2>1, <2>3
    <3> QED BY <3>1, AssocSeq, SMTT(40)
  <2> HIDE DEF t
  <2>5. Shows(p, e, g, n)
    BY <2>2, <2>3, MovePtrShows
  <2>6. p.w = g /\ Len(p.buf) = n
    BY <2>5, ShowsIs
  <2>7. CASE d + g > n
    <3>1. ReadFd(s, x) = Store(Expand(p, d + g), z)
      BY <1>1, <1>2, <1>5, <2>1, <2>6, <2>7 DEF ReadFd, t
    <3> HIDE DEF p
    <3>2. PICK h \in Nat : h = d + g /\ h > n /\ g + d <= h
      BY <2>7
    <3>3. Shows(Expand(p, h), e, g, h)
      BY <2>3, <2>5, <3>2, ExpandShows
    <3>4. Shows(Store(Expand(p, h), z), e \o z, g + d, h)
      BY <2>1, <3>2, <3>3, StoreShows
    <3>5. h <= Len(c \o x)
      BY <1>1, <1>3, <2>1, <2>3, <3>2
    <3> QED BY <1>3, <2>4, <3>1, <3>2, <3>4, <3>5 DEF Fits
  <2>8. CASE ~(d + g > n)
    <3>1. ReadFd(s, x) = Store(p, z)
      BY <1>1, <1>2, <1>5, <2>1, <2>6, <2>8 DEF ReadFd, t
    <3> HIDE DEF p
    <3>2. g + d <= n
      BY <2>8
    <3>3. Shows(Store(p, z), e \o z, g + d, n)
      BY <2>1, <2>5, <3>2, StoreShows
    <3> QED BY <2>4, <3>1, <3>3 DEF Fits
  <2> QED BY <2>7, <2>8
<1> QED
  BY <1>4, <1>5

(* Consume drops bytes at the front.                                        *)
LEMMA ConsumeShows ==
  ASSUME NEW s, NEW c \in Seq(Nat), NEW w \in Nat, NEW n \in Nat,
         Shows(s, c, w, n), NEW k \in Nat, k <= Len(c)
  PROVE  \E v \in Nat : Shows(Consume(s, k), SubSeq(c, k + 1, Len(c)), v, n)
<1>1. PICK u \in Seq(Nat), r \in Nat :
        /\ s = Buf(u, r, w) /\ Len(u) = n
        /\ w = r + Len(c) /\ w <= n
        /\ SubSeq(u, r + 1, w) = c
  BY DEF Shows
<1>2. Size(s) = Len(c)
  BY ShowsIs
<1>3. s = [buf |-> u, r |-> r, w |-> w]
  BY <1>1 DEF Buf
<1>4. CASE k = Len(c)
  <2>1. Consume(s, k) = [s EXCEPT !.r = 0, !.w = 0]
    BY <1>2, <1>4, Zenon DEF Consume
  <2>2. Consume(s, k) = Buf(u, 0, 0)
    BY <1>3, <2>1 DEF Buf
  <2>3. SubSeq(c, k + 1, Len(c)) = <<>> /\ SubSeq(u, 0 + 1, 0) = <<>>
    BY <1>4
  <2>4. Len(<<>>) = 0 /\ 0 = 0 + Len(<<>>) /\ 0 <= n
    OBVIOUS
  <2>5. Shows(Consume(s, k), <<>>, 0, n)
    BY <1>1, <2>2, <2>3, <2>4, Zenon DEF Shows
  <2> QED BY <2>3, <2>5, Zenon
<1>5. CASE k # Len(c)
  <2>1. PICK q \in Nat, d \in Nat, l \in Nat :
          q = r + k /\ l = Len(c) /\ d = l - k /\ w = q + d
    <3>1. /\ Len(c) \in Nat /\ r + k \in Nat /\ Len(c) - k \in Nat
          /\ w = (r + k) + (Len(c) - k)
      BY <1>1
    <3> QED BY <3>1, Zenon
  <2>2. Consume(s, k) = [s EXCEPT !.r = q]
    <3>1. s.r = r
      BY <1>3
    <3> QED BY <1>2, <1>5, <2>1, <3>1, Zenon DEF Consume
  <2>3. Consume(s, k) = Buf(u, q, w)
    BY <1>3, <2>2 DEF Buf
  <2>4. /\ SubSeq(c, k + 1, l) \in Seq(Nat) /\ Len(SubSeq(c, k + 1, l)) = d
        /\ \A i \in 1..d : SubSeq(c, k + 1, l)[i] = c[k + i]
    BY <2>1
  <2>5. /\ SubSeq(u, q + 1, w) \in Seq(Nat) /\ Len(SubSeq(u, q + 1, w)) = d
        /\ \A i \in 1..d : SubSeq(u, q + 1, w)[i] = u[q + i]
    <3>1. w = q + d /\ w <= Len(u)
      BY <1>1, <2>1
    <3> QED BY <3>1, SubSeqIs, SMTT(40)
  <2>6. \A i \in 1..l : c[i] = u[r + i]
    <3>1. w = r + l /\ w <= Len(u)
      BY <1>1, <2>1
    <3>2. \A i \in 1..l : SubSeq(u, r + 1, w)[i] = u[r + i]
      BY <3>1, SubSeqIs, SMTT(40)
    <3> QED BY <1>1, <3>2, Zenon
  <2>7. \A i \in 1..d : k + i \in 1..l /\ r + (k + i) = q + i
    BY <2>1
  <2>8. \A i \in 1..d : c[k + i] = u[q + i]
    BY <2>6, <2>7
  <2>9. SubSeq(u, q + 1, w) = SubSeq(c, k + 1, l)
    BY <2>4, <2>5, <2>8, SeqEqual
  <2>10. Shows(Consume(s, k), SubSeq(c, k + 1, l), w, n)
    BY <1>1, <2>1, <2>3, <2>4, <2>9 DEF Shows
  <2> QED BY <2>1, <2>10
<1> QED
  BY <1>4, <1>5

-----------------------------------------------------------------------------
(* The numbered bytes of the stream.                                        *)

(* The n bytes behind the first o.                                          *)
Numbered(o, n) == [i \in 1..n |-> o + i]

AreNumbered(c, o, n) == c = Numbered(o, n)

LEMMA NumberedIs ==
  ASSUME NEW o \in Nat, NEW n \in Nat
  PROVE  /\ Numbered(o, n) \in Seq(Nat) /\ Len(Numbered(o, n)) = n
         /\ \A i \in 1..n : Numbered(o, n)[i] = o + i
<1>1. Numbered(o, n) \in [1..n -> Nat] /\ \A i \in 1..n : Numbered(o, n)[i] = o + i
  BY DEF Numbered
<1> QED
  BY <1>1, FunctionIsSeq

LEMMA NumberedAppend ==
  ASSUME NEW o \in Nat, NEW n \in Nat, NEW k \in Nat, NEW p \in Nat, p = o + n,
         NEW m \in Nat, m = n + k,
         NEW a, AreNumbered(a, o, n), NEW c, AreNumbered(c, p, k)
  PROVE  AreNumbered(a \o c, o, m)
<1>1. PICK x \in Seq(Nat) :
        x = Numbered(o, n) /\ Len(x) = n /\ \A i \in 1..n : x[i] = o + i
  BY NumberedIs
<1>2. PICK y \in Seq(Nat) :
        y = Numbered(p, k) /\ Len(y) = k /\ \A i \in 1..k : y[i] = p + i
  BY NumberedIs
<1>3. PICK z \in Seq(Nat) :
        z = Numbered(o, m) /\ Len(z) = m /\ \A i \in 1..m : z[i] = o + i
  BY NumberedIs
<1>4. /\ x \o y \in Seq(Nat) /\ Len(x \o y) = m
      /\ \A i \in 1..m : (x \o y)[i] = IF i <= n THEN x[i] ELSE y[i - n]
  <2>1. Len(x) = n /\ Len(y) = k
    BY <1>1, <1>2
  <2>2. /\ x \o y \in Seq(Nat) /\ Len(x \o y) = Len(x) + Len(y)
        /\ \A i \in 1..(Len(x) + Len(y)) :
             (x \o y)[i] = IF i <= Len(x) THEN x[i] ELSE y[i - Len(x)]
    BY ConcatProperties
  <2> QED BY <2>1, <2>2
<1>5. ASSUME NEW i \in 1..m PROVE (x \o y)[i] = z[i]
  <2>1. CASE i <= n
    BY <1>1, <1>3, <1>4, <2>1
  <2>2. CASE ~(i <= n)
    <3>1. PICK j \in 1..k : j = i - n /\ p + j = o + i
      BY <2>2
    <3>2. y[j] = p + j
      BY <1>2
    <3>3. (x \o y)[i] = y[i - n]
      BY <1>4, <2>2, Zenon
    <3>4. z[i] = o + i
      BY <1>3
    <3> QED BY <3>1, <3>2, <3>3, <3>4
  <2> QED BY <2>1, <2>2
<1>6. x \o y = z
  BY <1>3, <1>4, <1>5, SeqEqual
<1>7. x = a /\ y = c
  BY <1>1, <1>2 DEF AreNumbered
<1> QED
  BY <1>3, <1>6, <1>7, Zenon DEF AreNumbered

LEMMA NumberedDrop ==
  ASSUME NEW o \in Nat, NEW n \in Nat, NEW k \in Nat, k <= n, NEW p \in Nat, p = o + k,
         NEW m \in Nat, n = k + m,
         NEW a, AreNumbered(a, o, n)
  PROVE  AreNumbered(SubSeq(a, k + 1, n), p, m)
<1>1. PICK x \in Seq(Nat) :
        x = Numbered(o, n) /\ Len(x) = n /\ \A i \in 1..n : x[i] = o + i
  BY NumberedIs
<1>2. PICK z \in Seq(Nat) :
        z = Numbered(p, m) /\ Len(z) = m /\ \A i \in 1..m : z[i] = p + i
  BY NumberedIs
<1>3. /\ SubSeq(x, k + 1, n) \in Seq(Nat) /\ Len(SubSeq(x, k + 1, n)) = m
      /\ \A i \in 1..m : SubSeq(x, k + 1, n)[i] = x[k + i]
  <2>1. n <= Len(x)
    BY <1>1
  <2> QED BY <2>1, SubSeqIs
<1>4. \A i \in 1..m : x[k + i] = z[i]
  <2>1. \A i \in 1..m : k + i \in 1..n /\ o + (k + i) = p + i
    OBVIOUS
  <2> QED BY <1>1, <1>2, <2>1
<1>5. SubSeq(x, k + 1, n) = z
  BY <1>2, <1>3, <1>4, SeqEqual
<1>6. x = a
  BY <1>1 DEF AreNumbered
<1> QED
  BY <1>2, <1>5, <1>6, Zenon DEF AreNumbered

-----------------------------------------------------------------------------
(* The invariant: the buffer shows exactly the bytes out+1 .. in, in a      *)
(* vector no larger than it first was or once had to be.                    *)

Held(s, o, i, p) ==
  \E w \in Nat, n \in Nat :
    Shows(s, Numbered(o, i - o), w, n) /\ (n <= InitSize \/ n <= p)

Inv ==
  /\ in \in 0..MaxBytes /\ out \in 0..in /\ peak \in 0..MaxBytes
  /\ in - out <= peak
  /\ Held(b, out, in, peak)

LEMMA InitInv == Init => Inv
<1> SUFFICES ASSUME Init PROVE Inv
  OBVIOUS
<1> USE BufferAssumption
<1>1. PICK z \in Seq(Nat) : z = Zeros(InitSize) /\ Len(z) = InitSize
  <2>1. Zeros(InitSize) \in [1..InitSize -> Nat]
    BY DEF Zeros
  <2> QED BY <2>1, FunctionIsSeq
<1>2. b = Buf(z, 0, 0)
  BY <1>1 DEF Init, Buf
<1>3. Numbered(0, 0) = <<>> /\ SubSeq(z, 0 + 1, 0) = <<>>
  BY DEF Numbered
<1>4. Len(<<>>) = 0 /\ 0 = 0 + Len(<<>>) /\ 0 <= InitSize /\ InitSize <= InitSize
  OBVIOUS
<1>5. Shows(b, Numbered(0, 0), 0, InitSize)
  BY <1>1, <1>2, <1>3, <1>4, Zenon DEF Shows
<1>6. 0 - 0 = 0
  OBVIOUS
<1>7. Held(b, 0, 0, 0)
  BY <1>4, <1>5, <1>6 DEF Held
<1> QED
  BY <1>6, <1>7 DEF Init, Inv

(* What goes in is appended, and the vector has grown at most to the new    *)
(* number of bytes held.                                                    *)
LEMMA PutInv ==
  ASSUME Inv, NEW n \in 1..MaxBytes, in + n <= MaxBytes, NEW s, Put(s, n),
         \A w, m \in Nat : Shows(b, Numbered(out, in - out), w, m) =>
           Fits(s, Numbered(out, in - out) \o Fresh(n), m)
  PROVE  Inv'
<1> USE BufferAssumption
<1>1. PICK i \in Nat, o \in Nat, d \in Nat, p \in Nat :
        /\ i = in /\ o = out /\ d = i - o /\ p = peak /\ d <= p
        /\ i = o + d /\ p <= MaxBytes
  BY DEF Inv
<1>2. PICK w \in Nat, m \in Nat :
        Shows(b, Numbered(o, d), w, m) /\ (m <= InitSize \/ m <= p)
  BY <1>1 DEF Inv, Held
<1>3. PICK e \in Nat, j \in Nat : e = d + n /\ j = i + n /\ j - o = e /\ j <= MaxBytes
  BY <1>1
<1>4. Fresh(n) = Numbered(i, n)
  BY <1>1 DEF Fresh, Numbered
<1>5. Numbered(o, d) \o Numbered(i, n) = Numbered(o, e)
  <2>1. n \in Nat /\ i = o + d /\ e = d + n
    BY <1>1, <1>3
  <2>2. PICK x \in Seq(Nat), y \in Seq(Nat) : x = Numbered(o, d) /\ y = Numbered(i, n)
    BY <2>1, NumberedIs
  <2>3. PICK k \in Nat : k = n
    BY <2>1
  <2>4. AreNumbered(x, o, d) /\ AreNumbered(y, i, k) /\ i = o + d /\ e = d + k
    BY <2>1, <2>2, <2>3 DEF AreNumbered
  <2>5. AreNumbered(x \o y, o, e)
    BY <2>4, NumberedAppend
  <2> QED BY <2>2, <2>5, Zenon DEF AreNumbered
<1>6. Fits(s, Numbered(o, e), m)
  BY <1>1, <1>2, <1>4, <1>5
<1>7. PICK v \in Nat, l \in Nat :
        Shows(s, Numbered(o, e), v, l) /\ (l <= m \/ l <= e)
  BY <1>6, NumberedIs DEF Fits
<1>8. PICK q \in Nat : /\ q = (IF e > p THEN e ELSE p)
                       /\ q >= e /\ q >= p /\ q <= MaxBytes
  BY <1>1, <1>3
<1>9. b' = s /\ in' = j /\ out' = o /\ peak' = q
  BY <1>1, <1>3, <1>8 DEF Put
<1>10. l <= InitSize \/ l <= q
  BY <1>2, <1>7, <1>8
<1>11. Held(s, o, j, q)
  BY <1>3, <1>7, <1>10 DEF Held
<1>12. in' \in 0..MaxBytes /\ out' \in 0..in' /\ peak' \in 0..MaxBytes /\ in' - out' <= peak'
  BY <1>1, <1>3, <1>8, <1>9
<1>13. Held(b', out', in', peak')
  BY <1>9, <1>11
<1> QED
  BY <1>12, <1>13 DEF Inv

LEMMA TakeInv ==
  ASSUME Inv, NEW n \in 0..MaxBytes, n <= Size(b),
         b' = Consume(b, n), out' = out + n, UNCHANGED <<in, peak>>
  PROVE  Inv'
<1> USE BufferAssumption
<1>1. PICK i \in Nat, o \in Nat, d \in Nat, p \in Nat :
        /\ i = in /\ o = out /\ d = i - o /\ p = peak /\ d <= p
        /\ i = o + d /\ p <= MaxBytes /\ i <= MaxBytes
  BY DEF Inv
<1>2. PICK w \in Nat, m \in Nat :
        Shows(b, Numbered(o, d), w, m) /\ (m <= InitSize \/ m <= p)
  BY <1>1 DEF Inv, Held
<1>3. PICK c \in Seq(Nat) : c = Numbered(o, d) /\ Len(c) = d
  BY NumberedIs
<1>4. n <= d
  <2>1. Shows(b, c, w, m)
    BY <1>2, <1>3
  <2>2. Size(b) = d
    BY <1>3, <2>1, ShowsIs
  <2> QED BY <2>2
<1>5. PICK v \in Nat : Shows(Consume(b, n), SubSeq(c, n + 1, d), v, m)
  <2>1. n \in Nat /\ n <= Len(c) /\ Shows(b, c, w, m)
    BY <1>2, <1>3, <1>4
  <2>2. \E v \in Nat : Shows(Consume(b, n), SubSeq(c, n + 1, Len(c)), v, m)
    BY <2>1, ConsumeShows
  <2> QED BY <1>3, <2>2, Zenon
<1>6. PICK e \in Nat, q \in Nat : e = d - n /\ q = o + n /\ d = n + e /\ i - q = e /\ q <= i
  BY <1>1, <1>4
<1>7. SubSeq(c, n + 1, d) = Numbered(q, e)
  <2>1. n \in Nat /\ n <= d /\ q = o + n /\ d = n + e
    BY <1>4, <1>6
  <2>2. AreNumbered(c, o, d)
    BY <1>3 DEF AreNumbered
  <2>3. PICK k \in Nat : k = n
    BY <2>1
  <2>4. k <= d /\ q = o + k /\ d = k + e
    BY <2>1, <2>3
  <2>5. AreNumbered(SubSeq(c, k + 1, d), q, e)
    BY <2>2, <2>4, NumberedDrop
  <2> QED BY <2>3, <2>5, Zenon DEF AreNumbered
<1>8. b' = Consume(b, n) /\ in' = i /\ out' = q /\ peak' = p
  BY <1>1, <1>6
<1>9. Held(Consume(b, n), q, i, p)
  BY <1>2, <1>5, <1>6, <1>7 DEF Held
<1>10. in' \in 0..MaxBytes /\ out' \in 0..in' /\ peak' \in 0..MaxBytes /\ in' - out' <= peak'
  BY <1>1, <1>6, <1>8
<1>11. Held(b', out', in', peak')
  BY <1>8, <1>9
<1> QED
  BY <1>10, <1>11 DEF Inv

LEMMA NextInv == Inv /\ [Next]_vars => Inv'
<1> SUFFICES ASSUME Inv, [Next]_vars PROVE Inv'
  OBVIOUS
<1> USE BufferAssumption
<1>1. PICK c \in Seq(Nat) : c = Numbered(out, in - out)
  <2>1. out \in Nat /\ in - out \in Nat
    BY DEF Inv
  <2> QED BY <2>1, NumberedIs
<1>2. ASSUME NEW n \in 1..MaxBytes PROVE Fresh(n) \in Seq(Nat)
  <2>1. in \in Nat /\ n \in Nat
    BY DEF Inv
  <2>2. Fresh(n) = Numbered(in, n)
    BY DEF Fresh, Numbered
  <2> QED BY <2>1, <2>2, NumberedIs
<1>3. ASSUME NEW n \in 1..MaxBytes, DoWriteBuffer(n) PROVE Inv'
  <2>1. \A w, m \in Nat : Shows(b, c, w, m) => Fits(WriteBuffer(b, Fresh(n)), c \o Fresh(n), m)
    BY <1>2, WriteBufferShows
  <2>2. in + n <= MaxBytes /\ Put(WriteBuffer(b, Fresh(n)), n)
    BY <1>3 DEF DoWriteBuffer
  <2> QED BY <1>1, <2>1, <2>2, PutInv
<1>4. ASSUME NEW n \in 1..MaxBytes, DoReadFd(n) PROVE Inv'
  <2>1. \A w, m \in Nat : Shows(b, c, w, m) => Fits(ReadFd(b, Fresh(n)), c \o Fresh(n), m)
    BY <1>2, ReadFdShows
  <2>2. in + n <= MaxBytes /\ Put(ReadFd(b, Fresh(n)), n)
    BY <1>4 DEF DoReadFd
  <2> QED BY <1>1, <2>1, <2>2, PutInv
<1>5. ASSUME NEW n \in 0..MaxBytes, DoWriteFd(n) PROVE Inv'
  <2>1. n <= Size(b) /\ b' = Consume(b, n) /\ out' = out + n /\ UNCHANGED <<in, peak>>
    BY <1>5 DEF DoWriteFd
  <2> QED BY <2>1, TakeInv
<1>6. ASSUME NEW n \in 0..MaxBytes, DoReadBuffer(n) PROVE Inv'
  <2>1. n <= Size(b) /\ b' = Consume(b, n) /\ out' = out + n /\ UNCHANGED <<in, peak>>
    BY <1>6 DEF DoReadBuffer
  <2> QED BY <2>1, TakeInv
<1>7. CASE UNCHANGED vars
  BY <1>7 DEF vars, Inv
<1> QED
  BY <1>3, <1>4, <1>5, <1>6, <1>7 DEF Next

LEMMA Invariance == Spec => []Inv
  BY InitInv, NextInv, PTL DEF Spec

-----------------------------------------------------------------------------
(* The read and the write position stay inside the vector, for buffers,     *)
(* spare arrays and messages of any size: no byte is read or written        *)
(* outside of it (MovePtr, Expand, WriteBuffer, ReadFd, WriteFd).           *)
THEOREM TypeCorrect == Spec => []TypeOK
<1>1. Inv => TypeOK
  <2> SUFFICES ASSUME Inv PROVE TypeOK
    OBVIOUS
  <2>1. PICK w \in Nat, m \in Nat : Shows(b, Numbered(out, in - out), w, m)
    BY DEF Inv, Held
  <2>2. Numbered(out, in - out) \in Seq(Nat)
    <3>1. out \in Nat /\ in - out \in Nat
      BY BufferAssumption DEF Inv
    <3> QED BY <3>1, NumberedIs
  <2>3. b \in [buf : Seq(Nat), r : Nat, w : Nat] /\ b.r <= b.w /\ b.w <= Len(b.buf)
    BY <2>1, <2>2, ShowsIs
  <2>4. in \in 0..MaxBytes /\ out \in 0..MaxBytes /\ peak \in 0..MaxBytes
    BY BufferAssumption DEF Inv
  <2> QED BY <2>3, <2>4, Zenon DEF TypeOK
<1> QED
  BY <1>1, Invariance, PTL

(* The buffer is a FIFO of bytes: whatever mixture of moves, enlargements,  *)
(* scattered reads and partial writes it went through, it shows exactly the *)
(* bytes put in and not yet taken out, in order.                            *)
THEOREM BytesInOrder == Spec => []FifoIntact
<1>1. Inv => FifoIntact
  <2> SUFFICES ASSUME Inv PROVE FifoIntact
    OBVIOUS
  <2>1. PICK w \in Nat, m \in Nat : Shows(b, Numbered(out, in - out), w, m)
    BY DEF Inv, Held
  <2>2. Numbered(out, in - out) \in Seq(Nat)
    <3>1. out \in Nat /\ in - out \in Nat
      BY BufferAssumption DEF Inv
    <3> QED BY <3>1, NumberedIs
  <2>3. Contents(b) = Numbered(out, in - out)
    BY <2>1, <2>2, ShowsIs
  <2> QED BY <2>3, Zenon DEF FifoIntact, Numbered
<1> QED
  BY <1>1, Invariance, PTL

(* The vector is enlarged only for bytes that are really held: MovePtr      *)
(* reclaims what was consumed before Expand or WriteBuffer resizes.         *)
THEOREM VectorBounded == Spec => []GrowsOnlyToPeak
<1>1. Inv => GrowsOnlyToPeak
  <2> SUFFICES ASSUME Inv PROVE GrowsOnlyToPeak
    OBVIOUS
  <2>1. PICK w \in Nat, m \in Nat :
          Shows(b, Numbered(out, in - out), w, m) /\ (m <= InitSize \/ m <= peak)
    BY DEF Inv, Held
  <2>2. Numbered(out, in - out) \in Seq(Nat)
    <3>1. out \in Nat /\ in - out \in Nat
      BY BufferAssumption DEF Inv
    <3> QED BY <3>1, NumberedIs
  <2>3. Len(b.buf) = m
    BY <2>1, <2>2, ShowsIs
  <2> QED BY <2>1, <2>3, Zenon DEF GrowsOnlyToPeak
<1> QED
  BY <1>1, Invariance, PTL
=============================================================================
