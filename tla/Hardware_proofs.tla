-------------------------- MODULE Hardware_proofs --------------------------
(***************************************************************************)
(* The emulated hardware: the blitter, for memories, rectangles and        *)
(* strides of any size, and the device files, for every width of an int,   *)
(* layout of memory, screen and number of descriptors.                     *)
(*                                                                         *)
(* Induction over numbers is made once, on sets of numbers (Induction),    *)
(* and once for functions that are defined by it (Recursion).              *)
(***************************************************************************)
EXTENDS Blitter, Devices, WellFoundedInduction, TLAPS

\* A set of numbers has a least one.
LEMMA LeastOf ==
  ASSUME NEW S \in SUBSET Nat, S # {}
  PROVE  \E x \in S : \A y \in S : x <= y
<1> DEFINE R == OpToRel(<, Nat)
<1>1. IsWellFoundedOn(R, Nat)
  BY NatLessThanWellFounded
<1>2. \A x, y \in Nat : <<y, x>> \in R <=> y < x
  BY DEF OpToRel
<1> HIDE DEF R
<1>3. PICK x \in S : \A y \in S : ~ (<<y, x>> \in R)
  BY <1>1, WFMin
<1>4. \A y \in S : ~ (y < x)
  BY <1>2, <1>3, Zenon
<1> QED BY <1>4

\* What is in a set up to n if 0 is, and with every number the next one.
LEMMA Induction ==
  ASSUME NEW n \in Nat, NEW P, 0 \in P, \A k \in 0..(n - 1) : k \in P => k + 1 \in P
  PROVE  \A k \in 0..n : k \in P
<1> DEFINE bad == {k \in 0..n : k \notin P}
<1> SUFFICES ASSUME bad # {} PROVE FALSE
  OBVIOUS
<1>1. PICK k \in bad : \A j \in bad : k <= j
  <2>1. bad \in SUBSET Nat
    OBVIOUS
  <2> QED BY <2>1, LeastOf
<1>2. k \in 0..n /\ k \notin P /\ k # 0
  OBVIOUS
<1>3. k - 1 \in 0..(n - 1) /\ k - 1 \notin bad /\ (k - 1) + 1 = k
  BY <1>1, <1>2
<1>4. k - 1 \in P
  BY <1>3
<1> QED BY <1>2, <1>3, <1>4

\* A function of numbers may be defined by what it does to the value before.
Moves(n, S) == [1..n -> [S -> S]]
Iterates(g, n, S, z, F) ==
  g \in [0..n -> S] /\ g[0] = z /\ \A k \in 1..n : g[k] = F[k][g[k - 1]]

LEMMA Recursion ==
  ASSUME NEW n \in Nat, NEW S, NEW z \in S, NEW F \in Moves(n, S)
  PROVE  \E g : Iterates(g, n, S, z, F)
<1>0. F \in [1..n -> [S -> S]]
  BY DEF Moves
<1> DEFINE Good(g, m) == g[0] = z /\ \A k \in 1..m : g[k] = F[k][g[k - 1]]
           P == {m \in 0..n : \E g \in [0..m -> S] : Good(g, m)}
<1>1. 0 \in P
  <2> DEFINE g == [k \in 0..0 |-> z]
  <2>1. g \in [0..0 -> S] /\ Good(g, 0)
    OBVIOUS
  <2> HIDE DEF g
  <2> QED BY <2>1
<1>2. ASSUME NEW m \in 0..(n - 1), m \in P PROVE m + 1 \in P
  <2>1. PICK g \in [0..m -> S] : Good(g, m)
    BY <1>2
  <2> DEFINE f == [k \in 0..(m + 1) |-> IF k = m + 1 THEN F[m + 1][g[m]] ELSE g[k]]
  <2>2. m \in Nat /\ m + 1 \in 1..n /\ m + 1 \in 0..n /\ g[m] \in S
    OBVIOUS
  <2>3. F[m + 1][g[m]] \in S
    BY <1>0, <2>2
  <2>4. f \in [0..(m + 1) -> S]
    BY <2>2, <2>3
  <2>5. f[m + 1] = F[m + 1][g[m]] /\ \A k \in 0..m : f[k] = g[k]
    BY <2>2
  <2> HIDE DEF f
  <2>6. ASSUME NEW k \in 1..(m + 1) PROVE f[k] = F[k][f[k - 1]]
    <3>1. CASE k = m + 1
      BY <3>1, <2>2, <2>5
    <3>2. CASE k \in 1..m
      <4>1. k - 1 \in 0..m /\ k \in 0..m
        BY <3>2, <2>2
      <4> QED BY <3>2, <4>1, <2>1, <2>5
    <3> QED BY <3>1, <3>2, <2>2
  <2>7. Good(f, m + 1)
    BY <2>1, <2>2, <2>5, <2>6
  <2>8. \E e \in [0..(m + 1) -> S] : Good(e, m + 1)
    <3> HIDE DEF Good
    <3> QED BY <2>4, <2>7
  <2> QED BY <2>2, <2>8
<1>3. n \in P
  <2> HIDE DEF P
  <2>1. \A m \in 0..(n - 1) : m \in P => m + 1 \in P
    BY <1>2
  <2>2. \A m \in 0..n : m \in P
    BY ONLY <1>1, <2>1, n \in Nat, Induction
  <2> QED BY <2>2
<1> QED BY <1>3 DEF Iterates

\* A function that is defined by the value before is iterated.
LEMMA Fixed ==
  ASSUME NEW n \in Nat, NEW S, NEW z \in S, NEW F \in Moves(n, S), NEW c,
         c = [k \in 0..n |-> c[k]], c[0] = z,
         \A k \in 1..n : c[k - 1] \in S => c[k] = F[k][c[k - 1]]
  PROVE  Iterates(c, n, S, z, F)
<1> DEFINE P == {k \in 0..n : c[k] \in S}
<1>0. F \in [1..n -> [S -> S]]
  BY DEF Moves
<1>1. 0 \in P
  OBVIOUS
<1>2. ASSUME NEW k \in 0..(n - 1), k \in P PROVE k + 1 \in P
  <2>1. k + 1 \in 1..n /\ (k + 1) - 1 = k /\ c[k] \in S /\ k + 1 \in 0..n
    BY <1>2
  <2>2. c[k + 1] = F[k + 1][c[k]]
    BY <2>1
  <2>3. F[k + 1][c[k]] \in S
    BY <1>0, <2>1
  <2> QED BY <2>1, <2>2, <2>3
<1>3. \A k \in 0..n : k \in P
  <2> HIDE DEF P
  <2>1. \A k \in 0..(n - 1) : k \in P => k + 1 \in P
    BY <1>2
  <2> QED BY ONLY n \in Nat, <1>1, <2>1, Induction
<1>4. c \in [0..n -> S]
  BY <1>3
<1>5. \A k \in 1..n : k - 1 \in 0..n
  OBVIOUS
<1> QED BY <1>3, <1>4, <1>5 DEF Iterates

\* A product is monotone.
LEMMA Times ==
  ASSUME NEW a \in Nat, NEW b \in Nat, NEW c \in Nat, a <= b
  PROVE  c * a <= c * b /\ c * a \in Nat
<1> DEFINE d == b - a
<1>1. d \in Nat /\ b = a + d
  OBVIOUS
<1> HIDE DEF d
<1>2. c * b = c * a + c * d /\ c * d \in Nat /\ c * a \in Nat
  BY <1>1
<1> QED BY <1>2

\* Quotient and remainder are the only ones.
LEMMA Unique ==
  ASSUME NEW b \in Nat \ {0}, NEW q \in Int, NEW r \in 0..(b - 1)
  PROVE  (b * q + r) \div b = q /\ (b * q + r) % b = r
<1>1. (b * q + r) \div b = q
  OBVIOUS
<1>2. (b * q + r) % b = r
  OBVIOUS
<1> QED BY <1>1, <1>2

\* Division with a remainder.
LEMMA Remainder ==
  ASSUME NEW v \in Int, NEW d \in Nat \ {0}
  PROVE  v \div d \in Int /\ v % d \in 0..(d - 1) /\ v = d * (v \div d) + (v % d)
<1>1. PICK q \in Int : q = v \div d /\ d * q <= v /\ v < d * q + d
  OBVIOUS
<1>2. d * q \in Int /\ v - d * q \in 0..(d - 1) /\ v = d * q + (v - d * q)
  <2>1. d * q \in Int
    OBVIOUS
  <2> QED BY <1>1, <2>1
<1>3. v % d = v - d * q
  <2> DEFINE r == v - d * q
  <2>1. r \in 0..(d - 1) /\ v = d * q + r
    BY <1>2
  <2> HIDE DEF r
  <2>2. (d * q + r) % d = r
    BY <2>1, Unique
  <2>3. v % d = r
    BY <2>1, <2>2, Zenon
  <2> QED BY <2>3 DEF r
<1> QED BY <1>1, <1>2, <1>3
-----------------------------------------------------------------------------
(* The blitter (module Blitter).                                            *)

\* A number that is in range is its own remainder, one just below it is not.
LEMMA InWord ==
  ASSUME NEW n \in Nat \ {0}, NEW x \in 0..(n - 1)
  PROVE  x % n = x
<1>1. n * 0 + x = x
  OBVIOUS
<1>2. (n * 0 + x) % n = x
  BY Unique
<1> QED BY <1>1, <1>2, Zenon

LEMMA BelowWord ==
  ASSUME NEW n \in Nat \ {0}, NEW x \in (0 - n)..(-1)
  PROVE  x % n = x + n
<1> DEFINE r == x + n
<1>1. r \in 0..(n - 1) /\ n * (-1) + r = x
  OBVIOUS
<1> HIDE DEF r
<1>2. (n * (-1) + r) % n = r
  BY <1>1, Unique
<1>3. x % n = r
  BY <1>1, <1>2, Zenon
<1> QED BY <1>3 DEF r

\* Nothing wraps in upper memory.
LEMMA WrapIs ==
  ASSUME NEW a \in Int, Inside(a)
  PROVE  Wrap(a) = a
<1>1. WordSize \in Nat \ {0} /\ Base + a \in 0..(WordSize - 1) /\ Base \in Nat
  BY BlitAssumption DEF Inside
<1>2. (Base + a) % WordSize = Base + a
  BY <1>1, InWord, Zenon
<1> QED BY <1>1, <1>2 DEF Wrap, Pointer

\* A pointer that has not gone round is compared for what it is.
LEMMA Unwrapped ==
  ASSUME NEW from \in 0..(Size - 1), NEW stride \in Nat, NEW n \in Nat,
         Base + from + stride * n < WordSize
  PROVE  Clipped(from, stride, n)
           = IF from + stride * n > Size THEN (Size - from) \div stride ELSE n
<1> DEFINE x == stride * n
<1>1. x \in Nat /\ WordSize \in Nat \ {0} /\ Base \in Nat /\ Size \in Nat
  BY Times, BlitAssumption
<1>2. stride = 0 => x = 0
  OBVIOUS
<1> HIDE DEF x
<1>3. Base + (from + x) \in 0..(WordSize - 1)
  BY <1>1 DEF x
<1>4. (Base + (from + x)) % WordSize = Base + (from + x)
  BY <1>1, <1>3, InWord, Zenon
<1>5. Pointer(from + x) > Base + Size <=> from + x > Size
  BY <1>1, <1>4 DEF Pointer
<1>6. from + x > Size => stride > 0
  BY <1>1, <1>2
<1>7. Clipped(from, stride, n) = IF Pointer(from + x) > Base + Size
                                 THEN Truncated(Size - from, stride) ELSE n
  BY DEF Clipped, x
<1> QED BY <1>5, <1>6, <1>7 DEF Truncated, x

\* What is left of the rows ends in upper memory, and they are not more than
\* there were.
LEMMA ClippedFits ==
  ASSUME NEW from \in 0..(Size - 1), NEW stride \in Nat, NEW n \in Nat,
         Base + from + stride * n < WordSize
  PROVE  /\ Clipped(from, stride, n) \in 0..n
         /\ from + stride * Clipped(from, stride, n) <= Size
<1>0. Size \in Nat /\ Size - from \in Nat
  BY BlitAssumption
<1>4. Clipped(from, stride, n)
           = IF from + stride * n > Size THEN (Size - from) \div stride ELSE n
  BY Unwrapped
<1>1. CASE from + stride * n <= Size
  BY <1>0, <1>1, <1>4, Times
<1>2. CASE from + stride * n > Size
  <2> DEFINE room == Size - from  q == room \div stride
  <2>1. room \in Nat
    BY <1>0
  <2>2. stride > 0
    <3> SUFFICES ASSUME stride = 0 PROVE FALSE
      BY <1>0
    <3> QED BY <1>0, <1>2
  <2>3. Clipped(from, stride, n) = q
    BY <1>2, <1>4
  <2>4. ASSUME NEW r \in Nat, NEW d \in Nat, d > 0
        PROVE  r \div d \in Nat /\ d * (r \div d) <= r
    BY <2>4
  <2>5. q \in Nat /\ stride * q <= room
    BY <2>1, <2>2, <2>4
  <2> HIDE DEF q
  <2>6. q <= n
    <3> SUFFICES ASSUME n < q PROVE FALSE
      BY <2>5
    <3>1. stride * n <= stride * q
      BY <2>5, Times
    <3> QED BY <3>1, <2>5, <1>0, <1>2
  <2> QED BY <2>3, <2>5, <2>6, <1>0
<1>3. stride * n \in Nat
  BY Times
<1> QED BY <1>0, <1>1, <1>2, <1>3

\* So does every row of them that is no longer than the stride.
LEMMA RowEnds ==
  ASSUME NEW from \in 0..(Size - 1), NEW stride \in Nat, NEW n \in Nat,
         from + stride * n <= Size, NEW k \in 0..(n - 1), NEW bytes \in Nat, bytes <= stride
  PROVE  from + k * stride >= 0 /\ from + k * stride + bytes <= Size
<1>1. k \in Nat /\ k + 1 \in Nat /\ k + 1 <= n /\ Size \in Nat
  BY BlitAssumption
<1>2. stride * (k + 1) <= stride * n /\ stride * (k + 1) \in Nat
  BY <1>1, Times
<1>3. stride * (k + 1) = k * stride + stride /\ k * stride \in Nat
  BY <1>1
<1> QED BY <1>1, <1>2, <1>3

\* Rows: what is drawn row by row stays in the memory that is modelled.
Bytes == [Memory -> Int]
Fits(a) == a \in Int /\ a >= 0 /\ a + RowBytes <= Size

LEMMA RowType ==
  ASSUME TypeOK
  PROVE  /\ RowBytes \in Nat /\ w \in Nat /\ h \in Nat /\ dst \in Int /\ dstrd \in Int
         /\ src \in Int /\ sstrd \in Int /\ Copies \in BOOLEAN /\ bpp \in {8, 16}
         /\ RowBytes = IF bpp = 16 THEN 2 * w ELSE w
         /\ Size \in Nat /\ Base \in Nat /\ WordSize \in Nat
         /\ \A a \in Int : Inside(a) => a \in Memory
         /\ Memory \subseteq Int
<1>0. Stride \subseteq Int
  BY BlitAssumption DEF Stride
<1>1. /\ w \in Nat /\ h \in Nat /\ dst \in Int /\ dstrd \in Int /\ src \in Int /\ sstrd \in Int
      /\ Copies \in BOOLEAN /\ bpp \in {8, 16}
  BY <1>0 DEF TypeOK, Blit, w, h, dst, dstrd, src, sstrd, Copies, bpp
<1>2. Size \in Nat /\ Base \in Nat /\ WordSize \in Nat /\ Base + Size < WordSize
  BY BlitAssumption
<1>3. RowBytes \in Nat /\ RowBytes = IF bpp = 16 THEN 2 * w ELSE w
  <2>1. CASE bpp = 16
    BY <1>1, <2>1 DEF RowBytes
  <2>2. CASE bpp = 8
    BY <1>1, <2>2 DEF RowBytes
  <2> QED BY <1>1, <2>1, <2>2
<1>4. \A a \in Int : Inside(a) => a \in Memory
  BY <1>2 DEF Inside, Memory
<1>5. Memory \subseteq Int
  BY <1>2 DEF Memory
<1> QED BY <1>1, <1>2, <1>3, <1>4, <1>5

LEMMA EvenOf ==
  ASSUME NEW a \in Int
  PROVE  /\ Even(a) \in Int /\ Even(a) <= a /\ a <= Even(a) + 1 /\ (a >= 0 => Even(a) >= 0)
         /\ (a % 2 = 0 => Even(a) = a)
  BY DEF Even

\* In upper memory bytes and pixels are where they seem to be.
LEMMA CopyByteIs ==
  ASSUME NEW m, NEW d, NEW s, NEW b, d + b \in Int, s + b \in Int,
         Inside(d + b), Inside(s + b)
  PROVE  CopyByte(m, d, s, b) = [m EXCEPT ![d + b] = m[s + b]]
<1>1. Wrap(d + b) = d + b /\ Wrap(s + b) = s + b
  BY WrapIs
<1> QED BY <1>1 DEF CopyByte

LEMMA MovePixelIs ==
  ASSUME NEW m, NEW q \in Int, NEW p \in Int,
         Inside(q), Inside(q + 1), Inside(p), Inside(p + 1)
  PROVE  MovePixel(m, q, p) = IF m[p] = Trc.lo /\ m[p + 1] = Trc.hi THEN m
                              ELSE [m EXCEPT ![q] = m[p], ![q + 1] = m[p + 1]]
<1>1. Wrap(q) = q /\ Wrap(q + 1) = q + 1 /\ Wrap(p) = p /\ Wrap(p + 1) = p + 1
  BY WrapIs
<1> QED BY <1>1 DEF MovePixel

LEMMA PutIs ==
  ASSUME NEW a \in Nat, NEW n \in Nat, a + n <= Size, NEW x \in Memory
  PROVE  /\ (x - a) % WordSize < n <=> x - a \in 0..(n - 1)
         /\ x - a \in 0..(n - 1) => (x - a) % WordSize = x - a
<1> DEFINE i == x - a
<1>1. /\ WordSize \in Nat \ {0} /\ Base \in Nat /\ Base + Size < WordSize /\ Size \in Nat
      /\ x \in Int /\ 0 - Base <= x /\ x < WordSize - Base
  BY BlitAssumption DEF Memory
<1>2. i \in Int /\ i < WordSize /\ 0 - WordSize <= i /\ n <= WordSize
  BY <1>1
<1>3. i < 0 => i + WordSize >= n
  BY <1>1
<1> HIDE DEF i
<1>4. ASSUME i >= 0 PROVE i % WordSize = i
  <2>1. i \in 0..(WordSize - 1)
    BY <1>1, <1>2, <1>4
  <2> QED BY <1>1, <2>1, InWord, Zenon
<1>5. ASSUME i < 0 PROVE i % WordSize = i + WordSize
  <2>1. i \in (0 - WordSize)..(-1)
    BY <1>1, <1>2, <1>5
  <2> QED BY <1>1, <2>1, BelowWord, Zenon
<1>6. i % WordSize < n <=> i \in 0..(n - 1)
  BY <1>1, <1>2, <1>3, <1>4, <1>5
<1>7. i \in 0..(n - 1) => i % WordSize = i
  BY <1>2, <1>4
<1> QED BY <1>6, <1>7 DEF i

\* memcpy, byte by byte.
LEMMA CopyRowIs ==
  ASSUME TypeOK, NEW m \in Bytes, NEW d, NEW s, Fits(d), Fits(s)
  PROVE  \E f \in [0..RowBytes -> Bytes] :
           /\ f[0] = m /\ CopyRow(m, d, s) = f[RowBytes]
           /\ \A i \in 1..RowBytes : f[i] = CopyByte(f[i - 1], d, s, Turn(i))
<1> DEFINE n == RowBytes
           F == [i \in 1..n |-> [o \in Bytes |-> CopyByte(o, d, s, Turn(i))]]
           G(f) == [i \in 0..n |-> IF i = 0 THEN m ELSE CopyByte(f[i - 1], d, s, Turn(i))]
           c == CHOOSE f : f = G(f)
<1>1. n \in Nat /\ d \in Int /\ s \in Int
  BY RowType DEF Fits
<1>2. ASSUME NEW i \in 1..n, NEW o \in Bytes PROVE CopyByte(o, d, s, Turn(i)) \in Bytes
  <2>1. Turn(i) \in 0..(n - 1)
    BY <1>1 DEF Turn
  <2>2. /\ s + Turn(i) \in Int /\ d + Turn(i) \in Int
        /\ Inside(s + Turn(i)) /\ Inside(d + Turn(i))
    BY <1>1, <2>1, RowType DEF Fits, Inside
  <2>3. o[s + Turn(i)] \in Int
    BY <2>2, RowType DEF Bytes
  <2>4. CopyByte(o, d, s, Turn(i)) = [o EXCEPT ![d + Turn(i)] = o[s + Turn(i)]]
    BY <2>2, CopyByteIs
  <2> QED BY <2>3, <2>4 DEF Bytes
<1> HIDE DEF n
<1>3. F \in Moves(n, Bytes)
  <2>1. F \in [1..n -> [Bytes -> Bytes]]
    BY <1>2
  <2> HIDE DEF F
  <2> QED BY <2>1 DEF Moves
<1>4. \A i \in 1..n : \A o \in Bytes : F[i][o] = CopyByte(o, d, s, Turn(i))
  OBVIOUS
<1> HIDE DEF F
<1>5. PICK g : Iterates(g, n, Bytes, m, F)
  BY <1>1, <1>3, Recursion
<1>6. g = G(g)
  <2>1. g \in [0..n -> Bytes] /\ g[0] = m /\ \A i \in 1..n : g[i] = F[i][g[i - 1]]
    BY <1>5 DEF Iterates
  <2>2. ASSUME NEW i \in 0..n, i # 0 PROVE g[i] = CopyByte(g[i - 1], d, s, Turn(i))
    <3>1. i \in 1..n /\ i - 1 \in 0..n
      BY <1>1, <2>2
    <3> QED BY <1>4, <2>1, <3>1
  <2> QED BY <2>1, <2>2
<1>7. c = G(c)
  <2> HIDE DEF G
  <2> QED BY <1>6
<1>8. CopyRow(m, d, s) = c[n]
  BY DEF CopyRow, n
<1> HIDE DEF c
<1>9. /\ c = [k \in 0..n |-> c[k]] /\ c[0] = m
      /\ \A i \in 1..n : c[i] = CopyByte(c[i - 1], d, s, Turn(i))
  <2>1. \A i \in 0..n : c[i] = IF i = 0 THEN m ELSE CopyByte(c[i - 1], d, s, Turn(i))
    BY <1>7
  <2>2. c = [k \in 0..n |-> c[k]]
    BY <1>7
  <2>3. 0 \in 0..n /\ \A i \in 1..n : i \in 0..n /\ i # 0
    BY <1>1
  <2> QED BY <2>1, <2>2, <2>3
<1>10. Iterates(c, n, Bytes, m, F)
  <2>1. \A i \in 1..n : c[i - 1] \in Bytes => c[i] = F[i][c[i - 1]]
    BY <1>4, <1>9
  <2> QED BY <1>1, <1>3, <1>9, <2>1, Fixed
<1>11. c \in [0..n -> Bytes]
  BY <1>10 DEF Iterates
<1> QED BY <1>8, <1>9, <1>11 DEF n

\* blt_tr, pixel by pixel.
MovesPixels(f, m, d, s) ==
  /\ f \in [0..w -> Bytes] /\ f[0] = m /\ TransparentRow(m, d, s) = f[w]
  /\ \A i \in 0..(w - 1) : f[i + 1] = MovePixel(f[i], Even(d) + 2 * i, Even(s) + 2 * i)

LEMMA TransparentRowIs ==
  ASSUME TypeOK, bpp = 16, NEW m \in Bytes, NEW d, NEW s, Fits(d), Fits(s)
  PROVE  \E f : MovesPixels(f, m, d, s)
<1> DEFINE n == w  A(i) == Even(d) + 2 * (i - 1)  B(i) == Even(s) + 2 * (i - 1)
           F == [i \in 1..n |-> [o \in Bytes |-> MovePixel(o, A(i), B(i))]]
           G(f) == [i \in 0..n |-> IF i = 0 THEN m ELSE MovePixel(f[i - 1], A(i), B(i))]
           c == CHOOSE f : f = G(f)
<1>1. n \in Nat /\ d \in Int /\ s \in Int
  BY RowType DEF Fits
<1>2. ASSUME NEW i \in 1..n, NEW o \in Bytes PROVE MovePixel(o, A(i), B(i)) \in Bytes
  <2>1. /\ B(i) \in Int /\ Inside(B(i)) /\ Inside(B(i) + 1)
        /\ A(i) \in Int /\ Inside(A(i)) /\ Inside(A(i) + 1)
    <3>1. /\ Even(s) \in Int /\ Even(s) <= s /\ Even(s) >= 0
          /\ Even(d) \in Int /\ Even(d) <= d /\ Even(d) >= 0
      BY <1>1, EvenOf DEF Fits
    <3>2. RowBytes = 2 * n /\ s + RowBytes <= Size /\ d + RowBytes <= Size
      BY RowType DEF Fits
    <3> QED BY <1>1, <3>1, <3>2, RowType DEF Inside
  <2> HIDE DEF A, B
  <2>2. o[B(i)] \in Int /\ o[B(i) + 1] \in Int
    BY <2>1, RowType DEF Bytes
  <2>3. MovePixel(o, A(i), B(i))
          = IF o[B(i)] = Trc.lo /\ o[B(i) + 1] = Trc.hi THEN o
            ELSE [o EXCEPT ![A(i)] = o[B(i)], ![A(i) + 1] = o[B(i) + 1]]
    BY <2>1, MovePixelIs
  <2> QED BY <2>2, <2>3 DEF Bytes
<1>8. TransparentRow(m, d, s) = c[n]
  BY DEF TransparentRow
<1> HIDE DEF n, A, B
<1>3. F \in Moves(n, Bytes)
  <2>1. F \in [1..n -> [Bytes -> Bytes]]
    BY <1>2
  <2> HIDE DEF F
  <2> QED BY <2>1 DEF Moves
<1>4. \A i \in 1..n : \A o \in Bytes : F[i][o] = MovePixel(o, A(i), B(i))
  OBVIOUS
<1> HIDE DEF F
<1>5. PICK g : Iterates(g, n, Bytes, m, F)
  BY <1>1, <1>3, Recursion
<1>6. g = G(g)
  <2>1. g \in [0..n -> Bytes] /\ g[0] = m /\ \A i \in 1..n : g[i] = F[i][g[i - 1]]
    BY <1>5 DEF Iterates
  <2>2. ASSUME NEW i \in 0..n, i # 0 PROVE g[i] = MovePixel(g[i - 1], A(i), B(i))
    <3>1. i \in 1..n /\ i - 1 \in 0..n
      BY <1>1, <2>2
    <3> QED BY <1>4, <2>1, <3>1
  <2> QED BY <2>1, <2>2
<1>7. c = G(c)
  <2> HIDE DEF G
  <2> QED BY <1>6
<1> HIDE DEF c
<1>9. /\ c = [k \in 0..n |-> c[k]] /\ c[0] = m
      /\ \A i \in 1..n : c[i] = MovePixel(c[i - 1], A(i), B(i))
  <2>1. \A i \in 0..n : c[i] = IF i = 0 THEN m ELSE MovePixel(c[i - 1], A(i), B(i))
    BY <1>7
  <2>2. c = [k \in 0..n |-> c[k]]
    BY <1>7
  <2>3. 0 \in 0..n /\ \A i \in 1..n : i \in 0..n /\ i # 0
    BY <1>1
  <2> QED BY <2>1, <2>2, <2>3
<1>10. Iterates(c, n, Bytes, m, F)
  <2>1. \A i \in 1..n : c[i - 1] \in Bytes => c[i] = F[i][c[i - 1]]
    BY <1>4, <1>9
  <2> QED BY <1>1, <1>3, <1>9, <2>1, Fixed
<1>11. c \in [0..n -> Bytes]
  BY <1>10 DEF Iterates
<1>12. ASSUME NEW i \in 0..(n - 1)
       PROVE  c[i + 1] = MovePixel(c[i], Even(d) + 2 * i, Even(s) + 2 * i)
  <2>1. i + 1 \in 1..n /\ (i + 1) - 1 = i
    BY <1>1
  <2>2. A(i + 1) = Even(d) + 2 * i /\ B(i + 1) = Even(s) + 2 * i
    BY <2>1 DEF A, B
  <2> QED BY <1>9, <2>1, <2>2
<1>13. MovesPixels(c, m, d, s)
  BY <1>8, <1>9, <1>11, <1>12 DEF MovesPixels, n
<1> QED BY <1>13

\* What one row changes.
LEMMA FillRowIs ==
  ASSUME TypeOK, w > 0, NEW m \in Bytes, NEW d, Fits(d)
  PROVE  /\ FillRow(m, d) \in Bytes
         /\ bpp = 8 => \A a \in Memory : FillRow(m, d)[a] = IF a - d \in 0..(w - 1) THEN Fill.lo ELSE m[a]
         /\ bpp = 16 => \A a \in Memory :
              FillRow(m, d)[a] = IF a - Even(d) \in 0..(2 * w - 1)
                                 THEN (IF (a - Even(d)) % 2 = 0 THEN Fill.lo ELSE Fill.hi)
                                 ELSE m[a]
<1>1. Fill.lo \in Int /\ Fill.hi \in Int
  BY RowType DEF Fill
<1>2. DOMAIN m = Memory /\ \A a \in Memory : m[a] \in Int
  BY DEF Bytes
<1>3. CASE bpp = 16
  <2> DEFINE e == Even(d)
  <2>1. Filled16(d) = w /\ bpp # 8
    BY <1>3, RowType DEF Filled16
  <2>5. e \in Nat /\ 2 * w \in Nat /\ e + 2 * w <= Size
    BY <1>3, RowType, EvenOf DEF Fits
  <2>6. \A a \in Memory : /\ (a - e) % WordSize < 2 * w <=> a - e \in 0..(2 * w - 1)
                          /\ a - e \in 0..(2 * w - 1) => (a - e) % WordSize = a - e
    <3> HIDE DEF e
    <3> QED BY <2>5, PutIs
  <2>7. FillRow(m, d) = [a \in Memory |->
                           IF (a - e) % WordSize < 2 * w
                           THEN (IF ((a - e) % WordSize) % 2 = 0 THEN Fill.lo ELSE Fill.hi)
                           ELSE m[a]]
    BY <1>2, <1>3, <2>1 DEF FillRow, Put
  <2>2. FillRow(m, d) = [a \in Memory |-> IF a - e \in 0..(2 * w - 1)
                                          THEN (IF (a - e) % 2 = 0 THEN Fill.lo ELSE Fill.hi)
                                          ELSE m[a]]
    <3> HIDE DEF e
    <3> QED BY <2>6, <2>7, Zenon
  <2> HIDE DEF e
  <2>3. FillRow(m, d) \in Bytes
    BY <1>1, <1>2, <2>2 DEF Bytes
  <2>4. \A a \in Memory : FillRow(m, d)[a] = IF a - e \in 0..(2 * w - 1)
                                             THEN (IF (a - e) % 2 = 0 THEN Fill.lo ELSE Fill.hi)
                                             ELSE m[a]
    BY <2>2
  <2> QED BY <2>1, <2>3, <2>4 DEF e
<1>4. CASE bpp = 8
  <2>4. d \in Nat /\ w \in Nat /\ d + w <= Size
    BY <1>4, RowType DEF Fits
  <2>5. \A a \in Memory : (a - d) % WordSize < w <=> a - d \in 0..(w - 1)
    BY <2>4, PutIs
  <2>6. FillRow(m, d) = [a \in Memory |-> IF (a - d) % WordSize < w THEN Fill.lo ELSE m[a]]
    BY <1>2, <1>4 DEF FillRow, Put
  <2>1. FillRow(m, d) = [a \in Memory |-> IF a - d \in 0..(w - 1) THEN Fill.lo ELSE m[a]]
    BY <2>5, <2>6, Zenon
  <2>2. FillRow(m, d) \in Bytes
    BY <1>1, <1>2, <2>1 DEF Bytes
  <2>3. \A a \in Memory : FillRow(m, d)[a] = IF a - d \in 0..(w - 1) THEN Fill.lo ELSE m[a]
    BY <2>1
  <2> QED BY <1>4, <2>2, <2>3
<1> QED BY <1>3, <1>4, RowType

\* No byte outside upper memory is changed, and none from there is shown.
Kept(m) == \A a \in Memory : IF Inside(a) THEN Inside(m[a]) \/ m[a] \in {Fill.lo, Fill.hi}
                             ELSE m[a] = a

LEMMA CopyByteKept ==
  ASSUME TypeOK, NEW m \in Bytes, Kept(m), NEW q \in Int, NEW p \in Int, Inside(q), Inside(p)
  PROVE  Kept([m EXCEPT ![q] = m[p]])
<1>1. p \in Memory
  BY RowType
<1>2. Inside(m[p]) \/ m[p] \in {Fill.lo, Fill.hi}
  BY <1>1 DEF Kept
<1> QED BY <1>2 DEF Kept, Bytes

LEMMA CopyRowKept ==
  ASSUME TypeOK, NEW m \in Bytes, Kept(m), NEW d, NEW s, Fits(d), Fits(s)
  PROVE  CopyRow(m, d, s) \in Bytes /\ Kept(CopyRow(m, d, s))
<1> DEFINE n == RowBytes
<1>1. PICK f \in [0..n -> Bytes] :
        /\ f[0] = m /\ CopyRow(m, d, s) = f[n]
        /\ \A i \in 1..n : f[i] = CopyByte(f[i - 1], d, s, Turn(i))
  BY CopyRowIs
<1> DEFINE P == {i \in 0..n : Kept(f[i])}
<1>2. n \in Nat /\ d \in Int /\ s \in Int
  BY RowType DEF Fits
<1>3. 0 \in P
  BY <1>1, <1>2
<1>4. ASSUME NEW i \in 0..(n - 1), i \in P PROVE i + 1 \in P
  <2>1. i + 1 \in 1..n /\ i + 1 \in 0..n /\ (i + 1) - 1 = i /\ f[i] \in Bytes /\ Kept(f[i])
    BY <1>1, <1>2, <1>4
  <2> DEFINE t == Turn(i + 1)  o == f[i]
  <2>2. t \in 0..(n - 1)
    BY <1>2, <2>1 DEF Turn
  <2>3. d + t \in Int /\ s + t \in Int /\ Inside(d + t) /\ Inside(s + t)
    <3> HIDE DEF t
    <3> QED BY <1>2, <2>2, RowType DEF Fits, Inside
  <2>4. f[i + 1] = [o EXCEPT ![d + t] = o[s + t]]
    <3>1. f[i + 1] = CopyByte(o, d, s, t)
      BY <1>1, <2>1
    <3> HIDE DEF o, t
    <3> QED BY <2>3, <3>1, CopyByteIs
  <2>5. Kept([o EXCEPT ![d + t] = o[s + t]])
    <3> HIDE DEF o, t
    <3> QED BY <2>1, <2>3, CopyByteKept DEF o
  <2> QED BY <2>1, <2>4, <2>5
<1>5. n \in P
  <2> HIDE DEF P
  <2>1. \A i \in 0..(n - 1) : i \in P => i + 1 \in P
    BY <1>4
  <2>2. \A i \in 0..n : i \in P
    <3> HIDE DEF n
    <3> QED BY ONLY <1>2, <1>3, <2>1, Induction
  <2> QED BY <1>2, <2>2
<1> QED BY <1>1, <1>2, <1>5

LEMMA TransparentRowKept ==
  ASSUME TypeOK, bpp = 16, NEW m \in Bytes, Kept(m), NEW d, NEW s, Fits(d), Fits(s)
  PROVE  TransparentRow(m, d, s) \in Bytes /\ Kept(TransparentRow(m, d, s))
<1> DEFINE n == w
<1>0. PICK f : MovesPixels(f, m, d, s)
  BY TransparentRowIs
<1>1. /\ f \in [0..n -> Bytes] /\ f[0] = m /\ TransparentRow(m, d, s) = f[n]
      /\ \A i \in 0..(n - 1) : f[i + 1] = MovePixel(f[i], Even(d) + 2 * i, Even(s) + 2 * i)
  BY <1>0 DEF MovesPixels
<1> DEFINE P == {i \in 0..n : Kept(f[i])}
<1>2. n \in Nat /\ d \in Int /\ s \in Int
  BY RowType DEF Fits
<1>3. 0 \in P
  BY <1>1, <1>2
<1>4. ASSUME NEW i \in 0..(n - 1), i \in P PROVE i + 1 \in P
  <2>1. i + 1 \in 1..n /\ i + 1 \in 0..n /\ (i + 1) - 1 = i /\ f[i] \in Bytes /\ Kept(f[i])
    BY <1>1, <1>2, <1>4
  <2> DEFINE q == Even(d) + 2 * i  p == Even(s) + 2 * i  o == f[i]
             v == [o EXCEPT ![q] = o[p]]
  <2>2. /\ q \in Int /\ p \in Int /\ Inside(q) /\ Inside(q + 1) /\ Inside(p) /\ Inside(p + 1)
    <3>1. /\ Even(s) \in Int /\ Even(s) <= s /\ Even(s) >= 0
          /\ Even(d) \in Int /\ Even(d) <= d /\ Even(d) >= 0
      BY <1>2, EvenOf DEF Fits
    <3>2. RowBytes = 2 * n /\ s + RowBytes <= Size /\ d + RowBytes <= Size
      BY RowType DEF Fits
    <3>3. i \in Nat /\ i + 1 <= n /\ n \in Nat /\ Size \in Nat
      BY <1>2, <2>1, RowType
    <3> HIDE DEF n
    <3>4. q \in Nat /\ q + 1 < Size /\ p \in Nat /\ p + 1 < Size
      BY <1>2, <3>1, <3>2, <3>3
    <3> HIDE DEF p, q
    <3> QED BY <3>3, <3>4 DEF Inside
  <2>3. f[i + 1] = MovePixel(o, q, p)
    BY <1>1, <2>1
  <2> HIDE DEF o, q, p
  <2>4. v \in Bytes /\ Kept(v) /\ v[p + 1] = IF p + 1 = q THEN o[p] ELSE o[p + 1]
    <3>1. p \in Memory /\ p + 1 \in Memory /\ q \in Memory
      BY <2>2, RowType
    <3>2. o[p] \in Int
      BY <2>1, <3>1 DEF Bytes, o
    <3> QED BY <2>1, <2>2, <3>1, <3>2, CopyByteKept DEF Bytes, o
  <2>5. Kept([o EXCEPT ![q] = o[p], ![q + 1] = o[p + 1]])
    <3> DEFINE z == [o EXCEPT ![q] = o[p], ![q + 1] = o[p + 1]]
    <3>1. p + 1 \in Memory /\ q + 1 \in Int
      BY <2>2, RowType
    <3>2. Inside(o[p + 1]) \/ o[p + 1] \in {Fill.lo, Fill.hi}
      BY <2>1, <2>2, <3>1 DEF Kept, o
    <3>3. \A a \in Memory : z[a] = IF a = q + 1 THEN o[p + 1] ELSE v[a]
      BY <2>1, <2>2 DEF Bytes, o
    <3> HIDE DEF z, v
    <3>4. Kept(z)
      BY <2>2, <2>4, <3>2, <3>3 DEF Kept
    <3> QED BY <3>4 DEF z
  <2>6. Kept(MovePixel(o, q, p))
    BY <2>1, <2>2, <2>5, MovePixelIs DEF o
  <2> QED BY <2>1, <2>3, <2>6
<1>5. n \in P
  <2> HIDE DEF P
  <2>1. \A i \in 0..(n - 1) : i \in P => i + 1 \in P
    BY <1>4
  <2>2. \A i \in 0..n : i \in P
    <3> HIDE DEF n
    <3> QED BY ONLY <1>2, <1>3, <2>1, Induction
  <2> QED BY <1>2, <2>2
<1> QED BY <1>1, <1>2, <1>5

LEMMA FillRowKept ==
  ASSUME TypeOK, w > 0, NEW m \in Bytes, Kept(m), NEW d, Fits(d)
  PROVE  FillRow(m, d) \in Bytes /\ Kept(FillRow(m, d))
<1> DEFINE r == FillRow(m, d)
<1>1. d \in Int /\ d >= 0 /\ d + RowBytes <= Size
  BY DEF Fits
<1>2. CASE bpp = 16
  <2> DEFINE e == Even(d)
  <2>1. e \in Int /\ e >= 0 /\ e <= d
    BY <1>1, EvenOf
  <2>2. r \in Bytes /\ \A a \in Memory : r[a] = IF a - e \in 0..(2 * w - 1)
                                  THEN (IF (a - e) % 2 = 0 THEN Fill.lo ELSE Fill.hi)
                                  ELSE m[a]
    BY <1>2, FillRowIs
  <2> HIDE DEF e, r
  <2>3. ASSUME NEW a \in Memory, a - e \in 0..(2 * w - 1) PROVE Inside(a)
    BY <1>1, <1>2, <2>1, <2>3, RowType DEF Inside
  <2>4. Kept(r)
    BY <2>2, <2>3 DEF Kept
  <2> QED BY <2>2, <2>4 DEF r
<1>3. CASE bpp = 8
  <2>1. r \in Bytes /\ \A a \in Memory : r[a] = IF a - d \in 0..(w - 1) THEN Fill.lo ELSE m[a]
    BY <1>3, FillRowIs
  <2> HIDE DEF r
  <2>2. ASSUME NEW a \in Memory, a - d \in 0..(w - 1) PROVE Inside(a)
    BY <1>1, <1>3, <2>2, RowType DEF Inside
  <2>3. Kept(r)
    BY <2>1, <2>2 DEF Kept
  <2> QED BY <2>1, <2>3 DEF r
<1> QED BY <1>2, <1>3, RowType

RowAt(k) == /\ Fits(dst + k * dstrd)
            /\ Copies => Fits(src + k * sstrd)

LEMMA DrawRowKept ==
  ASSUME TypeOK, w > 0, NEW m \in Bytes, NEW k, RowAt(k)
  PROVE  DrawRow(m, k) \in Bytes /\ (Kept(m) => Kept(DrawRow(m, k)))
<1> DEFINE d == dst + k * dstrd  s == src + k * sstrd
<1>1. Fits(d) /\ (Copies => Fits(s))
  BY DEF RowAt
<1>2. DrawRow(m, k) = IF ~Copies THEN FillRow(m, d)
                      ELSE IF bpp = 16 /\ blitter.transparent THEN TransparentRow(m, d, s)
                      ELSE CopyRow(m, d, s)
  BY DEF DrawRow
<1> HIDE DEF d, s
<1>3. ASSUME Copies PROVE /\ CopyRow(m, d, s) \in Bytes
                          /\ bpp = 16 => TransparentRow(m, d, s) \in Bytes
  <2>1. RowBytes \in Nat /\ w \in Nat
    BY RowType
  <2>2. CopyRow(m, d, s) \in Bytes
    <3>1. PICK f \in [0..RowBytes -> Bytes] : CopyRow(m, d, s) = f[RowBytes]
      BY <1>1, <1>3, CopyRowIs
    <3> QED BY <2>1, <3>1
  <2>3. ASSUME bpp = 16 PROVE TransparentRow(m, d, s) \in Bytes
    <3>1. PICK f : MovesPixels(f, m, d, s)
      BY <1>1, <1>3, <2>3, TransparentRowIs
    <3> QED BY <2>1, <3>1 DEF MovesPixels
  <2> QED BY <2>2, <2>3
<1>4. DrawRow(m, k) \in Bytes
  BY <1>1, <1>2, <1>3, FillRowIs
<1>5. ASSUME Kept(m) PROVE Kept(DrawRow(m, k))
  BY <1>1, <1>2, <1>5, FillRowKept, TransparentRowKept, CopyRowKept
<1> QED BY <1>4, <1>5

\* The rows one after the other.
LEMMA DrawnIs ==
  ASSUME TypeOK, w > 0, umem \in Bytes, Rows \in Nat, \A k \in 0..(Rows - 1) : RowAt(k)
  PROVE  \E f \in [0..Rows -> Bytes] :
           /\ f[0] = umem /\ Drawn = f[Rows]
           /\ \A k \in 1..Rows : f[k] = DrawRow(f[k - 1], k - 1)
<1> DEFINE n == Rows
           F == [i \in 1..n |-> [o \in Bytes |-> DrawRow(o, i - 1)]]
           G(f) == [i \in 0..n |-> IF i = 0 THEN umem ELSE DrawRow(f[i - 1], i - 1)]
           c == CHOOSE f : f = G(f)
<1>1. n \in Nat /\ umem \in Bytes
  OBVIOUS
<1>2. ASSUME NEW i \in 1..n, NEW o \in Bytes PROVE DrawRow(o, i - 1) \in Bytes
  <2>1. RowAt(i - 1)
    BY <1>1
  <2> QED BY <2>1, DrawRowKept
<1>8. Drawn = c[n]
  BY DEF Drawn
<1> HIDE DEF n
<1>3. F \in Moves(n, Bytes)
  <2>1. F \in [1..n -> [Bytes -> Bytes]]
    BY <1>2
  <2> HIDE DEF F
  <2> QED BY <2>1 DEF Moves
<1>4. \A i \in 1..n : \A o \in Bytes : F[i][o] = DrawRow(o, i - 1)
  OBVIOUS
<1> HIDE DEF F
<1>5. PICK g : Iterates(g, n, Bytes, umem, F)
  BY <1>1, <1>3, Recursion
<1>6. g = G(g)
  <2>1. g \in [0..n -> Bytes] /\ g[0] = umem /\ \A i \in 1..n : g[i] = F[i][g[i - 1]]
    BY <1>5 DEF Iterates
  <2>2. ASSUME NEW i \in 0..n, i # 0 PROVE g[i] = DrawRow(g[i - 1], i - 1)
    <3>1. i \in 1..n /\ i - 1 \in 0..n
      BY <1>1, <2>2
    <3> QED BY <1>4, <2>1, <3>1
  <2> QED BY <2>1, <2>2
<1>7. c = G(c)
  <2> HIDE DEF G
  <2> QED BY <1>6
<1> HIDE DEF c
<1>9. /\ c = [k \in 0..n |-> c[k]] /\ c[0] = umem
      /\ \A i \in 1..n : c[i] = DrawRow(c[i - 1], i - 1)
  <2>1. \A i \in 0..n : c[i] = IF i = 0 THEN umem ELSE DrawRow(c[i - 1], i - 1)
    BY <1>7
  <2>2. c = [k \in 0..n |-> c[k]]
    BY <1>7
  <2>3. 0 \in 0..n /\ \A i \in 1..n : i \in 0..n /\ i # 0
    BY <1>1
  <2> QED BY <2>1, <2>2, <2>3
<1>10. Iterates(c, n, Bytes, umem, F)
  <2>1. \A i \in 1..n : c[i - 1] \in Bytes => c[i] = F[i][c[i - 1]]
    BY <1>4, <1>9
  <2> QED BY <1>1, <1>3, <1>9, <2>1, Fixed
<1>11. c \in [0..n -> Bytes]
  BY <1>10 DEF Iterates
<1> QED BY <1>8, <1>9, <1>11 DEF n

LEMMA DrawnKept ==
  ASSUME TypeOK, w > 0, umem \in Bytes, Kept(umem), Rows \in Nat,
         \A k \in 0..(Rows - 1) : RowAt(k)
  PROVE  Kept(Drawn)
<1> DEFINE n == Rows
<1>1. PICK f \in [0..n -> Bytes] :
        /\ f[0] = umem /\ Drawn = f[n]
        /\ \A k \in 1..n : f[k] = DrawRow(f[k - 1], k - 1)
  BY DrawnIs
<1> DEFINE P == {i \in 0..n : Kept(f[i])}
<1>2. n \in Nat
  OBVIOUS
<1>3. 0 \in P
  BY <1>1, <1>2
<1>4. ASSUME NEW i \in 0..(n - 1), i \in P PROVE i + 1 \in P
  <2>1. i + 1 \in 1..n /\ i + 1 \in 0..n /\ (i + 1) - 1 = i /\ f[i] \in Bytes /\ Kept(f[i])
    BY <1>1, <1>2, <1>4
  <2>2. f[i + 1] = DrawRow(f[i], i) /\ RowAt(i)
    BY <1>1, <2>1
  <2> QED BY <2>1, <2>2, DrawRowKept
<1>5. n \in P
  <2> HIDE DEF P
  <2>1. \A i \in 0..(n - 1) : i \in P => i + 1 \in P
    BY <1>4
  <2>2. \A i \in 0..n : i \in P
    <3> HIDE DEF n
    <3> QED BY ONLY <1>2, <1>3, <2>1, Induction
  <2> QED BY <1>2, <2>2
<1> QED BY <1>1, <1>5

\* What a row shows afterwards if it does not overlap the one it is copied from.
Separate(d, s) == d + RowBytes <= s \/ s + RowBytes <= d
Done(i, b) == IF backwards THEN b >= RowBytes - i ELSE b < i

LEMMA CopyEffect ==
  ASSUME TypeOK, NEW m \in Bytes, NEW d, NEW s, Fits(d), Fits(s), Separate(d, s)
  PROVE  \A a \in Memory : CopyRow(m, d, s)[a] = IF a - d \in 0..(RowBytes - 1)
                                                 THEN m[s + (a - d)] ELSE m[a]
<1> DEFINE n == RowBytes
<1>1. PICK f \in [0..n -> Bytes] :
        /\ f[0] = m /\ CopyRow(m, d, s) = f[n]
        /\ \A i \in 1..n : f[i] = CopyByte(f[i - 1], d, s, Turn(i))
  BY CopyRowIs
<1> DEFINE At(o, i) == \A a \in Memory : o[a] = IF a - d \in 0..(n - 1) /\ Done(i, a - d)
                                                THEN m[s + (a - d)] ELSE m[a]
           P == {i \in 0..n : At(f[i], i)}
<1>2. n \in Nat /\ d \in Int /\ s \in Int /\ Memory \subseteq Int
  BY RowType DEF Fits
<1>3. 0 \in P
  <2>1. \A b \in 0..(n - 1) : ~Done(0, b)
    BY <1>2 DEF Done
  <2> QED BY <1>1, <1>2, <2>1
<1>4. ASSUME NEW i \in 0..(n - 1), i \in P PROVE i + 1 \in P
  <2> DEFINE t == Turn(i + 1)  o == f[i]
  <2>1. i + 1 \in 1..n /\ i + 1 \in 0..n /\ (i + 1) - 1 = i /\ f[i] \in Bytes /\ At(o, i)
    BY <1>1, <1>2, <1>4
  <2>2. t \in 0..(n - 1) /\ \A b \in 0..(n - 1) : Done(i + 1, b) <=> Done(i, b) \/ b = t
    BY <1>2, <2>1 DEF Turn, Done
  <2>4. ~Done(i, t)
    BY <1>2, <2>1 DEF Turn, Done
  <2>9. f[i + 1] = CopyByte(o, d, s, t)
    BY <1>1, <2>1
  <2> HIDE DEF t
  <2>5. s + t \in Memory /\ d + t \in Memory /\ f[i + 1] = [o EXCEPT ![d + t] = o[s + t]]
    <3>1. t \in Int /\ 0 <= t /\ t < n
      BY <1>2, <2>2
    <3>2. s \in Int /\ s >= 0 /\ s + n <= Size /\ d \in Int /\ d >= 0 /\ d + n <= Size
      BY DEF Fits
    <3>3. s + t \in Int /\ d + t \in Int /\ Inside(s + t) /\ Inside(d + t)
      BY <1>2, <3>1, <3>2, BlitAssumption DEF Inside
    <3>4. CopyByte(o, d, s, t) = [o EXCEPT ![d + t] = o[s + t]]
      <4> HIDE DEF o
      <4> QED BY <3>3, CopyByteIs
    <3> HIDE DEF o
    <3> QED BY <2>9, <3>3, <3>4, RowType, Zenon
  <2>6. o[s + t] = m[s + t]
    <3>1. ~(((s + t) - d) \in 0..(n - 1))
      BY <1>2, <2>2 DEF Separate
    <3> QED BY <2>1, <2>5, <3>1
  <2>7. \A a \in Memory : f[i + 1][a] = IF a = d + t THEN m[s + t] ELSE o[a]
    BY <2>1, <2>5, <2>6 DEF Bytes
  <2> HIDE DEF o
  <2>8. ASSUME NEW a \in Memory
        PROVE  f[i + 1][a] = IF a - d \in 0..(n - 1) /\ Done(i + 1, a - d)
                             THEN m[s + (a - d)] ELSE m[a]
    <3>1. CASE a = d + t
      <4>1. a - d = t
        BY <1>2, <2>2, <3>1
      <4> QED BY <2>2, <2>7, <3>1, <4>1
    <3>2. CASE a # d + t
      <4>1. a - d # t /\ a \in Int
        BY <1>2, <2>2, <3>2
      <4>2. o[a] = IF a - d \in 0..(n - 1) /\ Done(i, a - d) THEN m[s + (a - d)] ELSE m[a]
        BY <2>1
      <4>3. f[i + 1][a] = o[a]
        BY <2>7, <3>2
      <4> QED BY <2>2, <4>1, <4>2, <4>3
    <3> QED BY <3>1, <3>2
  <2> QED BY <2>1, <2>8
<1>5. n \in P
  <2> HIDE DEF P
  <2>1. \A i \in 0..(n - 1) : i \in P => i + 1 \in P
    BY <1>4
  <2>2. \A i \in 0..n : i \in P
    <3> HIDE DEF n
    <3> QED BY ONLY <1>2, <1>3, <2>1, Induction
  <2> QED BY <1>2, <2>2
<1>6. \A b \in 0..(n - 1) : Done(n, b)
  BY <1>2 DEF Done
<1> QED BY <1>1, <1>5, <1>6

LEMMA TransparentEffect ==
  ASSUME TypeOK, bpp = 16, NEW m \in Bytes, NEW d, NEW s, Fits(d), Fits(s), Separate(d, s),
         d % 2 = 0, s % 2 = 0
  PROVE  \A a \in Memory :
           TransparentRow(m, d, s)[a] =
             IF a - d \in 0..(RowBytes - 1)
                  /\ ~(m[s + Even(a - d)] = Trc.lo /\ m[s + Even(a - d) + 1] = Trc.hi)
             THEN m[s + (a - d)] ELSE m[a]
<1> DEFINE n == w
           Clear(b) == m[s + Even(b)] = Trc.lo /\ m[s + Even(b) + 1] = Trc.hi
<1>0. PICK f : MovesPixels(f, m, d, s)
  BY TransparentRowIs
<1>2. n \in Nat /\ d \in Int /\ s \in Int /\ Memory \subseteq Int /\ RowBytes = 2 * n
      /\ Even(d) = d /\ Even(s) = s
  BY RowType, EvenOf DEF Fits
<1>1. /\ f \in [0..n -> Bytes] /\ f[0] = m /\ TransparentRow(m, d, s) = f[n]
      /\ \A i \in 0..(n - 1) : f[i + 1] = MovePixel(f[i], d + 2 * i, s + 2 * i)
  BY <1>0, <1>2 DEF MovesPixels
<1> HIDE DEF Clear
<1> DEFINE At(o, i) == \A a \in Memory : o[a] = IF a - d \in 0..(2 * i - 1) /\ ~Clear(a - d)
                                                THEN m[s + (a - d)] ELSE m[a]
           P == {i \in 0..n : At(f[i], i)}
<1>3. 0 \in P
  BY <1>1, <1>2
<1>4. ASSUME NEW i \in 0..(n - 1), i \in P PROVE i + 1 \in P
  <2> DEFINE o == f[i]  q == d + 2 * i  p == s + 2 * i  u == f[i + 1]
  <2>1. i \in Nat /\ i + 1 <= n /\ i + 1 \in 0..n /\ f[i] \in Bytes /\ u \in Bytes /\ At(o, i)
    BY <1>1, <1>2, <1>4
  <2>2. /\ q \in Memory /\ q + 1 \in Memory /\ p \in Memory /\ p + 1 \in Memory
        /\ q \in Int /\ p \in Int
        /\ Inside(q) /\ Inside(q + 1) /\ Inside(p) /\ Inside(p + 1)
    <3>1. d >= 0 /\ d + 2 * n <= Size /\ s >= 0 /\ s + 2 * n <= Size /\ Size \in Nat
      BY <1>2, RowType DEF Fits
    <3> HIDE DEF n
    <3>2. Inside(q) /\ Inside(q + 1) /\ Inside(p) /\ Inside(p + 1) /\ q \in Int /\ p \in Int
      BY <1>2, <2>1, <3>1 DEF Inside
    <3> QED BY <3>2, RowType
  <2>3. u = MovePixel(o, q, p)
    BY <1>1
  <2>4. o[p] = m[p] /\ o[p + 1] = m[p + 1]
    <3>1. ~(p - d \in 0..(2 * i - 1)) /\ ~((p + 1) - d \in 0..(2 * i - 1))
      <4>1. d + 2 * n <= s \/ s + 2 * n <= d
        BY <1>2 DEF Separate
      <4> HIDE DEF n
      <4> QED BY <1>2, <2>1, <4>1
    <3> QED BY <2>1, <2>2, <3>1
  <2> DEFINE clear == m[p] = Trc.lo /\ m[p + 1] = Trc.hi
  <2>5. (Clear(2 * i) <=> clear) /\ (Clear(2 * i + 1) <=> clear)
    <3>1. Even(2 * i) = 2 * i /\ Even(2 * i + 1) = 2 * i
      BY <2>1 DEF Even
    <3>2. s + Even(2 * i) = p /\ s + Even(2 * i + 1) = p
      BY <3>1
    <3> QED BY <3>2 DEF Clear
  <2>6. u = IF clear THEN o ELSE [o EXCEPT ![q] = m[p], ![q + 1] = m[p + 1]]
    <3> HIDE DEF p, q, u, o
    <3> QED BY <2>2, <2>3, <2>4, MovePixelIs
  <2>7. \A a \in Memory : u[a] = IF ~clear /\ a = q THEN m[p]
                                 ELSE IF ~clear /\ a = q + 1 THEN m[p + 1] ELSE o[a]
    <3> HIDE DEF clear, p, q, u
    <3> QED BY <2>1, <2>2, <2>6 DEF Bytes
  <2>8. ASSUME NEW a \in Memory
        PROVE  u[a] = IF a - d \in 0..(2 * (i + 1) - 1) /\ ~Clear(a - d)
                      THEN m[s + (a - d)] ELSE m[a]
    <3>0. a \in Int /\ o[a] = IF a - d \in 0..(2 * i - 1) /\ ~Clear(a - d)
                              THEN m[s + (a - d)] ELSE m[a]
      BY <1>2, <2>1
    <3>1. CASE a = q
      <4>1. a - d = 2 * i /\ s + (a - d) = p /\ a # q + 1
            /\ a - d \in 0..(2 * (i + 1) - 1) /\ ~(a - d \in 0..(2 * i - 1))
        BY <1>2, <2>1, <3>1
      <4>2. u[a] = IF clear THEN o[a] ELSE m[p]
        BY <2>7, <3>1, <4>1
      <4> HIDE DEF clear, p, q, u, o
      <4> QED BY <2>5, <3>0, <4>1, <4>2
    <3>2. CASE a = q + 1
      <4>1. a - d = 2 * i + 1 /\ s + (a - d) = p + 1 /\ a # q
            /\ a - d \in 0..(2 * (i + 1) - 1) /\ ~(a - d \in 0..(2 * i - 1))
        BY <1>2, <2>1, <3>2
      <4>2. u[a] = IF clear THEN o[a] ELSE m[p + 1]
        BY <2>7, <3>2, <4>1
      <4> HIDE DEF clear, p, q, u, o
      <4> QED BY <2>5, <3>0, <4>1, <4>2
    <3>3. CASE a # q /\ a # q + 1
      <4>1. a - d \in 0..(2 * (i + 1) - 1) <=> a - d \in 0..(2 * i - 1)
        BY <1>2, <2>1, <3>0, <3>3
      <4>2. u[a] = o[a]
        BY <2>7, <3>3
      <4> HIDE DEF clear, p, q, u, o
      <4> QED BY <3>0, <4>1, <4>2
    <3> QED BY <3>1, <3>2, <3>3
  <2> QED BY <2>1, <2>8
<1>5. n \in P
  <2> HIDE DEF P
  <2>1. \A i \in 0..(n - 1) : i \in P => i + 1 \in P
    BY <1>4
  <2>2. \A i \in 0..n : i \in P
    <3> HIDE DEF n
    <3> QED BY ONLY <1>2, <1>3, <2>1, Induction
  <2> QED BY <1>2, <2>2
<1> QED BY <1>1, <1>2, <1>5 DEF Clear

\* A row of the rectangle is right if the bytes it covers and those it is copied
\* from are their own before.
LevelRows == bpp = 16 => dst % 2 = 0 /\ dstrd % 2 = 0 /\ src % 2 = 0 /\ sstrd % 2 = 0

LEMMA LevelRow ==
  ASSUME NEW a \in Int, NEW b \in Int, NEW k \in Nat, a % 2 = 0, b % 2 = 0
  PROVE  (a + k * b) % 2 = 0
<1>1. PICK c \in Int : a = 2 * c
  OBVIOUS
<1>2. PICK e \in Int : b = 2 * e
  OBVIOUS
<1>3. PICK g \in Int : g = k * e
  OBVIOUS
<1>4. k * b = 2 * g
  BY <1>2, <1>3
<1>5. a + k * b = 2 * (c + g) /\ c + g \in Int
  BY <1>1, <1>4
<1> QED BY <1>5

LEMMA DrawRowRight ==
  ASSUME TypeOK, w > 0, LevelRows, NEW m \in Bytes, NEW k \in Nat, RowAt(k),
         Copies => Separate(dst + k * dstrd, src + k * sstrd),
         \A a \in Memory : InRow(a, k) => m[a] = a,
         Copies => \A b \in 0..(RowBytes - 1) : m[src + k * sstrd + b] = src + k * sstrd + b
  PROVE  \A a \in Memory : DrawRow(m, k)[a] = IF InRow(a, k) THEN Expected(a, k) ELSE m[a]
<1> DEFINE d == dst + k * dstrd  s == src + k * sstrd  n == RowBytes
<1>1. /\ w \in Nat /\ n \in Nat /\ n = (IF bpp = 16 THEN 2 * w ELSE w) /\ bpp \in {8, 16}
      /\ dst \in Int /\ dstrd \in Int /\ src \in Int /\ sstrd \in Int /\ Memory \subseteq Int
  BY RowType
<1>2. k * dstrd \in Int /\ k * sstrd \in Int /\ d \in Int /\ s \in Int
  BY <1>1
<1>3. Fits(d) /\ (Copies => Fits(s) /\ Separate(d, s))
  BY DEF RowAt
<1>4. DrawRow(m, k) = IF ~Copies THEN FillRow(m, d)
                      ELSE IF bpp = 16 /\ blitter.transparent THEN TransparentRow(m, d, s)
                      ELSE CopyRow(m, d, s)
  BY DEF DrawRow
<1>5. \A a \in Memory : /\ InRow(a, k) <=> a - d \in 0..(n - 1)
                        /\ SourceOf(a, k) = s + (a - d)
  BY <1>1, <1>2 DEF InRow, SourceOf
<1>6. bpp = 16 => d % 2 = 0 /\ s % 2 = 0 /\ dst % 2 = 0
  BY <1>1, LevelRow DEF LevelRows
<1>7. \A a \in Memory : a - d \in 0..(n - 1) => m[a] = a
  BY <1>5
<1>8. Copies => \A b \in 0..(n - 1) : m[s + b] = s + b
  OBVIOUS
<1> HIDE DEF d, s
<1> SUFFICES ASSUME NEW a \in Memory
             PROVE  DrawRow(m, k)[a] = IF InRow(a, k) THEN Expected(a, k) ELSE m[a]
  OBVIOUS
<1>9. a \in Int
  BY <1>1
<1>10. CASE ~Copies
  <2>1. Expected(a, k) = IF bpp = 16 /\ (a - dst) % 2 = 1 THEN Fill.hi ELSE Fill.lo
    BY <1>10 DEF Expected
  <2>2. CASE bpp = 16
    <3>1. Even(d) = d
      BY <1>2, <1>6, <2>2, EvenOf
    <3>2. FillRow(m, d)[a] = IF a - d \in 0..(n - 1)
                             THEN (IF (a - d) % 2 = 0 THEN Fill.lo ELSE Fill.hi) ELSE m[a]
      BY <1>1, <1>3, <2>2, <3>1, FillRowIs
    <3>3. (a - d) % 2 = 0 <=> ~((a - dst) % 2 = 1)
      BY <1>1, <1>2, <1>6, <1>9, <2>2
    <3> HIDE DEF n
    <3> QED BY <1>4, <1>5, <1>10, <2>1, <2>2, <3>2, <3>3
  <2>3. CASE bpp = 8
    <3>1. FillRow(m, d)[a] = IF a - d \in 0..(n - 1) THEN Fill.lo ELSE m[a]
      BY <1>1, <1>3, <2>3, FillRowIs
    <3> HIDE DEF n
    <3> QED BY <1>4, <1>5, <1>10, <2>1, <2>3, <3>1
  <2> QED BY <1>1, <2>2, <2>3
<1>11. CASE Copies /\ bpp = 16 /\ blitter.transparent
  <2> DEFINE b == a - d  e == Even(b)
  <2>1. TransparentRow(m, d, s)[a] = IF b \in 0..(n - 1)
                  /\ ~(m[s + e] = Trc.lo /\ m[s + e + 1] = Trc.hi)
             THEN m[s + b] ELSE m[a]
    BY <1>3, <1>6, <1>11, TransparentEffect
  <2>2. Expected(a, k) = IF Even(s + b) = blitter.trc THEN a ELSE s + b
    BY <1>5, <1>11 DEF Expected
  <2>3. ASSUME b \in 0..(n - 1)
        PROVE  /\ m[s + b] = s + b /\ m[s + e] = s + e /\ m[s + e + 1] = s + e + 1
               /\ Even(s + b) = s + e /\ m[a] = a
    <3>1. b \in Nat /\ b < 2 * w
      BY <1>1, <1>11, <2>3
    <3>2. e \in 0..(n - 1) /\ e + 1 \in 0..(n - 1)
      <4>1. PICK c \in Nat : b = 2 * c \/ b = 2 * c + 1
        <5>1. ASSUME NEW x \in Nat PROVE x \div 2 \in Nat /\ x = 2 * (x \div 2) + (x % 2)
          OBVIOUS
        <5>2. ASSUME NEW x \in Nat PROVE x % 2 = 0 \/ x % 2 = 1
          OBVIOUS
        <5> HIDE DEF b
        <5> QED BY <3>1, <5>1, <5>2
      <4>2. e = 2 * c
        BY <4>1 DEF Even
      <4>3. c < w
        BY <1>1, <3>1, <4>1
      <4> QED BY <1>1, <1>11, <4>2, <4>3
    <3>3. Even(s + b) = s + e
      BY <1>2, <1>6, <1>11, <3>1 DEF Even
    <3>4. (s + e) + 1 = s + (e + 1)
      BY <1>2, <3>2
    <3> HIDE DEF b, e, n
    <3>5. m[s + b] = s + b /\ m[s + e] = s + e /\ m[s + (e + 1)] = s + (e + 1)
      BY <1>8, <1>11, <2>3, <3>2
    <3>6. m[a] = a
      BY <1>7, <2>3 DEF b
    <3> QED BY <3>3, <3>4, <3>5, <3>6
  <2>4. b \in Int /\ e \in Int /\ Trc.lo = blitter.trc /\ Trc.hi = blitter.trc + 1
    BY <1>2, <1>9, EvenOf DEF Trc
  <2>5. blitter.trc \in Int
    BY DEF TypeOK, Blit
  <2>6. InRow(a, k) <=> b \in 0..(n - 1)
    BY <1>5
  <2> HIDE DEF b, e, n
  <2> QED BY <1>2, <1>4, <1>11, <2>1, <2>2, <2>3, <2>4, <2>5, <2>6
<1>12. CASE Copies /\ ~(bpp = 16 /\ blitter.transparent)
  <2>1. CopyRow(m, d, s)[a] = IF a - d \in 0..(n - 1) THEN m[s + (a - d)] ELSE m[a]
    BY <1>3, <1>12, CopyEffect
  <2>2. Expected(a, k) = s + (a - d)
    BY <1>5, <1>12 DEF Expected
  <2> HIDE DEF n
  <2> QED BY <1>4, <1>5, <1>8, <1>12, <2>1, <2>2
<1> QED BY <1>10, <1>11, <1>12

\* Rows no longer than the stride do not overlap.
LEMMA RowsApart ==
  ASSUME TypeOK, Laid, NEW j \in Nat, NEW k \in Nat, j < k
  PROVE  \A a \in Int : ~(InRow(a, j) /\ InRow(a, k))
<1>1. dst \in Int /\ dstrd \in Nat /\ RowBytes \in Nat /\ RowBytes <= dstrd
  BY RowType DEF Laid
<1>2. dstrd * (j + 1) <= dstrd * k
  BY <1>1, Times
<1>3. dstrd * (j + 1) = j * dstrd + dstrd /\ dstrd * k = k * dstrd
      /\ j * dstrd \in Int /\ k * dstrd \in Int
  BY <1>1
<1> QED BY <1>1, <1>2, <1>3 DEF InRow

\* The rectangle after n rows.
Right(o, n) ==
  \A a \in Memory :
    /\ \A j \in 0..(n - 1) : InRow(a, j) => o[a] = Expected(a, j)
    /\ (\A j \in 0..(n - 1) : ~InRow(a, j)) => o[a] = a

LEMMA DrawnRight ==
  ASSUME TypeOK, w > 0, Laid, LevelRows, umem \in Bytes, \A a \in Memory : umem[a] = a,
         Rows \in Nat, \A k \in 0..(Rows - 1) : RowAt(k),
         Copies => \A i, j \in 0..(Rows - 1) : Separate(dst + i * dstrd, src + j * sstrd)
  PROVE  Right(Drawn, Rows)
<1> DEFINE n == Rows
<1>1. PICK f \in [0..n -> Bytes] :
        /\ f[0] = umem /\ Drawn = f[n]
        /\ \A k \in 1..n : f[k] = DrawRow(f[k - 1], k - 1)
  BY DrawnIs
<1> DEFINE P == {i \in 0..n : Right(f[i], i)}
<1>2. n \in Nat /\ Memory \subseteq Int /\ RowBytes \in Nat
  BY RowType
<1>3. 0 \in P
  BY <1>1, <1>2 DEF Right
<1>4. ASSUME NEW i \in 0..(n - 1), i \in P PROVE i + 1 \in P
  <2> DEFINE o == f[i]  u == f[i + 1]
  <2>1. i + 1 \in 1..n /\ i + 1 \in 0..n /\ (i + 1) - 1 = i /\ o \in Bytes /\ Right(o, i)
        /\ i \in Nat
    BY <1>1, <1>2, <1>4
  <2>2. u = DrawRow(o, i) /\ RowAt(i)
    BY <1>1, <2>1
  <2>3. ASSUME NEW a \in Memory, InRow(a, i) PROVE o[a] = a
    <3>1. \A j \in 0..(i - 1) : j \in Nat /\ j < i
      BY <2>1
    <3>2. \A j \in 0..(i - 1) : ~InRow(a, j)
      BY <1>2, <2>1, <2>3, <3>1, RowsApart
    <3> QED BY <2>1, <3>2 DEF Right
  <2>4. ASSUME Copies, NEW b \in 0..(RowBytes - 1)
        PROVE  o[src + i * sstrd + b] = src + i * sstrd + b
    <3> DEFINE s == src + i * sstrd
    <3>1. Fits(s) /\ \A j \in 0..(i - 1) : Separate(dst + j * dstrd, s)
      BY <1>2, <2>1, <2>2, <2>4 DEF RowAt
    <3>2. ASSUME NEW j \in 0..(i - 1) PROVE ~InRow(s + b, j)
      <4>1. dst + j * dstrd \in Int /\ j * dstrd \in Int /\ dst \in Int
        <5>1. Fits(dst + j * dstrd)
          BY <1>2, <2>1 DEF RowAt
        <5>2. dst \in Int /\ dstrd \in Int /\ j \in Int
          BY <2>1, RowType
        <5> QED BY <5>2
      <4> QED BY <1>2, <3>1, <4>1 DEF InRow, Separate, Fits
    <3>3. s + b \in Memory
      <4>0. s \in Int /\ s >= 0 /\ s + RowBytes <= Size /\ Size \in Nat
        BY <3>1, RowType DEF Fits
      <4> HIDE DEF s
      <4>1. s + b \in Int /\ Inside(s + b)
        BY <1>2, <4>0 DEF Inside
      <4> QED BY <4>1, RowType
    <3> QED BY <2>1, <3>2, <3>3 DEF Right
  <2>5. Copies => Separate(dst + i * dstrd, src + i * sstrd)
    BY <1>2, <2>1
  <2>6. \A a \in Memory : u[a] = IF InRow(a, i) THEN Expected(a, i) ELSE o[a]
    <3> HIDE DEF o
    <3> QED BY <2>1, <2>2, <2>3, <2>4, <2>5, DrawRowRight
  <2>7. \A j \in 0..i : j = i \/ j \in 0..(i - 1)
    BY <2>1
  <2>8. (i + 1) - 1 = i /\ i \in 0..i /\ \A j \in 0..(i - 1) : j \in 0..i /\ j \in Nat /\ j < i
    BY <2>1
  <2> HIDE DEF o, u
  <2>9. Right(u, i + 1)
    <3> SUFFICES ASSUME NEW a \in Memory
                 PROVE  /\ \A j \in 0..i : InRow(a, j) => u[a] = Expected(a, j)
                        /\ (\A j \in 0..i : ~InRow(a, j)) => u[a] = a
      BY <2>8 DEF Right
    <3>1. \A j \in 0..(i - 1) : InRow(a, j) => o[a] = Expected(a, j) /\ ~InRow(a, i)
      BY <1>2, <2>1, <2>8, RowsApart DEF Right
    <3>2. (\A j \in 0..(i - 1) : ~InRow(a, j)) => o[a] = a
      BY <2>1 DEF Right
    <3> QED BY <2>6, <2>7, <2>8, <3>1, <3>2
  <2> QED BY <2>1, <2>9 DEF u
<1>5. n \in P
  <2> HIDE DEF P
  <2>1. \A i \in 0..(n - 1) : i \in P => i + 1 \in P
    BY <1>4
  <2>2. \A i \in 0..n : i \in P
    <3> HIDE DEF n
    <3> QED BY ONLY <1>2, <1>3, <2>1, Induction
  <2> QED BY <1>2, <2>2
<1> QED BY <1>1, <1>5

\* The number of rows is a number, whatever wraps: a stride of 0 never divides.
LEMMA ClippedInt ==
  ASSUME NEW from \in 0..(Size - 1), NEW stride \in Int, NEW n \in Int
  PROVE  Clipped(from, stride, n) \in Int
<1>1. Base \in Nat /\ Size \in Nat /\ Base + Size < WordSize /\ WordSize \in Nat \ {0}
  BY BlitAssumption
<1>2. CASE stride = 0
  <2>1. stride * n = 0
    BY <1>2
  <2>4. Base + (from + 0) \in 0..(WordSize - 1)
    BY <1>1
  <2>5. (Base + (from + 0)) % WordSize = Base + (from + 0)
    BY <1>1, <2>4, InWord, Zenon
  <2>2. (Base + (from + 0)) % WordSize = Base + from
    BY <2>5
  <2>3. Clipped(from, stride, n) = n
    BY <1>1, <2>1, <2>2 DEF Clipped, Pointer
  <2> QED BY <2>3
<1>3. CASE stride > 0
  <2>1. Size - from \in Int /\ (Size - from) \div stride \in Int
    BY <1>1, <1>3, Remainder
  <2>2. Truncated(Size - from, stride) \in Int
    BY <1>3, <2>1 DEF Truncated
  <2> QED BY <2>2 DEF Clipped
<1>4. CASE stride < 0
  <2>1. Size - from \in Int /\ 0 - stride \in Nat \ {0}
    BY <1>1, <1>4
  <2>3. (Size - from) \div (0 - stride) \in Int
    BY <2>1, Remainder
  <2>2. Truncated(Size - from, stride) \in Int
    BY <1>4, <2>3 DEF Truncated
  <2> QED BY <2>2 DEF Clipped
<1> QED BY <1>2, <1>3, <1>4

\* The rows that are left after clipping, as a whole and one by one.
LEMMA RowsLeft ==
  ASSUME TypeOK, ~Bad
  PROVE  /\ Rows \in Nat
         /\ Laid /\ Modest => \A k \in 0..(Rows - 1) : RowAt(k)
<1>2. /\ w \in Nat /\ h \in Nat /\ bpp \in {8, 16} /\ dst \in 0..(Size - 1)
      /\ dstrd \in Int /\ sstrd \in Int /\ Copies \in BOOLEAN
      /\ Copies => src \in 0..(Size - 1)
  BY RowType DEF Bad, Inside
<1>3. RowBytes \in Nat
  BY RowType
<1>5. Rows \in Nat
  <2>1. CASE Copies
    <3>1. Clipped(src, sstrd, h) \in Int
      BY <1>2, <2>1, ClippedInt
    <3>2. Clipped(dst, dstrd, Clipped(src, sstrd, h)) \in Int
      BY <1>2, <3>1, ClippedInt
    <3> QED BY <2>1, <3>2 DEF Rows, Left
  <2>2. CASE ~Copies
    <3>1. Clipped(dst, dstrd, h) \in Int
      BY <1>2, ClippedInt
    <3> QED BY <2>2, <3>1 DEF Rows, Left
  <2> QED BY <1>2, <2>1, <2>2
<1>6. ASSUME Laid, Modest
      PROVE  /\ dst + dstrd * Rows <= Size
             /\ Copies => src + sstrd * Rows <= Size
  <2>1. dstrd \in Nat /\ (Copies => sstrd \in Nat)
    BY <1>2, <1>3, <1>6 DEF Laid
  <2>2. CASE ~Copies
    <3>1. Clipped(dst, dstrd, h) \in 0..h /\ dst + dstrd * Clipped(dst, dstrd, h) <= Size
      BY <1>2, <1>6, <2>1, ClippedFits DEF Modest
    <3>2. Rows = Clipped(dst, dstrd, h)
      BY <1>2, <2>2, <3>1 DEF Rows, Left
    <3> QED BY <2>2, <3>1, <3>2
  <2>3. CASE Copies
    <3>1. src \in 0..(Size - 1) /\ sstrd \in Nat /\ h \in Nat
      BY <1>2, <2>1, <2>3
    <3>6. Base + src + sstrd * h < WordSize /\ Base + dst + dstrd * h < WordSize
      BY <1>6, <2>3 DEF Modest
    <3> DEFINE n == Clipped(src, sstrd, h)
    <3>2. n \in 0..h /\ src + sstrd * n <= Size
      BY ONLY <3>1, <3>6, ClippedFits
    <3>3. Left = Clipped(dst, dstrd, n)
      BY <2>3 DEF Left
    <3> HIDE DEF n
    <3>7. Base + dst + dstrd * n < WordSize
      <4>1. dstrd * n <= dstrd * h /\ dstrd * n \in Nat /\ dstrd * h \in Nat
        BY <2>1, <3>1, <3>2, Times
      <4> QED BY <1>2, <3>6, <4>1, BlitAssumption
    <3>4. Left \in 0..n /\ dst + dstrd * Left <= Size
      BY <1>2, <2>1, <3>1, <3>2, <3>3, <3>7, ClippedFits
    <3>5. sstrd * Left <= sstrd * n /\ sstrd * Left \in Nat /\ sstrd * n \in Nat
      BY <3>1, <3>2, <3>4, Times
    <3>8. Rows = Left
      BY <3>1, <3>2, <3>4 DEF Rows
    <3>9. src + sstrd * Left <= Size
      BY <3>1, <3>2, <3>5, BlitAssumption
    <3> QED BY <3>4, <3>8, <3>9
  <2> QED BY <1>2, <2>2, <2>3
<1>8. ASSUME Laid, Modest, NEW k \in 0..(Rows - 1)
      PROVE  RowAt(k)
  <2>1. dstrd \in Nat /\ RowBytes <= dstrd /\ (Copies => sstrd \in Nat /\ RowBytes <= sstrd)
    BY <1>2, <1>3, <1>8 DEF Laid
  <2>2. dst + k * dstrd >= 0 /\ dst + k * dstrd + RowBytes <= Size
    BY <1>2, <1>3, <1>5, <1>6, <1>8, <2>1, RowEnds
  <2>3. ASSUME Copies PROVE src + k * sstrd >= 0 /\ src + k * sstrd + RowBytes <= Size
    BY <1>2, <1>3, <1>5, <1>6, <1>8, <2>1, <2>3, RowEnds
  <2>4. k * dstrd \in Int /\ (Copies => src \in Int /\ k * sstrd \in Int)
    BY <1>2, <1>5, <1>8
  <2>5. dst + k * dstrd \in Int /\ (Copies => src + k * sstrd \in Int)
    BY <1>2, <2>4
  <2> QED BY <2>2, <2>3, <2>5 DEF RowAt, Fits
<1> QED BY <1>5, <1>8

\* No more rows would fit than are left.
LEMMA ClippedMost ==
  ASSUME NEW from \in 0..(Size - 1), NEW stride \in Nat \ {0}, NEW n \in Nat,
         Base + from + stride * n < WordSize
  PROVE  \/ Clipped(from, stride, n) = n
         \/ from + (Clipped(from, stride, n) + 1) * stride > Size
<1> DEFINE room == Size - from  q == room \div stride
<1>1. Size \in Nat /\ room \in Nat
  BY BlitAssumption
<1>2. q \in Int /\ room % stride \in 0..(stride - 1) /\ room = stride * q + (room % stride)
  BY <1>1, Remainder
<1>3. Clipped(from, stride, n) = IF from + stride * n > Size THEN q ELSE n
  BY Unwrapped
<1> HIDE DEF q
<1>4. (q + 1) * stride = stride * q + stride /\ stride * q \in Int
  BY <1>2
<1>5. from + (q + 1) * stride > Size
  <2>1. room < stride * q + stride
    BY <1>1, <1>2, <1>4
  <2> QED BY <1>1, <1>4, <2>1
<1> QED BY <1>3, <1>5

LEMMA RowsMost ==
  ASSUME TypeOK, ~Bad, Laid, Modest, w > 0, Rows < h
  PROVE  \/ dst + (Rows + 1) * dstrd > Size
         \/ Copies /\ src + (Rows + 1) * sstrd > Size
<1>1. /\ h \in Nat /\ dst \in 0..(Size - 1) /\ dstrd \in Nat \ {0} /\ Copies \in BOOLEAN
      /\ Copies => src \in 0..(Size - 1) /\ sstrd \in Nat \ {0}
  BY RowType DEF Bad, Inside, Laid
<1>2. CASE ~Copies
  <2>2. Base + dst + dstrd * h < WordSize
    BY DEF Modest
  <2>3. Clipped(dst, dstrd, h) \in 0..h
    BY <1>1, <2>2, ClippedFits
  <2>1. Rows = Clipped(dst, dstrd, h)
    BY <1>1, <1>2, <2>3 DEF Rows, Left
  <2> QED BY <1>1, <2>1, <2>2, ClippedMost
<1>3. CASE Copies
  <2> DEFINE n == Clipped(src, sstrd, h)
  <2>5. Base + src + sstrd * h < WordSize /\ Base + dst + dstrd * h < WordSize
    BY <1>3 DEF Modest
  <2>1. Left = Clipped(dst, dstrd, n)
    BY <1>3 DEF Left
  <2>2. n \in 0..h
    BY <1>1, <1>3, <2>5, ClippedFits
  <2>3. n = h \/ src + (n + 1) * sstrd > Size
    BY <1>1, <1>3, <2>5, ClippedMost
  <2> HIDE DEF n
  <2>6. Base + dst + dstrd * n < WordSize
    <3>1. dstrd * n <= dstrd * h /\ dstrd * n \in Nat /\ dstrd * h \in Nat
      BY <1>1, <2>2, Times
    <3> QED BY <1>1, <2>5, <3>1, BlitAssumption
  <2>7. n \in Nat
    BY <1>1, <2>2
  <2>8. Left \in 0..n
    BY <1>1, <2>1, <2>6, <2>7, ClippedFits
  <2>9. Rows = Left
    BY <2>7, <2>8 DEF Rows
  <2>4. Rows = n \/ dst + (Rows + 1) * dstrd > Size
    BY <1>1, <2>1, <2>6, <2>7, <2>9, ClippedMost
  <2> QED BY <1>1, <1>3, <2>3, <2>4
<1> QED BY <1>1, <1>2, <1>3

\* Before the blit every byte is its own.
Fresh == state = "set" => umem = [a \in Memory |-> a]
IInv == TypeOK /\ RowsFit /\ Fresh /\ StaysInside /\ RectangleRight

LEMMA FreshKept ==
  ASSUME TypeOK, Fresh, state = "set"
  PROVE  umem \in Bytes /\ Kept(umem) /\ \A a \in Memory : umem[a] = a
<1>1. umem = [a \in Memory |-> a]
  BY DEF Fresh
<1>2. \A a \in Memory : a \in Int
  BY RowType
<1> QED BY <1>1, <1>2 DEF Bytes, Kept

LEMMA RunInv ==
  ASSUME TypeOK, Fresh, Run
  PROVE  TypeOK' /\ RowsFit' /\ Fresh' /\ StaysInside' /\ RectangleRight'
<1>1. /\ blitter \in Blit /\ blitter' = blitter /\ rows' = Rows /\ state' = "drawn"
      /\ asked' \in BOOLEAN /\ backwards' = backwards /\ umem' = Drawn /\ ~Bad /\ state = "set"
  BY DEF TypeOK, Run, ToScreen
<1>2. Rows \in Nat /\ (Laid /\ Modest => \A k \in 0..(Rows - 1) : RowAt(k))
  BY <1>1, RowsLeft
<1>3. TypeOK'
  BY <1>1, <1>2 DEF TypeOK
<1>4. /\ dst' = dst /\ dstrd' = dstrd /\ src' = src /\ sstrd' = sstrd
      /\ RowBytes' = RowBytes /\ Copies' = Copies /\ Laid' = Laid /\ w' = w /\ h' = h
      /\ bpp' = bpp /\ Modest' = Modest
  BY <1>1 DEF dst, dstrd, src, sstrd, RowBytes, Copies, Laid, Modest, w, bpp, h
<1>5. RowsFit'
  BY <1>1, <1>2, <1>4 DEF RowsFit, RowAt, Fits
<1>6. Fresh'
  BY <1>1 DEF Fresh
<1>7. StaysInside'
  <2> SUFFICES ASSUME Laid, Modest, w > 0 PROVE Kept(umem')
    BY <1>4 DEF StaysInside, Kept
  <2>1. Kept(Drawn)
    BY <1>1, <1>2, FreshKept, DrawnKept
  <2> QED BY <1>1, <2>1
<1>8. RectangleRight'
  <2>1. \A a, k : (InRow(a, k))' = InRow(a, k) /\ (Expected(a, k))' = Expected(a, k)
    BY <1>1, <1>4 DEF InRow, Expected, SourceOf
  <2> SUFFICES ASSUME w > 0, Laid, Modest, LevelRows,
                      Copies => \A i, j \in 0..(Rows - 1) :
                                  Separate(dst + i * dstrd, src + j * sstrd)
               PROVE  /\ Right(Drawn, Rows)
                      /\ Rows < h => \/ dst + (Rows + 1) * dstrd > Size
                                     \/ Copies /\ src + (Rows + 1) * sstrd > Size
    BY <1>1, <1>4, <2>1 DEF RectangleRight, RowOf, Apart, Right, LevelRows, Separate
  <2>2. Right(Drawn, Rows)
    BY <1>1, <1>2, FreshKept, DrawnRight
  <2> QED BY <1>1, <2>2, RowsMost
<1> QED BY <1>3, <1>5, <1>6, <1>7, <1>8

LEMMA StepInv == IInv /\ [Next]_vars => IInv'
<1> SUFFICES ASSUME IInv, [Next]_vars PROVE IInv'
  OBVIOUS
<1>1. CASE Run
  BY <1>1, RunInv DEF IInv
<1>2. CASE BadBlit
  <2>1. TypeOK' /\ state' = "bad"
    BY <1>2 DEF IInv, BadBlit, TypeOK
  <2> QED BY <2>1 DEF IInv, RowsFit, Fresh, StaysInside, RectangleRight
<1>3. CASE UNCHANGED vars
  <2>1. /\ dst' = dst /\ dstrd' = dstrd /\ src' = src /\ sstrd' = sstrd /\ rows' = rows
        /\ RowBytes' = RowBytes /\ Copies' = Copies /\ Laid' = Laid /\ state' = state
        /\ w' = w /\ umem' = umem /\ h' = h /\ bpp' = bpp /\ blitter' = blitter
        /\ Modest' = Modest
    BY <1>3 DEF vars, dst, dstrd, src, sstrd, RowBytes, Copies, Laid, Modest, w, bpp, h
  <2>2. TypeOK'
    BY <1>3 DEF IInv, TypeOK, vars
  <2>3. RowsFit'
    BY <2>1 DEF IInv, RowsFit
  <2>4. Fresh' /\ StaysInside'
    BY <2>1 DEF IInv, Fresh, StaysInside
  <2>5. RectangleRight'
    <3>1. \A a, k : (InRow(a, k))' = InRow(a, k) /\ (Expected(a, k))' = Expected(a, k)
      BY <2>1 DEF InRow, Expected, SourceOf
    <3> QED BY <2>1, <3>1 DEF IInv, RectangleRight, RowOf, Apart
  <2> QED BY <2>2, <2>3, <2>4, <2>5 DEF IInv
<1> QED BY <1>1, <1>2, <1>3 DEF Next

LEMMA InitInv == Init => IInv
<1> SUFFICES ASSUME Init PROVE IInv
  OBVIOUS
<1>1. blitter \in Blit /\ state = "set"
  BY BlitAssumption DEF Init
<1>2. TypeOK
  BY <1>1 DEF Init, TypeOK
<1>3. Fresh
  BY DEF Init, Fresh
<1> QED BY <1>1, <1>2, <1>3 DEF IInv, RowsFit, StaysInside, RectangleRight

LEMMA BlitterInvariant == Spec => []IInv
BY InitInv, StepInv, PTL DEF Spec

\* Types, of which the number of rows that clipping leaves is the part that is
\* not obvious: strides may be negative.
THEOREM TypeCorrect == Spec => []TypeOK
<1>1. IInv => TypeOK
  BY DEF IInv
<1> QED BY <1>1, BlitterInvariant, PTL

\* With rows no longer than their strides, and strides that end before the
\* address space does, the clipping by the number of rows
\* keeps what is read and what is written in upper memory (emu.c:250-265).
THEOREM ClippingSuffices == Spec => []RowsFit
<1>1. IInv => RowsFit
  BY DEF IInv
<1> QED BY <1>1, BlitterInvariant, PTL

\* A blit of such rows changes nothing outside upper memory and shows nothing
\* from there, for copies, also of areas that overlap, in either order, for
\* transparent ones and for fills of any width but none (emu.c:215-302).
THEOREM BlitStaysInside == Spec => []StaysInside
<1>1. IInv => StaysInside
  BY DEF IInv
<1> QED BY <1>1, BlitterInvariant, PTL

\* Where the areas are level and apart, the rectangle holds the source or the
\* colour, what is transparent or outside is left, and no row is left out that
\* would have fitted, whatever the blit (emu.c:215-302).
THEOREM BlitDrawsRectangle == Spec => []RectangleRight
<1>1. IInv => RectangleRight
  BY DEF IInv
<1> QED BY <1>1, BlitterInvariant, PTL
-----------------------------------------------------------------------------
(* The device files (module Devices).                                       *)

\* There is a function that begins with one and doubles.
LEMMA Doubling ==
  ASSUME NEW n \in Nat
  PROVE  \E g \in [0..n -> Nat \ {0}] : g[0] = 1 /\ \A k \in 1..n : g[k] = 2 * g[k - 1]
<1> DEFINE S == Nat \ {0}  F == [k \in 1..n |-> [x \in S |-> 2 * x]]
<1>1. 1 \in S
  OBVIOUS
<1>2. F \in Moves(n, S)
  BY DEF Moves
<1>3. \A k \in 1..n : \A x \in S : F[k][x] = 2 * x
  OBVIOUS
<1>4. \A k \in 1..n : k - 1 \in 0..n
  OBVIOUS
<1> HIDE DEF F
<1>5. PICK g : Iterates(g, n, S, 1, F)
  <2> HIDE DEF S
  <2> QED BY <1>1, <1>2, Recursion
<1>6. g \in [0..n -> S] /\ g[0] = 1 /\ \A k \in 1..n : g[k] = F[k][g[k - 1]]
  BY <1>5 DEF Iterates
<1>7. \A k \in 1..n : g[k] = 2 * g[k - 1]
  BY <1>3, <1>4, <1>6
<1> QED BY <1>6, <1>7

\* Powers of two.
LEMMA Powers ==
  /\ Pow2 \in [0..IntBits -> Nat \ {0}] /\ Pow2[0] = 1
  /\ \A k \in 0..(IntBits - 1) : Pow2[k + 1] = 2 * Pow2[k]
<1>1. IntBits \in Nat
  BY DevicesAssumption DEF IntBits
<1> DEFINE S == Nat \ {0}
           G(f) == [k \in 0..IntBits |-> IF k = 0 THEN 1 ELSE 2 * f[k - 1]]
           P == {k \in 0..IntBits : Pow2[k] \in S}
<1>2. PICK g \in [0..IntBits -> S] : g[0] = 1 /\ \A k \in 1..IntBits : g[k] = 2 * g[k - 1]
  BY <1>1, Doubling
<1>3. g = G(g)
  BY <1>1, <1>2
<1>4. Pow2 = CHOOSE f : f = G(f)
  BY DEF Pow2
<1>5. Pow2 = G(Pow2)
  <2> HIDE DEF G
  <2> QED BY <1>3, <1>4
<1>6. /\ Pow2 = [k \in 0..IntBits |-> Pow2[k]] /\ Pow2[0] = 1
      /\ \A k \in 0..(IntBits - 1) : Pow2[k + 1] = 2 * Pow2[k]
  <2>1. \A k \in 0..IntBits : Pow2[k] = IF k = 0 THEN 1 ELSE 2 * Pow2[k - 1]
    <3> DEFINE p == Pow2
    <3>1. p = [k \in 0..IntBits |-> IF k = 0 THEN 1 ELSE 2 * p[k - 1]]
      BY <1>5
    <3> HIDE DEF p
    <3>2. \A k \in 0..IntBits : p[k] = IF k = 0 THEN 1 ELSE 2 * p[k - 1]
      BY ONLY <3>1
    <3> QED BY <3>2 DEF p
  <2>2. Pow2 = [k \in 0..IntBits |-> Pow2[k]]
    BY <1>5
  <2>3. 0 \in 0..IntBits /\ \A k \in 0..(IntBits - 1) : k + 1 \in 0..IntBits /\ k + 1 # 0 /\ (k + 1) - 1 = k
    BY <1>1
  <2> HIDE DEF G
  <2>4. \A k \in 0..(IntBits - 1) : Pow2[k + 1] = 2 * Pow2[k]
    BY ONLY <2>1, <2>3
  <2>5. Pow2[0] = 1
    BY ONLY <2>1, <2>3
  <2> QED BY <2>2, <2>4, <2>5
<1>7. 0 \in P /\ \A k \in 0..(IntBits - 1) : k \in P => k + 1 \in P
  BY <1>1, <1>6
<1>8. \A k \in 0..IntBits : k \in P
  <2> HIDE DEF P
  <2> QED BY ONLY <1>1, <1>7, Induction
<1> QED BY <1>6, <1>8

\* The power of a sum is the product of the powers.
LEMMA PowerSum ==
  ASSUME NEW a \in Nat, NEW b \in Nat, a + b <= IntBits
  PROVE  /\ Pow2[a + b] = Pow2[a] * Pow2[b]
         /\ Pow2[a] \in Nat \ {0} /\ Pow2[b] \in Nat \ {0} /\ Pow2[a + b] \in Nat \ {0}
<1>1. IntBits \in Nat
  BY DevicesAssumption DEF IntBits
<1> DEFINE n == IntBits - a
           P == {k \in 0..n : Pow2[a + k] = Pow2[a] * Pow2[k]}
<1>2. n \in Nat /\ b \in 0..n /\ \A k \in 0..n : k \in 0..IntBits /\ a + k \in 0..IntBits
  BY <1>1
<1>3. \A k \in 0..IntBits : Pow2[k] \in Nat \ {0}
  BY Powers
<1>4. 0 \in P
  BY <1>2, <1>3, Powers
<1>5. ASSUME NEW k \in 0..(n - 1), k \in P PROVE k + 1 \in P
  <2>1. /\ k \in 0..(IntBits - 1) /\ a + k \in 0..(IntBits - 1) /\ (a + k) + 1 = a + (k + 1)
        /\ k + 1 \in 0..n
    BY <1>1, <1>2
  <2>2. Pow2[k + 1] = 2 * Pow2[k] /\ Pow2[(a + k) + 1] = 2 * Pow2[a + k]
    BY <2>1, Powers
  <2>3. Pow2[k] \in Nat /\ Pow2[a] \in Nat /\ Pow2[a + k] = Pow2[a] * Pow2[k]
    BY <1>2, <1>3, <1>5
  <2>4. ASSUME NEW x \in Nat, NEW y \in Nat PROVE 2 * (x * y) = x * (2 * y)
    OBVIOUS
  <2>5. Pow2[a + (k + 1)] = Pow2[a] * Pow2[k + 1]
    BY <2>1, <2>2, <2>3, <2>4
  <2> QED BY <2>1, <2>5
<1>6. \A k \in 0..n : k \in P
  <2> HIDE DEF P
  <2> QED BY ONLY <1>2, <1>4, <1>5, Induction
<1>7. a \in 0..IntBits /\ b \in 0..IntBits /\ a + b \in 0..IntBits
  BY <1>1
<1> QED BY <1>2, <1>3, <1>6, <1>7

\* A multiple of a number that is less than it, on either side, is zero.
LEMMA SmallMultiple ==
  ASSUME NEW d \in Nat \ {0}, NEW q \in Int, 0 - d < d * q, d * q < d
  PROVE  q = 0
<1>1. CASE q >= 1
  <2>1. PICK r \in Nat : q = 1 + r
    <3>1. q - 1 \in Nat /\ q = 1 + (q - 1)
      BY <1>1
    <3> QED BY <3>1
  <2>2. d * q = d + d * r /\ d * r \in Nat
    BY <2>1
  <2> QED BY <2>2
<1>2. CASE q <= -1
  <2>1. PICK r \in Nat : q = -1 - r
    <3>1. -1 - q \in Nat /\ q = -1 - (-1 - q)
      BY <1>2
    <3> QED BY <3>1
  <2>2. d * q = (0 - d) - d * r /\ d * r \in Nat
    BY <2>1
  <2> QED BY <2>2
<1> QED BY <1>1, <1>2

\* What a shift of a count gives, if it is no more than the most bytes can be,
\* is the true number.
LEMMA ShiftTrue ==
  ASSUME NEW n \in (0 - Pow2[HalfBits - 1])..(Pow2[HalfBits - 1] - 1),
         NEW s \in 0..(IntBits - 1), Signed(n * Pow2[s]) \in 1..Pow2[HalfBits - 1]
  PROVE  Signed(n * Pow2[s]) = n * Pow2[s]
<1> DEFINE H == HalfBits
           W == Pow2[IntBits]
           m == Pow2[H - 1]
           p == Pow2[s]
           v == n * p
           b == Signed(v)
<1>1. /\ H \in Nat \ {0} /\ IntBits = 2 * H /\ H - 1 \in Nat /\ s \in Nat
      /\ IntBits \in Nat \ {0}
  BY DevicesAssumption DEF IntBits
<1>2. /\ Pow2[(H - 1) + (H - 1)] = m * m /\ m \in Nat \ {0}
      /\ Pow2[((H - 1) + (H - 1)) + 2] = Pow2[(H - 1) + (H - 1)] * Pow2[2]
      /\ ((H - 1) + (H - 1)) + 2 = IntBits /\ W \in Nat \ {0}
  <2>1. (H - 1) + (H - 1) \in Nat /\ (H - 1) + (H - 1) <= IntBits
        /\ ((H - 1) + (H - 1)) + 2 = IntBits
    BY <1>1
  <2> QED BY <1>1, <2>1, PowerSum
<1>3. Pow2[2] = 4 /\ Pow2[1] = 2
  <2>1. 0 \in 0..(IntBits - 1) /\ 1 \in 0..(IntBits - 1)
    BY <1>1
  <2> QED BY <2>1, Powers
<1>4. W = 4 * (m * m) /\ m * m \in Nat
  <2>1. W = Pow2[(H - 1) + (H - 1)] * Pow2[2]
    BY <1>2
  <2> HIDE DEF m, W
  <2>2. W = (m * m) * 4
    BY <1>2, <1>3, <2>1
  <2> QED BY <1>2, <2>2
<1>5. p \in Nat \ {0} /\ n \in Int /\ v \in Int
  <2>1. p \in Nat \ {0}
    BY <1>1, Powers
  <2>2. n \in Int
    BY <1>2
  <2> HIDE DEF p
  <2> QED BY <2>1, <2>2
<1>6. PICK q \in Int : v = W * q + b
  <2> DEFINE u == v % W
  <2>1. u \in 0..(W - 1) /\ v \div W \in Int /\ v = W * (v \div W) + u
    <3> HIDE DEF v, W
    <3> QED BY <1>2, <1>5, Remainder
  <2>2. PICK r \in Int : v = W * r + u
    <3> HIDE DEF v, W, u
    <3> QED BY <2>1
  <2>3. b = u \/ b = u - W
    BY DEF Signed
  <2> HIDE DEF u, v, W, b
  <2>4. CASE b = u
    BY <2>2, <2>4
  <2>5. CASE b = u - W
    <3>1. W * (r + 1) = W * r + W
      BY <1>2
    <3>2. r + 1 \in Int /\ v = W * (r + 1) + b
      BY <2>1, <2>2, <2>5, <3>1, <1>2
    <3> QED BY <3>2
  <2> QED BY <2>3, <2>4, <2>5
<1>7. b \in 1..m
  OBVIOUS
<1>8. CASE s <= H - 1
  <2>1. p <= m
    <3>1. (H - 1) - s \in Nat /\ s + ((H - 1) - s) = H - 1 /\ s + ((H - 1) - s) <= IntBits
      BY <1>1, <1>8
    <3>2. m = p * Pow2[(H - 1) - s] /\ Pow2[(H - 1) - s] \in Nat \ {0}
      BY <1>1, <3>1, PowerSum
    <3> DEFINE t == Pow2[(H - 1) - s]
    <3> HIDE DEF t, m, p
    <3>3. PICK k \in Nat : t = 1 + k
      <4>1. t - 1 \in Nat /\ t = 1 + (t - 1)
        BY <3>2 DEF t
      <4> QED BY <4>1
    <3>4. p * t = p + p * k /\ p * k \in Nat
      BY <1>5, <3>3
    <3> QED BY <1>2, <1>5, <3>2, <3>4 DEF t
  <2>2. 0 - m * m <= v /\ v <= m * m
    <3>1. n \in (0 - m)..m /\ p \in 0..m
      BY <1>2, <1>5, <2>1
    <3> HIDE DEF m, p
    <3>2. ASSUME NEW x \in Nat, x <= m PROVE x * p <= m * m /\ x * p \in Nat
      <4>1. p \in Nat /\ m \in Nat
        BY <1>2, <1>5
      <4>2. x * p <= x * m /\ x * p \in Nat
        BY <4>1, <2>1, Times
      <4>3. m * x <= m * m /\ m * x = x * m
        BY <4>1, <3>2, Times
      <4>4. x * m \in Nat /\ m * m \in Nat
        BY <4>1
      <4> QED BY <4>2, <4>3, <4>4
    <3>3. CASE n >= 0
      <4>1. n \in Nat /\ n <= m
        BY <3>1, <3>3, <1>2
      <4> QED BY <3>2, <4>1, <1>4
    <3>4. CASE n < 0
      <4>1. 0 - n \in Nat /\ 0 - n <= m
        BY <3>1, <3>4, <1>2
      <4>2. (0 - n) * p <= m * m /\ (0 - n) * p \in Nat
        BY <3>2, <4>1
      <4>3. n * p = 0 - (0 - n) * p
        BY <1>5
      <4> HIDE DEF v
      <4>4. v = 0 - (0 - n) * p
        BY <4>3 DEF v
      <4> QED BY <4>2, <4>4, <1>4
    <3> QED BY <3>3, <3>4, <1>5
  <2>3. b \in 1..(m * m)
    <3>1. m * 1 <= m * m
      <4> HIDE DEF m
      <4> QED BY <1>2, Times
    <3> HIDE DEF b, m
    <3> QED BY <1>2, <1>4, <1>7, <3>1
  <2>4. q = 0
    <3> DEFINE M == m * m  d == W * q
    <3>1. M \in Nat /\ W = 4 * M /\ v \in (0 - M)..M /\ b \in 1..M /\ v = d + b /\ d \in Int
      <4>1. d \in Int
        <5> HIDE DEF W
        <5> QED BY <1>2
      <4> HIDE DEF v, b, W
      <4> QED BY <1>4, <1>5, <1>6, <2>2, <2>3, <4>1
    <3>2. 0 - W < d /\ d < W
      <4> HIDE DEF v, b, W, M, d
      <4> QED BY <3>1
    <3> HIDE DEF W
    <3> QED BY <1>2, <3>2, SmallMultiple
  <2>5. W * q = 0
    <3> HIDE DEF W
    <3> QED BY <1>2, <2>4
  <2> HIDE DEF v, b, W
  <2>6. v = b
    BY <1>5, <1>6, <1>7, <1>2, <2>5
  <2> QED BY <2>6 DEF v, b
<1>9. CASE s >= H
  <2> DEFINE hp == Pow2[H]  t == Pow2[s - H]
  <2>1. p = hp * t /\ W = hp * hp /\ hp = 2 * m /\ hp \in Nat \ {0} /\ t \in Nat
    <3>1. s - H \in Nat /\ H + (s - H) = s /\ s <= IntBits /\ H + H = IntBits
      BY <1>1, <1>9
    <3>2. p = hp * t /\ hp \in Nat \ {0} /\ t \in Nat
      BY <1>1, <3>1, PowerSum
    <3>3. W = hp * hp
      BY <1>1, <3>1, PowerSum
    <3>4. H - 1 \in 0..(IntBits - 1) /\ (H - 1) + 1 = H
      BY <1>1
    <3>5. hp = 2 * m
      BY <3>4, Powers
    <3> QED BY <3>2, <3>3, <3>5
  <2> DEFINE r == n * t - hp * q
  <2>2. r \in Int /\ b = hp * r
    <3> HIDE DEF hp, t, p, W, b
    <3>1. n * p = hp * (n * t) /\ W * q = hp * (hp * q) /\ n * t \in Int /\ hp * q \in Int
      BY <1>5, <2>1
    <3>2. hp * (n * t - hp * q) = hp * (n * t) - hp * (hp * q)
      BY <2>1, <3>1
    <3> QED BY <1>6, <3>1, <3>2, <2>1, <1>7, <1>2
  <2>3. 0 - hp < hp * r /\ hp * r < hp /\ hp * r # 0
    <3> HIDE DEF hp, r, b, m
    <3> QED BY <1>2, <1>7, <2>1, <2>2
  <2>4. r = 0
    <3> HIDE DEF hp, r
    <3> QED BY <2>1, <2>2, <2>3, SmallMultiple
  <2> HIDE DEF hp, r
  <2> QED BY <2>1, <2>3, <2>4
<1> QED BY <1>1, <1>8, <1>9
-----------------------------------------------------------------------------
(* The invariant.  The sound device's number is the one that is remembered; *)
(* what is mapped of files lies apart; and of each coordinate of the pen,   *)
(* what has been read and what can be read add up to its value, or, while   *)
(* the host still has to tell of it, to the one before.                     *)

FilesInv ==
  /\ files \in [0..(Limit - 1) -> {"closed", "file", "dsp"}]
  /\ opened \subseteq Names /\ snd \in -1..(Limit - 1) /\ uses \in Uses
  /\ freed \subseteq 0..(Limit - 1)
  /\ \A f \in DOMAIN files : files[f] = "dsp" => f = snd
  /\ snd = -1 \/ files[snd] = "dsp" \/ snd \in freed

FragInv == frag \in Settings \cup {None, Forced, Default} /\ StrangeCaught

Calls == SoundCalls \cup {"read", "ioctl", "close"}
AnswerInv ==
  /\ answer.call \in Calls /\ answer.of \in Names \cup {"file", "dsp"}
  /\ answer.by \in Names \cup {"kernel", "error", "sound"}
  /\ RightAnswer

OfFile(r) == r.first \notin Umem
MemoryInv ==
  /\ Umem \subseteq mapped /\ mapped \subseteq Pages
  /\ regions \subseteq [first : Pages, last : Pages]
  /\ \A r \in regions : r.first <= r.last
  /\ \A r \in regions : OfFile(r) => PagesOf(r) \subseteq mapped \ Umem
  /\ \A r, q \in regions :
       OfFile(r) /\ OfFile(q) /\ r # q => PagesOf(r) \cap PagesOf(q) = {}

Coordinates == {"x", "y", "p"}
Pen == [x : Nat, y : Nat, p : {0, 1}]
Raw == [x : Nat, y : Nat, p : Nat]
Events == Coordinates \X Nat
Told(c) == \E i \in DOMAIN report : report[i][1] = c    \* the host still has to tell of c
PenInv ==
  /\ pen \in Pen /\ before \in Pen /\ raw \in Raw /\ still \subseteq Coordinates
  /\ queue \in Seq(Events) /\ Len(queue) <= Backlog
  /\ report \in Seq(Events) /\ Len(report) <= 3
  /\ \A i \in DOMAIN report : report[i][2] = Shown(pen)[report[i][1]]
  /\ \A i, j \in DOMAIN report : report[i][1] = report[j][1] => i = j
  /\ \A c \in Coordinates : Latest(c, raw, queue) = IF Told(c) THEN before[c] ELSE Shown(pen)[c]

TouchInv ==
  /\ touch \in [pressure : Pressures, x : Word, y : Word]
  /\ TouchTrue

DevicesInv == FilesInv /\ FragInv /\ AnswerInv /\ MemoryInv /\ PenInv /\ TouchInv

\* The tail of a list, a part of one, and two put together.
LEMMA Lists ==
  ASSUME NEW S, NEW s \in Seq(S)
  PROVE  /\ \A k \in DOMAIN s : s[k] \in S
         /\ DOMAIN s = 1..Len(s) /\ Len(s) \in Nat
         /\ s # <<>> => /\ Tail(s) \in Seq(S) /\ Len(Tail(s)) = Len(s) - 1 /\ Len(s) >= 1
                        /\ Head(s) = s[1] /\ \A k \in DOMAIN Tail(s) : Tail(s)[k] = s[k + 1]
         /\ \A e \in S : /\ Append(s, e) \in Seq(S) /\ Len(Append(s, e)) = Len(s) + 1
                         /\ Append(s, e)[Len(s) + 1] = e
                         /\ \A k \in DOMAIN s : Append(s, e)[k] = s[k]
  OBVIOUS

LEMMA Parts ==
  ASSUME NEW S, NEW s \in Seq(S), NEW n \in 0..Len(s)
  PROVE  /\ SubSeq(s, 1, n) \in Seq(S) /\ Len(SubSeq(s, 1, n)) = n
         /\ \A k \in 1..n : SubSeq(s, 1, n)[k] = s[k]
         /\ SubSeq(s, n + 1, Len(s)) \in Seq(S) /\ Len(SubSeq(s, n + 1, Len(s))) = Len(s) - n
         /\ \A k \in 1..(Len(s) - n) : SubSeq(s, n + 1, Len(s))[k] = s[n + k]
<1>1. \A k \in 1..Len(s) : s[k] \in S
  OBVIOUS
<1>2. Len(s) \in Nat /\ Len(s) - n \in Nat
  OBVIOUS
<1>3. SubSeq(s, 1, n) = [k \in 1..n |-> s[k]]
  BY <1>2
<1>4. SubSeq(s, n + 1, Len(s)) = [k \in 1..(Len(s) - n) |-> s[n + k]]
  BY <1>2
<1>5. SubSeq(s, 1, n) \in Seq(S) /\ Len(SubSeq(s, 1, n)) = n
  BY <1>1, <1>2, <1>3
<1>6. SubSeq(s, n + 1, Len(s)) \in Seq(S) /\ Len(SubSeq(s, n + 1, Len(s))) = Len(s) - n
  BY <1>1, <1>2, <1>4
<1> QED BY <1>3, <1>4, <1>5, <1>6

\* A set of places has a last one.
LEMMA GreatestOf ==
  ASSUME NEW n \in Nat, NEW S \in SUBSET (1..n), S # {}
  PROVE  \E x \in S : \A y \in S : y <= x
<1> DEFINE T == {n - x : x \in S}
<1>1. T \in SUBSET Nat /\ T # {}
  <2>1. \A x \in S : n - x \in Nat
    OBVIOUS
  <2> QED BY <2>1
<1>2. PICK t \in T : \A u \in T : t <= u
  BY <1>1, LeastOf
<1>3. PICK x \in S : t = n - x
  BY <1>2
<1>4. \A y \in S : t <= n - y
  BY <1>2
<1>5. \A y \in S : y <= x
  BY <1>3, <1>4
<1> QED BY <1>5

\* Latest: the value of the last event of a coordinate, or what it was before.
Last(c, events, i) ==
  i \in DOMAIN events /\ events[i][1] = c /\ \A k \in DOMAIN events : events[k][1] = c => k <= i

Without(c, events) == \A i \in DOMAIN events : events[i][1] # c

LEMMA LatestIs ==
  ASSUME NEW S, NEW s \in Seq(S), NEW c, NEW old
  PROVE  /\ Without(c, s) => Latest(c, old, s) = old[c]
         /\ \A i : Last(c, s, i) => Latest(c, old, s) = s[i][2]
         /\ Without(c, s) \/ \E i : Last(c, s, i)
<1> DEFINE of == {i \in DOMAIN s : s[i][1] = c}
           last == CHOOSE i \in of : \A k \in of : k <= i
<1>1. Latest(c, old, s) = IF of = {} THEN old[c] ELSE s[last][2]
  BY DEF Latest
<1>2. of \in SUBSET (1..Len(s)) /\ Len(s) \in Nat
  OBVIOUS
<1>3. ASSUME of # {} PROVE Last(c, s, last)
  <2>1. \E i \in of : \A k \in of : k <= i
    <3> HIDE DEF of
    <3> QED BY <1>2, <1>3, GreatestOf
  <2>2. last \in of /\ \A k \in of : k <= last
    <3> HIDE DEF of
    <3> QED BY <2>1
  <2> HIDE DEF last
  <2> QED BY <2>2 DEF Last
<1>4. ASSUME NEW i, Last(c, s, i) PROVE of # {} /\ i = last
  <2>1. i \in of /\ of # {} /\ \A k \in of : k <= i
    BY <1>4 DEF Last
  <2>2. last \in of /\ i <= last
    BY <1>3, <2>1, <1>4 DEF Last
  <2>3. last <= i
    BY <2>1, <2>2
  <2> HIDE DEF last, of
  <2> QED BY <1>2, <2>1, <2>2, <2>3
<1>5. Without(c, s) <=> of = {}
  BY DEF Without
<1> HIDE DEF last, of
<1> QED BY <1>1, <1>3, <1>4, <1>5

LEMMA LatestWithout ==
  ASSUME NEW S, NEW s \in Seq(S), NEW c, NEW old, Without(c, s)
  PROVE  Latest(c, old, s) = old[c]
  BY LatestIs

LEMMA LatestLast ==
  ASSUME NEW S, NEW s \in Seq(S), NEW c, NEW old, NEW i, Last(c, s, i)
  PROVE  Latest(c, old, s) = s[i][2]
  BY LatestIs

\* One more event decides on its own coordinate, and on no other.
LEMMA LatestAppend ==
  ASSUME NEW S, NEW s \in Seq(S), NEW e \in S, NEW c, NEW old
  PROVE  Latest(c, old, Append(s, e)) = IF e[1] = c THEN e[2] ELSE Latest(c, old, s)
<1> DEFINE t == Append(s, e)
<1>1. /\ t \in Seq(S) /\ DOMAIN t = 1..(Len(s) + 1) /\ t[Len(s) + 1] = e /\ Len(s) \in Nat
      /\ DOMAIN s = 1..Len(s) /\ \A k \in DOMAIN s : t[k] = s[k]
  BY Lists
<1> HIDE DEF t
<1>2. CASE e[1] = c
  <2>1. Last(c, t, Len(s) + 1)
    BY <1>1, <1>2 DEF Last
  <2>2. Latest(c, old, t) = t[Len(s) + 1][2]
    BY <1>1, <2>1, LatestLast
  <2> QED BY <1>1, <1>2, <2>2 DEF t
<1>3. CASE e[1] # c
  <2>1. ASSUME Without(c, s) PROVE Latest(c, old, t) = Latest(c, old, s)
    <3>1. Without(c, t)
      BY <1>1, <1>3, <2>1 DEF Without
    <3>2. t \in Seq(S)
      BY <1>1
    <3>3. Latest(c, old, t) = old[c]
      BY <3>1, <3>2, LatestWithout
    <3>4. Latest(c, old, s) = old[c]
      BY <2>1, LatestWithout
    <3> QED BY <3>3, <3>4
  <2>2. ASSUME NEW i, Last(c, s, i) PROVE Latest(c, old, t) = Latest(c, old, s)
    <3>1. Last(c, t, i) /\ t[i] = s[i]
      BY <1>1, <1>3, <2>2 DEF Last
    <3>2. Latest(c, old, t) = t[i][2] /\ Latest(c, old, s) = s[i][2]
      BY <1>1, <2>2, <3>1, LatestLast
    <3> QED BY <3>1, <3>2
  <2>3. Latest(c, old, t) = Latest(c, old, s)
    BY <2>1, <2>2, LatestIs, Zenon
  <2> QED BY <1>3, <2>3 DEF t
<1> QED BY <1>2, <1>3

\* Reading a part of the events and then the rest is reading them all.
LEMMA LatestSplit ==
  ASSUME NEW S, NEW s \in Seq(S), NEW n \in 0..Len(s), NEW c, NEW old, NEW now,
         now[c] = Latest(c, old, SubSeq(s, 1, n))
  PROVE  Latest(c, now, SubSeq(s, n + 1, Len(s))) = Latest(c, old, s)
<1> DEFINE t == SubSeq(s, 1, n)  u == SubSeq(s, n + 1, Len(s))
<1>1. /\ t \in Seq(S) /\ Len(t) = n /\ u \in Seq(S) /\ Len(u) = Len(s) - n
      /\ \A k \in 1..n : t[k] = s[k]
      /\ \A k \in 1..(Len(s) - n) : u[k] = s[n + k]
  BY Parts
<1> HIDE DEF t, u
<1>0. t \in Seq(S) /\ u \in Seq(S)
  BY <1>1
<1>2. DOMAIN s = 1..Len(s) /\ Len(s) \in Nat /\ DOMAIN t = 1..n /\ DOMAIN u = 1..(Len(s) - n)
  BY <1>1
<1>3. ASSUME NEW i, Last(c, u, i) PROVE Latest(c, now, u) = Latest(c, old, s)
  <2>1. i \in 1..(Len(s) - n) /\ n + i \in 1..Len(s) /\ u[i] = s[n + i]
    BY <1>1, <1>2, <1>3 DEF Last
  <2>2. ASSUME NEW k \in DOMAIN s, s[k][1] = c PROVE k <= n + i
    <3>1. CASE k > n
      <4>1. k - n \in DOMAIN u /\ u[k - n] = s[k]
        <5>1. k - n \in 1..(Len(s) - n) /\ n + (k - n) = k
          BY <1>2, <3>1
        <5> QED BY <1>1, <1>2, <5>1
      <4>2. k - n <= i
        BY <1>3, <2>2, <4>1 DEF Last
      <4> QED BY <1>2, <2>1, <4>2
    <3> QED BY <1>2, <2>1, <3>1
  <2>3. Last(c, s, n + i)
    BY <1>2, <1>3, <2>1, <2>2 DEF Last
  <2>4. Latest(c, now, u) = u[i][2] /\ Latest(c, old, s) = s[n + i][2]
    BY <1>1, <1>3, <2>3, LatestLast
  <2> QED BY <2>1, <2>4
<1>4. ASSUME Without(c, u) PROVE Latest(c, now, u) = Latest(c, old, s)
  <2>1. \A k \in DOMAIN s : s[k][1] = c => k <= n
    <3> SUFFICES ASSUME NEW k \in DOMAIN s, s[k][1] = c, k > n PROVE FALSE
      BY <1>2
    <3>1. k - n \in 1..(Len(s) - n) /\ n + (k - n) = k
      BY <1>2
    <3> QED BY <1>1, <1>2, <1>4, <3>1 DEF Without
  <2>2. ASSUME NEW i, Last(c, t, i) PROVE Latest(c, old, t) = Latest(c, old, s)
    <3>1. i \in 1..n /\ i \in DOMAIN s /\ t[i] = s[i]
      BY <1>1, <1>2, <2>2 DEF Last
    <3>2. \A k \in DOMAIN s : s[k][1] = c => k \in DOMAIN t /\ t[k] = s[k]
      BY <1>1, <1>2, <2>1
    <3>3. Last(c, s, i)
      BY <2>2, <3>1, <3>2 DEF Last
    <3>4. Latest(c, old, t) = t[i][2] /\ Latest(c, old, s) = s[i][2]
      BY <1>0, <2>2, <3>3, LatestLast
    <3> QED BY <3>1, <3>4
  <2>3. ASSUME Without(c, t) PROVE Latest(c, old, t) = Latest(c, old, s)
    <3>1. Without(c, s)
      BY <1>1, <1>2, <2>1, <2>3 DEF Without
    <3>2. Latest(c, old, t) = old[c]
      BY <1>0, <2>3, LatestWithout
    <3>3. Latest(c, old, s) = old[c]
      BY <3>1, LatestWithout
    <3> QED BY <3>2, <3>3
  <2>4. Latest(c, old, t) = Latest(c, old, s)
    BY <1>0, <2>2, <2>3, LatestIs
  <2>5. Latest(c, now, u) = now[c]
    BY <1>0, <1>4, LatestWithout
  <2> QED BY <2>4, <2>5 DEF t
<1>5. Latest(c, now, u) = Latest(c, old, s)
  BY <1>0, <1>3, <1>4, LatestIs
<1> QED BY <1>5 DEF u

\* Two lists of events, of different coordinates, put together.
Tells(s, C, to) ==
  /\ s \in Seq(Events) /\ \A k \in DOMAIN s : s[k][1] \in C /\ s[k][2] = to[s[k][1]]
  /\ \A c \in C : \E k \in DOMAIN s : s[k][1] = c
  /\ \A i, j \in DOMAIN s : s[i][1] = s[j][1] => i = j

LEMMA Together ==
  ASSUME NEW s, NEW t, NEW C, NEW D, NEW to, Tells(s, C, to), Tells(t, D, to), C \cap D = {}
  PROVE  Tells(s \o t, C \cup D, to) /\ Len(s \o t) = Len(s) + Len(t)
<1> DEFINE r == s \o t
<1>1. s \in Seq(Events) /\ t \in Seq(Events)
  BY DEF Tells
<1>2. /\ r \in Seq(Events) /\ Len(r) = Len(s) + Len(t) /\ Len(s) \in Nat /\ Len(t) \in Nat
      /\ \A k \in 1..Len(s) : r[k] = s[k]
      /\ \A k \in 1..Len(t) : r[Len(s) + k] = t[k]
  BY <1>1
<1> HIDE DEF r
<1>3. DOMAIN s = 1..Len(s) /\ DOMAIN t = 1..Len(t) /\ DOMAIN r = 1..(Len(s) + Len(t))
  BY <1>1, <1>2
<1>4. \A k \in DOMAIN r : \/ k \in DOMAIN s
                          \/ k - Len(s) \in DOMAIN t /\ Len(s) + (k - Len(s)) = k
  BY <1>2, <1>3
<1>5. ASSUME NEW k \in DOMAIN r
      PROVE  \/ k \in DOMAIN s /\ r[k] = s[k] /\ r[k][1] \in C
             \/ k - Len(s) \in DOMAIN t /\ r[k] = t[k - Len(s)] /\ r[k][1] \in D
  <2>1. CASE k \in DOMAIN s
    BY <2>1, <1>2, <1>3 DEF Tells
  <2>2. CASE k - Len(s) \in DOMAIN t /\ Len(s) + (k - Len(s)) = k
    BY <2>2, <1>2, <1>3 DEF Tells
  <2> QED BY <1>4, <2>1, <2>2
<1>6. ASSUME NEW k \in DOMAIN r PROVE r[k][1] \in C \cup D /\ r[k][2] = to[r[k][1]]
  BY <1>5 DEF Tells
<1>7. ASSUME NEW c \in C \cup D PROVE \E k \in DOMAIN r : r[k][1] = c
  <2>1. CASE c \in C
    <3>1. PICK k \in DOMAIN s : s[k][1] = c
      BY <2>1 DEF Tells
    <3> QED BY <3>1, <1>2, <1>3
  <2>2. CASE c \in D
    <3>1. PICK k \in DOMAIN t : t[k][1] = c
      BY <2>2 DEF Tells
    <3>2. Len(s) + k \in DOMAIN r /\ r[Len(s) + k] = t[k]
      BY <3>1, <1>2, <1>3
    <3> QED BY <3>1, <3>2
  <2> QED BY <2>1, <2>2
<1>8. ASSUME NEW i \in DOMAIN r, NEW j \in DOMAIN r, r[i][1] = r[j][1] PROVE i = j
  <2>1. CASE i \in DOMAIN s /\ j \in DOMAIN s
    BY <2>1, <1>2, <1>3, <1>8 DEF Tells
  <2>2. CASE i - Len(s) \in DOMAIN t /\ j - Len(s) \in DOMAIN t
    <3>1. r[i] = t[i - Len(s)] /\ r[j] = t[j - Len(s)]
      <4>1. Len(s) + (i - Len(s)) = i /\ Len(s) + (j - Len(s)) = j
        BY <1>2, <1>3
      <4> QED BY <2>2, <4>1, <1>2, <1>3
    <3>2. i - Len(s) = j - Len(s)
      BY <2>2, <3>1, <1>8 DEF Tells
    <3> QED BY <3>2, <1>2, <1>3
  <2> QED BY <1>5, <1>8, <2>1, <2>2
<1>9. Tells(r, C \cup D, to)
  BY <1>2, <1>6, <1>7, <1>8 DEF Tells
<1> QED BY <1>2, <1>9 DEF r

\* Changes: one event of each coordinate that differs, and of no other.
LEMMA ChangeTells ==
  ASSUME NEW from, NEW to, NEW c \in Coordinates, to[c] \in Nat
  PROVE  /\ Tells(Change(c, from, to), {d \in {c} : from[d] # to[d]}, to)
         /\ Len(Change(c, from, to)) <= 1 /\ Len(Change(c, from, to)) \in Nat
<1> DEFINE s == Change(c, from, to)  C == {d \in {c} : from[d] # to[d]}
<1>1. CASE from[c] = to[c]
  <2>1. s = <<>> /\ C = {}
    BY <1>1 DEF Change
  <2>2. Tells(<<>>, {}, to) /\ Len(<<>>) = 0
    BY DEF Tells
  <2>3. Tells(s, C, to) /\ Len(s) <= 1 /\ Len(s) \in Nat
    <3> HIDE DEF s, C
    <3> QED BY <2>1, <2>2
  <2> QED BY <2>3
<1>2. CASE from[c] # to[c]
  <2> DEFINE e == <<c, to[c]>>
  <2>1. s = <<e>> /\ C = {c}
    BY <1>2 DEF Change
  <2>2. e \in Events /\ e[1] = c /\ e[2] = to[c]
    BY DEF Events
  <2> HIDE DEF e
  <2>3. Tells(<<e>>, {c}, to) /\ Len(<<e>>) = 1
    BY <2>2 DEF Tells
  <2>4. Tells(s, C, to) /\ Len(s) <= 1 /\ Len(s) \in Nat
    <3> HIDE DEF s, C
    <3> QED BY <2>1, <2>3
  <2> QED BY <2>4
<1> QED BY <1>1, <1>2

LEMMA ChangesTell ==
  ASSUME NEW from \in Pen, NEW to \in Pen
  PROVE  /\ Tells(Changes(from, to), {c \in Coordinates : from[c] # to[c]}, to)
         /\ Len(Changes(from, to)) <= 3
<1> DEFINE C(c) == {d \in {c} : from[d] # to[d]}
           x == Change("x", from, to)  y == Change("y", from, to)  p == Change("p", from, to)
<1>1. /\ "x" \in Coordinates /\ "y" \in Coordinates /\ "p" \in Coordinates
      /\ to["x"] \in Nat /\ to["y"] \in Nat /\ to["p"] \in Nat
  BY DEF Coordinates, Pen
<1>2. /\ Tells(x, C("x"), to) /\ Len(x) <= 1 /\ Len(x) \in Nat
      /\ Tells(y, C("y"), to) /\ Len(y) <= 1 /\ Len(y) \in Nat
      /\ Tells(p, C("p"), to) /\ Len(p) <= 1 /\ Len(p) \in Nat
  BY <1>1, ChangeTells
<1>3. /\ C("x") \cap C("y") = {} /\ (C("x") \cup C("y")) \cap C("p") = {}
      /\ {c \in Coordinates : from[c] # to[c]} = (C("x") \cup C("y")) \cup C("p")
  BY DEF Coordinates
<1> HIDE DEF C, x, y, p
<1>4. Tells(x \o y, C("x") \cup C("y"), to) /\ Len(x \o y) = Len(x) + Len(y)
  BY <1>2, <1>3, Together
<1>5. /\ Tells((x \o y) \o p, (C("x") \cup C("y")) \cup C("p"), to)
      /\ Len((x \o y) \o p) = Len(x \o y) + Len(p)
  BY <1>2, <1>3, <1>4, Together
<1>6. Changes(from, to) = (x \o y) \o p
  BY DEF Changes, x, y, p
<1> DEFINE D == {c \in Coordinates : from[c] # to[c]}
<1>7. D = (C("x") \cup C("y")) \cup C("p")
  BY <1>3
<1> HIDE DEF D
<1>8. Tells(Changes(from, to), D, to) /\ Len(Changes(from, to)) <= 3
  BY <1>2, <1>4, <1>5, <1>6, <1>7
<1> QED BY <1>8 DEF D

\* Conversion of a point: what touch can hold, and for a point of the picture
\* the range of the panel.
LEMMA QuotientInt ==
  ASSUME NEW a \in Int, NEW b \in Nat \ {0}
  PROVE  Quotient(a, b) \in Int
<1>1. \A v \in Int : v \div b \in Int
  BY Remainder
<1> QED BY <1>1 DEF Quotient

LEMMA LayerType ==
  /\ Layer.x \in Nat /\ Layer.y \in Nat /\ Layer.w \in Nat \ {0} /\ Layer.h \in Nat \ {0}
<1>1. Layer \in [x : Nat, y : Nat, w : Nat \ {0}, h : Nat \ {0}]
  BY DevicesAssumption
<1> QED BY <1>1

\* The parts of Converted.
AcrossOf(r) == Quotient(OnLayer(r.x, Layer.x, Layer.w) * 3750, 1024)
DownOf(r) == Quotient(OnLayer(r.y, Layer.y, Layer.h) * 3750, 1024)
CutX(n) == (n + 200) % 65536
CutY(n) == ((3750 - n) + 200) % 65536
Scaled == 0..3746
Panel == 200..3950

LEMMA Cut ==
  ASSUME NEW v \in Int
  PROVE  v % 65536 \in Word
  BY DEF Word

LEMMA CutRange ==
  ASSUME NEW n, n \in Int
  PROVE  /\ CutX(n) \in Word /\ CutY(n) \in Word
         /\ n \in Scaled => CutX(n) \in Panel /\ CutY(n) \in Panel
<1>1. CutX(n) \in Word
  <2>1. n + 200 \in Int
    OBVIOUS
  <2> QED BY <2>1, Cut DEF CutX
<1>2. CutY(n) \in Word
  <2>1. (3750 - n) + 200 \in Int
    OBVIOUS
  <2> QED BY <2>1, Cut DEF CutY
<1>3. n \in Scaled => CutX(n) \in Panel
  BY DEF CutX, Panel, Scaled
<1>4. n \in Scaled => CutY(n) \in Panel
  BY DEF CutY, Panel, Scaled
<1> QED BY <1>1, <1>2, <1>3, <1>4

LEMMA ConvertedIs ==
  ASSUME NEW r, r.p # 0
  PROVE  Converted(r) = [pressure |-> 32769, x |-> CutX(AcrossOf(r)), y |-> CutY(DownOf(r))]
  BY DEF Converted, AcrossOf, DownOf, CutX, CutY

LEMMA ConvertedType ==
  ASSUME NEW r, r.x \in Nat, r.y \in Nat, r.p \in Nat
  PROVE  Converted(r) \in [pressure : Pressures, x : Word, y : Word]
<1> DEFINE x == OnLayer(r.x, Layer.x, Layer.w)  y == OnLayer(r.y, Layer.y, Layer.h)
<1>1. x \in Int /\ y \in Int
  <2>1. /\ (r.x - Layer.x) * 1024 \in Int /\ Layer.w \in Nat \ {0}
        /\ (r.y - Layer.y) * 1024 \in Int /\ Layer.h \in Nat \ {0}
    BY LayerType
  <2> QED BY <2>1, QuotientInt DEF OnLayer
<1>2. AcrossOf(r) \in Int /\ DownOf(r) \in Int
  <2>1. Quotient(x * 3750, 1024) \in Int /\ Quotient(y * 3750, 1024) \in Int
    <3> HIDE DEF x, y
    <3>1. x * 3750 \in Int /\ y * 3750 \in Int /\ 1024 \in Nat \ {0}
      BY <1>1
    <3> QED BY <3>1, QuotientInt
  <2> QED BY <2>1 DEF AcrossOf, DownOf
<1>3. CutX(AcrossOf(r)) \in Word /\ CutY(DownOf(r)) \in Word
  BY <1>2, CutRange
<1>4. CASE r.p = 0
  BY <1>4 DEF Converted, Word, Pressures
<1>5. CASE r.p # 0
  <2>1. 32769 \in Pressures
    BY DEF Pressures
  <2> QED BY <1>3, <1>5, <2>1, ConvertedIs
<1> QED BY <1>4, <1>5

LEMMA QuotientRange ==
  ASSUME NEW a \in Nat, NEW n \in Nat \ {0}, a < n * 1024
  PROVE  a \div n \in 0..1023
<1> DEFINE q == a \div n
<1>1. q \in Int /\ a = n * q + (a % n) /\ a % n \in 0..(n - 1)
  BY Remainder
<1> HIDE DEF q
<1>2. q >= 0
  <2> SUFFICES ASSUME q < 0 PROVE FALSE
    BY <1>1
  <2>1. PICK k \in Nat : q = (-1) - k
    <3>1. (-1) - q \in Nat /\ q = (-1) - ((-1) - q)
      BY <1>1
    <3> QED BY <3>1
  <2>2. n * q = (0 - n) - n * k /\ n * k \in Nat
    BY <2>1
  <2> QED BY <1>1, <2>2
<1>3. q <= 1023
  <2> SUFFICES ASSUME q >= 1024 PROVE FALSE
    BY <1>1
  <2>1. PICK k \in Nat : q = 1024 + k
    <3>1. q - 1024 \in Nat /\ q = 1024 + (q - 1024)
      BY <1>1
    <3> QED BY <3>1
  <2>2. n * q = n * 1024 + n * k /\ n * k \in Nat /\ n * 1024 \in Nat
    BY <2>1
  <2> QED BY <1>1, <2>2
<1>4. q \in 0..1023
  BY <1>1, <1>2, <1>3
<1> QED BY <1>4 DEF q

LEMMA OnLayerRange ==
  ASSUME NEW v \in Nat, NEW o \in Nat, NEW n \in Nat \ {0}, v - o \in 0..(n - 1)
  PROVE  /\ OnLayer(v, o, n) \in 0..1023
         /\ Quotient(OnLayer(v, o, n) * 3750, 1024) \in Scaled
<1> DEFINE a == (v - o) * 1024  q == OnLayer(v, o, n)
<1>1. a \in Nat /\ a < n * 1024 /\ q = a \div n
  BY DEF OnLayer, Quotient
<1> HIDE DEF a, q
<1>2. q \in 0..1023
  BY <1>1, QuotientRange
<1>3. Quotient(q * 3750, 1024) \in Scaled
  BY <1>2 DEF Quotient, Scaled
<1> QED BY <1>2, <1>3 DEF q

LEMMA ConvertedRange ==
  ASSUME NEW r, r.x \in Nat, r.y \in Nat, r.p \in Nat,
         r.x - Layer.x \in 0..(Layer.w - 1), r.y - Layer.y \in 0..(Layer.h - 1),
         Converted(r).pressure > 0
  PROVE  Converted(r).x \in Panel /\ Converted(r).y \in Panel
<1> DEFINE lx == Layer.x  lw == Layer.w  ly == Layer.y  lh == Layer.h  x == r.x  y == r.y
<1>1. /\ lx \in Nat /\ lw \in Nat \ {0} /\ x \in Nat /\ x - lx \in 0..(lw - 1)
      /\ ly \in Nat /\ lh \in Nat \ {0} /\ y \in Nat /\ y - ly \in 0..(lh - 1)
  BY LayerType
<1>2. AcrossOf(r) = Quotient(OnLayer(x, lx, lw) * 3750, 1024)
  BY DEF AcrossOf
<1>3. DownOf(r) = Quotient(OnLayer(y, ly, lh) * 3750, 1024)
  BY DEF DownOf
<1> HIDE DEF lx, lw, ly, lh, x, y
<1>4. AcrossOf(r) \in Scaled
  BY <1>1, <1>2, OnLayerRange
<1>5. DownOf(r) \in Scaled
  BY <1>1, <1>3, OnLayerRange
<1>6. r.p # 0
  BY DEF Converted
<1>7. CutX(AcrossOf(r)) \in Panel /\ CutY(DownOf(r)) \in Panel
  <2>1. AcrossOf(r) \in Int /\ DownOf(r) \in Int
    <3>1. \A n \in Scaled : n \in Int
      BY DEF Scaled
    <3> QED BY <1>4, <1>5, <3>1
  <2> QED BY <1>4, <1>5, <2>1, CutRange
<1> QED BY <1>6, <1>7, ConvertedIs

\* What a step leaves alone stays as the invariant says.
LEMMA KeptFiles == FilesInv /\ UNCHANGED <<files, opened, snd, freed, uses>> => FilesInv'
  BY DEF FilesInv
LEMMA KeptFrag == FragInv /\ UNCHANGED frag => FragInv'
  BY DEF FragInv, StrangeCaught, Workable
LEMMA KeptAnswer ==
  ASSUME AnswerInv, UNCHANGED answer, freed \subseteq freed'
  PROVE  AnswerInv'
  BY DEF AnswerInv, RightAnswer
LEMMA KeptMemory == MemoryInv /\ UNCHANGED memory => MemoryInv'
  BY DEF MemoryInv, memory
LEMMA KeptPen == PenInv /\ UNCHANGED <<pen, still, before, raw, queue, report>> => PenInv'
  BY DEF PenInv, Told, Shown
LEMMA KeptTouch == TouchInv /\ UNCHANGED <<touch, seen, pen, still, before>> => TouchInv'
  BY DEF TouchInv, TouchTrue, Shown
LEMMA KeptPanel == PenInv /\ TouchInv /\ UNCHANGED panel => PenInv' /\ TouchInv'
  BY KeptPen, KeptTouch DEF panel

\* Opening and closing.
LEMMA OpenStep ==
  ASSUME DevicesInv,
         \/ \E i \in Tried : OpenFake(i)
         \/ \E f \in DOMAIN files : OpenFile(f) \/ OpenDsp(f) \/ Close(f)
  PROVE  DevicesInv'
<1>0. FilesInv /\ FragInv /\ AnswerInv /\ MemoryInv /\ PenInv /\ TouchInv
  BY DEF DevicesInv
<1>1. UNCHANGED <<memory, answer, uses, panel>>
  BY DEF OpenFake, OpenFile, OpenDsp, Close
<1>a. freed \subseteq freed'
  BY DEF OpenFake, OpenFile, OpenDsp, Close
<1>2. AnswerInv' /\ MemoryInv' /\ PenInv' /\ TouchInv'
  BY <1>0, <1>1, <1>a, KeptAnswer, KeptMemory, KeptPanel
<1>3. Limit \in Nat /\ DOMAIN files = 0..(Limit - 1)
  BY <1>0, DevicesAssumption DEF FilesInv
<1>4. ASSUME NEW i \in Tried, OpenFake(i) PROVE FilesInv' /\ FragInv'
  <2>1. Fake[i] \in Names
    BY DevicesAssumption DEF Names
  <2> QED BY <1>0, <1>4, <2>1, KeptFrag DEF OpenFake, FilesInv
<1>5. ASSUME NEW f \in DOMAIN files, OpenFile(f) PROVE FilesInv' /\ FragInv'
  <2>1. FilesInv'
    <3>1. files' = [files EXCEPT ![f] = "file"] /\ files[f] = "closed"
          /\ UNCHANGED <<opened, snd, freed, uses>>
      BY <1>5 DEF OpenFile, Free
    <3>2. snd = -1 \/ files'[snd] = "dsp" \/ snd \in freed
      BY <1>0, <1>3, <3>1 DEF FilesInv
    <3> QED BY <1>0, <1>3, <3>1, <3>2 DEF FilesInv
  <2> QED BY <1>0, <1>5, <2>1, KeptFrag DEF OpenFile
<1>6. ASSUME NEW f \in DOMAIN files, OpenDsp(f) PROVE FilesInv' /\ FragInv'
  <2>1. FilesInv'
    BY <1>0, <1>3, <1>6 DEF OpenDsp, Free, FilesInv, Remembered
  <2>2. frag' = frag \/ frag' = Forced
    BY <1>6 DEF OpenDsp
  <2>3. ASSUME frag' = Forced PROVE FragInv'
    BY <2>3 DEF FragInv, StrangeCaught
  <2> QED BY <1>0, <2>1, <2>2, <2>3, KeptFrag
<1>7. ASSUME NEW f \in DOMAIN files, Close(f) PROVE FilesInv' /\ FragInv'
  <2>1. FilesInv'
    <3>1. files' = [files EXCEPT ![f] = "closed"] /\ UNCHANGED <<opened, snd, uses>>
          /\ freed' = IF files[f] = "dsp" THEN freed \cup {f} ELSE freed
      BY <1>7 DEF Close
    <3>2. snd = -1 \/ files'[snd] = "dsp" \/ snd \in freed'
      BY <1>0, <1>3, <3>1 DEF FilesInv
    <3> QED BY <1>0, <1>3, <3>1, <3>2 DEF FilesInv
  <2>2. frag' = frag \/ frag' = None
    BY <1>7 DEF Close
  <2>3. ASSUME frag' = None PROVE FragInv'
    BY <2>3 DEF FragInv, StrangeCaught
  <2> QED BY <1>0, <2>1, <2>2, <2>3, KeptFrag
<1> QED BY <1>2, <1>4, <1>5, <1>6, <1>7 DEF DevicesInv

\* Numbers of files are below those of fake devices.
LEMMA FakeNumbers ==
  /\ \A i \in DOMAIN Fake : IsFake(FdOf(i)) /\ Fake[i] \in Names
  /\ \A f \in 0..(Limit - 1) : ~ IsFake(f)
  /\ "file" \notin Names /\ "dsp" \notin Names
  /\ Wm97xx \in DOMAIN Fake /\ Fake[Wm97xx] = "wm97xx" /\ "wm97xx" \in Names
<1>1. DOMAIN Fake = 1..9 /\ Len(Fake) = 9 /\ Fake[6] = "wm97xx" /\ 6 \in DOMAIN Fake
  BY DEF Fake
<1>2. FAKEDEV_MEM \in Nat /\ Limit \in Nat /\ Limit <= FAKEDEV_MEM
  BY DevicesAssumption
<1>3. \A i \in DOMAIN Fake : IsFake(FdOf(i))
  BY <1>1, <1>2 DEF IsFake, FdOf, FAKEDEV_FD_BOUNDARY
<1>4. \A f \in 0..(Limit - 1) : ~ IsFake(f)
  BY <1>2 DEF IsFake
<1>5. \A i \in DOMAIN Fake : Fake[i] # "file" /\ Fake[i] # "dsp"
  BY <1>1 DEF Fake
<1>6. Wm97xx \in DOMAIN Fake /\ Fake[Wm97xx] = "wm97xx"
  BY <1>1 DEF Wm97xx
<1> QED BY <1>1, <1>3, <1>4, <1>5, <1>6 DEF Names

\* Calls that only ask; the touch screen is read elsewhere.
Asking ==
  \/ \E i \in Tried : ReadFake(i) \/ IoctlFake(i) \/ PassedOn(i)
  \/ \E f \in DOMAIN files :
       ReadFile(f) \/ \E call \in {"sync", "ioctl"} : IoctlFile(f, call)

\* An answer on a fake device's behalf, and one on a file's.
LEMMA FakeAnswer ==
  ASSUME NEW i \in DOMAIN Fake, NEW call \in {"read", "ioctl", "close"}, NEW by,
         OnFake(call, i, by),
         \/ call = "close" /\ by = "kernel"
         \/ by \in {Fake[i], "error"}
  PROVE  AnswerInv'
<1>1. answer' = [call |-> call, fd |-> FdOf(i), of |-> Fake[i], by |-> by]
  BY DEF OnFake
<1>2. Fake[i] \in Names /\ Fake[i] # "file" /\ Fake[i] # "dsp"
  BY FakeNumbers
<1>3. RightAnswer'
  BY <1>1, <1>2 DEF RightAnswer
<1> QED BY <1>1, <1>2, <1>3 DEF AnswerInv, Calls

LEMMA FileAnswer ==
  ASSUME FilesInv, FilesInv', freed' = freed, NEW f \in DOMAIN files, files[f] # "closed",
         NEW call \in SoundCalls \cup {"read", "ioctl"}, NEW by, OnFile(call, f, by),
         by = IF call = "read" THEN "kernel" ELSE Answerer(call, f)
  PROVE  AnswerInv'
<1>1. answer' = [call |-> call, fd |-> f, of |-> files[f], by |-> by]
  BY DEF OnFile
<1>2. f \in 0..(Limit - 1) /\ files[f] \in {"file", "dsp"}
  BY DEF FilesInv
<1>3. ~ IsFake(f) /\ "file" \notin Names /\ "dsp" \notin Names
  BY <1>2, FakeNumbers
<1>4. by = IF f = snd /\ call \in SoundCalls THEN "sound" ELSE "kernel"
  BY <1>3 DEF Answerer, ToEmulator, SoundCalls
<1>5. "read" \notin SoundCalls /\ "ioctl" \notin SoundCalls
  BY DEF SoundCalls
<1>6. files[f] = "dsp" => f = snd
  BY <1>2 DEF FilesInv
<1>7. files[f] = "file" /\ f = snd => f \in freed
  BY <1>2 DEF FilesInv
<1>8. RightAnswer'
  <2>1. CASE files[f] = "dsp"
    BY <1>1, <1>3, <1>4, <1>5, <1>6, <2>1 DEF RightAnswer
  <2>2. CASE files[f] = "file"
    BY <1>1, <1>3, <1>4, <1>5, <1>7, <2>2 DEF RightAnswer
  <2> QED BY <1>2, <2>1, <2>2
<1> QED BY <1>1, <1>2, <1>4, <1>8 DEF AnswerInv, Calls

LEMMA AskStep ==
  ASSUME DevicesInv, Asking
  PROVE  DevicesInv'
<1>0. FilesInv /\ FragInv /\ AnswerInv /\ MemoryInv /\ PenInv /\ TouchInv
  BY DEF DevicesInv
<1>1. UNCHANGED <<descriptors, frag, memory, uses, panel>>
  BY DEF Asking, ReadFake, ReadFile, IoctlFake, IoctlFile, PassedOn
<1>2. FilesInv' /\ FragInv' /\ MemoryInv' /\ PenInv' /\ TouchInv' /\ freed' = freed
  BY <1>0, <1>1, KeptFiles, KeptFrag, KeptMemory, KeptPanel DEF descriptors
<1>3. ASSUME NEW i \in Tried, ReadFake(i) \/ IoctlFake(i) \/ PassedOn(i) PROVE AnswerInv'
  <2>1. i \in DOMAIN Fake
    BY DevicesAssumption
  <2>2. IsFake(FdOf(i))
    BY <2>1, FakeNumbers
  <2>3. CASE ReadFake(i)
    <3>1. OnFake("read", i, Fake[i]) \/ OnFake("read", i, "error")
      BY <2>2, <2>3 DEF ReadFake
    <3> QED BY <2>1, <3>1, FakeAnswer
  <2>4. CASE IoctlFake(i)
    <3>1. OnFake("ioctl", i, Fake[i]) \/ OnFake("ioctl", i, "error")
      BY <2>2, <2>4 DEF IoctlFake, ToEmulator
    <3> QED BY <2>1, <3>1, FakeAnswer
  <2>5. CASE PassedOn(i)
    BY <2>1, <2>5, FakeAnswer DEF PassedOn
  <2> QED BY <1>3, <2>3, <2>4, <2>5
<1>4. ASSUME NEW f \in DOMAIN files, ReadFile(f) PROVE AnswerInv'
  <2>1. ~ IsFake(f)
    BY <1>0, FakeNumbers DEF FilesInv
  <2>2. OnFile("read", f, "kernel") /\ files[f] # "closed"
    BY <1>4, <2>1 DEF ReadFile
  <2>3. "read" \in SoundCalls \cup {"read", "ioctl"}
    OBVIOUS
  <2> DEFINE call == "read"  by == "kernel"
  <2>4. /\ OnFile(call, f, by) /\ call \in SoundCalls \cup {"read", "ioctl"}
        /\ by = IF call = "read" THEN "kernel" ELSE Answerer(call, f)
    BY <2>2, <2>3
  <2> HIDE DEF call, by
  <2> QED BY <1>0, <1>2, <2>2, <2>4, FileAnswer
<1>5. ASSUME NEW f \in DOMAIN files, NEW call \in {"sync", "ioctl"}, IoctlFile(f, call)
      PROVE  AnswerInv'
  <2>1. OnFile(call, f, Answerer(call, f)) /\ files[f] # "closed" /\ call # "read"
        /\ call \in SoundCalls \cup {"read", "ioctl"}
    BY <1>5 DEF IoctlFile, SoundCalls
  <2> DEFINE by == Answerer(call, f)
  <2>2. OnFile(call, f, by) /\ by = Answerer(call, f)
    BY <2>1
  <2> HIDE DEF by
  <2> QED BY <1>0, <1>2, <2>1, <2>2, FileAnswer
<1>6. AnswerInv'
  BY <1>3, <1>4, <1>5 DEF Asking
<1> QED BY <1>2, <1>6 DEF DevicesInv

\* A fragment setting that is chosen for a descriptor is a strange one only if
\* its size is the width of an int or more.
LEMMA ChosenFine ==
  ASSUME NEW set \in Settings, NEW c \in Chosen(set)
  PROVE  c = Default \/ (c = set /\ (set[2] >= IntBits \/ Workable(set)))
<1>1. /\ set[1] \in (0 - Pow2[HalfBits - 1])..(Pow2[HalfBits - 1] - 1) /\ set[2] \in Nat
      /\ MinBytes \in Nat \ {0} /\ MaxBytes \in 0..Pow2[HalfBits - 1] /\ MinSize \in Nat
      /\ HalfBits \in Nat \ {0}
  BY DevicesAssumption
<1>2. IntBits \in Nat /\ HalfBits - 1 \in 0..IntBits
  BY <1>1 DEF IntBits
<1>3. Pow2[HalfBits - 1] \in Nat \ {0}
  BY <1>2, Powers
<1>4. PICK b \in Shifted(set[1], set[2]) : c = IF Strange(set[2], b) THEN Default ELSE set
  BY DEF Chosen
<1>5. CASE set[2] < IntBits /\ ~ Strange(set[2], b)
  <2> DEFINE n == set[1]  s == set[2]  m == Pow2[HalfBits - 1]
  <2>1. s \in 0..(IntBits - 1)
    BY <1>1, <1>2, <1>5
  <2>2. b = Signed(n * Pow2[s])
    BY <1>4, <1>5 DEF Shifted
  <2>3. n * Pow2[s] \in Int /\ n \in Int
    <3>1. Pow2[s] \in Nat /\ n \in Int
      BY <1>1, <1>2, <1>3, <2>1, Powers
    <3> HIDE DEF n, s
    <3> QED BY <3>1
  <2>4. b \in Int
    <3>1. Pow2[IntBits] \in Nat \ {0} /\ Pow2[IntBits - 1] \in Nat
      <4>1. IntBits \in 0..IntBits /\ IntBits - 1 \in 0..IntBits
        BY <1>2, <2>1
      <4> QED BY <4>1, Powers
    <3> DEFINE v == n * Pow2[s]  W == Pow2[IntBits]  u == v % W
    <3>2. u \in 0..(W - 1)
      <4> HIDE DEF v, W
      <4> QED BY <2>3, <3>1, Remainder DEF v, W
    <3>3. b = u \/ b = u - W
      BY <2>2 DEF Signed
    <3> HIDE DEF u, W, v
    <3> QED BY <3>1, <3>2, <3>3 DEF W
  <2>5. b \in MinBytes..MaxBytes /\ b \in 1..m /\ s >= MinSize
    <3> HIDE DEF s, m
    <3> QED BY <1>1, <1>3, <1>5, <2>4 DEF Strange, s, m
  <2>6. Signed(n * Pow2[s]) = n * Pow2[s]
    <3>1. n \in (0 - m)..(m - 1)
      BY <1>1
    <3> HIDE DEF n, s
    <3> QED BY <2>1, <2>2, <2>5, <3>1, ShiftTrue
  <2>7. Workable(set)
    BY <2>2, <2>5, <2>6 DEF Workable
  <2> QED BY <1>4, <1>5, <2>7
<1> QED BY <1>1, <1>2, <1>4, <1>5

LEMMA FragmentStep ==
  ASSUME DevicesInv, NEW f \in DOMAIN files, NEW set \in Settings, SetFragment(f, set)
  PROVE  DevicesInv'
<1>0. FilesInv /\ FragInv /\ AnswerInv /\ MemoryInv /\ PenInv /\ TouchInv
  BY DEF DevicesInv
<1>1. UNCHANGED <<descriptors, memory, uses, panel>>
  BY DEF SetFragment
<1>2. FilesInv' /\ MemoryInv' /\ PenInv' /\ TouchInv' /\ freed' = freed
  BY <1>0, <1>1, KeptFiles, KeptMemory, KeptPanel DEF descriptors
<1>a. AnswerInv'
  <2> DEFINE by == Answerer("setting", f)
  <2>1. OnFile("setting", f, by) /\ files[f] # "closed" /\ "setting" \in SoundCalls
    BY DEF SetFragment, SoundCalls
  <2>2. by = Answerer("setting", f) /\ "setting" # "read"
    OBVIOUS
  <2> HIDE DEF by
  <2> QED BY <1>0, <1>2, <2>1, <2>2, FileAnswer
<1>3. UNCHANGED frag \/ frag' \in Chosen(set)
  BY <1>0 DEF SetFragment, FilesInv
<1>4. ASSUME frag' \in Chosen(set) PROVE FragInv'
  <2>1. CASE frag' = Default
    BY <2>1 DEF FragInv, StrangeCaught
  <2>2. CASE frag' = set /\ (set[2] >= IntBits \/ Workable(set))
    BY <2>2 DEF FragInv, StrangeCaught, Workable
  <2> QED BY <1>4, <2>1, <2>2, ChosenFine
<1> QED BY <1>0, <1>2, <1>a, <1>3, <1>4, KeptFrag DEF DevicesInv

\* Mapping and unmapping.
LEMMA MemoryStep ==
  ASSUME DevicesInv, MemoryCalls
  PROVE  DevicesInv'
<1>0. FilesInv /\ FragInv /\ AnswerInv /\ MemoryInv /\ PenInv /\ TouchInv
  BY DEF DevicesInv
<1>1. UNCHANGED <<descriptors, frag, answer, uses, panel>>
  BY DEF MemoryCalls, MapUpper, MapFile, Munmap
<1>2. FilesInv' /\ FragInv' /\ AnswerInv' /\ PenInv' /\ TouchInv'
  <2>1. UNCHANGED <<files, opened, snd, freed, uses>> /\ freed \subseteq freed'
    BY <1>1 DEF descriptors
  <2> QED BY <1>0, <1>1, <2>1, KeptFiles, KeptFrag, KeptAnswer, KeptPanel
<1>3. Umem \subseteq Pages /\ Pages \subseteq Nat /\ \A a, b \in Pages : a..b \subseteq Pages
  BY DevicesAssumption
<1>4. ASSUME NEW a \in Pages, NEW b \in Pages
      PROVE  /\ Region(a, b) \in [first : Pages, last : Pages]
             /\ Region(a, b).first = a /\ Region(a, b).last = b
             /\ PagesOf(Region(a, b)) = a..b /\ a \in Nat /\ b \in Nat
             /\ OfFile(Region(a, b)) <=> a \notin Umem
  BY <1>3 DEF Region, PagesOf, OfFile
<1>5. ASSUME NEW a \in Pages, NEW b \in Pages, MapUpper(a, b) PROVE MemoryInv'
  <2> DEFINE r == Region(a, b)
  <2>1. /\ regions' = regions \cup {r} /\ mapped' = mapped /\ a <= b /\ ~ OfFile(r)
        /\ r \in [first : Pages, last : Pages] /\ r.first <= r.last
    BY <1>4, <1>5 DEF MapUpper
  <2> HIDE DEF r
  <2> QED BY <1>0, <2>1 DEF MemoryInv
<1>6. ASSUME NEW a \in Pages, NEW b \in Pages, MapFile(a, b) PROVE MemoryInv'
  <2> DEFINE r == Region(a, b)
  <2>1. /\ regions' = regions \cup {r} /\ mapped' = mapped \cup PagesOf(r)
        /\ PagesOf(r) \cap mapped = {} /\ PagesOf(r) \subseteq Pages
        /\ r \in [first : Pages, last : Pages] /\ r.first <= r.last
    BY <1>3, <1>4, <1>6 DEF MapFile
  <2> HIDE DEF r
  <2>2. Umem \subseteq mapped' /\ mapped' \subseteq Pages
    BY <1>0, <2>1 DEF MemoryInv
  <2>3. \A q \in regions' : OfFile(q) => PagesOf(q) \subseteq mapped' \ Umem
    BY <1>0, <2>1 DEF MemoryInv
  <2>4. \A q \in regions : OfFile(q) => PagesOf(q) \cap PagesOf(r) = {}
    BY <1>0, <2>1 DEF MemoryInv
  <2>5. \A q, p \in regions' : OfFile(q) /\ OfFile(p) /\ q # p => PagesOf(q) \cap PagesOf(p) = {}
    BY <1>0, <2>1, <2>4 DEF MemoryInv
  <2> QED BY <1>0, <2>1, <2>2, <2>3, <2>5 DEF MemoryInv
<1>7. ASSUME NEW r \in regions, Munmap(r) PROVE MemoryInv'
  <2>1. regions' = regions \ {r} /\ mapped' = IF OfFile(r) THEN mapped \ PagesOf(r) ELSE mapped
    BY <1>7 DEF Munmap, InUpper, OfFile
  <2>2. CASE OfFile(r)
    <3>1. PagesOf(r) \cap Umem = {} /\ mapped' = mapped \ PagesOf(r)
      BY <1>0, <2>1, <2>2 DEF MemoryInv
    <3>2. \A q \in regions' : OfFile(q) => PagesOf(q) \cap PagesOf(r) = {}
      BY <1>0, <2>1, <2>2 DEF MemoryInv
    <3>3. \A q \in regions' : OfFile(q) => PagesOf(q) \subseteq mapped' \ Umem
      BY <1>0, <2>1, <3>1, <3>2 DEF MemoryInv
    <3> QED BY <1>0, <2>1, <3>1, <3>3 DEF MemoryInv
  <2>3. CASE ~ OfFile(r)
    BY <1>0, <2>1, <2>3 DEF MemoryInv
  <2> QED BY <2>2, <2>3
<1>8. \/ \E a, b \in Pages : MapUpper(a, b) \/ MapFile(a, b)
      \/ \E r \in regions : Munmap(r)
  BY DEF MemoryCalls
<1> QED BY <1>2, <1>5, <1>6, <1>7, <1>8 DEF DevicesInv

\* The pen: what is converted, and what the converted points are of.
LEMMA PenType ==
  ASSUME NEW q \in Pen
  PROVE  /\ q.x \in Nat /\ q.y \in Nat /\ q.p \in {0, 1} /\ q = [x |-> q.x, y |-> q.y, p |-> q.p]
         /\ q["x"] = q.x /\ q["y"] = q.y /\ q["p"] = q.p
         /\ \A c \in Coordinates : q[c] \in Nat
  BY DEF Pen, Coordinates

\* What can be told of a pen is a pen.
LEMMA ShownPen ==
  ASSUME NEW q \in Pen
  PROVE  /\ Shown(q) \in Pen
         /\ \A c \in Coordinates : Shown(q)[c] = IF c \in still THEN 0 ELSE q[c]
<1>1. q.x \in Nat /\ q.y \in Nat /\ q.p \in {0, 1}
  BY PenType
<1>2. Shown(q) = [x |-> IF "x" \in still THEN 0 ELSE q["x"],
                  y |-> IF "y" \in still THEN 0 ELSE q["y"],
                  p |-> IF "p" \in still THEN 0 ELSE q["p"]]
  BY DEF Shown
<1>3. Shown(q) \in Pen
  BY <1>1, <1>2 DEF Pen
<1>4. \A c \in Coordinates : Shown(q)[c] = IF c \in still THEN 0 ELSE q[c]
  BY <1>2 DEF Coordinates
<1> QED BY <1>3, <1>4

LEMMA PenMovesStep ==
  ASSUME DevicesInv, NEW to \in Pen, PenMoves(to)
  PROVE  DevicesInv'
<1>0. FilesInv /\ FragInv /\ AnswerInv /\ MemoryInv /\ PenInv /\ TouchInv
  BY DEF DevicesInv
<1>1. UNCHANGED <<descriptors, frag, memory, answer, uses, queue, raw, touch>>
  BY DEF PenMoves
<1>2. FilesInv' /\ FragInv' /\ AnswerInv' /\ MemoryInv'
  <2>1. UNCHANGED <<files, opened, snd, freed, uses>> /\ freed \subseteq freed'
    BY <1>1 DEF descriptors
  <2> QED BY <1>0, <1>1, <2>1, KeptFiles, KeptFrag, KeptAnswer, KeptMemory
<1>3. /\ report = <<>> /\ pen' = to /\ before' = Shown(pen) /\ report' = Changes(pen, to)
      /\ seen' = "old" /\ pen \in Pen /\ still' = {c \in still : to[c] = pen[c]}
      /\ still' \subseteq Coordinates
  BY <1>0 DEF PenMoves, PenInv
<1>4. TouchInv'
  BY <1>0, <1>1, <1>3 DEF TouchInv, TouchTrue
<1>5. Tells(report', {c \in Coordinates : pen[c] # to[c]}, to) /\ Len(report') <= 3
  BY <1>3, ChangesTell
<1>6. /\ report' \in Seq(Events)
      /\ \A i \in DOMAIN report' : report'[i][2] = to[report'[i][1]]
      /\ \A i, j \in DOMAIN report' : report'[i][1] = report'[j][1] => i = j
  BY <1>5 DEF Tells
<1>7. ASSUME NEW c \in Coordinates PROVE Told(c)' <=> pen[c] # to[c]
  BY <1>5 DEF Tells, Told
<1>8. Shown(pen) \in Pen
      /\ \A c \in Coordinates : Shown(pen)[c] = IF c \in still THEN 0 ELSE pen[c]
  BY <1>3, ShownPen
<1>9. \A c \in Coordinates : Shown(pen)'[c] = IF c \in still' THEN 0 ELSE to[c]
  BY <1>3 DEF Shown, Coordinates
<1>10. ASSUME NEW c \in Coordinates, pen[c] # to[c] PROVE Shown(pen)'[c] = to[c]
  BY <1>3, <1>9, <1>10
<1>11. ASSUME NEW c \in Coordinates, pen[c] = to[c] PROVE Shown(pen)'[c] = Shown(pen)[c]
  BY <1>3, <1>8, <1>9, <1>11
<1>12. ASSUME NEW c \in Coordinates
       PROVE  Latest(c, raw', queue') = IF Told(c)' THEN before'[c] ELSE Shown(pen)'[c]
  <2>1. ~ Told(c)
    BY <1>3 DEF Told
  <2>2. Latest(c, raw, queue) = Shown(pen)[c]
    BY <1>0, <2>1 DEF PenInv
  <2> QED BY <1>1, <1>3, <1>7, <1>11, <2>2
<1>13. \A i \in DOMAIN report' : report'[i][2] = Shown(pen)'[report'[i][1]]
  BY <1>5, <1>10 DEF Tells
<1>14. PenInv'
  BY <1>0, <1>1, <1>3, <1>5, <1>6, <1>8, <1>12, <1>13 DEF PenInv
<1> QED BY <1>2, <1>4, <1>14 DEF DevicesInv

LEMMA TellStep ==
  ASSUME DevicesInv, Tell
  PROVE  DevicesInv'
<1>0. FilesInv /\ FragInv /\ AnswerInv /\ MemoryInv /\ PenInv /\ TouchInv
  BY DEF DevicesInv
<1>1. UNCHANGED <<descriptors, frag, memory, answer, uses, pen, raw, touch, still, before, seen>>
  BY DEF Tell
<1>2. FilesInv' /\ FragInv' /\ AnswerInv' /\ MemoryInv' /\ TouchInv'
  <2>1. UNCHANGED <<files, opened, snd, freed, uses>> /\ freed \subseteq freed'
    BY <1>1 DEF descriptors
  <2> QED BY <1>0, <1>1, <2>1, KeptFiles, KeptFrag, KeptAnswer, KeptMemory, KeptTouch
<1>a. Shown(pen)' = Shown(pen)
  BY <1>1 DEF Shown
<1> DEFINE e == report[1]
<1>3. /\ report \in Seq(Events) /\ report # <<>> /\ queue \in Seq(Events) /\ Len(report) <= 3
      /\ Len(queue) < Backlog /\ Backlog \in Nat /\ queue' = Append(queue, Head(report))
      /\ report' = Tail(report)
  BY <1>0, DevicesAssumption DEF Tell, PenInv
<1>4. /\ report' \in Seq(Events) /\ Len(report') = Len(report) - 1 /\ Head(report) = e
      /\ \A k \in DOMAIN report' : report'[k] = report[k + 1]
      /\ Len(report) \in Nat /\ Len(report) >= 1 /\ DOMAIN report = 1..Len(report)
      /\ e \in Events
  BY <1>3, Lists
<1>5. DOMAIN report' = 1..(Len(report) - 1)
  BY <1>4
<1>6. queue' = Append(queue, e) /\ queue' \in Seq(Events) /\ Len(queue') <= Backlog
  BY <1>3, <1>4, Lists
<1>7. e[2] = Shown(pen)[e[1]] /\ \A i \in DOMAIN report : report[i][1] = e[1] => i = 1
  BY <1>0, <1>4 DEF PenInv
<1>8. ASSUME NEW i \in DOMAIN report'
      PROVE  i + 1 \in DOMAIN report /\ i + 1 # 1 /\ report'[i] = report[i + 1]
  BY <1>4, <1>5
<1>9. /\ \A i \in DOMAIN report' : report'[i][2] = Shown(pen)[report'[i][1]]
      /\ \A i, j \in DOMAIN report' : report'[i][1] = report'[j][1] => i = j
  <2>1. \A i \in DOMAIN report' : report'[i][2] = Shown(pen)[report'[i][1]]
    BY <1>0, <1>8 DEF PenInv
  <2>2. ASSUME NEW i \in DOMAIN report', NEW j \in DOMAIN report', report'[i][1] = report'[j][1]
        PROVE  i = j
    <3>1. i + 1 = j + 1
      BY <1>0, <1>8, <2>2 DEF PenInv
    <3> QED BY <1>5, <1>4, <3>1
  <2> QED BY <2>1, <2>2
<1>10. ASSUME NEW c \in Coordinates PROVE Told(c)' <=> Told(c) /\ e[1] # c
  <2>1. ASSUME NEW i \in DOMAIN report, report[i][1] = c, e[1] # c PROVE Told(c)'
    <3>1. i # 1
      BY <2>1
    <3>2. i - 1 \in DOMAIN report' /\ (i - 1) + 1 = i
      BY <1>4, <1>5, <3>1
    <3> QED BY <1>4, <2>1, <3>2 DEF Told
  <2>2. ASSUME NEW i \in DOMAIN report', report'[i][1] = c PROVE Told(c) /\ e[1] # c
    <3>1. i + 1 \in DOMAIN report /\ i + 1 # 1 /\ report[i + 1][1] = c
      BY <1>8, <2>2
    <3> QED BY <1>7, <3>1 DEF Told
  <2> QED BY <2>1, <2>2 DEF Told
<1>11. ASSUME NEW c \in Coordinates
       PROVE  Latest(c, raw, queue') = IF Told(c)' THEN before[c] ELSE Shown(pen)[c]
  <2>1. Latest(c, raw, queue') = IF e[1] = c THEN e[2] ELSE Latest(c, raw, queue)
    BY <1>3, <1>4, <1>6, LatestAppend
  <2>2. Latest(c, raw, queue) = IF Told(c) THEN before[c] ELSE Shown(pen)[c]
    BY <1>0 DEF PenInv
  <2> QED BY <1>7, <1>10, <2>1, <2>2
<1>12. Len(report') <= 3
  BY <1>3, <1>4
<1>13. PenInv'
  BY <1>0, <1>1, <1>a, <1>4, <1>6, <1>9, <1>11, <1>12 DEF PenInv
<1> QED BY <1>2, <1>13 DEF DevicesInv

\* What a read leaves in raw_x, raw_y and raw_p: it is made of some of the
\* events that were there, and with the rest adds up to what it did before.
LEMMA ReadPen ==
  ASSUME PenInv, NEW n \in 0..Len(queue), raw' = Collected(raw, SubSeq(queue, 1, n)),
         queue' = SubSeq(queue, n + 1, Len(queue)), UNCHANGED <<pen, report, still, before>>
  PROVE  PenInv' /\ \A c \in Coordinates : raw'[c] = Latest(c, raw, SubSeq(queue, 1, n))
<1> DEFINE t == SubSeq(queue, 1, n)
<1>1. queue \in Seq(Events) /\ raw \in Raw /\ Len(queue) <= Backlog /\ Backlog \in Nat
  BY DevicesAssumption DEF PenInv
<1>2. t \in Seq(Events) /\ queue' \in Seq(Events) /\ Len(queue') = Len(queue) - n /\ Len(queue) \in Nat
  BY <1>1, Parts
<1> HIDE DEF t
<1>3. raw' = [x |-> Latest("x", raw, t), y |-> Latest("y", raw, t), p |-> Latest("p", raw, t)]
  BY DEF Collected, t
<1>4. \A c \in Coordinates : raw'[c] = Latest(c, raw, t)
  BY <1>3 DEF Coordinates
<1>5. ASSUME NEW c \in Coordinates PROVE Latest(c, raw, t) \in Nat
  <2>1. raw[c] \in Nat
    BY <1>1 DEF Raw, Coordinates
  <2>2. ASSUME NEW i, Last(c, t, i) PROVE t[i][2] \in Nat
    <3>1. t[i] \in Events
      BY <1>2, <2>2, Lists DEF Last
    <3> QED BY <3>1 DEF Events
  <2> QED BY <1>2, <2>1, <2>2, LatestIs
<1>6. raw' \in Raw
  <2>1. Latest("x", raw, t) \in Nat /\ Latest("y", raw, t) \in Nat /\ Latest("p", raw, t) \in Nat
    BY <1>5 DEF Coordinates
  <2> QED BY <1>3, <2>1 DEF Raw
<1>7. ASSUME NEW c \in Coordinates PROVE Latest(c, raw', queue') = Latest(c, raw, queue)
  BY <1>1, <1>4, LatestSplit DEF t
<1>8. ASSUME NEW c \in Coordinates
      PROVE  Latest(c, raw', queue') = IF Told(c)' THEN before'[c] ELSE Shown(pen)'[c]
  <2>1. (Told(c)' <=> Told(c)) /\ Shown(pen)' = Shown(pen)
    BY DEF Told, Shown
  <2>2. Latest(c, raw, queue) = IF Told(c) THEN before[c] ELSE Shown(pen)[c]
    BY DEF PenInv
  <2> QED BY <1>7, <2>1, <2>2
<1>9. Len(queue') <= Backlog
  BY <1>1, <1>2
<1>10. PenInv'
  <2>1. Shown(pen)' = Shown(pen)
    BY DEF Shown
  <2> QED BY <1>2, <1>6, <1>8, <1>9, <2>1 DEF PenInv
<1> QED BY <1>4, <1>10 DEF t

\* With no event read or left, a coordinate is what it was.
LEMMA LatestNone ==
  ASSUME NEW c, NEW old
  PROVE  Latest(c, old, <<>>) = old[c]
<1> DEFINE s == <<>>
<1>1. s \in Seq(Events) /\ Without(c, s)
  BY DEF Without
<1> HIDE DEF s
<1>2. Latest(c, old, s) = old[c]
  BY <1>1, LatestIs
<1> QED BY <1>2 DEF s

LEMMA ReadTouchStep ==
  ASSUME DevicesInv, ReadTouch
  PROVE  DevicesInv'
<1>0. FilesInv /\ FragInv /\ AnswerInv /\ MemoryInv /\ PenInv /\ TouchInv
  BY DEF DevicesInv
<1>1. UNCHANGED <<descriptors, frag, memory, uses, pen, report, still, before>>
  BY DEF ReadTouch
<1>2. FilesInv' /\ FragInv' /\ MemoryInv'
  BY <1>0, <1>1, KeptFiles, KeptFrag, KeptMemory DEF descriptors
<1>3. AnswerInv'
  BY FakeNumbers, FakeAnswer DEF ReadTouch
<1> DEFINE shown == Shown(pen)
<1>4. queue \in Seq(Events) /\ Len(queue) \in Nat /\ shown \in Pen /\ before \in Pen
  BY <1>0, ShownPen DEF PenInv
<1>a. Shown(pen)' = shown
  BY <1>1 DEF Shown
<1>5. /\ SubSeq(queue, 1, Len(queue)) = queue
      /\ SubSeq(queue, Len(queue) + 1, Len(queue)) = <<>>
  BY <1>4
<1>6. PenInv' /\ \A c \in Coordinates : raw'[c] = Latest(c, raw, queue)
  <2>1. Len(queue) \in 0..Len(queue)
    BY <1>4
  <2>2. raw' = Collected(raw, SubSeq(queue, 1, Len(queue)))
        /\ queue' = SubSeq(queue, Len(queue) + 1, Len(queue))
    BY <1>5 DEF ReadTouch
  <2>3. PenInv' /\ \A c \in Coordinates : raw'[c] = Latest(c, raw, SubSeq(queue, 1, Len(queue)))
    BY <1>0, <1>1, <2>1, <2>2, ReadPen
  <2> QED BY <1>5, <2>3
<1>7. \A c \in Coordinates : raw'[c] = IF Told(c) THEN before[c] ELSE shown[c]
  BY <1>0, <1>6 DEF PenInv
<1> HIDE DEF shown
<1>8. raw' \in Raw /\ raw' = [x |-> raw'["x"], y |-> raw'["y"], p |-> raw'["p"]]
      /\ raw'.x \in Nat /\ raw'.y \in Nat /\ raw'.p \in Nat
  BY <1>6 DEF PenInv, Raw
<1>9. touch' = Converted(raw') /\ touch' \in [pressure : Pressures, x : Word, y : Word]
  BY <1>8, ConvertedType DEF ReadTouch
<1>10. "x" \in Coordinates /\ "y" \in Coordinates /\ "p" \in Coordinates
  BY DEF Coordinates
<1>11. ASSUME seen' = "whole" PROVE touch' = Converted(shown)
  <2>1. report = <<>>
    BY <1>11 DEF ReadTouch
  <2>2. \A c \in Coordinates : raw'[c] = shown[c]
    BY <1>7, <2>1 DEF Told
  <2>3. raw' = shown
    BY <1>4, <1>8, <1>10, <2>2, PenType
  <2> QED BY <1>9, <2>3
<1>12. \E a, b, c \in {shown, before'} : touch' = Converted([x |-> a.x, y |-> b.y, p |-> c.p])
  <2>1. \A c \in Coordinates : \E q \in {shown, before} : raw'[c] = q[c]
    BY <1>7
  <2>2. PICK a \in {shown, before} : raw'["x"] = a["x"]
    BY <1>10, <2>1
  <2>3. PICK b \in {shown, before} : raw'["y"] = b["y"]
    BY <1>10, <2>1
  <2>4. PICK c \in {shown, before} : raw'["p"] = c["p"]
    BY <1>10, <2>1
  <2>5. raw' = [x |-> a.x, y |-> b.y, p |-> c.p]
    BY <1>8, <2>2, <2>3, <2>4
  <2>6. touch' = Converted([x |-> a.x, y |-> b.y, p |-> c.p])
    BY <1>9, <2>5
  <2>7. a \in {shown, before'} /\ b \in {shown, before'} /\ c \in {shown, before'}
    BY <1>1, <2>2, <2>3, <2>4
  <2> QED BY <2>6, <2>7
<1>13. TouchTrue'
  BY <1>a, <1>11, <1>12 DEF TouchTrue
<1>14. TouchInv'
  BY <1>9, <1>13 DEF TouchInv
<1> QED BY <1>2, <1>3, <1>6, <1>14 DEF DevicesInv

LEMMA UpIs == Up \in Pen /\ Up.x \in Nat /\ Up.y \in Nat /\ Up.p \in Nat /\ Up \in Raw
  BY DEF Up, Pen, Raw

LEMMA ReadFailsStep ==
  ASSUME DevicesInv, NEW n \in 0..Len(queue), ReadTouchFails(n)
  PROVE  DevicesInv'
<1>0. FilesInv /\ FragInv /\ AnswerInv /\ MemoryInv /\ PenInv /\ TouchInv
  BY DEF DevicesInv
<1>1. UNCHANGED <<descriptors, frag, memory, uses, pen, report, still, before>>
  BY DEF ReadTouchFails
<1>2. FilesInv' /\ FragInv' /\ MemoryInv'
  BY <1>0, <1>1, KeptFiles, KeptFrag, KeptMemory DEF descriptors
<1>3. AnswerInv'
  BY FakeNumbers, FakeAnswer DEF ReadTouchFails
<1>4. PenInv'
  <2>1. raw' = Collected(raw, SubSeq(queue, 1, n)) /\ queue' = SubSeq(queue, n + 1, Len(queue))
    BY DEF ReadTouchFails
  <2> QED BY <1>0, <1>1, <2>1, ReadPen
<1>5. touch' = Converted(Up) /\ seen' = "failed"
  BY DEF ReadTouchFails
<1>6. TouchInv'
  BY <1>5, UpIs, ConvertedType DEF TouchInv, TouchTrue
<1> QED BY <1>2, <1>3, <1>4, <1>6 DEF DevicesInv

LEMMA DevicesStep == DevicesInv /\ [DevicesNext]_devicesVars => DevicesInv'
<1> SUFFICES ASSUME DevicesInv, [DevicesNext]_devicesVars PROVE DevicesInv'
  OBVIOUS
<1>1. CASE Call
  BY <1>1, OpenStep, AskStep DEF Call, Asking
<1>2. CASE Sound
  BY <1>2, OpenStep, AskStep, FragmentStep DEF Sound, Asking
<1>3. CASE MemoryCalls
  BY <1>3, MemoryStep
<1>4. CASE Touch
  <2>1. ASSUME NEW q \in Points PROVE PenAt(q, 1) \in Pen
    <3>1. q \in [x : Nat, y : Nat]
      BY DevicesAssumption
    <3> QED BY <3>1 DEF Pen, PenAt
  <2>2. [pen EXCEPT !.p = 0] \in Pen
    BY DEF DevicesInv, PenInv, Pen
  <2>3. \/ \E to \in Pen : PenMoves(to)
        \/ Tell \/ ReadTouch
        \/ \E n \in 0..Len(queue) : ReadTouchFails(n)
    BY <1>4, <2>1, <2>2 DEF Touch
  <2> QED BY <2>3, PenMovesStep, TellStep, ReadTouchStep, ReadFailsStep
<1>5. CASE UNCHANGED devicesVars
  <2>1. UNCHANGED <<files, opened, snd, freed, uses>> /\ UNCHANGED frag /\ UNCHANGED answer
        /\ UNCHANGED memory /\ UNCHANGED panel /\ freed \subseteq freed'
    BY <1>5 DEF devicesVars, memory, panel
  <2> QED BY <2>1, KeptFiles, KeptFrag, KeptAnswer, KeptMemory, KeptPanel DEF DevicesInv
<1> QED BY <1>1, <1>2, <1>3, <1>4, <1>5 DEF DevicesNext

LEMMA DevicesInitInv == DevicesInit => DevicesInv
<1> SUFFICES ASSUME DevicesInit PROVE DevicesInv
  OBVIOUS
<1>1. Limit \in Nat /\ Umem \subseteq Pages /\ Backlog \in Nat
  BY DevicesAssumption
<1>2. FilesInv
  BY <1>1 DEF DevicesInit, FilesInv
<1>3. FragInv
  BY DEF DevicesInit, FragInv, StrangeCaught
<1>4. AnswerInv
  BY FakeNumbers DEF DevicesInit, AnswerInv, RightAnswer, Calls
<1>5. MemoryInv
  BY <1>1 DEF DevicesInit, MemoryInv
<1>a. Shown(pen) = Up
  BY DEF DevicesInit, Shown, Up
<1>6. PenInv
  <2>1. \A c \in Coordinates : Latest(c, raw, queue) = Shown(pen)[c]
    <3>1. \A c \in Coordinates : Latest(c, raw, queue) = Up[c]
      BY LatestNone DEF DevicesInit
    <3> QED BY <1>a, <3>1
  <2>2. \A c \in Coordinates : ~ Told(c)
    BY DEF DevicesInit, Told
  <2>3. pen \in Pen
    <3>1. Points \subseteq [x : Nat, y : Nat]
      BY DevicesAssumption
    <3>2. \A q \in Points, p \in {0, 1} : PenAt(q, p) \in Pen
      BY <3>1 DEF Pen, PenAt
    <3>3. pen = Up \/ \E q \in Points : pen = PenAt(q, 0) \/ pen = PenAt(q, 1)
      BY DEF DevicesInit, Pens
    <3> QED BY <3>2, <3>3, UpIs
  <2>4. still \subseteq Coordinates
    BY DEF DevicesInit, Coordinates
  <2>5. /\ report = <<>> /\ queue = <<>> /\ raw = Up /\ before = Up
        /\ report \in Seq(Events) /\ queue \in Seq(Events)
        /\ DOMAIN report = {} /\ Len(report) = 0 /\ Len(queue) = 0
    BY DEF DevicesInit
  <2>6. \A i \in DOMAIN report : report[i][2] = Shown(pen)[report[i][1]]
    BY <2>5
  <2>7. \A i, j \in DOMAIN report : report[i][1] = report[j][1] => i = j
    BY <2>5
  <2>8. raw \in Raw /\ before \in Pen /\ Len(report) <= 3 /\ Len(queue) <= Backlog
    BY <1>1, <2>5, UpIs
  <2> QED BY <2>1, <2>2, <2>3, <2>4, <2>5, <2>6, <2>7, <2>8 DEF PenInv
<1>7. TouchInv
  <2>1. touch = Converted(Shown(pen)) /\ seen = "whole" /\ touch = Converted(Up)
    BY <1>a DEF DevicesInit
  <2> QED BY <2>1, UpIs, ConvertedType DEF TouchInv, TouchTrue
<1> QED BY <1>2, <1>3, <1>4, <1>5, <1>6, <1>7 DEF DevicesInv

LEMMA DevicesInvariant == DevicesSpec => []DevicesInv
  BY DevicesInitInv, DevicesStep, PTL DEF DevicesSpec

\* Types, of which the part that is not obvious is that what is read from the
\* touch screen are unsigned numbers of 16 bits (emu.c:1338-1348), also beside
\* the picture.
THEOREM DevicesTypeCorrect == DevicesSpec => []DevicesTypeOK
<1>1. ASSUME DevicesInv PROVE DevicesTypeOK
  <2>0. FilesInv /\ FragInv /\ AnswerInv /\ MemoryInv /\ PenInv /\ TouchInv
    BY <1>1 DEF DevicesInv
  <2>1. \A a, b \in Pages : a..b \subseteq Pages
    BY DevicesAssumption
  <2>2. \A r \in regions : PagesOf(r) \subseteq Pages
    BY <2>0, <2>1 DEF MemoryInv, PagesOf
  <2>3. touch \in [pressure : Pressures, x : Word, y : Word]
    BY <2>0 DEF TouchInv
  <2>4. /\ pen.p \in {0, 1} /\ Len(report) <= 3 /\ Len(queue) <= Backlog
        /\ still \subseteq {"x", "y", "p"}
    BY <2>0 DEF PenInv, Pen, Coordinates
  <2>5. /\ files \in [0..(Limit - 1) -> {"closed", "file", "dsp"}]
        /\ opened \subseteq Names /\ snd \in -1..(Limit - 1) /\ uses \in Uses
        /\ frag \in Settings \cup {None, Forced, Default} /\ mapped \subseteq Pages
        /\ freed \subseteq 0..(Limit - 1)
    BY <2>0 DEF FilesInv, FragInv, MemoryInv
  <2> QED BY <2>0, <2>2, <2>3, <2>4, <2>5 DEF DevicesTypeOK, AnswerInv, Calls
<1> QED BY <1>1, DevicesInvariant, PTL

\* Fake devices are answered by the emulator, /dev/dsp by what corrects its
\* settings, and files by the kernel, but for settings and syncs of a file that
\* has a number at which /dev/dsp was closed; for every number of descriptors
\* and any opening and closing (override.c:134-170, emu.c:1195-1248).
THEOREM AnsweredRight == DevicesSpec => []RightAnswer
<1>1. DevicesInv => RightAnswer
  BY DEF DevicesInv, AnswerInv
<1> QED BY <1>1, DevicesInvariant, PTL

\* emu_sound_ioctl lets no strange fragment setting through, for every width
\* of an int and whatever its shift overflows to (emu.c:1202-1232); sizes of
\* that width or more are excepted.
THEOREM StrangeNeverSet == DevicesSpec => []StrangeCaught
<1>1. DevicesInv => StrangeCaught
  BY DEF DevicesInv, FragInv
<1> QED BY <1>1, DevicesInvariant, PTL

\* Looking only at where a region begins, munmap takes away neither upper
\* memory nor what is still in use (emu.c:1161-1172).
THEOREM UnmapSafe == DevicesSpec => []UpperMemoryStays
<1>1. DevicesInv => UpperMemoryStays
  BY DEF DevicesInv, MemoryInv, UpperMemoryStays, OfFile
<1> QED BY <1>1, DevicesInvariant, PTL

\* What is read from the touch screen is the pen as last reported or, in the
\* middle of a report, a mix of that and the one before, for any backlog and
\* however reads fail (host.c:75-109).
THEOREM TouchFollowsPen == DevicesSpec => []TouchTrue
<1>1. DevicesInv => TouchTrue
  BY DEF DevicesInv, TouchInv
<1> QED BY <1>1, DevicesInvariant, PTL

\* A point on the picture is a point of the panel after both scalings, for
\* every screen and layer (host_fb.c:144-154, emu.c:1338-1348).
THEOREM PanelRange == DevicesSpec => []TouchOnPanel
<1>1. ASSUME DevicesInv PROVE TouchOnPanel
  <2> DEFINE shown == Shown(pen)
  <2>0. /\ shown \in Pen /\ before \in Pen
        /\ seen = "whole" => touch = Converted(shown)
        /\ seen = "part" =>
             \E a, b, c \in {shown, before} : touch = Converted([x |-> a.x, y |-> b.y, p |-> c.p])
    BY <1>1, ShownPen DEF DevicesInv, PenInv, TouchInv, TouchTrue
  <2> SUFFICES ASSUME seen \in {"whole", "part"}, touch.pressure > 0,
                      OnPicture(shown), OnPicture(before)
               PROVE  touch.x \in Panel /\ touch.y \in Panel
    BY DEF TouchOnPanel, Panel
  <2> HIDE DEF shown
  <2>1. PICK a \in {shown, before}, b \in {shown, before}, c \in {shown, before} :
          touch = Converted([x |-> a.x, y |-> b.y, p |-> c.p])
    <3>1. CASE seen = "whole"
      <4>1. touch = Converted([x |-> shown.x, y |-> shown.y, p |-> shown.p])
        BY <2>0, <3>1, PenType
      <4> QED BY <4>1
    <3>2. CASE seen = "part"
      BY <2>0, <3>2
    <3> QED BY <3>1, <3>2
  <2> DEFINE r == [x |-> a.x, y |-> b.y, p |-> c.p]
  <2>2. a \in Pen /\ b \in Pen /\ c \in Pen
    BY <2>0, <2>1
  <2>3. r.x \in Nat /\ r.y \in Nat /\ r.p \in Nat
    BY <2>2 DEF Pen
  <2>4. r.x - Layer.x \in 0..(Layer.w - 1) /\ r.y - Layer.y \in 0..(Layer.h - 1)
    BY <2>1 DEF OnPicture
  <2>5. touch = Converted(r)
    BY <2>1
  <2> HIDE DEF r
  <2> QED BY <2>3, <2>4, <2>5, ConvertedRange
<1> QED BY <1>1, DevicesInvariant, PTL
=============================================================================
