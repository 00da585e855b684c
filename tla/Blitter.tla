------------------------------ MODULE Blitter ------------------------------
(***************************************************************************)
(* blitter_do of loader/emu.c with memset16, blt_tr and uppermem_lookup:   *)
(* one blit of the emulated chip, carried out on the buffer umem that      *)
(* stands for its upper memory.                                            *)
(*                                                                         *)
(* Addresses are offsets into umem, and the whole address space belongs to *)
(* the model: pointers are numbers of 32 bits, so a stride can carry one   *)
(* past the end and back to the beginning.  Where that leaves umem, the    *)
(* process may as well crash.  A byte is its own value: at first every     *)
(* byte holds the offset it is at, which shows where each byte of the      *)
(* result is from.                                                         *)
(***************************************************************************)
EXTENDS Integers, FiniteSets

CONSTANTS
  WordSize,      \* 2^32
  Base,          \* where umem is mapped
  Size,          \* 0x2000000: bytes of umem
  Screen,        \* 320 * 240
  Blits          \* bound: the contents of the registers

Memory == (0 - Base)..(WordSize - Base - 1)
Fill == [lo |-> WordSize, hi |-> WordSize + 1]     \* patbackcolor
Stride == (0 - (WordSize \div 2))..(WordSize \div 2 - 1)     \* int

Blit == [w : Nat, h : Nat, bpp : {8, 16},
         dst : Int, dstrd : Stride, src : Int, sstrd : Stride,
         srcenb : BOOLEAN, invideo : BOOLEAN, transparent : BOOLEAN,
         trc : Int,      \* the offset of a halfword that has the colour trc
         frame : Int]    \* mlc_stl_adr

ASSUME BlitAssumption ==
  /\ WordSize \in Nat /\ Base \in Nat /\ Size \in Nat \ {0}
  /\ WordSize % 4 = 0 /\ Base % 4 = 0 /\ Base + Size < WordSize
  /\ Screen \in Nat
  /\ Blits \subseteq Blit

VARIABLES
  blitter,       \* the registers
  umem,          \* the memory
  asked,         \* fb_sync_thread is asked for a refresh
  rows,          \* history: rows drawn
  backwards,     \* the order in which memcpy copies, for areas that overlap
  state          \* "set", and then "drawn" or "bad"

vars == <<blitter, umem, asked, rows, backwards, state>>

w == blitter.w
h == blitter.h
bpp == blitter.bpp
dst == blitter.dst
src == blitter.src
dstrd == blitter.dstrd
sstrd == blitter.sstrd

Copies == blitter.srcenb
RowBytes == (w * bpp) \div 8
Even(a) == a - (a % 2)                                     \* & ~1

\* A pointer to the offset a, and the offset it points to.
Pointer(a) == (Base + a) % WordSize
Wrap(a) == Pointer(a) - Base

\* Division as in C: towards 0.
Truncated(a, b) == IF b > 0 THEN a \div b ELSE 0 - (a \div (0 - b))
-----------------------------------------------------------------------------
(* Slips that a change to this code could make; each breaks a property.     *)

Clipped_Up(from, stride, n) ==        \* rounds up
  IF Pointer(from + stride * n) > Base + Size
  THEN Truncated(Size - from + stride - 1, stride) ELSE n

Filled16_All(a) ==                    \* the halfword before the words is not counted
  IF a % 4 >= 2 THEN w + 1 ELSE w
-----------------------------------------------------------------------------
(* What the code does.                                                      *)

\* uppermem_lookup
Inside(a) == a \in 0..(Size - 1)

\* "did not fit": the rows that fit between an address and the end.  With a
\* stride below 0 that can be less than none.
Clipped(from, stride, n) ==
  IF Pointer(from + stride * n) > Base + Size THEN Truncated(Size - from, stride) ELSE n

\* The rows of both loops: none if h is not above 0.
Left ==
  IF Copies THEN Clipped(dst, dstrd, Clipped(src, sstrd, h)) ELSE Clipped(dst, dstrd, h)
Rows == IF Left > 0 THEN Left ELSE 0

\* goto bad_blit
Bad == ~Inside(dst) \/ (Copies /\ (~blitter.invideo \/ ~Inside(src)))

\* "blit whole screen or at least half of the area"; the rows are not clipped yet.
ToScreen == 2 * w * h >= Screen /\ dst - blitter.frame \in 0..(2 * Screen - 1)

\* Halfwords that memset16 writes from Even(a) on: with a count of 0 it still
\* writes one to get to a word, and one more because -1 are left.
Filled16(a) == IF w = 0 /\ a % 4 >= 2 THEN 2 ELSE w

\* m with n bytes from the offset a on replaced, byte i by V(i).
Put(m, a, n, V(_)) ==
  [x \in DOMAIN m |-> LET i == (x - a) % WordSize IN IF i < n THEN V(i) ELSE m[x]]

FillRow(m, d) ==
  IF bpp = 16 THEN Put(m, Even(d), 2 * Filled16(d),
                       LAMBDA i : IF i % 2 = 0 THEN Fill.lo ELSE Fill.hi)
  ELSE Put(m, d, w, LAMBDA i : Fill.lo)

\* memcpy.  The areas must not overlap; if they do, what was copied before is
\* copied again, or not.
CopyByte(m, d, s, b) == [m EXCEPT ![Wrap(d + b)] = m[Wrap(s + b)]]
Turn(i) == IF backwards THEN RowBytes - i ELSE i - 1
CopyRow(m, d, s) ==
  LET copied[i \in 0..RowBytes] ==
        IF i = 0 THEN m ELSE CopyByte(copied[i - 1], d, s, Turn(i))
  IN copied[RowBytes]

\* blt_tr.  The colour is a register, so it stays while the blit overwrites
\* the place it is named by.
Trc == [lo |-> blitter.trc, hi |-> blitter.trc + 1]
MovePixel(m, q, p) ==
  IF m[Wrap(p)] = Trc.lo /\ m[Wrap(p + 1)] = Trc.hi THEN m
  ELSE [m EXCEPT ![Wrap(q)] = m[Wrap(p)], ![Wrap(q + 1)] = m[Wrap(p + 1)]]
TransparentRow(m, d, s) ==
  LET moved[i \in 0..w] ==
        IF i = 0 THEN m
        ELSE MovePixel(moved[i - 1], Even(d) + 2 * (i - 1), Even(s) + 2 * (i - 1))
  IN moved[w]

DrawRow(m, k) ==
  LET d == dst + k * dstrd  s == src + k * sstrd
  IN IF ~Copies THEN FillRow(m, d)
     ELSE IF bpp = 16 /\ blitter.transparent THEN TransparentRow(m, d, s)
     ELSE CopyRow(m, d, s)

Init ==
  /\ blitter \in Blits /\ umem = [a \in Memory |-> a]
  /\ asked = FALSE /\ rows = 0 /\ backwards \in BOOLEAN /\ state = "set"

\* Row after row.
Drawn == LET after[k \in 0..Rows] == IF k = 0 THEN umem ELSE DrawRow(after[k - 1], k - 1)
         IN after[Rows]

Run ==
  /\ state = "set" /\ ~Bad
  /\ umem' = Drawn /\ rows' = Rows /\ asked' = ToScreen /\ state' = "drawn"
  /\ UNCHANGED <<blitter, backwards>>

BadBlit ==
  /\ state = "set" /\ Bad
  /\ state' = "bad"
  /\ UNCHANGED <<blitter, umem, asked, rows, backwards>>

Next == Run \/ BadBlit

Spec == Init /\ [][Next]_vars
-----------------------------------------------------------------------------
(* Properties.                                                              *)

TypeOK ==
  /\ blitter \in Blit /\ rows \in Nat /\ asked \in BOOLEAN /\ backwards \in BOOLEAN
  /\ state \in {"set", "drawn", "bad"}

\* Rows no longer than the distance between them.
Laid == RowBytes <= dstrd /\ (Copies => RowBytes <= sstrd)

\* As the registers ask for them, the rows end before the address space does.
\* If they do not, the pointer the code compares has gone round, is found to be
\* below the end of umem, and nothing is clipped (emu.c:251, 261).
Modest ==
  /\ Base + dst + dstrd * h < WordSize
  /\ Copies => Base + src + sstrd * h < WordSize

\* The rows that are drawn, and those they are drawn from, end in upper memory.
RowsFit ==
  state = "drawn" /\ Laid /\ Modest
    => \A k \in 0..(rows - 1) :
         /\ dst + k * dstrd >= 0 /\ dst + k * dstrd + RowBytes <= Size
         /\ Copies => src + k * sstrd >= 0 /\ src + k * sstrd + RowBytes <= Size

\* A blit changes nothing outside upper memory and shows nothing from there:
\* only the number of rows is clipped (emu.c:251-265), so that depends on rows
\* that do not reach into the next one, and on strides that do not carry the
\* pointer that is compared around.  An empty fill is not empty (emu.c:168).
StaysInside ==
  state = "drawn" /\ w > 0 /\ Laid /\ Modest
    => \A a \in Memory : IF Inside(a) THEN Inside(umem[a]) \/ umem[a] \in {Fill.lo, Fill.hi}
                         ELSE umem[a] = a

\* Bytes of the rectangle, and where each is from.
InRow(a, k) == a - dst - k * dstrd \in 0..(RowBytes - 1)
RowOf(a) == {k \in 0..(rows - 1) : InRow(a, k)}
SourceOf(a, k) == src + k * sstrd + (a - dst - k * dstrd)

Apart ==
  Copies => \A i, j \in 0..(rows - 1) :
              \/ dst + i * dstrd + RowBytes <= src + j * sstrd
              \/ src + j * sstrd + RowBytes <= dst + i * dstrd

Expected(a, k) ==
  IF ~Copies THEN (IF bpp = 16 /\ (a - dst) % 2 = 1 THEN Fill.hi ELSE Fill.lo)
  ELSE IF bpp = 16 /\ blitter.transparent /\ Even(SourceOf(a, k)) = blitter.trc THEN a
  ELSE SourceOf(a, k)

\* After a blit of areas that do not overlap the rectangle holds the source, or
\* the colour, byte by byte; what is transparent and what lies outside is left.
\* Rows are left out at the end of memory only: at most one of them would have
\* fitted.
RectangleRight ==
  state = "drawn" /\ w > 0 /\ Laid /\ Modest /\ Apart
     /\ (bpp = 16 => dst % 2 = 0 /\ dstrd % 2 = 0 /\ src % 2 = 0 /\ sstrd % 2 = 0)
    => /\ \A a \in Memory : IF RowOf(a) = {} THEN umem[a] = a
                             ELSE \A k \in RowOf(a) : umem[a] = Expected(a, k)
       /\ rows < h => \/ dst + (rows + 1) * dstrd > Size
                      \/ Copies /\ src + (rows + 1) * sstrd > Size
=============================================================================
