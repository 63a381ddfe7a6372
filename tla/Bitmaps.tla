------------------------------ MODULE Bitmaps -------------------------------
(***************************************************************************)
(* cBitmap.cpp: the source bitmaps of a texture.  Bitmap is a static array *)
(* whose elements process_ini fills in anew for each texture; what it does *)
(* not set stays from the texture before (m_Width, m_Height), and at most  *)
(* one element has its pixels in memory (BITMAP_ONLY_ONE_OPEN).            *)
(*                                                                         *)
(* A pixel is its alpha and one color component, which stands for all      *)
(* three: they are treated alike.  FreeImage keeps rows bottom first and   *)
(* without gaps, so what lies right of a row is the row above it, and what *)
(* lies below or above the bitmap is memory that is not the bitmap's.      *)
(***************************************************************************)
EXTENDS Sums

CONSTANTS
  ByteMax,      (* the largest value of a byte                         *)
  BitmapMax     (* BITMAP_MAX, the number of elements of Bitmap        *)

ASSUME BitmapsAssumption == ByteMax \in Nat \ {0} /\ BitmapMax \in Nat

Pixel == [a : 0 .. ByteMax, c : 0 .. ByteMax]

Clear == [a |-> 0, c |-> 0]

Coordinates(w, h) == (0 .. w - 1) \X (0 .. h - 1)

VARIABLES
  file,         (* the source of each of the s_nBitmaps elements in    *)
                (* use: how it is stored (kind, psd, w, h, px), what   *)
                (* the section asks for (from, to, aco, shrink), and   *)
                (* the memory around its pixels once loaded (beyond)   *)
  metrics,      (* m_Width, m_Height of all elements                   *)
  fib,          (* m_pFIB of all elements: a picture, or NoFib         *)
  active        (* s_pActive                                           *)

Slots == 1 .. BitmapMax

None == 0

NoFib == [w |-> 0, h |-> 0, px |-> <<>>, beyond |-> Clear]

Opened(b) == fib[b].w # 0

-----------------------------------------------------------------------------
(* DoUnMultAlpha_Component: a PSD was blended over white.  A result below  *)
(* 0 is a negative float made a BYTE, which is undefined: the builds for   *)
(* x86 and PowerPC keep its low bits.  Where the result is a whole number  *)
(* the rounding of floats, which is left out, may give one less.           *)
UnMult(c, a) ==
  LET n == (c - (ByteMax - a)) * ByteMax
      u == IF n >= 0 THEN n \div a ELSE -((-n) \div a)
  IN  (IF u > ByteMax THEN ByteMax ELSE u) % (ByteMax + 1)

DoUnMultAlpha(p) ==
  IF p.a \in {0, ByteMax} THEN p ELSE [p EXCEPT !.c = UnMult(@, p.a)]

DoConvertARGB(p, from, to) == IF p = from THEN to ELSE p

DoAlphaCutOff(p, aco) == IF p.a <= aco THEN [p EXCEPT !.a = 0] ELSE p

(* Seeded fault: pixels are cut off before colors are replaced *)
ConvertLate(f, p) ==
  LET p1 == IF f.psd THEN DoUnMultAlpha(p) ELSE p
      p2 == IF f.aco # 0 THEN DoAlphaCutOff(p1, f.aco) ELSE p1
  IN  IF f.from # f.to THEN DoConvertARGB(p2, f.from, f.to) ELSE p2

(* What Open makes of a pixel of the file, in this order *)
Convert(f, p) ==
  LET p1 == IF f.psd THEN DoUnMultAlpha(p) ELSE p
      p2 == IF f.from # f.to THEN DoConvertARGB(p1, f.from, f.to) ELSE p1
  IN  IF f.aco # 0 THEN DoAlphaCutOff(p2, f.aco) ELSE p2

(* The mean of a list of pixels, rounded *)
Mean(list) ==
  LET n == Len(list)
      mean(v) == (2 * v + n) \div (2 * n)
  IN  [a |-> mean(SumOf([k \in 1 .. n |-> list[k].a])),
       c |-> mean(SumOf([k \in 1 .. n |-> list[k].c]))]

(* FreeImage_Rescale with FILTER_BOX to a whole fraction of the size: the  *)
(* columns are shrunk first, then the rows.                                *)
Rescale(px, w, h, s) ==
  LET narrow == [q \in Coordinates(w, h * s) |->
                   Mean([k \in 1 .. s |-> px[<<q[1] * s + k - 1, q[2]>>]])]
  IN  [q \in Coordinates(w, h) |->
         Mean([k \in 1 .. s |-> narrow[<<q[1], q[2] * s + k - 1>>]])]

Shrunk(f) ==
  IF f.shrink > 1 THEN [w |-> f.w \div f.shrink, h |-> f.h \div f.shrink]
  ELSE [w |-> f.w, h |-> f.h]

(* Bound: only bitmaps whose size is a multiple of m_Shrink, or that are   *)
(* shrunk to nothing                                                       *)
Divides(f) ==
  f.shrink > 1 =>
    Shrunk(f).w * f.shrink = f.w /\ Shrunk(f).h * f.shrink = f.h

(* What m_pFIB points to after Open; FreeImage_Rescale makes no picture of *)
(* no pixels.                                                              *)
Picture(f) ==
  LET px == [q \in Coordinates(f.w, f.h) |-> Convert(f, f.px[q])]
      m == Shrunk(f)
  IN  IF f.kind # "ok" \/ m.w = 0 \/ m.h = 0 THEN NoFib
      ELSE [w |-> m.w, h |-> m.h, beyond |-> f.beyond,
            px |-> IF f.shrink > 1 THEN Rescale(px, m.w, m.h, f.shrink) ELSE px]

-----------------------------------------------------------------------------
InitBitmaps ==
  /\ file = <<>>
  /\ metrics = [b \in Slots |-> [w |-> 0, h |-> 0]]
  /\ fib = [b \in Slots |-> NoFib]
  /\ active = None

(* Seeded fault: the elements in use are forgotten, not freed *)
ForgetAll(files) ==
  /\ file' = files
  /\ UNCHANGED <<metrics, fib, active>>

(* cBitmap::Free_All, then cBitmap::Add of the sources of the next texture *)
AddSources(files) ==
  /\ file' = files
  /\ fib' = [b \in Slots |-> IF b \in DOMAIN file THEN NoFib ELSE fib[b]]
  /\ active' = IF active \in DOMAIN file THEN None ELSE active
  /\ UNCHANGED metrics

(* s_pActive->Free() if another element is open *)
OthersFreed(b) == [s \in Slots |-> IF s = active /\ s # b THEN NoFib ELSE fib[s]]

(* cBitmap::Open of element b.  It is not loaded again if it is open, and  *)
(* has no picture if the file cannot be loaded ("bad"), has a depth that   *)
(* is not 8 or 32 bits ("depth"), or is shrunk to nothing; the size of the *)
(* bitmap is that of the file, or the one it had before.                   *)
Open(b) ==
  LET f == file[b]
      still == IF active = b THEN b ELSE None
  IN  \/ /\ Opened(b)
         /\ fib' = OthersFreed(b)
         /\ active' = still
         /\ UNCHANGED <<file, metrics>>
      \/ /\ ~Opened(b) /\ f.kind = "bad"
         /\ fib' = OthersFreed(b)
         /\ active' = still
         /\ UNCHANGED <<file, metrics>>
      \/ /\ ~Opened(b) /\ f.kind = "depth"
         /\ metrics' = [metrics EXCEPT ![b] = [w |-> f.w, h |-> f.h]]
         /\ fib' = OthersFreed(b)
         /\ active' = None
         /\ UNCHANGED file
      \/ /\ ~Opened(b) /\ f.kind = "ok"
         /\ metrics' = [metrics EXCEPT ![b] = Shrunk(f)]
         /\ fib' = [OthersFreed(b) EXCEPT ![b] = Picture(f)]
         /\ active' = b
         /\ UNCHANGED file

(* The pixel at (x, y) from the top left corner of a picture.  Rows and    *)
(* columns go on into the rows next to them and the memory beyond.         *)
Look(p, x, y) ==
  LET place == (p.h - 1 - y) * p.w + x
  IN  IF place \in 0 .. p.w * p.h - 1
        THEN p.px[<<place % p.w, p.h - 1 - place \div p.w>>]
        ELSE p.beyond

(* IsClearH and IsClearV *)
IsClearH(b, x, y, width) == \A k \in 0 .. width - 1 : Look(fib[b], x + k, y).a = 0

IsClearV(b, x, y, height) == \A k \in 0 .. height - 1 : Look(fib[b], x, y + k).a = 0

-----------------------------------------------------------------------------
BitmapsTypeOK ==
  /\ Len(file) <= BitmapMax
  /\ metrics \in [Slots -> [w : Nat, h : Nat]]
  /\ \A b \in Slots : Opened(b) =>
       /\ [w |-> fib[b].w, h |-> fib[b].h] = metrics[b]
       /\ fib[b].px \in [Coordinates(fib[b].w, fib[b].h) -> Pixel]
  /\ active \in Slots \cup {None}
=============================================================================
