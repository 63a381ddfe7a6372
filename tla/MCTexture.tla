------------------------------ MODULE MCTexture ------------------------------
(* Every black and white picture of 3 by 3 pixels; those of 3 by 2 with    *)
(* whole bitmaps, rows and columns of boxes, too many of them, a box that  *)
(* is not on the bitmap and a bitmap that is opened twice; every pixel of  *)
(* a byte of three bits with each conversion; files that cannot be opened; *)
(* lists of frames of many sizes, among them one that only just fits the   *)
(* largest side whose square a long can hold, and one that does not.       *)
EXTENDS Texture

White == [a |-> 0, c |-> 7]
Black == [a |-> 7, c |-> 0]

Picture1(w, h, px, beyond) ==
  [kind |-> "ok", psd |-> FALSE, w |-> w, h |-> h, px |-> px,
   beyond |-> beyond, from |-> Clear, to |-> Clear, aco |-> 0, shrink |-> 0]

Filled(w, h) == [q \in Coordinates(w, h) |-> Black]

SmallFile == Picture1(2, 1, (<<0, 0>> :> White) @@ (<<1, 0>> :> Black), Clear)

(* Files with a transparent row or column on some side, or none *)
BinaryFiles(w, h, beyond) ==
  {Picture1(w, h, [q \in Coordinates(w, h) |-> IF q \in s THEN Black ELSE White], b) :
     s \in SUBSET Coordinates(w, h), b \in beyond}

Seq1(b, wrap) ==
  <<[mode |-> "SEQ", bitmap |-> b, dir |-> 0, wrap |-> wrap,
     x |-> 0, y |-> 0, w |-> 0, h |-> 0]>>

(* n boxes of w by h on bitmap 1, the first at <<x, y>> *)
Run(n, dir, wrap, x, y, w, h) ==
  [f \in 1 .. n |->
     [mode |-> IF f = 1 THEN "BOX" ELSE "BOX_N", bitmap |-> 1, dir |-> dir,
      wrap |-> wrap, x |-> IF f = 1 THEN x ELSE 0,
      y |-> IF f = 1 THEN y ELSE 0, w |-> w, h |-> h]]

FrameLists ==
  { Seq1(1, TRUE) \o Seq1(2, TRUE),
    Seq1(1, FALSE) \o Run(2, 0, TRUE, 0, 1, 3, 1),
    Run(4, 0, TRUE, 1, 0, 1, 1),
    Run(3, 1, TRUE, 0, 0, 1, 2),
    Run(2, 0, TRUE, 0, 0, 2, 2),
    Run(1, 0, TRUE, 2, 1, 2, 2),
    Seq1(2, TRUE) \o Run(2, 1, TRUE, 1, 0, 2, 1) \o Seq1(2, FALSE) }

Wrapped ==
  {[files |-> <<f, SmallFile>>, frames |-> l, border |-> 0] :
     f \in BinaryFiles(3, 2, {Clear, Black}), l \in FrameLists}
  \cup {[files |-> <<f>>, frames |-> Seq1(1, TRUE), border |-> 2] :
          f \in BinaryFiles(3, 3, {Black})}

(* One pixel of every value beside a black one *)
PixelFiles ==
  {Picture1(2, 1, (<<0, 0>> :> p) @@ (<<1, 0>> :> Black), Clear) : p \in Pixel}

Converted ==
  {[files |-> <<f>>, frames |-> Seq1(1, TRUE), border |-> 1] :
     f \in {[p EXCEPT !.psd = TRUE] : p \in PixelFiles}
        \cup {[p EXCEPT !.psd = TRUE, !.to = Black, !.aco = 2] : p \in PixelFiles}
        \cup {[p EXCEPT !.from = [a |-> 6, c |-> 1], !.to = [a |-> 2, c |-> 3],
                       !.aco = 3] : p \in PixelFiles}}

(* Shrunk to a half, or to nothing *)
ShrunkFiles ==
  {[Picture1(4, 2, [q \in Coordinates(4, 2) |-> IF q[1] > k THEN Black ELSE White],
             Clear) EXCEPT !.shrink = 2] : k \in -1 .. 3}
  \cup {[Picture1(1, 2, Filled(1, 2), Black) EXCEPT !.shrink = 2]}

(* Files that cannot be loaded or have another depth *)
BadFiles == {[SmallFile EXCEPT !.kind = k] : k \in {"bad", "depth"}}

Unusual ==
  {[files |-> <<f, SmallFile>>, frames |-> Seq1(1, wrap) \o Seq1(2, TRUE),
    border |-> 0] : f \in ShrunkFiles \cup BadFiles, wrap \in BOOLEAN}

Size(w, h) == Run(1, 0, FALSE, 0, 0, w, h)

(* A box with a transparent pixel, of which nothing is left *)
Empty == Run(1, 0, TRUE, 0, 0, 1, 1)
Dot == Size(1, 1)
Strip == Size(3, 1)
Column == Size(1, 2)
Block == Size(2, 2)
Full == Size(8, 2)
TooLong == Size(16, 1)

(* A box whose key of method 1 a long long cannot hold, and that a long    *)
(* does not count as too large for any texture                            *)
Giant == Size(14, 14)

Packed ==
  {[files |-> <<SmallFile>>, frames |-> l, border |-> b] :
     b \in {-1, 1, 3},
     l \in { <<>>, Dot, Full, TooLong, Strip \o Block \o Column,
             Column \o Strip \o Block, Block \o Empty \o Block,
             Empty \o Dot \o Strip, Full \o Dot \o Strip,
             Dot \o TooLong \o Empty, Giant, Giant \o Dot,
             Strip \o Giant \o Block }}

MCTextures == Wrapped \cup Converted \cup Unusual \cup Packed

(* The texture after it: of whole bitmaps that do not open, so that the    *)
(* bitmaps have the sizes they had before, or of as many boxes             *)
MCLater ==
  {[files |-> <<b, b>>, frames |-> Seq1(1, FALSE) \o Seq1(2, FALSE), border |-> 1] :
     b \in {z \in BadFiles : z.kind = "bad"}}
  \cup {[files |-> <<SmallFile>>, frames |-> Seq1(1, TRUE), border |-> 0]}

MCFrameSizes ==
  {[w |-> w, h |-> h] : w \in 1 .. 4, h \in 1 .. 3}
  \cup {[w |-> 0, h |-> 0], [w |-> 0, h |-> 1],
        [w |-> 8, h |-> 2], [w |-> 16, h |-> 1], [w |-> 14, h |-> 14]}
=============================================================================
