------------------------------- MODULE Frames -------------------------------
(***************************************************************************)
(* cFrame::PlaceBoxAndShrinkWrap_All (cFrame.cpp): where the pixels of the *)
(* frames of a texture are on the source bitmaps.  Frames are handled in   *)
(* groups of neighbours that use the same bitmap, because only one bitmap  *)
(* is open at a time: PlaceBox first gives every frame of the group its    *)
(* box, then ShrinkWrap trims the transparent edges of each, one row or    *)
(* column at a time.  Nobody looks at what Open returns: a bitmap that did *)
(* not open is measured all the same, and reading its pixels reads through *)
(* a null pointer.                                                         *)
(***************************************************************************)
EXTENDS Bitmaps, Rects

CONSTANTS
  Textures      (* what add_bitmaps_and_frames may have built for a    *)
                (* texture: its files, its frames, and the border      *)

Modes == {"SEQ", "BOX", "BOX_N"}

(* A frame as cFrame::Add fills it in *)
Added == [mode : Modes, bitmap : Slots, dir : {0, 1}, wrap : BOOLEAN,
          x : Int, y : Int, w : Nat, h : Nat]

(* add_bitmaps_and_frames refuses boxes without a width or a height and    *)
(* adds the further boxes of a section with the bitmap, size and direction *)
(* of the first.  Bound: no bitmap is shrunk to columns without rows.      *)
FramesAssumption ==
  \A t \in Textures :
    /\ DOMAIN t.files = 1 .. Len(t.files) /\ Len(t.files) \in 0 .. BitmapMax
    /\ \A b \in DOMAIN t.files :
         LET z == t.files[b] IN
           /\ z.w \in Nat \ {0} /\ z.h \in Nat \ {0} /\ z.shrink \in Int
           /\ z.px \in [Coordinates(z.w, z.h) -> Pixel]
           /\ z.from \in Pixel /\ z.to \in Pixel /\ z.beyond \in Pixel
           /\ z.aco \in 0 .. ByteMax /\ z.psd \in BOOLEAN
           /\ Shrunk(z).w # 0 => Shrunk(z).h # 0
           /\ (Shrunk(z).w # 0 /\ Shrunk(z).h # 0) => Divides(z)
    /\ t.frames \in Seq(Added)
    /\ \A f \in DOMAIN t.frames :
         /\ t.frames[f].bitmap \in DOMAIN t.files
         /\ t.frames[f].mode # "SEQ" => t.frames[f].w # 0 /\ t.frames[f].h # 0
         /\ t.frames[f].mode = "BOX_N" =>
              LET e == t.frames[f]
                  p == t.frames[f - 1]
              IN  /\ f > 1 /\ p.mode # "SEQ"
                  /\ p.bitmap = e.bitmap /\ p.dir = e.dir /\ p.w = e.w /\ p.h = e.h

VARIABLES
  frame,        (* the frames: m_Mode, m_iBitmap, m_BoxDir, m_Source*, *)
                (* m_Width, m_Height, m_Center*                        *)
  box,          (* history: the box each frame had when placed         *)
  begin,        (* iBegin                                              *)
  i,            (* i                                                   *)
  mid,          (* BoxCenterX, BoxCenterY                              *)
  pc

bitmaps == <<file, metrics, fib, active>>

vars == <<bitmaps, frame, box, begin, i, mid, pc>>

Count == Len(frame)

Bitmap == frame[begin].bitmap

InGroup(f) == f <= Count /\ frame[f].bitmap = Bitmap

RectOfFrame(f) == [x |-> frame[f].x, y |-> frame[f].y,
                   w |-> frame[f].w, h |-> frame[f].h]

-----------------------------------------------------------------------------
(* A fault: the next box has to begin on the bitmap, not to end on it *)
NextBoxBeginsInside(f, p, m) ==
  IF f.dir = 0
    THEN IF p.x + f.w < m.w
           THEN [x |-> p.x + f.w, y |-> p.y, ok |-> TRUE]
           ELSE [x |-> 0, y |-> p.y + f.h, ok |-> p.y + f.h < m.h]
    ELSE IF p.y + f.h < m.h
           THEN [x |-> p.x, y |-> p.y + f.h, ok |-> TRUE]
           ELSE [x |-> p.x + f.w, y |-> 0, ok |-> p.x + f.w < m.w]

(* The box next to that of the frame before, along the row or column, else *)
(* the first of the next row or column; the second coordinate is checked   *)
(* only in the latter case.                                                *)
NextBox(f, p, m) ==
  IF f.dir = 0
    THEN IF p.x + f.w + f.w <= m.w
           THEN [x |-> p.x + f.w, y |-> p.y, ok |-> TRUE]
           ELSE [x |-> 0, y |-> p.y + f.h, ok |-> p.y + f.h + f.h <= m.h]
    ELSE IF p.y + f.h + f.h <= m.h
           THEN [x |-> p.x, y |-> p.y + f.h, ok |-> TRUE]
           ELSE [x |-> p.x + f.w, y |-> 0, ok |-> p.x + f.w + f.w <= m.w]

Init ==
  /\ InitBitmaps
  /\ frame = <<>>
  /\ box = <<>>
  /\ begin = 1
  /\ i = 1
  /\ mid = [x |-> 0, y |-> 0]
  /\ pc = "done"

(* Free_All and the calls of Add for the next texture *)
Begin(t) ==
  /\ pc = "done"
  /\ AddSources(t.files)
  /\ frame' = [f \in DOMAIN t.frames |->
                 [mode |-> t.frames[f].mode, bitmap |-> t.frames[f].bitmap,
                  dir |-> t.frames[f].dir, wrap |-> t.frames[f].wrap,
                  x |-> t.frames[f].x, y |-> t.frames[f].y,
                  w |-> t.frames[f].w, h |-> t.frames[f].h,
                  cx |-> 0, cy |-> 0]]
  /\ box' = <<>>
  /\ begin' = 1
  /\ i' = 1
  /\ mid' = [x |-> 0, y |-> 0]
  /\ pc' = "group"

(* The bitmap of the next group is opened, or not. *)
OpenGroup ==
  /\ pc = "group"
  /\ begin <= Count
  /\ Open(Bitmap)
  /\ i' = begin
  /\ pc' = "place"
  /\ UNCHANGED <<frame, box, begin, mid>>

Place(f, x, y, w, h) ==
  /\ frame' = [frame EXCEPT ![f].x = x, ![f].y = y, ![f].w = w, ![f].h = h]
  /\ box' = Append(box, [x |-> x, y |-> y, w |-> w, h |-> h])
  /\ i' = i + 1
  /\ UNCHANGED pc

(* cFrame::PlaceBox of frame i: a whole bitmap, a first box just as the    *)
(* config file gives it, or the box after the one of the frame before.     *)
PlaceBox ==
  /\ pc = "place"
  /\ InGroup(i)
  /\ LET f == frame[i]
         m == metrics[Bitmap]
     IN  \/ /\ f.mode = "SEQ"
            /\ Place(i, 0, 0, m.w, m.h)
         \/ /\ f.mode = "BOX"
            /\ Place(i, f.x, f.y, f.w, f.h)
         \/ /\ f.mode = "BOX_N"
            /\ LET n == NextBox(f, frame[i - 1], m) IN
                 \/ /\ n.ok
                    /\ Place(i, n.x, n.y, f.w, f.h)
                 \/ /\ ~n.ok                  (* too many frames on bitmap *)
                    /\ pc' = "failed"
                    /\ UNCHANGED <<frame, box, i>>
  /\ UNCHANGED <<bitmaps, begin, mid>>

PlacedAll ==
  /\ pc = "place"
  /\ ~InGroup(i)
  /\ i' = begin
  /\ pc' = "wrap"
  /\ UNCHANGED <<bitmaps, frame, box, begin, mid>>

(* Without shrink wrap only the center is set. *)
KeepBox ==
  /\ pc = "wrap"
  /\ InGroup(i)
  /\ ~frame[i].wrap
  /\ frame' = [frame EXCEPT ![i].cx = frame[i].w \div 2,
                            ![i].cy = frame[i].h \div 2]
  /\ i' = i + 1
  /\ UNCHANGED <<bitmaps, box, begin, mid, pc>>

(* cFrame::ShrinkWrap of frame i *)
StartWrap ==
  /\ pc = "wrap"
  /\ InGroup(i)
  /\ frame[i].wrap
  /\ mid' = [x |-> frame[i].x + frame[i].w \div 2,
             y |-> frame[i].y + frame[i].h \div 2]
  /\ pc' = "top"
  /\ UNCHANGED <<bitmaps, frame, box, begin, i>>

(* A row of no pixels is clear without being read. *)
Readable == Opened(Bitmap) \/ frame[i].w = 0

(* The first row of a bitmap that is not open is read. *)
ReadNull ==
  /\ pc = "top"
  /\ ~Readable
  /\ pc' = "crashed"
  /\ UNCHANGED <<bitmaps, frame, box, begin, i, mid>>

(* A fault: the height is not looked at *)
TrimTopUnbounded ==
  /\ pc = "top"
  /\ Readable
  /\ LET f == frame[i] IN
       IF IsClearH(Bitmap, f.x, f.y, f.w) /\ f.y <= metrics[Bitmap].h
         THEN /\ frame' = [frame EXCEPT ![i].y = f.y + 1, ![i].h = f.h - 1]
              /\ UNCHANGED pc
         ELSE /\ pc' = "bottom"
              /\ UNCHANGED frame
  /\ UNCHANGED <<bitmaps, box, begin, i, mid>>

(* One row off the top.  The test reads row y before it looks at the       *)
(* height: when all rows are gone that is the row below the box.           *)
TrimTop ==
  /\ pc = "top"
  /\ Readable
  /\ LET f == frame[i] IN
       IF IsClearH(Bitmap, f.x, f.y, f.w) /\ f.h # 0
         THEN /\ frame' = [frame EXCEPT ![i].y = f.y + 1, ![i].h = f.h - 1]
              /\ UNCHANGED <<pc, i>>
         ELSE IF f.h = 0
                THEN /\ frame' = [frame EXCEPT ![i].x = 0, ![i].y = 0,
                                               ![i].w = 0, ![i].h = 0]
                     /\ i' = i + 1
                     /\ pc' = "wrap"
                ELSE /\ pc' = "bottom"
                     /\ UNCHANGED <<frame, i>>
  /\ UNCHANGED <<bitmaps, box, begin, mid>>

(* A fault: the row below the box decides *)
TrimBottomBelow ==
  /\ pc = "bottom"
  /\ LET f == frame[i] IN
       IF IsClearH(Bitmap, f.x, f.y + f.h, f.w) /\ f.h # 0
         THEN /\ frame' = [frame EXCEPT ![i].h = f.h - 1]
              /\ UNCHANGED pc
         ELSE /\ pc' = "left"
              /\ UNCHANGED frame
  /\ UNCHANGED <<bitmaps, box, begin, i, mid>>

TrimBottom ==
  /\ pc = "bottom"
  /\ LET f == frame[i] IN
       IF IsClearH(Bitmap, f.x, f.y + (f.h - 1), f.w)
         THEN /\ frame' = [frame EXCEPT ![i].h = f.h - 1]
              /\ UNCHANGED pc
         ELSE /\ pc' = "left"
              /\ UNCHANGED frame
  /\ UNCHANGED <<bitmaps, box, begin, i, mid>>

TrimLeft ==
  /\ pc = "left"
  /\ LET f == frame[i] IN
       IF IsClearV(Bitmap, f.x, f.y, f.h)
         THEN /\ frame' = [frame EXCEPT ![i].x = f.x + 1, ![i].w = f.w - 1]
              /\ UNCHANGED pc
         ELSE /\ pc' = "right"
              /\ UNCHANGED frame
  /\ UNCHANGED <<bitmaps, box, begin, i, mid>>

(* A fault: the center is that of the trimmed frame *)
TrimRightCentered ==
  /\ pc = "right"
  /\ LET f == frame[i] IN
       IF IsClearV(Bitmap, f.x + (f.w - 1), f.y, f.h)
         THEN /\ frame' = [frame EXCEPT ![i].w = f.w - 1]
              /\ UNCHANGED <<pc, i>>
         ELSE /\ frame' = [frame EXCEPT ![i].cx = f.w \div 2,
                                        ![i].cy = f.h \div 2]
              /\ i' = i + 1
              /\ pc' = "wrap"
  /\ UNCHANGED <<bitmaps, box, begin, mid>>

(* The last side; then the center is expressed in the trimmed frame.       *)
TrimRight ==
  /\ pc = "right"
  /\ LET f == frame[i] IN
       IF IsClearV(Bitmap, f.x + (f.w - 1), f.y, f.h)
         THEN /\ frame' = [frame EXCEPT ![i].w = f.w - 1]
              /\ UNCHANGED <<pc, i>>
         ELSE /\ frame' = [frame EXCEPT ![i].cx = mid.x - f.x,
                                        ![i].cy = mid.y - f.y]
              /\ i' = i + 1
              /\ pc' = "wrap"
  /\ UNCHANGED <<bitmaps, box, begin, mid>>

WrappedAll ==
  /\ pc = "wrap"
  /\ ~InGroup(i)
  /\ begin' = i
  /\ pc' = "group"
  /\ UNCHANGED <<bitmaps, frame, box, i, mid>>

Finish ==
  /\ pc = "group"
  /\ begin > Count
  /\ pc' = "done"
  /\ UNCHANGED <<bitmaps, frame, box, begin, i, mid>>

Work ==
  \/ OpenGroup \/ PlaceBox \/ PlacedAll \/ KeepBox \/ StartWrap \/ ReadNull
  \/ TrimTop \/ TrimBottom \/ TrimLeft \/ TrimRight \/ WrappedAll \/ Finish

Next == Work \/ \E t \in Textures : Begin(t)

Spec == Init /\ [][Next]_vars

-----------------------------------------------------------------------------
(* The types of the fields; sizes never become negative, even where boxes  *)
(* reach beyond their bitmap.                                              *)
TypeOK ==
  /\ BitmapsTypeOK
  /\ \A f \in 1 .. Count :
       frame[f] \in [mode : Modes, bitmap : DOMAIN file, dir : {0, 1},
                     wrap : BOOLEAN, x : Int, y : Int, w : Nat, h : Nat,
                     cx : Int, cy : Int]
  /\ box \in Seq([x : Int, y : Int, w : Nat, h : Nat])
  /\ begin \in 1 .. Count + 1 /\ i \in 1 .. Count + 1
  /\ pc \in {"group", "place", "wrap", "top", "bottom", "left", "right",
             "done", "failed", "crashed"}

(* At most one bitmap has its pixels in memory, and they are those of the  *)
(* file its element stands for now, not of a texture before.               *)
OneOpen ==
  \A b \in Slots : Opened(b) =>
    /\ \A c \in Slots \ {b} : ~Opened(c)
    /\ b \in DOMAIN file /\ fib[b] = Picture(file[b])

(* The frames of the run of boxes f belongs to *)
FirstOf(f) ==
  CHOOSE g \in 1 .. f : /\ frame[g].mode = "BOX"
                        /\ \A k \in g + 1 .. f : frame[k].mode = "BOX_N"

InBitmap(r, b) ==
  /\ 0 <= r.x /\ r.x + r.w <= metrics[b].w
  /\ 0 <= r.y /\ r.y + r.h <= metrics[b].h

(* If the first box of a run lies on the bitmap then all boxes of the run  *)
(* do, and no two of them share a pixel, even though each is found from    *)
(* its predecessor alone, and although frames are trimmed later on.        *)
BoxesApart ==
  \A f \in DOMAIN box :
    (frame[f].mode = "BOX_N" /\ InBitmap(box[FirstOf(f)], frame[f].bitmap)) =>
      /\ InBitmap(box[f], frame[f].bitmap)
      /\ \A g \in FirstOf(f) .. f - 1 : Disjoint(box[g], box[f])

(* The pixels of the rectangle r of a bitmap that are not transparent *)
OpaqueIn(r, b) ==
  LET p == Picture(file[b])
  IN  {q \in (r.x .. r.x + r.w - 1) \X (r.y .. r.y + r.h - 1) :
         Look(p, q[1], q[2]).a # 0}

(* What a wrapped frame ends up as: the smallest rectangle with all pixels *)
(* of its box that are not transparent, nothing if there are none, where   *)
(* it is on the bitmap.  The row below the box, which the top loop reads   *)
(* when all others are clear, makes no difference.                         *)
WrapIsTight ==
  pc = "done" =>
    \A f \in 1 .. Count : frame[f].wrap =>
      LET seen == OpaqueIn(box[f], frame[f].bitmap)
          r == RectOfFrame(f)
      IN  IF seen = {} THEN r = [x |-> 0, y |-> 0, w |-> 0, h |-> 0]
          ELSE /\ OpaqueIn(r, frame[f].bitmap) = seen
               /\ Inside(r, box[f])
               /\ \E p \in seen : p[1] = r.x
               /\ \E p \in seen : p[1] = r.x + r.w - 1
               /\ \E p \in seen : p[2] = r.y
               /\ \E p \in seen : p[2] = r.y + r.h - 1
=============================================================================
