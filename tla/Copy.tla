-------------------------------- MODULE Copy --------------------------------
(***************************************************************************)
(* cFrame::Copy_All and cFrame::Copy (cFrame_copy.cpp): the pixels of the  *)
(* frames are copied to the texture that Pack_All has made places on.  The *)
(* bitmaps are opened once more, group by group as in Frames; a frame      *)
(* whose bitmap does not open, or that is not on its bitmap, is left out   *)
(* without a word, and so are all frames if there is no memory for the     *)
(* texture.                                                                *)
(***************************************************************************)
EXTENDS Bitmaps

VARIABLES
  frame,        (* the frames: see Frames                             *)
  dest,         (* m_DestX, m_DestY: see Pack                         *)
  side,         (* s_PackWidth and s_PackHeight                       *)
  atlas,        (* the pixels of s_pDestFIB that have been set, then  *)
                (* those of the file that are not 0                   *)
  allocated,    (* s_pDestFIB is not 0                                *)
  begin,        (* iBegin                                             *)
  i,            (* i                                                  *)
  pc

bitmaps == <<file, metrics, fib, active>>

vars == <<bitmaps, frame, dest, side, atlas, allocated, begin, i, pc>>

Blank == [q \in {} |-> Clear]

Bitmap == frame[begin].bitmap

InGroup(f) == f <= Len(frame) /\ frame[f].bitmap = Bitmap

-----------------------------------------------------------------------------
(* InitDestBitmap: FreeImage clears what it allocates, if it can. *)
CopyAll ==
  /\ pc = "saved"
  /\ atlas' = Blank
  /\ allocated' \in BOOLEAN
  /\ begin' = 1
  /\ i' = 1
  /\ pc' = "group"
  /\ UNCHANGED <<bitmaps, frame, dest, side>>

(* Seeded fault: the bitmap is taken to be open still *)
OpenGroupNot ==
  /\ pc = "group"
  /\ begin <= Len(frame)
  /\ i' = begin
  /\ pc' = "copy"
  /\ UNCHANGED <<bitmaps, frame, dest, side, atlas, allocated, begin>>

OpenGroup ==
  /\ pc = "group"
  /\ begin <= Len(frame)
  /\ Open(Bitmap)
  /\ i' = begin
  /\ pc' = "copy"
  /\ UNCHANGED <<frame, dest, side, atlas, allocated, begin>>

(* The early returns of Copy.  Only the right and lower sides are compared *)
(* with those of the bitmap and of the texture.                            *)
Left(f, d) ==
  \/ f.w = 0
  \/ ~Opened(f.bitmap)
  \/ ~allocated
  \/ f.x + f.w > metrics[f.bitmap].w
  \/ f.y + f.h > metrics[f.bitmap].h
  \/ d.x + f.w > side
  \/ d.y + f.h > side

(* Row by row from the top: both pictures keep their bottom row first, and *)
(* both pointers begin below the row they copy.                            *)
Rows(f, d) ==
  [q \in (d.x .. d.x + f.w - 1) \X (d.y .. d.y + f.h - 1) |->
     Look(fib[f.bitmap], f.x + (q[1] - d.x), f.y + (q[2] - d.y))]

CopyFrame ==
  /\ pc = "copy"
  /\ InGroup(i)
  /\ LET rows == Rows(frame[i], dest[i]) IN
       atlas' = IF Left(frame[i], dest[i]) THEN atlas
                ELSE [q \in DOMAIN rows \cup DOMAIN atlas |->
                        IF q \in DOMAIN rows THEN rows[q] ELSE atlas[q]]
  /\ i' = i + 1
  /\ UNCHANGED <<bitmaps, frame, dest, side, allocated, begin, pc>>

CopiedAll ==
  /\ pc = "copy"
  /\ ~InGroup(i)
  /\ begin' = i
  /\ pc' = "group"
  /\ UNCHANGED <<bitmaps, frame, dest, side, atlas, allocated, i>>

(* SaveDestBitmap: the colors of transparent pixels are cleared.  Where    *)
(* nothing was allocated, there is no pixel and no file.                   *)
SaveDestBitmap ==
  /\ pc = "group"
  /\ begin > Len(frame)
  /\ atlas' = [q \in {q \in DOMAIN atlas : atlas[q].a # 0} |-> atlas[q]]
  /\ pc' = "saved"
  /\ UNCHANGED <<bitmaps, frame, dest, side, allocated, begin, i>>

Work == OpenGroup \/ CopyFrame \/ CopiedAll \/ SaveDestBitmap

-----------------------------------------------------------------------------
(* The types; and no pixel is ever set outside of the texture.             *)
TypeOK ==
  /\ BitmapsTypeOK
  /\ DOMAIN atlas \subseteq Coordinates(side, side)
  /\ \A q \in DOMAIN atlas : atlas[q] \in Pixel
  /\ allocated \in BOOLEAN
  /\ begin \in 1 .. Len(frame) + 1 /\ i \in 1 .. Len(frame) + 1
  /\ pc \in {"group", "copy", "saved"}
=============================================================================
