------------------------------ MODULE Texture -------------------------------
(***************************************************************************)
(* process_ini (process_ini.cpp) from the frames of a texture to its       *)
(* files: PlaceBoxAndShrinkWrap_All, Pack_All, Copy_All and SaveTable, one *)
(* after the other, for one texture after another.  Frames, Pack and Copy  *)
(* are the steps; the arrays Bitmap and Frame, of which each uses other    *)
(* fields, are what they have in common.                                   *)
(***************************************************************************)
EXTENDS Bitmaps, Rects, SequencesExt, Powers

CONSTANTS
  LongBits,     (* the width of long; a WORD or short has half of it  *)
  StartSide, BorderMax, FrameMax, FrameSizes,            (* see Pack  *)
  Textures,     (* what a texture may be: files, frames and border    *)
  Later,        (* bound: what textures after the first may be        *)
  MaxTextures   (* bound: how many textures are processed             *)

VARIABLES
  frame, box, mid,                                    (* see Frames   *)
  heap, call, stack, ret, claimed,                    (* see cNode    *)
  size, dest, order, pos, method, side, border,       (* see Pack     *)
  atlas, allocated,                                   (* see Copy     *)
  Border,       (* the border key of the texture's config file        *)
  table,        (* the file SaveTable writes                          *)
  begin, i,     (* iBegin and i of the loop over groups               *)
  texture,      (* how many textures have been begun                  *)
  stage,        (* the function process_ini is in, or its result      *)
  placePc, packPc, copyPc

F == INSTANCE Frames WITH pc <- placePc, Textures <- Textures \cup Later

P == INSTANCE Pack WITH i <- pos, pc <- packPc,
                        Borders <- {t.border : t \in Textures \cup Later}

C == INSTANCE Copy WITH pc <- copyPc

ASSUME TextureAssumption ==
  /\ F!FramesAssumption
  /\ P!PackAssumption
  /\ \A t \in Textures \cup Later : Len(t.frames) <= FrameMax
  /\ MaxTextures \in Nat

bitmaps == <<file, metrics, fib, active>>
loop == <<begin, i>>
placing == <<box, mid, placePc>>
packing == <<heap, call, stack, ret, claimed, size, order, pos, method, border, packPc>>
copying == <<atlas, allocated, copyPc>>

vars == <<bitmaps, frame, loop, placing, packing, dest, side, copying,
          Border, table, texture, stage>>

-----------------------------------------------------------------------------
Init ==
  /\ F!Init
  /\ P!Init
  /\ atlas = C!Blank /\ allocated = FALSE /\ copyPc = "saved"
  /\ Border = 0
  /\ table = <<>>
  /\ texture = 0
  /\ stage = "passed"

(* process_ini has read the config file of the next texture. *)
Begin(t) ==
  /\ stage = "passed"
  /\ F!Begin(t)
  /\ Border' = t.border
  /\ atlas' = C!Blank
  /\ table' = <<>>
  /\ texture' = texture + 1
  /\ stage' = "place"
  /\ UNCHANGED <<packing, dest, side, allocated, copyPc>>

PlaceBoxAndShrinkWrap ==
  /\ stage = "place"
  /\ F!Work
  /\ stage' = IF placePc' \in {"failed", "crashed"} THEN placePc' ELSE stage
  /\ UNCHANGED <<packing, dest, side, copying, Border, table, texture>>

Sizes == [f \in DOMAIN frame |-> [w |-> frame[f].w, h |-> frame[f].h]]

StartPack ==
  /\ stage = "place"
  /\ placePc = "done"
  /\ P!PackAll(Sizes, Border)
  /\ stage' = "pack"
  /\ UNCHANGED <<bitmaps, frame, loop, placing, copying, Border, table, texture>>

PackFrames ==
  /\ stage = "pack"
  /\ P!Work
  /\ UNCHANGED <<bitmaps, frame, loop, placing, copying, Border, table, texture, stage>>

StartCopy ==
  /\ stage = "pack"
  /\ packPc = "done"
  /\ C!CopyAll
  /\ stage' = "copy"
  /\ UNCHANGED <<placing, packing, Border, table, texture>>

CopyFrames ==
  /\ stage = "copy"
  /\ C!Work
  /\ UNCHANGED <<placing, packing, Border, table, texture, stage>>

(* What a WORD and a short keep of a long *)
Word(x) == x % TwoTo[LongBits \div 2]

Short(x) == IF Word(x) < TwoTo[LongBits \div 2 - 1] THEN Word(x)
            ELSE Word(x) - TwoTo[LongBits \div 2]

SaveTable ==
  /\ stage = "copy"
  /\ copyPc = "saved"
  /\ table' = [f \in DOMAIN frame |->
                [x |-> Word(dest[f].x), y |-> Word(dest[f].y),
                 w |-> Word(frame[f].w), h |-> Word(frame[f].h),
                 cx |-> Short(frame[f].cx), cy |-> Short(frame[f].cy),
                 center |-> frame[f].wrap]]
  /\ stage' = "passed"
  /\ UNCHANGED <<bitmaps, frame, loop, placing, packing, dest, side, copying,
                 Border, texture>>

Work ==
  \/ PlaceBoxAndShrinkWrap \/ StartPack \/ PackFrames \/ StartCopy
  \/ CopyFrames \/ SaveTable

Next ==
  \/ Work
  \/ \E t \in IF texture = 0 THEN Textures ELSE Later :
       texture < MaxTextures /\ Begin(t)

(* process_ini runs to its return; nobody has to call it again. *)
Spec == Init /\ [][Next]_vars /\ WF_vars(Work)

-----------------------------------------------------------------------------
Returned == stage \in {"passed", "failed", "crashed"}

TypeOK ==
  /\ F!TypeOK /\ P!TypeOK /\ C!TypeOK
  /\ texture \in 0 .. MaxTextures
  /\ stage \in {"place", "pack", "copy", "passed", "failed", "crashed"}

(* The properties of the steps: see the modules *)
OneOpen == F!OneOpen
BoxesApart == F!BoxesApart
WrapIsTight == stage = "place" => F!WrapIsTight
SortedList == P!SortedList
FramesApart == stage \in {"copy", "passed"} => P!FramesApart
TreeSpec == P!TreeSpec

(* A color blended over white *)
Blend(a, c) == (c * a + ByteMax * (ByteMax - a)) \div ByteMax

(* What Open leaves of the pixels of a file: whatever colors are replaced, *)
(* no visible pixel is below the alpha cut off; and a PSD that was blended *)
(* over white gives its pixels back, less what the division drops.         *)
PicturesConverted ==
  \A b \in Slots : (Opened(b) /\ file[b].shrink <= 1) =>
    \A q \in DOMAIN fib[b].px :
      LET f == file[b]
          old == f.px[q]
          new == fib[b].px[q]
      IN  /\ new.a # 0 => new.a > f.aco
          /\ (f.psd /\ f.from = f.to /\ new.a # 0 /\ old.c >= ByteMax - old.a) =>
               /\ new.a = old.a
               /\ Blend(new.a, new.c) \in {old.c - 1, old.c}

(* The fields of the table hold what the frames have: textures too large   *)
(* for a WORD are never accepted.                                          *)
TableExact ==
  \A f \in DOMAIN table :
    /\ <<table[f].x, table[f].y>> = <<dest[f].x, dest[f].y>>
    /\ <<table[f].w, table[f].h>> = <<frame[f].w, frame[f].h>>
    /\ <<table[f].cx, table[f].cy>> = <<frame[f].cx, frame[f].cy>>

Source(f) == Picture(file[frame[f].bitmap])

(* The pixel of the atlas a game takes for the pixel p of the bitmap when  *)
(* it draws frame f by its center: trimming must not move the sprite.      *)
Drawn(f, p) ==
  <<table[f].x + table[f].cx + p[1] - (box[f].x + box[f].w \div 2),
    table[f].y + table[f].cy + p[2] - (box[f].y + box[f].h \div 2)>>

Pixels(r) == (r.x .. r.x + r.w - 1) \X (r.y .. r.y + r.h - 1)

(* What the two files of a texture are for.  Every visible pixel of the    *)
(* box of a frame is in the atlas where its entry in the table says, if    *)
(* the bitmap can be opened, the box is on it and there was memory for the *)
(* atlas; and there is nothing else in the atlas.  Each step of            *)
(* process_ini has to be right for that.                                   *)
AtlasShowsSprites ==
  stage = "passed" =>
    /\ \A f \in DOMAIN table :
         LET s == Source(f) IN
           (allocated /\ F!InBitmap(box[f], frame[f].bitmap)) =>
             \A p \in Pixels(box[f]) : Look(s, p[1], p[2]).a # 0 =>
               /\ Drawn(f, p) \in DOMAIN atlas
               /\ atlas[Drawn(f, p)] = Look(s, p[1], p[2])
    /\ \A q \in DOMAIN atlas : \E f \in DOMAIN table :
         LET s == Source(f) IN
           /\ q \in Pixels(table[f])
           /\ \E p \in Pixels(box[f]) :
                Drawn(f, p) = q /\ atlas[q] = Look(s, p[1], p[2])

(* process_ini returns if the frames fit the largest texture on its        *)
(* diagonal, whatever the bitmaps and the memory around them hold.         *)
Terminates == (stage = "place") ~> (Returned \/ (stage = "pack" /\ ~P!FitsSideMax))
=============================================================================
