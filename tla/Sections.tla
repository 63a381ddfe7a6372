------------------------------ MODULE Sections ------------------------------
(***************************************************************************)
(* add_bitmaps_and_frames (process_ini.cpp) for one texture after another: *)
(* the sections of its config file become entries of the static arrays     *)
(* Bitmap (cBitmap::Add) and Frame (cFrame::Add), a #define each in the    *)
(* header, and an entry of the UID list.                                   *)
(*                                                                         *)
(* A section is the record of its keys, where skipframes is not negative:  *)
(* i % -n is i % n in C. A source file is <<base, n>>, the bitmap of that  *)
(* number in the sequence its infile begins; a file without digits has     *)
(* number 0. The conversion of pixels (infile_argb_from, _to) is one       *)
(* value.                                                                  *)
(***************************************************************************)
EXTENDS Integers, Sequences, FiniteSets

CONSTANTS
  BITMAP_MAX, FRAME_MAX,
  Textures,     (* the config files: sequences of sections            *)
  Files,        (* the source files that exist and are not empty      *)
  Numeric,      (* the bases that have digits before the extension    *)
  LastNumber,   (* the number that is all nines                       *)
  MaxTextures,  (* bound: how many textures are processed             *)
  Garbage       (* values a long may hold that was never set           *)

OUTPUT == "OUTPUT"

Section ==
  [name : STRING, base : STRING, box : BOOLEAN, w : Int, h : Int,
   frames : Int, skip : Nat, aco : Int, argb : STRING, shrink : Int]

ASSUME SectionsAssumption ==
  /\ BITMAP_MAX \in Nat \ {0} /\ FRAME_MAX \in Nat \ {0}
  /\ LastNumber \in Nat /\ MaxTextures \in Nat
  /\ Textures \subseteq Seq(Section)
  /\ Garbage \subseteq Int

VARIABLES
  texture,      (* the sections of the texture being processed        *)
  done,         (* how many textures have been begun                  *)
  k,            (* the section EnumSection stands on                  *)
  j,            (* i: the counter of the loop in progress             *)
  file,         (* cInfile or cTemp                                   *)
  iBitmap,      (* iBitmap: what cBitmap::Add returned last           *)
  bitmap,       (* Bitmap[]: m_cFile, m_AlphaCutOff, m_ARGB, m_Shrink *)
  nBitmaps,     (* cBitmap::s_nBitmaps                                *)
  frame,        (* Frame[]: the section (history) and m_iBitmap       *)
  nFrames,      (* cFrame::s_nFrames                                  *)
  total,        (* TotalFrames, a local variable that is not set      *)
  header,       (* Header: the #defines so far                        *)
  saved,        (* the header file in the folder of the texture       *)
  uids,         (* g_UID, g_iUID, never reset; box and added: history  *)
  pc

array == <<bitmap, nBitmaps, frame, nFrames>>

vars == <<texture, done, k, j, file, iBitmap, array, total, header, saved, uids,
          pc>>

Sec == texture[k]

Slots == 1 .. BITMAP_MAX

Free == [file |-> <<"", 0>>, aco |-> 0, argb |-> "", shrink |-> 0]

-----------------------------------------------------------------------------
(* IncrementString: all nines become zeros, which ends the sequence. *)
IncrementOK(f) == f[1] \in Numeric /\ f[2] < LastNumber

Increment(f) ==
  IF f[1] \notin Numeric THEN f
  ELSE IF f[2] < LastNumber THEN <<f[1], f[2] + 1>> ELSE <<f[1], 0>>

(* A fault: the entry added last is not looked at *)
KnownButLast(f, s) ==
  {b \in 1 .. nBitmaps - 1 : /\ bitmap[b].file = f
                             /\ bitmap[b].aco = s.aco
                             /\ bitmap[b].shrink = s.shrink}

(* cBitmap::Add: an entry of this texture with the same file, alpha cut    *)
(* off and shrink is used again, whatever its conversion of pixels.        *)
Known(f, s) ==
  {b \in 1 .. nBitmaps : /\ bitmap[b].file = f
                         /\ bitmap[b].aco = s.aco
                         /\ bitmap[b].shrink = s.shrink}

(* A new entry; a shrink that is not 1 to 8 is not stored.                 *)
Entry(f, s, old) ==
  [file |-> f, aco |-> s.aco, argb |-> s.argb,
   shrink |-> IF s.shrink \in 1 .. 8 THEN s.shrink ELSE old.shrink]

(* A fault: the limit is not looked at *)
AddBitmapUnbounded(f, s) ==
  \/ /\ Known(f, s) # {}
     /\ iBitmap' \in Known(f, s)
     /\ UNCHANGED <<bitmap, nBitmaps>>
  \/ /\ Known(f, s) = {}
     /\ nBitmaps' = nBitmaps + 1
     /\ iBitmap' = nBitmaps'
     /\ bitmap' = [b \in Slots \cup {nBitmaps'} |->
                    IF b = nBitmaps' THEN Entry(f, s, Free) ELSE bitmap[b]]

(* Add returns the index of the entry, -1 when Bitmap is full.             *)
AddBitmap(f, s) ==
  \/ /\ Known(f, s) # {}
     /\ iBitmap' = CHOOSE b \in Known(f, s) : \A c \in Known(f, s) : b <= c
     /\ UNCHANGED <<bitmap, nBitmaps>>
  \/ /\ Known(f, s) = {}
     /\ nBitmaps' = nBitmaps + 1
     /\ \/ /\ nBitmaps' > BITMAP_MAX
           /\ iBitmap' = -1
           /\ UNCHANGED bitmap
        \/ /\ nBitmaps' <= BITMAP_MAX
           /\ iBitmap' = nBitmaps'
           /\ bitmap' = [bitmap EXCEPT ![nBitmaps'] = Entry(f, s, @)]

Full == nFrames >= FRAME_MAX

(* cFrame::Add counts the frame before it looks whether there is room.     *)
AddFrame(b) ==
  /\ nFrames' = nFrames + 1
  /\ frame' = IF Full THEN frame ELSE Append(frame, [sec |-> k, bitmap |-> b])

(* A fault: the bitmaps are counted, not the frames *)
BitmapsUsed == nBitmaps

GetFramesUsed == nFrames

-----------------------------------------------------------------------------
Init ==
  /\ texture = <<>>
  /\ done = 0
  /\ k = 0
  /\ j = 0
  /\ file = <<"", 0>>
  /\ iBitmap = -1
  /\ bitmap = [b \in Slots |-> Free]
  /\ nBitmaps = 0
  /\ frame = <<>>
  /\ nFrames = 0
  /\ total \in Garbage
  /\ header = <<>>
  /\ saved = <<>>
  /\ uids = <<>>
  /\ pc = "true"

(* process_ini: cBitmap::Free_All and cFrame::Free_All set the counts back *)
(* and leave the elements of the arrays as they are.                       *)
Begin(t) ==
  /\ pc = "true" /\ done < MaxTextures
  /\ done' = done + 1
  /\ texture' = t
  /\ k' = 0
  /\ nBitmaps' = 0
  /\ nFrames' = 0 /\ frame' = <<>>
  /\ total' \in Garbage
  /\ header' = <<>>
  /\ saved' = <<>>
  /\ pc' = "enum"
  /\ UNCHANGED <<j, file, iBitmap, bitmap, uids>>

Return(result) == pc' = result

(* EnumSection: a section whose name occurs again further on is an error.  *)
Enum ==
  /\ pc = "enum"
  /\ \/ /\ k = Len(texture)
        /\ saved' = header                                 (* Header.Save *)
        /\ Return("true")
        /\ UNCHANGED <<k, header>>
     \/ /\ k < Len(texture)
        /\ k' = k + 1
        /\ LET s == texture[k'] IN
             \/ /\ \E l \in k' + 1 .. Len(texture) : texture[l].name = s.name
                /\ Return("false")
                /\ UNCHANGED header
             \/ /\ \A l \in k' + 1 .. Len(texture) : texture[l].name # s.name
                /\ \/ /\ s.name = OUTPUT
                      /\ UNCHANGED <<header, pc>>
                   \/ /\ s.name # OUTPUT
                      /\ header' = Append(header, <<s.name, GetFramesUsed>>)
                      /\ pc' = "infile"
        /\ UNCHANGED saved
  /\ UNCHANGED <<texture, done, j, file, iBitmap, array, total, uids>>

(* infile has to exist, there must be frames, a box must have a size, and  *)
(* a sequence must be numbered.  Without frames the function returns true  *)
(* at once, and likewise for a sequence that is not numbered, after it has *)
(* printed an error.                                                       *)
CheckSection ==
  /\ pc = "infile"
  /\ file' = <<Sec.base, 0>>
  /\ j' = 1
  /\ \/ /\ file' \notin Files
        /\ Return("false")
     \/ /\ file' \in Files
        /\ \/ /\ Sec.frames < 1
              /\ Return("true")
           \/ /\ Sec.frames >= 1
              /\ \/ /\ Sec.box
                    /\ Sec.w <= 0 \/ Sec.h <= 0
                    /\ Return("false")
                 \/ /\ Sec.box
                    /\ Sec.w > 0 /\ Sec.h > 0
                    /\ pc' = "first"
                 \/ /\ ~Sec.box
                    /\ Sec.base \notin Numeric /\ Sec.frames > 1
                    /\ Return("true")
                 \/ /\ ~Sec.box
                    /\ Sec.base \in Numeric \/ Sec.frames = 1
                    /\ pc' = "check"
  /\ UNCHANGED <<texture, done, k, iBitmap, array, total, header, saved, uids>>

(* The bitmap and the first frame of box mode; nobody looks at what        *)
(* cFrame::Add returns.                                                    *)
FirstBox ==
  /\ pc = "first"
  /\ AddBitmap(file, Sec)
  /\ \/ /\ iBitmap' < 0
        /\ Return("false")
        /\ UNCHANGED <<frame, nFrames>>
     \/ /\ iBitmap' >= 0
        /\ AddFrame(iBitmap')
        /\ pc' = "box"
  /\ UNCHANGED <<texture, done, k, j, file, total, header, saved, uids>>

NextBox ==
  /\ pc = "box"
  /\ \/ /\ j = Sec.frames
        /\ pc' = "uid"
        /\ UNCHANGED <<frame, nFrames, j>>
     \/ /\ j < Sec.frames
        /\ AddFrame(iBitmap)
        /\ \/ /\ Full
              /\ Return("false")
              /\ UNCHANGED j
           \/ /\ ~Full
              /\ j' = j + 1
              /\ UNCHANGED pc
  /\ UNCHANGED <<texture, done, k, file, iBitmap, bitmap, nBitmaps, total,
                 header, saved, uids>>

(* Sequence mode first checks that every numbered file is there.           *)
CheckFile ==
  /\ pc = "check"
  /\ \/ /\ j = Sec.frames
        /\ file' = <<Sec.base, 0>>
        /\ j' = 0
        /\ total' = 0
        /\ pc' = "seq"
     \/ /\ j < Sec.frames
        /\ file' = Increment(file)
        /\ j' = j + 1
        /\ \/ /\ IncrementOK(file) /\ file' \in Files
              /\ UNCHANGED pc
           \/ /\ ~(IncrementOK(file) /\ file' \in Files)
              /\ Return("false")
        /\ UNCHANGED total
  /\ UNCHANGED <<texture, done, k, iBitmap, array, header, saved, uids>>

(* A fault: counting begins with 1 *)
SkippedFromOne == Sec.skip # 0 /\ (j + 1) % Sec.skip # 0

(* With skipframes only the files at multiples of it are used. *)
Skipped == Sec.skip # 0 /\ j % Sec.skip # 0

(* Faults: the name of the file stays as it is, the file skipped counts    *)
(* for the UIDs, the counter is not advanced.                              *)
SkipFileSameName ==
  /\ pc = "seq"
  /\ j < Sec.frames /\ Skipped
  /\ j' = j + 1
  /\ UNCHANGED <<texture, done, k, file, iBitmap, array, total, header, saved,
                 uids, pc>>

SkipFileCounted ==
  /\ pc = "seq"
  /\ j < Sec.frames /\ Skipped
  /\ file' = Increment(file)
  /\ j' = j + 1
  /\ total' = total + 1
  /\ UNCHANGED <<texture, done, k, iBitmap, array, header, saved, uids,
                 pc>>

SkipFileStuck ==
  /\ pc = "seq"
  /\ j < Sec.frames /\ Skipped
  /\ file' = Increment(file)
  /\ UNCHANGED <<texture, done, k, j, iBitmap, array, total, header, saved,
                 uids, pc>>

SkipFile ==
  /\ pc = "seq"
  /\ j < Sec.frames /\ Skipped
  /\ file' = Increment(file)
  /\ j' = j + 1
  /\ UNCHANGED <<texture, done, k, iBitmap, array, total, header, saved, uids,
                 pc>>

(* Then a bitmap and a frame are added for each file that is used. *)
NextFile ==
  /\ pc = "seq"
  /\ j < Sec.frames /\ ~Skipped
  /\ total' = total + 1
  /\ AddBitmap(file, Sec)
  /\ \/ /\ iBitmap' < 0
        /\ Return("false")
        /\ UNCHANGED <<frame, nFrames, file, j>>
     \/ /\ iBitmap' >= 0
        /\ AddFrame(iBitmap')
        /\ \/ Full /\ Return("false") /\ UNCHANGED <<file, j>>
           \/ /\ ~Full
              /\ file' = Increment(file)
              /\ j' = j + 1
              /\ UNCHANGED pc
  /\ UNCHANGED <<texture, done, k, header, saved, uids>>

LastFile ==
  /\ pc = "seq"
  /\ j = Sec.frames
  /\ pc' = "uid"
  /\ UNCHANGED <<texture, done, k, j, file, iBitmap, array, total, header,
                 saved, uids>>

FramesOf(l) == {f \in DOMAIN frame : frame[f].sec = l}

(* g_UID[g_iUID] and g_UID[g_iUID + 1]: see main.cpp on their use          *)
AddUID ==
  /\ pc = "uid"
  /\ uids' = Append(uids, [uid |-> Sec.name, frames |-> total,
                           box |-> Sec.box, added |-> Cardinality(FramesOf(k))])
  /\ pc' = "enum"
  /\ UNCHANGED <<texture, done, k, j, file, iBitmap, array, total, header,
                 saved>>

Work ==
  \/ Enum \/ CheckSection \/ FirstBox \/ NextBox \/ CheckFile \/ SkipFile
  \/ NextFile \/ LastFile \/ AddUID

Next == Work \/ \E t \in Textures : Begin(t)

Spec == Init /\ [][Next]_vars /\ WF_vars(Work)

-----------------------------------------------------------------------------
(* The types; the counts run ahead of the arrays by what did not fit.      *)
TypeOK ==
  /\ done \in 0 .. MaxTextures
  /\ k \in 0 .. Len(texture)
  /\ iBitmap \in {-1} \cup Slots
  /\ nBitmaps \in 0 .. BITMAP_MAX + 1
  /\ Len(frame) <= FRAME_MAX /\ nFrames >= Len(frame)
  /\ \A f \in DOMAIN frame : frame[f].bitmap \in 1 .. nBitmaps \cap Slots
  /\ pc \in {"true", "false", "enum", "infile", "first", "box", "check", "seq",
             "uid"}

(* What a game does with the header: its #define of a section is the index *)
(* of the first frame of that section, and the frames of the section go on *)
(* up to the #define that follows.                                         *)
HeaderIndexes ==
  \A d \in DOMAIN header : \A f \in DOMAIN frame :
    texture[frame[f].sec].name = header[d][1] <=>
      /\ header[d][2] < f
      /\ d = Len(header) \/ f <= header[d + 1][2]

(* The place of a frame in its section, from 0 *)
Nth(f) == Cardinality({g \in FramesOf(frame[f].sec) : g < f})

(* A frame has the bitmap its section asks for, at whatever entry of the   *)
(* shared array that is: a box the infile, a frame of a sequence the file  *)
(* with its number, counted in steps of skipframes; with the alpha cut off *)
(* and, if it is one that can be stored, the shrink of that section.       *)
FramesShowFiles ==
  \A f \in DOMAIN frame :
    LET s == texture[frame[f].sec]
        b == bitmap[frame[f].bitmap]
        step == IF s.skip = 0 THEN 1 ELSE s.skip
    IN  /\ b.file = <<s.base, IF s.box THEN 0 ELSE step * Nth(f)>>
        /\ b.aco = s.aco
        /\ s.shrink \in 1 .. 8 => b.shrink = s.shrink

(* No file is loaded and packed into memory twice for the same treatment,  *)
(* as long as every shrink so far is one that Add stores: another leaves   *)
(* the entry with the shrink it had, which may be that of an entry there   *)
(* is, even when Frame is full and no frame will ever show it.             *)
NoBitmapTwice ==
  (\A l \in 1 .. k : texture[l].shrink \in 1 .. 8) =>
    \A b, c \in 1 .. nBitmaps \cap Slots : b # c =>
      \/ bitmap[b].file # bitmap[c].file
      \/ bitmap[b].aco # bitmap[c].aco
      \/ bitmap[b].shrink # bitmap[c].shrink

(* The frames a section stands for *)
Wanted(s) ==
  IF s.name = OUTPUT THEN 0
  ELSE IF s.box \/ s.skip = 0 THEN s.frames
  ELSE (s.frames + s.skip - 1) \div s.skip

(* A section that is left behind has all its frames, as long as the frames *)
(* fit the array; so has the last one if the header is saved.              *)
SectionsComplete ==
  nFrames <= FRAME_MAX =>
    \A l \in 1 .. Len(texture) :
      (l < k \/ (l = k /\ (pc = "uid" \/ saved # <<>>))) =>
        Cardinality(FramesOf(l)) = Wanted(texture[l])

(* The list of UIDs tells the right number of frames of a sequence.        *)
SeqUids == \A u \in DOMAIN uids : ~uids[u].box => uids[u].frames = uids[u].added

(* add_bitmaps_and_frames returns, and only then is the next texture begun *)
Returns == pc = "enum" ~> pc \in {"true", "false"}

(* What the runs of the findings refute: see README.md                     *)

(* main.cpp: "save UIDs (UID,frames,UID,frames,UID,frames,...)"            *)
AllUids == \A u \in DOMAIN uids : uids[u].frames = uids[u].added

(* includes.h: "FRAME_MAX = max number of frames (sprites) - per texture   *)
(* atlas"                                                                  *)
FramesWithinMax == pc = "true" => nFrames <= FRAME_MAX

(* Technical Reference, infile_argb_from: "Pixels matching this ARGB       *)
(* value, are set to value for 'infile_argb_to'."                          *)
PixelsConverted ==
  \A f \in DOMAIN frame :
    bitmap[frame[f].bitmap].argb = texture[frame[f].sec].argb
=============================================================================
