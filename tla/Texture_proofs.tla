--------------------------- MODULE Texture_proofs ---------------------------
(***************************************************************************)
(* What is proved of Texture: of PlaceBoxAndShrinkWrap_All (Frames),       *)
(* Pack_All (Pack, by what is proved of it in Pack_proofs) and Copy_All    *)
(* (Copy), one after the other for any number of textures. The bitmaps,    *)
(* their sizes, the number of frames and the border are any that           *)
(* TextureAssumption allows.                                               *)
(***************************************************************************)
EXTENDS Texture, ListLemmas, TLAPS

(* All sizes of frames that Pack may be given                              *)
AnySizes == {z \in [w : Nat, h : Nat] : z.w # 0 => z.h # 0}

(* What is proved of Pack for these sizes and any border. P, the instance  *)
(* Texture uses, is a copy of Pack with its own names; the lemmas that     *)
(* follow say that the two copies, and those of Bitmaps in Frames and      *)
(* Copy, mean the same.                                                    *)
PP == INSTANCE Pack_proofs WITH i <- pos, pc <- packPc,
                                FrameSizes <- AnySizes, Borders <- Int

(* Powers of two                                                           *)
LEMMA SamePowers == P!TwoTo = TwoTo /\ PP!TwoTo = TwoTo
BY DEF P!TwoTo, PP!TwoTo, TwoTo

(* Both copies have the assumptions of Pack.                               *)
LEMMA PackAssumed == P!PackAssumption /\ PP!PackAssumption
<1>. USE SamePowers
<1>1. P!PackAssumption
  BY TextureAssumption
<1>2. AnySizes \subseteq [w : Nat, h : Nat] /\ \A z \in AnySizes : z.w # 0 => z.h # 0
  BY DEF AnySizes
<1>3. \E z \in AnySizes : z.w # 0
  <2>1. [w |-> 1, h |-> 1] \in AnySizes
    BY DEF AnySizes
  <2> QED
    BY <2>1
<1> QED
  BY <1>1, <1>2, <1>3 DEF P!PackAssumption, PP!PackAssumption

(* The range of a long                                                     *)
LEMMA SameLong == \A x : P!Long(x) = PP!Long(x)
BY SamePowers DEF P!Long, PP!Long, P!Signed, PP!Signed

(* and that of a long long, which the keys of cFrame::Sort are             *)
LEMMA SameKey == \A s, m : P!Key(s, m) = PP!Key(s, m)
<1>1. \A x : P!LongLong(x) = PP!LongLong(x)
  BY SamePowers DEF P!LongLong, PP!LongLong, P!Signed, PP!Signed
<1> QED
  BY <1>1 DEF P!Key, PP!Key

(* cFrame::GetPixelsUsed                                                   *)
LEMMA SamePixels == P!Pixels = PP!Pixels
BY SamePowers, SameLong DEF P!SumOf, PP!SumOf, P!Frames, PP!Frames, P!Pixels, PP!Pixels

(* cFrame::Sort, one pass                                                  *)
LEMMA SameBest == \A l, m : P!Best(l, m) = PP!Best(l, m)
BY SameKey DEF P!Best, PP!Best, P!ToSet, PP!ToSet

(* Pack_All, the next attempt                                              *)
LEMMA SameNextTry == P!NextTry <=> PP!NextTry
BY SameLong DEF P!NextTry, PP!NextTry

(* cNode::Insert, one visit of a node                                      *)
LEMMA SameVisit == P!Tree!Visit <=> PP!Tree!Visit
BY DEF PP!Tree!Visit, P!Tree!Visit, PP!Tree!Descend, P!Tree!Descend,
       PP!Tree!Refuse, P!Tree!Refuse, PP!Tree!Take, P!Tree!Take,
       PP!Tree!Split, P!Tree!Split, PP!Tree!IsLeaf, P!Tree!IsLeaf,
       PP!Tree!Fits, P!Tree!Fits, PP!Tree!FitsExactly, P!Tree!FitsExactly,
       PP!Tree!Null, P!Tree!Null, PP!Tree!Halves, P!Tree!Halves,
       PP!Tree!NewNode, P!Tree!NewNode, PP!Tree!Larger, P!Tree!Larger

(* The calls of cNode                                                      *)
LEMMA SameTree ==
  /\ \A r : P!Tree!SetRoot(r) <=> PP!Tree!SetRoot(r)
  /\ \A b : P!Tree!Insert(b) <=> PP!Tree!Insert(b)
  /\ P!Tree!Null = PP!Tree!Null
BY DEF P!Tree!SetRoot, PP!Tree!SetRoot, P!Tree!NewNode, PP!Tree!NewNode,
       P!Tree!Null, PP!Tree!Null, P!Tree!Insert, PP!Tree!Insert,
       P!Tree!Root, PP!Tree!Root, P!tree, PP!tree

(* Pack_All at work                                                        *)
LEMMA SameWork == P!Work <=> PP!Work
<1>1. P!QuickReject <=> PP!QuickReject
  BY SamePixels, SameNextTry, SameLong, SameTree DEF P!QuickReject, PP!QuickReject, P!tree, PP!tree
<1>2. P!StartTry <=> PP!StartTry
  BY SamePixels, SameLong, SameTree DEF P!StartTry, PP!StartTry, P!tree, PP!tree
<1>3. P!FirstPass <=> PP!FirstPass
  BY SameBest, SameTree DEF P!FirstPass, PP!FirstPass, P!tree, PP!tree
<1>4. P!SortPass <=> PP!SortPass
  BY SameBest, SameTree DEF P!SortPass, PP!SortPass, P!tree, PP!tree
<1>5. P!SkipFrame <=> PP!SkipFrame
  BY SameTree DEF P!SkipFrame, PP!SkipFrame, P!tree, PP!tree
<1>6. P!InsertFrame <=> PP!InsertFrame
  BY SameTree DEF P!InsertFrame, PP!InsertFrame, P!tree, PP!tree
<1>7. P!Search <=> PP!Search
  BY SameVisit DEF P!Search, PP!Search, P!tree, PP!tree
<1>8. P!Placed <=> PP!Placed
  BY SameTree DEF P!Placed, PP!Placed, P!tree, PP!tree
<1>9. P!NoRoom <=> PP!NoRoom
  BY SameTree, SameNextTry DEF P!NoRoom, PP!NoRoom, P!tree, PP!tree
<1>10. P!Finish <=> PP!Finish
  BY SameTree DEF P!Finish, PP!Finish, P!tree, PP!tree
<1> QED
  BY <1>1, <1>2, <1>3, <1>4, <1>5, <1>6, <1>7, <1>8, <1>9, <1>10 DEF P!Work, PP!Work

(* The call of Pack_All                                                    *)
LEMMA SamePackAll == \A s, b : P!PackAll(s, b) <=> PP!PackAll(s, b)
BY SameTree DEF P!PackAll, PP!PackAll, P!tree, PP!tree, P!Clamp, PP!Clamp, P!Smaller, PP!Smaller

(* The frames cFrame::Sort finds                                           *)
LEMMA SameFound == P!Found = PP!Found
BY SameKey DEF P!Found, PP!Found, P!Frames, PP!Frames

(* cFrame::GetPixelsUsed: a long can count the pixels of all frames.       *)
PixelsCounted == P!PixelsCounted

(* The same for any sizes                                                  *)
LEMMA SameCounted == PixelsCounted <=> PP!PixelsCounted
BY SamePowers DEF PixelsCounted, P!PixelsCounted, PP!PixelsCounted, P!SumOf, PP!SumOf,
                  P!Frames, PP!Frames

(* What it promises                                                        *)
LEMMA SameFramesApart == P!FramesApart <=> PP!FramesApart
BY SameFound DEF P!FramesApart, PP!FramesApart, P!Visible, PP!Visible, P!Frames, PP!Frames,
                 P!Box, PP!Box, P!Disjoint, PP!Disjoint

(* The list it sorts                                                       *)
LEMMA SameSortedList == P!SortedList <=> PP!SortedList
BY SameKey, SameFound, SameCounted DEF PixelsCounted, P!SortedList, PP!SortedList,
   P!Frames, PP!Frames, P!ToSet, PP!ToSet, P!IsInjective, PP!IsInjective

(* The invariant of Pack holds at the start.                               *)
LEMMA PackInit == P!Init => PP!Inv
<1>1. SUFFICES ASSUME P!Init PROVE PP!Inv
  OBVIOUS
<1> DEFINE FromZero == [f \in P!Slots |-> [x |-> 0, y |-> 0]]
<1>2. /\ heap = <<P!Tree!NewNode(0, 0, StartSide, StartSide)>>
      /\ call = CHOOSE b \in P!BoxSizes : TRUE
      /\ stack = <<>> /\ ret = P!Tree!Null /\ claimed = 0
      /\ size = <<>>
      /\ dest = FromZero
      /\ order = <<>> /\ pos = 1 /\ method = 0 /\ side = StartSide /\ border = 0
      /\ packPc = "done"
  BY <1>1 DEF P!Init
<1>3. P!BoxSizes # {} /\ P!BoxSizes \subseteq PP!Boxes
  <2>1. /\ \E z \in FrameSizes : z.w # 0
        /\ FrameSizes \subseteq [w : Nat, h : Nat]
        /\ \A z \in FrameSizes : z.w # 0 => z.h # 0
        /\ BorderMax \in Nat
    BY PackAssumed DEF P!PackAssumption
  <2>2. PICK z \in FrameSizes : z.w # 0
    BY <2>1
  <2>3. P!BoxSizes # {}
    <3>1. z \in {y \in FrameSizes : y.w # 0} /\ 0 \in 0 .. BorderMax
      BY <2>1, <2>2
    <3>2. [w |-> z.w + 0, h |-> z.h + 0] \in P!BoxSizes
      BY <3>1 DEF P!BoxSizes
    <3> QED
      BY <3>2
  <2>4. ASSUME NEW y \in FrameSizes, y.w # 0, NEW b \in 0 .. BorderMax
        PROVE  [w |-> y.w + b, h |-> y.h + b] \in PP!Boxes
    <3>1. y \in [w : Nat, h : Nat] /\ y.h # 0 /\ b \in Nat
      BY <2>1, <2>4
    <3>2. y.w \in Nat /\ y.h \in Nat
      BY <3>1
    <3> QED
      BY <3>1, <3>2, <2>4 DEF PP!Boxes
  <2> QED
    BY <2>3, <2>4 DEF P!BoxSizes
<1>4. call \in PP!Boxes
  <2> DEFINE S == P!BoxSizes
  <2>1. S # {} /\ S \subseteq PP!Boxes /\ call = CHOOSE b \in S : TRUE
    BY <1>2, <1>3
  <2> HIDE DEF S
  <2> QED
    BY <2>1
<1>5. heap = <<PP!Tree!NewNode(0, 0, StartSide, StartSide)>> /\ ret = 0
  BY <1>2 DEF P!Tree!NewNode, PP!Tree!NewNode, P!Tree!Null, PP!Tree!Null
<1>6. dest = [f \in PP!Slots |-> [x |-> 0, y |-> 0]]
  BY <1>2 DEF P!Slots, PP!Slots
<1> HIDE DEF FromZero
<1> QED
  BY <1>2, <1>4, <1>5, <1>6, PackAssumed, PP!InvStart

(* The sum of a list                                                       *)
LEMMA SameSums == \A l : F!SumOf(l) = SumOf(l) /\ C!SumOf(l) = SumOf(l)
BY DEF SumOf, F!SumOf, C!SumOf

(* The mean of a list of pixels                                            *)
LEMMA SameMean == \A l : F!Mean(l) = Mean(l) /\ C!Mean(l) = Mean(l)
BY SameSums DEF Mean, F!Mean, C!Mean

(* FreeImage_Rescale; its rows and columns are named so that they need not *)
(* be looked into.                                                         *)
LEMMA SameRescale ==
  \A px, w, h, s : F!Rescale(px, w, h, s) = Rescale(px, w, h, s)
                   /\ C!Rescale(px, w, h, s) = Rescale(px, w, h, s)
<1> SUFFICES ASSUME NEW px, NEW w, NEW h, NEW s
             PROVE  F!Rescale(px, w, h, s) = Rescale(px, w, h, s)
                    /\ C!Rescale(px, w, h, s) = Rescale(px, w, h, s)
  OBVIOUS
<1> DEFINE row(q) == [k \in 1 .. s |-> px[<<q[1] * s + k - 1, q[2]>>]]
           narrow == [q \in Coordinates(w, h * s) |-> Mean(row(q))]
           column(n, q) == [k \in 1 .. s |-> n[<<q[1], q[2] * s + k - 1>>]]
<1>1. /\ \A a, b : F!Coordinates(a, b) = Coordinates(a, b)
      /\ \A a, b : C!Coordinates(a, b) = Coordinates(a, b)
  BY DEF Coordinates, F!Coordinates, C!Coordinates
<1>2. Rescale(px, w, h, s) = [q \in Coordinates(w, h) |-> Mean(column(narrow, q))]
  BY DEF Rescale
<1>3. F!Rescale(px, w, h, s) =
        [q \in F!Coordinates(w, h) |->
           F!Mean(column([p \in F!Coordinates(w, h * s) |-> F!Mean(row(p))], q))]
  BY DEF F!Rescale
<1>4. C!Rescale(px, w, h, s) =
        [q \in C!Coordinates(w, h) |->
           C!Mean(column([p \in C!Coordinates(w, h * s) |-> C!Mean(row(p))], q))]
  BY DEF C!Rescale
<1> HIDE DEF row, column
<1>5. narrow = [p \in F!Coordinates(w, h * s) |-> F!Mean(row(p))]
  BY <1>1, SameMean
<1>6. narrow = [p \in C!Coordinates(w, h * s) |-> C!Mean(row(p))]
  BY <1>1, SameMean
<1> HIDE DEF narrow
<1>7. F!Rescale(px, w, h, s) = [q \in Coordinates(w, h) |-> Mean(column(narrow, q))]
  BY <1>1, <1>3, <1>5, SameMean
<1>8. C!Rescale(px, w, h, s) = [q \in Coordinates(w, h) |-> Mean(column(narrow, q))]
  BY <1>1, <1>4, <1>6, SameMean
<1> QED
  BY <1>2, <1>7, <1>8

(* What Open makes of a pixel                                              *)
LEMMA SameConvert == \A f, p : F!Convert(f, p) = Convert(f, p) /\ C!Convert(f, p) = Convert(f, p)
BY DEF Convert, F!Convert, C!Convert, DoUnMultAlpha, F!DoUnMultAlpha, C!DoUnMultAlpha,
  UnMult, F!UnMult, C!UnMult, DoConvertARGB, F!DoConvertARGB, C!DoConvertARGB,
  DoAlphaCutOff, F!DoAlphaCutOff, C!DoAlphaCutOff

(* No picture                                                              *)
LEMMA SameNoFib == F!NoFib = NoFib /\ C!NoFib = NoFib
BY DEF NoFib, F!NoFib, C!NoFib, Clear, F!Clear, C!Clear

(* The size of a picture                                                   *)
LEMMA SameShrunk == \A f : F!Shrunk(f) = Shrunk(f) /\ C!Shrunk(f) = Shrunk(f)
BY DEF Shrunk, F!Shrunk, C!Shrunk

(* What Open loads                                                         *)
LEMMA SamePicture == \A f : F!Picture(f) = Picture(f) /\ C!Picture(f) = Picture(f)
BY SameRescale, SameConvert, SameNoFib, SameShrunk
DEF Picture, F!Picture, C!Picture, Coordinates, F!Coordinates, C!Coordinates

(* Whether a bitmap is open                                                *)
LEMMA SameOpened ==
  /\ \A b : F!Opened(b) <=> Opened(b)
  /\ \A b : C!Opened(b) <=> Opened(b)
BY DEF Opened, F!Opened, C!Opened

(* The bitmap closed by opening another                                    *)
LEMMA SameFreed ==
  \A b : F!OthersFreed(b) = OthersFreed(b) /\ C!OthersFreed(b) = OthersFreed(b)
BY SameNoFib DEF OthersFreed, F!OthersFreed, C!OthersFreed, Slots, F!Slots, C!Slots

(* cBitmap::Open                                                           *)
LEMMA SameOpen ==
  /\ \A b : F!Open(b) <=> Open(b)
  /\ \A b : C!Open(b) <=> Open(b)
BY SameOpened, SameFreed, SameShrunk, SamePicture
DEF Open, F!Open, C!Open, None, F!None, C!None

(* cBitmap::Free_All and Add                                               *)
LEMMA SameAddSources == \A files : F!AddSources(files) <=> AddSources(files)
BY SameNoFib DEF AddSources, F!AddSources, Slots, F!Slots, None, F!None

(* What TextureAssumption says of a file                                   *)
GoodFile(z) ==
  /\ z.w \in Nat \ {0} /\ z.h \in Nat \ {0} /\ z.shrink \in Int
  /\ z.px \in [Coordinates(z.w, z.h) -> Pixel]
  /\ z.from \in Pixel /\ z.to \in Pixel /\ z.beyond \in Pixel
  /\ z.aco \in 0 .. ByteMax /\ z.psd \in BOOLEAN
  /\ Shrunk(z).w # 0 => Shrunk(z).h # 0
  /\ (Shrunk(z).w # 0 /\ Shrunk(z).h # 0) => Divides(z)

(* A size with a width has a height, as Pack wants it.                     *)
SizeOK(m) == m.w \in Nat /\ m.h \in Nat /\ (m.w # 0 => m.h # 0)

(* So do pictures, shrunk or not.                                          *)
LEMMA ShrunkOK ==
  ASSUME NEW z, GoodFile(z)
  PROVE  /\ Shrunk(z) \in [w : Nat, h : Nat]
         /\ SizeOK(Shrunk(z))
<1>1. z.w \in Nat /\ z.h \in Nat /\ z.shrink \in Int /\ (Shrunk(z).w # 0 => Shrunk(z).h # 0)
  BY DEF GoodFile
<1>2. CASE z.shrink > 1
  <2>1. z.w \div z.shrink \in Nat /\ z.h \div z.shrink \in Nat
    BY <1>1, <1>2
  <2> QED
    BY <1>1, <1>2, <2>1 DEF Shrunk, SizeOK
<1>3. CASE ~(z.shrink > 1)
  BY <1>1, <1>3 DEF Shrunk, SizeOK
<1> QED
  BY <1>2, <1>3

(* The sources of the texture at hand                                      *)
FilesOK ==
  /\ DOMAIN file = 1 .. Len(file) /\ Len(file) \in 0 .. BitmapMax
  /\ \A b \in DOMAIN file : GoodFile(file[b])

(* m_Width and m_Height of all elements of Bitmap                          *)
SizesOK ==
  /\ metrics \in [Slots -> [w : Nat, h : Nat]]
  /\ \A b \in Slots : SizeOK(metrics[b])

(* The part that matters: an open bitmap is s_pActive, is one of those in  *)
(* use, shows its file, and has the size of its picture.                   *)
OnlyActive ==
  /\ DOMAIN fib = Slots
  /\ active \in DOMAIN file \cup {None}
  /\ \A b \in Slots : Opened(b) =>
       /\ b = active /\ b \in DOMAIN file
       /\ fib[b] = Picture(file[b])
       /\ fib[b].w = metrics[b].w /\ fib[b].h = metrics[b].h

(* The inductive invariant of the array Bitmap                             *)
BitmapsInv == FilesOK /\ SizesOK /\ OnlyActive

(* The elements in use are elements; 0 is none.                            *)
LEMMA FilesInSlots ==
  ASSUME FilesOK
  PROVE  DOMAIN file \subseteq Slots /\ None \notin Slots
BY BitmapsAssumption DEF FilesOK, Slots, None

(* A bitmap without a picture is closed.                                   *)
LEMMA NoFibClosed == NoFib.w = 0
BY DEF NoFib

(* Only a file that can be loaded has a picture, of the size of the        *)
(* bitmap.                                                                 *)
LEMMA PictureSize ==
  ASSUME NEW z, Picture(z).w # 0
  PROVE  /\ z.kind = "ok"
         /\ Picture(z).w = Shrunk(z).w /\ Picture(z).h = Shrunk(z).h
BY NoFibClosed DEF Picture

(* Open keeps the invariant, in each of its cases: open already, not to be *)
(* loaded, of another depth, or loaded.                                    *)
LEMMA OpenStep ==
  ASSUME BitmapsInv, NEW b \in DOMAIN file, Open(b)
  PROVE  BitmapsInv'
<1>1. b \in Slots /\ None \notin Slots /\ b # None /\ GoodFile(file[b])
  BY FilesInSlots DEF BitmapsInv, FilesOK
<1>2. file' = file /\ FilesOK'
  BY DEF Open, BitmapsInv, FilesOK
<1>3. OthersFreed(b) = [s \in Slots |-> IF s = active /\ s # b THEN NoFib ELSE fib[s]]
  BY DEF OthersFreed
<1>4. \A s \in Slots : s # b => OthersFreed(b)[s].w = 0
  BY <1>3, NoFibClosed DEF BitmapsInv, OnlyActive, Opened
<1>5. CASE Opened(b) /\ fib' = OthersFreed(b) /\ metrics' = metrics
           /\ active' = IF active = b THEN b ELSE None
  <2>0. metrics' = metrics
    BY <1>5
  <2>1. SizesOK'
    BY <2>0 DEF BitmapsInv, SizesOK, SizeOK
  <2>2. active = b /\ active' = b
    BY <1>1, <1>5 DEF BitmapsInv, OnlyActive
  <2>3. fib'[b] = fib[b]
    BY <1>1, <1>3, <1>5
  <2>4. DOMAIN fib' = Slots
    BY <1>3, <1>5
  <2>5. ASSUME NEW c \in Slots, Opened(c)' PROVE c = b
    BY <1>4, <1>5, <2>5 DEF Opened
  <2>6. fib[b] = Picture(file[b]) /\ fib[b].w = metrics[b].w /\ fib[b].h = metrics[b].h
    BY <1>1, <1>5 DEF BitmapsInv, OnlyActive
  <2>7. \A c \in Slots : Opened(c)' =>
          /\ c = active' /\ c \in DOMAIN file'
          /\ fib'[c] = Picture(file[c])
          /\ fib'[c].w = metrics'[c].w /\ fib'[c].h = metrics'[c].h
    BY <1>1, <1>2, <2>0, <2>2, <2>3, <2>5, <2>6
  <2>8. OnlyActive'
    BY <1>1, <1>2, <2>2, <2>4, <2>7 DEF OnlyActive
  <2> QED
    BY <1>2, <2>1, <2>8 DEF BitmapsInv
<1>6. CASE ~Opened(b) /\ fib' = OthersFreed(b) /\ active' \in {b, None} /\ SizesOK'
  <2>1. \A c \in Slots : ~Opened(c)'
    BY <1>1, <1>3, <1>4, <1>6, NoFibClosed DEF Opened
  <2>2. DOMAIN fib' = Slots
    BY <1>3, <1>6
  <2>3. OnlyActive'
    BY <1>1, <1>2, <1>6, <2>1, <2>2 DEF OnlyActive, None
  <2> QED
    BY <1>2, <1>6, <2>3 DEF BitmapsInv
<1>7. CASE /\ fib' = [OthersFreed(b) EXCEPT ![b] = Picture(file[b])] /\ active' = b
           /\ metrics' = [metrics EXCEPT ![b] = Shrunk(file[b])]
  <2>1. SizesOK'
    BY <1>1, <1>7, ShrunkOK DEF BitmapsInv, SizesOK
  <2>2. DOMAIN fib' = Slots /\ fib'[b] = Picture(file[b])
        /\ \A c \in Slots : c # b => fib'[c] = OthersFreed(b)[c]
    BY <1>1, <1>3, <1>7
  <2>3. \A c \in Slots : Opened(c)' => c = b
    BY <1>4, <2>2 DEF Opened
  <2>4. metrics'[b] = Shrunk(file[b])
    BY <1>1, <1>7 DEF BitmapsInv, SizesOK
  <2>5. OnlyActive'
    BY <1>1, <1>2, <1>7, <2>2, <2>3, <2>4, PictureSize DEF OnlyActive, Opened
  <2> QED
    BY <1>2, <2>1, <2>5 DEF BitmapsInv
<1>8. SizesOK /\ DOMAIN metrics = Slots
  BY DEF BitmapsInv, SizesOK
<1>9. CASE ~Opened(b) /\ file[b].kind = "bad" /\ fib' = OthersFreed(b)
           /\ active' = (IF active = b THEN b ELSE None) /\ metrics' = metrics
  <2>1. SizesOK'
    BY <1>8, <1>9 DEF SizesOK
  <2> QED
    BY <1>6, <1>9, <2>1
<1>10. CASE ~Opened(b) /\ fib' = OthersFreed(b) /\ active' = None
            /\ metrics' = [metrics EXCEPT ![b] = [w |-> file[b].w, h |-> file[b].h]]
  <2>1. file[b].w \in Nat \ {0} /\ file[b].h \in Nat \ {0}
    BY <1>1 DEF GoodFile
  <2>2. SizesOK'
    BY <1>1, <1>8, <1>10, <2>1 DEF SizesOK, SizeOK
  <2> QED
    BY <1>6, <1>10, <2>2
<1>11. \/ /\ Opened(b) /\ fib' = OthersFreed(b) /\ metrics' = metrics
           /\ active' = IF active = b THEN b ELSE None
       \/ /\ ~Opened(b) /\ file[b].kind = "bad" /\ fib' = OthersFreed(b)
           /\ active' = (IF active = b THEN b ELSE None) /\ metrics' = metrics
       \/ /\ ~Opened(b) /\ fib' = OthersFreed(b) /\ active' = None
           /\ metrics' = [metrics EXCEPT ![b] = [w |-> file[b].w, h |-> file[b].h]]
       \/ /\ fib' = [OthersFreed(b) EXCEPT ![b] = Picture(file[b])] /\ active' = b
           /\ metrics' = [metrics EXCEPT ![b] = Shrunk(file[b])]
  BY DEF Open
<1> QED
  BY <1>5, <1>7, <1>9, <1>10, <1>11

(* Free_All closes all of them, because none is open beyond those in use.  *)
LEMMA AddSourcesStep ==
  ASSUME BitmapsInv, NEW t \in Textures \cup Later, AddSources(t.files)
  PROVE  /\ BitmapsInv'
         /\ \A b \in Slots : ~Opened(b)'
<1>1. FilesOK'
  <2>1. /\ DOMAIN t.files = 1 .. Len(t.files) /\ Len(t.files) \in 0 .. BitmapMax
        /\ \A b \in DOMAIN t.files :
             LET z == t.files[b] IN
               /\ z.w \in Nat \ {0} /\ z.h \in Nat \ {0} /\ z.shrink \in Int
               /\ z.px \in [F!Coordinates(z.w, z.h) -> F!Pixel]
               /\ z.from \in F!Pixel /\ z.to \in F!Pixel /\ z.beyond \in F!Pixel
               /\ z.aco \in 0 .. ByteMax /\ z.psd \in BOOLEAN
               /\ F!Shrunk(z).w # 0 => F!Shrunk(z).h # 0
               /\ (F!Shrunk(z).w # 0 /\ F!Shrunk(z).h # 0) => F!Divides(z)
    BY TextureAssumption, ZenonT(60) DEF F!FramesAssumption
  <2>2. F!Pixel = Pixel /\ (\A w, h : F!Coordinates(w, h) = Coordinates(w, h))
        /\ (\A z : F!Divides(z) <=> Divides(z))
    <3>1. F!Pixel = Pixel
      BY DEF F!Pixel, Pixel
    <3>2. \A w, h : F!Coordinates(w, h) = Coordinates(w, h)
      BY DEF F!Coordinates, Coordinates
    <3>3. \A z : F!Divides(z) <=> Divides(z)
      BY SameShrunk DEF F!Divides, Divides
    <3> QED
      BY <3>1, <3>2, <3>3
  <2>3. ASSUME NEW b \in DOMAIN t.files PROVE GoodFile(t.files[b])
    BY <2>1, <2>2, SameShrunk, ZenonT(60) DEF GoodFile
  <2>4. file' = t.files
    BY DEF AddSources
  <2> QED
    BY <2>1, <2>3, <2>4, Zenon DEF FilesOK
<1>2. SizesOK'
  BY DEF AddSources, BitmapsInv, SizesOK
<1>3. \A b \in Slots : ~Opened(b)' /\ DOMAIN fib' = Slots
  BY NoFibClosed DEF AddSources, BitmapsInv, OnlyActive, Opened
<1>4. active' = None
  BY DEF AddSources, BitmapsInv, OnlyActive
<1>5. OnlyActive'
  BY <1>3, <1>4 DEF OnlyActive, AddSources, None
<1> QED
  BY <1>1, <1>2, <1>3, <1>5 DEF BitmapsInv

(* It holds at the start.                                                  *)
LEMMA BitmapsInitial ==
  ASSUME F!InitBitmaps
  PROVE  BitmapsInv
<1>1. /\ file = <<>> /\ active = 0
      /\ metrics = [b \in Slots |-> [w |-> 0, h |-> 0]]
      /\ fib = [b \in Slots |-> NoFib]
  BY SameNoFib DEF F!InitBitmaps, F!Slots, Slots, F!None
<1>2. FilesOK
  BY <1>1, BitmapsAssumption DEF FilesOK
<1>3. SizesOK
  BY <1>1 DEF SizesOK, SizeOK
<1>4. OnlyActive
  BY <1>1, NoFibClosed DEF OnlyActive, Opened, None
<1> QED
  BY <1>2, <1>3, <1>4 DEF BitmapsInv

(* What the provers know of a quotient                                     *)
LEMMA QuotientIsNat ==
  ASSUME NEW n \in Nat, NEW d \in Nat \ {0}
  PROVE  n \div d \in Nat /\ d * (n \div d) <= n /\ n < d * (n \div d) + d
OBVIOUS

(* A quotient is not larger than a bound on it.                            *)
LEMMA QuotientBelow ==
  ASSUME NEW n \in Nat, NEW d \in Nat \ {0}, NEW q \in Int, n < d * q + d
  PROVE  n \div d <= q
<1> DEFINE k == n \div d
<1>1. k \in Nat /\ d * k <= n
  BY QuotientIsNat
<1> HIDE DEF k
<1>2. d * k < d * (q + 1)
  BY <1>1
<1>3. SUFFICES ASSUME k > q PROVE FALSE
  BY <1>1 DEF k
<1>4. k - (q + 1) \in Nat
  BY <1>1, <1>3
<1>5. d * (k - (q + 1)) >= 0
  BY <1>4
<1>6. d * k = d * (q + 1) + d * (k - (q + 1))
  BY <1>1
<1> QED
  BY <1>1, <1>2, <1>5, <1>6

(* DoUnMultAlpha_Component makes a byte of a byte.                         *)
LEMMA UnMultIsByte ==
  ASSUME NEW c \in 0 .. ByteMax, NEW a \in 1 .. ByteMax
  PROVE  UnMult(c, a) \in 0 .. ByteMax
<1> DEFINE n == (c - (ByteMax - a)) * ByteMax
           u == IF n >= 0 THEN n \div a ELSE -((-n) \div a)
           v == IF u > ByteMax THEN ByteMax ELSE u
<1>1. ByteMax \in Nat \ {0}
  BY BitmapsAssumption
<1>2. n \in Int
  BY <1>1
<1>3. UnMult(c, a) = v % (ByteMax + 1)
  BY DEF UnMult
<1> HIDE DEF n
<1>4. u \in Int
  <2>1. CASE n >= 0
    BY <1>1, <1>2, <2>1, QuotientIsNat
  <2>2. CASE ~(n >= 0)
    <3>1. -n \in Nat /\ a \in Nat \ {0}
      BY <1>1, <1>2, <2>2
    <3>2. (-n) \div a \in Nat
      BY <3>1, QuotientIsNat
    <3> QED
      BY <2>2, <3>2
  <2> QED
    BY <2>1, <2>2
<1> HIDE DEF u
<1>5. v \in Int
  BY <1>1, <1>4
<1> HIDE DEF v
<1> QED
  BY <1>1, <1>3, <1>5

(* The conversions make a pixel of a pixel.                                *)
LEMMA ConvertIsPixel ==
  ASSUME NEW z, z.from \in Pixel, z.to \in Pixel, z.aco \in 0 .. ByteMax, NEW p \in Pixel
  PROVE  Convert(z, p) \in Pixel
<1>1. \A q \in Pixel : DoUnMultAlpha(q) \in Pixel
  <2>1. SUFFICES ASSUME NEW q \in Pixel PROVE DoUnMultAlpha(q) \in Pixel
    OBVIOUS
  <2>2. q.a \in 0 .. ByteMax /\ q.c \in 0 .. ByteMax /\ ByteMax \in Nat
    BY BitmapsAssumption DEF Pixel
  <2>3. CASE q.a \in {0, ByteMax}
    BY <2>3 DEF DoUnMultAlpha
  <2>4. CASE q.a \notin {0, ByteMax}
    <3>1. q.a \in 1 .. ByteMax
      BY <2>2, <2>4
    <3>2. UnMult(q.c, q.a) \in 0 .. ByteMax
      BY <2>2, <3>1, UnMultIsByte
    <3> QED
      BY <2>4, <3>2 DEF DoUnMultAlpha, Pixel
  <2> QED
    BY <2>3, <2>4
<1>2. \A q \in Pixel : DoConvertARGB(q, z.from, z.to) \in Pixel
  BY DEF DoConvertARGB
<1>3. \A q \in Pixel : DoAlphaCutOff(q, z.aco) \in Pixel
  <2>1. 0 \in 0 .. ByteMax
    BY BitmapsAssumption
  <2> QED
    BY <2>1 DEF DoAlphaCutOff, Pixel
<1> QED
  BY <1>1, <1>2, <1>3 DEF Convert

(* The sum of n bytes is at most n times the largest, by induction on the  *)
(* list.                                                                   *)
LEMMA SumBound ==
  ASSUME NEW list \in Seq(0 .. ByteMax)
  PROVE  SumOf(list) \in Nat /\ SumOf(list) <= Len(list) * ByteMax
<1>1. ByteMax \in Nat /\ Len(list) \in Nat /\ list \in Seq(Int)
  BY BitmapsAssumption
<1>2. PICK g : PartialSums(g, list, Len(list)) /\ SumOf(list) = g[Len(list)]
  BY <1>1, SumHasPartialSums
<1> DEFINE S == {n \in Nat : n <= Len(list) => g[n] \in Nat /\ g[n] <= n * ByteMax}
<1>3. 0 \in S
  BY <1>1, <1>2 DEF PartialSums
<1>4. ASSUME NEW n \in Nat, n \in S PROVE n + 1 \in S
  <2>1. CASE n + 1 <= Len(list)
    <3>1. g[n + 1] = g[n] + list[n + 1]
      BY <1>2, <2>1 DEF PartialSums
    <3>2. list[n + 1] \in 0 .. ByteMax
      BY <1>1, <2>1
    <3>3. g[n] \in Nat /\ g[n] <= n * ByteMax
      BY <1>1, <1>4, <2>1
    <3>4. (n + 1) * ByteMax = n * ByteMax + ByteMax /\ n * ByteMax \in Nat
      BY <1>1
    <3> QED
      BY <1>1, <3>1, <3>2, <3>3, <3>4
  <2>2. CASE ~(n + 1 <= Len(list))
    BY <2>2
  <2> QED
    BY <2>1, <2>2
<1> HIDE DEF S
<1>5. Len(list) \in S
  BY <1>1, <1>3, <1>4, NatSetInduction
<1> QED
  BY <1>1, <1>2, <1>5 DEF S

(* So a rounded mean of bytes is a byte,                                   *)
LEMMA MeanOfBytes ==
  ASSUME NEW n \in Nat \ {0}, NEW v \in Nat, v <= n * ByteMax
  PROVE  (2 * v + n) \div (2 * n) \in 0 .. ByteMax
<1>1. ByteMax \in Nat /\ n * ByteMax \in Nat
  BY BitmapsAssumption
<1>2. 2 * v + n \in Nat /\ 2 * n \in Nat \ {0}
  OBVIOUS
<1>3. (2 * n) * ByteMax = 2 * (n * ByteMax)
  BY <1>1
<1>4. 2 * v + n < (2 * n) * ByteMax + 2 * n
  BY <1>1, <1>3
<1>5. (2 * v + n) \div (2 * n) <= ByteMax
  BY <1>1, <1>2, <1>4, QuotientBelow
<1>6. (2 * v + n) \div (2 * n) \in Nat
  BY <1>2, QuotientIsNat
<1> QED
  BY <1>1, <1>5, <1>6

(* and the mean of pixels a pixel.                                         *)
LEMMA MeanIsPixel ==
  ASSUME NEW n \in Nat \ {0}, NEW list \in [1 .. n -> Pixel]
  PROVE  Mean(list) \in Pixel
<1> DEFINE as == [k \in 1 .. n |-> list[k].a]
           cs == [k \in 1 .. n |-> list[k].c]
<1>1. list \in Seq(Pixel) /\ Len(list) = n
  OBVIOUS
<1>2. as \in Seq(0 .. ByteMax) /\ Len(as) = n /\ cs \in Seq(0 .. ByteMax) /\ Len(cs) = n
  BY DEF Pixel
<1>3. SumOf(as) \in Nat /\ SumOf(as) <= n * ByteMax /\ SumOf(cs) \in Nat /\ SumOf(cs) <= n * ByteMax
  BY <1>2, SumBound
<1>4. Mean(list) = [a |-> (2 * SumOf(as) + n) \div (2 * n), c |-> (2 * SumOf(cs) + n) \div (2 * n)]
  BY <1>1 DEF Mean
<1> HIDE DEF as, cs
<1>5. /\ (2 * SumOf(as) + n) \div (2 * n) \in 0 .. ByteMax
      /\ (2 * SumOf(cs) + n) \div (2 * n) \in 0 .. ByteMax
  BY <1>3, MeanOfBytes
<1>6. \A u, v \in 0 .. ByteMax : [a |-> u, c |-> v] \in Pixel
  BY DEF Pixel
<1> QED
  BY ONLY <1>4, <1>5, <1>6

(* The k-th of s columns that become column c of n                         *)
LEMMA Scaled ==
  ASSUME NEW n \in Nat, NEW s \in Nat \ {0}, NEW c \in 0 .. n - 1, NEW k \in 1 .. s
  PROVE  c * s + k - 1 \in 0 .. n * s - 1
<1>1. c * s \in Nat /\ (c + 1) * s = c * s + s
  OBVIOUS
<1>2. (n - (c + 1)) * s >= 0
  OBVIOUS
<1>3. n * s = (c + 1) * s + (n - (c + 1)) * s /\ n * s \in Int
  OBVIOUS
<1> QED
  BY <1>1, <1>2, <1>3

(* FreeImage_Rescale makes a picture of the size asked for.                *)
LEMMA RescaleIsPicture ==
  ASSUME NEW w \in Nat, NEW h \in Nat, NEW s \in Nat \ {0},
         NEW px \in [Coordinates(w * s, h * s) -> Pixel]
  PROVE  Rescale(px, w, h, s) \in [Coordinates(w, h) -> Pixel]
<1> DEFINE row(q) == [k \in 1 .. s |-> px[<<q[1] * s + k - 1, q[2]>>]]
           narrow == [q \in Coordinates(w, h * s) |-> Mean(row(q))]
           column(q) == [k \in 1 .. s |-> narrow[<<q[1], q[2] * s + k - 1>>]]
<1>1. Rescale(px, w, h, s) = [q \in Coordinates(w, h) |-> Mean(column(q))]
  BY DEF Rescale
<1>2. ASSUME NEW q \in Coordinates(w, h * s) PROVE row(q) \in [1 .. s -> Pixel]
  <2>1. q[1] \in 0 .. w - 1 /\ q[2] \in 0 .. h * s - 1
    BY DEF Coordinates
  <2>2. \A k \in 1 .. s : <<q[1] * s + k - 1, q[2]>> \in Coordinates(w * s, h * s)
    BY <2>1, Scaled DEF Coordinates
  <2> QED
    BY <2>2
<1> HIDE DEF row
<1>3. narrow \in [Coordinates(w, h * s) -> Pixel]
  BY <1>2, MeanIsPixel
<1> HIDE DEF narrow
<1>4. ASSUME NEW q \in Coordinates(w, h) PROVE column(q) \in [1 .. s -> Pixel]
  <2>1. q[1] \in 0 .. w - 1 /\ q[2] \in 0 .. h - 1
    BY DEF Coordinates
  <2>2. \A k \in 1 .. s : <<q[1], q[2] * s + k - 1>> \in Coordinates(w, h * s)
    BY <2>1, Scaled DEF Coordinates
  <2> QED
    BY <1>3, <2>2
<1> HIDE DEF column
<1> QED
  BY <1>1, <1>4, MeanIsPixel

(* A picture with all its pixels                                           *)
GoodPicture(p) ==
  /\ p.w \in Nat /\ p.h \in Nat
  /\ p.px \in [Coordinates(p.w, p.h) -> Pixel]
  /\ p.beyond \in Pixel

(* What Open loads is one.                                                 *)
LEMMA PictureIsGood ==
  ASSUME NEW z, GoodFile(z), Picture(z).w # 0
  PROVE  GoodPicture(Picture(z))
<1> DEFINE px == [q \in Coordinates(z.w, z.h) |-> Convert(z, z.px[q])]
           m == Shrunk(z)
<1>1. m \in [w : Nat, h : Nat]
  BY ShrunkOK
<1>2. Picture(z) = [w |-> m.w, h |-> m.h, beyond |-> z.beyond,
                    px |-> IF z.shrink > 1 THEN Rescale(px, m.w, m.h, z.shrink) ELSE px]
      /\ m.w # 0 /\ m.h # 0
  BY NoFibClosed DEF Picture
<1>3. px \in [Coordinates(z.w, z.h) -> Pixel]
  BY ConvertIsPixel DEF GoodFile
<1> HIDE DEF px
<1>4. CASE z.shrink > 1
  <2>1. m.w * z.shrink = z.w /\ m.h * z.shrink = z.h
    BY <1>2, <1>4 DEF GoodFile, Divides
  <2>2. z.shrink \in Nat \ {0}
    BY <1>4 DEF GoodFile
  <2> HIDE DEF m
  <2>3. Rescale(px, m.w, m.h, z.shrink) \in [Coordinates(m.w, m.h) -> Pixel]
    BY <1>1, <1>3, <2>1, <2>2, RescaleIsPicture
  <2> QED
    BY <1>1, <1>2, <1>4, <2>3 DEF GoodPicture, GoodFile
<1>5. CASE ~(z.shrink > 1)
  <2>1. m.w = z.w /\ m.h = z.h
    BY <1>5 DEF Shrunk
  <2> HIDE DEF m
  <2> QED
    BY <1>1, <1>2, <1>3, <1>5, <2>1 DEF GoodPicture, GoodFile
<1> QED
  BY <1>4, <1>5

(* Whatever is read through a pointer into a picture is a pixel, even      *)
(* beyond it (see Bitmaps).                                                *)
LEMMA LookIsPixel ==
  ASSUME NEW p, GoodPicture(p), NEW x \in Int, NEW y \in Int
  PROVE  Look(p, x, y) \in Pixel
<1> DEFINE place == (p.h - 1 - y) * p.w + x
<1>1. p.w \in Nat /\ p.h \in Nat /\ p.beyond \in Pixel /\ p.px \in [Coordinates(p.w, p.h) -> Pixel]
  BY DEF GoodPicture
<1>2. Look(p, x, y) = IF place \in 0 .. p.w * p.h - 1
                      THEN p.px[<<place % p.w, p.h - 1 - place \div p.w>>] ELSE p.beyond
  BY DEF Look
<1>3. place \in Int
  BY <1>1
<1> HIDE DEF place
<1>4. CASE place \in 0 .. p.w * p.h - 1
  <2>0. place \in Nat
    BY <1>4
  <2>1. p.w # 0
    BY <1>1, <1>4
  <2>2. place % p.w \in 0 .. p.w - 1
    BY <1>1, <1>3, <2>1
  <2>3. place \div p.w \in Nat
    BY <1>1, <2>0, <2>1, QuotientIsNat
  <2>4. place < p.w * (p.h - 1) + p.w
    BY <1>1, <1>4
  <2>5. place \div p.w <= p.h - 1
    <3>1. p.w \in Nat \ {0} /\ p.h - 1 \in Int
      BY <1>1, <2>1
    <3> QED
      BY ONLY <2>0, <2>4, <3>1, QuotientBelow
  <2>6. <<place % p.w, p.h - 1 - place \div p.w>> \in Coordinates(p.w, p.h)
    BY <1>1, <2>2, <2>3, <2>5 DEF Coordinates
  <2> QED
    BY <1>1, <1>2, <1>4, <2>6
<1>5. CASE ~(place \in 0 .. p.w * p.h - 1)
  BY <1>1, <1>2, <1>5
<1> QED
  BY <1>4, <1>5

(* The fields of a frame                                                   *)
FrameRec == [mode : F!Modes, bitmap : Slots, dir : {0, 1}, wrap : BOOLEAN,
             x : Int, y : Int, w : Nat, h : Nat, cx : Int, cy : Int]

(* The fields of a box                                                     *)
BoxRec == [x : Int, y : Int, w : Nat, h : Nat]

(* A sequence has its elements;                                            *)
LEMMA ListFacts ==
  ASSUME NEW S, NEW s \in Seq(S)
  PROVE  Len(s) \in Nat /\ DOMAIN s = 1 .. Len(s) /\ \A j \in DOMAIN s : s[j] \in S
OBVIOUS

(* with one changed, it keeps the others;                                  *)
LEMMA ListChanged ==
  ASSUME NEW S, NEW s \in Seq(S), NEW j \in DOMAIN s, NEW e \in S, NEW t,
         t = [s EXCEPT ![j] = e]
  PROVE  /\ t \in Seq(S) /\ Len(t) = Len(s) /\ DOMAIN t = DOMAIN s
         /\ t[j] = e /\ \A k \in DOMAIN s : k # j => t[k] = s[k]
OBVIOUS

(* and with one added.                                                     *)
LEMMA ListExtended ==
  ASSUME NEW S, NEW s \in Seq(S), NEW e \in S, NEW t, t = Append(s, e)
  PROVE  /\ t \in Seq(S) /\ Len(t) = Len(s) + 1
         /\ t[Len(s) + 1] = e /\ \A k \in 1 .. Len(s) : t[k] = s[k]
OBVIOUS

(* The types of the array Frame and of the loop over it                    *)
FramesOK ==
  /\ frame \in Seq(FrameRec) /\ Len(frame) <= FrameMax
  /\ \A f \in DOMAIN frame : frame[f].bitmap \in DOMAIN file
  /\ box \in Seq(BoxRec) /\ Len(box) <= Len(frame)
  /\ begin \in 1 .. Len(frame) + 1 /\ i \in 1 .. Len(frame) + 1
  /\ mid.x \in Int /\ mid.y \in Int

(* Frame i becomes r.                                                      *)
Edited(r) == frame' = [frame EXCEPT ![i] = r]

(* The fields that placing does not change                                 *)
SameNames ==
  /\ Len(frame') = Len(frame) /\ DOMAIN frame' = DOMAIN frame
  /\ \A g \in DOMAIN frame :
       /\ frame'[g].mode = frame[g].mode /\ frame'[g].bitmap = frame[g].bitmap
       /\ frame'[g].dir = frame[g].dir /\ frame'[g].wrap = frame[g].wrap

(* Frames other than frame i stay.                                         *)
SameOthers == \A g \in DOMAIN frame : g # i => frame'[g] = frame[g]

(* What a change of frame i is.                                            *)
LEMMA EditFrame ==
  ASSUME FramesOK, i \in DOMAIN frame, NEW r \in FrameRec, Edited(r),
         r.mode = frame[i].mode, r.bitmap = frame[i].bitmap,
         r.dir = frame[i].dir, r.wrap = frame[i].wrap
  PROVE  /\ frame' \in Seq(FrameRec) /\ frame'[i] = r
         /\ SameNames /\ SameOthers
<1>1. frame \in Seq(FrameRec)
  BY DEF FramesOK
<1>2. /\ frame' \in Seq(FrameRec) /\ Len(frame') = Len(frame) /\ DOMAIN frame' = DOMAIN frame
      /\ frame'[i] = r /\ \A k \in DOMAIN frame : k # i => frame'[k] = frame[k]
  BY <1>1, ListChanged DEF Edited
<1> QED
  BY <1>2 DEF SameNames, SameOthers

(* The types of the fields                                                 *)
LEMMA FrameFields ==
  ASSUME NEW f \in FrameRec
  PROVE  /\ f.x \in Int /\ f.y \in Int /\ f.w \in Nat /\ f.h \in Nat
         /\ f.cx \in Int /\ f.cy \in Int /\ f.bitmap \in Slots
         /\ f.mode \in {"SEQ", "BOX", "BOX_N"} /\ f.dir \in {0, 1} /\ f.wrap \in BOOLEAN
BY DEF FrameRec, F!Modes

(* The types of the lists                                                  *)
LEMMA FramesFacts ==
  ASSUME FramesOK
  PROVE  /\ Len(frame) \in Nat /\ DOMAIN frame = 1 .. Len(frame)
         /\ \A f \in DOMAIN frame : frame[f] \in FrameRec
         /\ Len(box) \in Nat /\ DOMAIN box = 1 .. Len(box)
         /\ \A f \in DOMAIN box : box[f] \in BoxRec
         /\ begin \in Nat /\ i \in Nat
BY ListFacts DEF FramesOK

(* The second loop over a group: ShrinkWrap                                *)
Wrapping == {"wrap", "top", "bottom", "left", "right"}

(* A frame is being trimmed.                                               *)
Trimming == {"top", "bottom", "left", "right"}

(* The size of bitmap b is that of its file, unless the file cannot be     *)
(* loaded. Then nobody knows it, but it stays.                             *)
Settled(b) ==
  /\ file[b].kind = "ok" => metrics[b] = Shrunk(file[b])
  /\ file[b].kind = "depth" => metrics[b] = [w |-> file[b].w, h |-> file[b].h]

(* Where the two loops over a group are. Frames before Len(box) + 1 have   *)
(* been placed; groups are as long as they can be, so the frame before a   *)
(* group has another bitmap.                                               *)
Control ==
  /\ placePc = "group" => Len(box) = begin - 1
  /\ placePc = "done" => Len(box) = Len(frame)
  /\ placePc = "place" => begin <= i /\ Len(box) = i - 1
  /\ placePc \in Wrapping =>
       /\ begin <= i /\ i <= Len(box) + 1 /\ begin <= Len(box)
       /\ Len(box) < Len(frame) => frame[Len(box) + 1].bitmap # frame[begin].bitmap
  /\ placePc \in Trimming => i <= Len(box) /\ frame[i].wrap
  /\ placePc \in {"place"} \cup Wrapping =>
       /\ begin <= Len(frame)
       /\ \A f \in begin .. Len(box) : frame[f].bitmap = frame[begin].bitmap
       /\ Settled(frame[begin].bitmap)
  /\ placePc \in {"group", "place"} /\ 1 < begin /\ begin <= Len(frame) =>
       frame[begin].bitmap # frame[begin - 1].bitmap

(* A box after the first has one before it in its run, on the same bitmap  *)
(* and in the same direction.                                              *)
Chain ==
  \A f \in DOMAIN frame : frame[f].mode = "BOX_N" =>
    /\ f > 1 /\ frame[f - 1].mode # "SEQ"
    /\ frame[f - 1].bitmap = frame[f].bitmap /\ frame[f - 1].dir = frame[f].dir

(* The box of f, or what it will be made from                              *)
Given(f) == IF f <= Len(box) THEN box[f] ELSE F!RectOfFrame(f)

(* Boxes have pixels, and those of a run are equally large.                *)
GivenSizes ==
  \A f \in DOMAIN frame :
    /\ frame[f].mode # "SEQ" => Given(f).w # 0 /\ Given(f).h # 0
    /\ frame[f].mode = "BOX_N" => Given(f).w = Given(f - 1).w /\ Given(f).h = Given(f - 1).h

(* What NextBox finds for frame f from the box of the frame before         *)
NextOf(f) ==
  F!NextBox([dir |-> frame[f].dir, w |-> box[f].w, h |-> box[f].h], box[f - 1],
            metrics[frame[f].bitmap])

(* Each box is where PlaceBox puts it, whatever has been trimmed since.    *)
Made ==
  \A f \in DOMAIN box :
    /\ Settled(frame[f].bitmap)
    /\ SizeOK(box[f])
    /\ frame[f].mode = "BOX_N" =>
         NextOf(f).ok /\ box[f].x = NextOf(f).x /\ box[f].y = NextOf(f).y

(* Frame f is as PlaceBox left it.                                         *)
Kept(f) == F!RectOfFrame(f) = box[f]

(* The visible pixels of its box                                           *)
Seen(f) == F!OpaqueIn(box[f], frame[f].bitmap)

(* It is trimmed as WrapIsTight says.                                      *)
Tight(f) ==
  LET r == F!RectOfFrame(f)
  IN  IF Seen(f) = {} THEN r = [x |-> 0, y |-> 0, w |-> 0, h |-> 0]
      ELSE /\ F!OpaqueIn(r, frame[f].bitmap) = Seen(f)
           /\ Inside(r, box[f])
           /\ \E p \in Seen(f) : p[1] = r.x
           /\ \E p \in Seen(f) : p[1] = r.x + r.w - 1
           /\ \E p \in Seen(f) : p[2] = r.y
           /\ \E p \in Seen(f) : p[2] = r.y + r.h - 1

(* It is as it will be.                                                    *)
Finished(f) == IF frame[f].wrap THEN Tight(f) ELSE Kept(f)

(* The frames that are finished                                            *)
Ready == IF placePc \in {"group", "place"} THEN begin - 1
         ELSE IF placePc = "done" THEN Len(box) ELSE i - 1

(* The frames before Ready + 1 are finished, the others untouched, except  *)
(* the one being trimmed.                                                  *)
AllFinished ==
  placePc \notin {"failed", "crashed"} =>
    /\ \A f \in 1 .. Ready : Finished(f)
    /\ \A f \in Ready + 1 .. Len(box) : (f = i /\ placePc \in Trimming) \/ Kept(f)

(* Of that one, nothing visible is lost; a side that has been trimmed has  *)
(* a visible pixel. The right one is trimmed last, when pixels are known   *)
(* to be there: that is why the other loops need not look whether the      *)
(* frame is empty.                                                         *)
Trim ==
  /\ placePc \in Trimming =>
       LET r == F!RectOfFrame(i) IN
         /\ F!OpaqueIn(r, frame[i].bitmap) = Seen(i)
         /\ Inside(r, box[i])
  /\ placePc \in {"bottom", "left", "right"} =>
       Opened(frame[begin].bitmap) /\ \E p \in Seen(i) : p[2] = frame[i].y
  /\ placePc \in {"left", "right"} =>
       \E p \in Seen(i) : p[2] = frame[i].y + frame[i].h - 1
  /\ placePc = "right" => \E p \in Seen(i) : p[1] = frame[i].x

(* The places PlaceBoxAndShrinkWrap_All can be at                          *)
PlacePcOK == placePc \in {"group", "place", "done", "failed", "crashed"} \cup Wrapping

(* The inductive invariant of placing                                      *)
PlaceInv ==
  /\ BitmapsInv /\ FramesOK /\ PlacePcOK /\ Control /\ Chain /\ GivenSizes /\ Made
  /\ AllFinished /\ Trim

(* A step that leaves frame f and its box alone leaves it finished or      *)
(* kept.                                                                   *)
LEMMA FrameSame ==
  ASSUME NEW f, file' = file, box'[f] = box[f], frame'[f] = frame[f]
  PROVE  /\ Seen(f)' = Seen(f) /\ (Kept(f)' <=> Kept(f)) /\ (Finished(f)' <=> Finished(f))
         /\ F!RectOfFrame(f)' = F!RectOfFrame(f)
<1>1. Seen(f)' = Seen(f) /\ F!RectOfFrame(f)' = F!RectOfFrame(f)
  BY DEF Seen, F!OpaqueIn, F!RectOfFrame
<1>2. Kept(f)' <=> Kept(f)
  BY <1>1 DEF Kept
<1>3. Tight(f)' <=> Tight(f)
  BY <1>1 DEF Tight, F!OpaqueIn
<1> QED
  BY <1>1, <1>2, <1>3 DEF Finished

(* A step that changes no box leaves them where they were made.            *)
LEMMA MadeSame ==
  ASSUME FramesOK, Made, box' = box, SameNames, file' = file,
         \A f \in DOMAIN box : /\ Settled(frame[f].bitmap)'
                               /\ metrics'[frame[f].bitmap] = metrics[frame[f].bitmap]
  PROVE  Made'
<1>1. \A f \in DOMAIN box : f \in DOMAIN frame
  BY FramesFacts DEF FramesOK
<1>2. \A f \in DOMAIN box : /\ frame'[f].bitmap = frame[f].bitmap /\ frame'[f].dir = frame[f].dir
                            /\ frame'[f].mode = frame[f].mode
  BY <1>1 DEF SameNames
<1>3. \A f \in DOMAIN box : NextOf(f)' = NextOf(f)
  BY <1>2 DEF NextOf, F!NextBox
<1>5. SUFFICES ASSUME NEW f \in DOMAIN box
               PROVE  /\ Settled(frame[f].bitmap)'
                      /\ SizeOK(box[f])'
                      /\ (frame[f].mode = "BOX_N" =>
                           NextOf(f).ok /\ box[f].x = NextOf(f).x /\ box[f].y = NextOf(f).y)'
  BY DEF Made
<1>6. Settled(frame[f].bitmap)'
  BY <1>2
<1>7. SizeOK(box[f])'
  BY DEF Made, SizeOK
<1>8. (frame[f].mode = "BOX_N" =>
         NextOf(f).ok /\ box[f].x = NextOf(f).x /\ box[f].y = NextOf(f).y)'
  BY <1>2, <1>3 DEF Made
<1> QED
  BY <1>6, <1>7, <1>8

(* Runs do not change,                                                     *)
LEMMA ChainSame ==
  ASSUME FramesOK, Chain, SameNames
  PROVE  Chain'
<1>1. DOMAIN frame = 1 .. Len(frame) /\ Len(frame) \in Nat
  BY FramesFacts
<1> QED
  BY <1>1 DEF Chain, SameNames

(* nor do the sizes of their boxes.                                        *)
LEMMA GivenSame ==
  ASSUME FramesOK, GivenSizes, Chain, SameNames, box' = box,
         \A f \in Len(box) + 1 .. Len(frame) : frame'[f] = frame[f]
  PROVE  GivenSizes'
<1>1. DOMAIN frame = 1 .. Len(frame) /\ Len(frame) \in Nat /\ Len(box) \in Nat
  BY FramesFacts
<1>2. \A f \in DOMAIN frame : Given(f)' = Given(f)
  BY <1>1 DEF Given, F!RectOfFrame
<1>3. \A f \in DOMAIN frame : frame[f].mode = "BOX_N" => f - 1 \in DOMAIN frame
  BY <1>1 DEF Chain
<1> QED
  BY <1>2, <1>3 DEF GivenSizes, SameNames

(* A bitmap whose size is left alone is settled still.                     *)
LEMMA SettledSame ==
  ASSUME NEW b, file' = file, metrics'[b] = metrics[b], Settled(b)
  PROVE  Settled(b)'
BY DEF Settled

(* What a change of frame i keeps                                          *)
LEMMA AfterEdit ==
  ASSUME PlaceInv, i <= Len(box), NEW r \in FrameRec, Edited(r),
         r.mode = frame[i].mode, r.bitmap = frame[i].bitmap,
         r.dir = frame[i].dir, r.wrap = frame[i].wrap,
         UNCHANGED <<bitmaps, box, begin, mid>>, i' \in {i, i + 1}
  PROVE  /\ BitmapsInv' /\ FramesOK' /\ Chain' /\ GivenSizes' /\ Made'
         /\ SameNames /\ frame'[i] = r /\ i \in DOMAIN box /\ i \in DOMAIN frame
         /\ \A f \in DOMAIN frame : f # i =>
              /\ frame'[f] = frame[f] /\ Seen(f)' = Seen(f)
              /\ (Kept(f)' <=> Kept(f)) /\ (Finished(f)' <=> Finished(f))
<1>1. /\ Len(frame) \in Nat /\ DOMAIN frame = 1 .. Len(frame)
      /\ Len(box) \in Nat /\ DOMAIN box = 1 .. Len(box) /\ Len(box) <= Len(frame)
      /\ i \in 1 .. Len(frame) + 1 /\ i \in DOMAIN box /\ i \in DOMAIN frame
  BY FramesFacts DEF PlaceInv, FramesOK
<1>2. /\ frame' \in Seq(FrameRec) /\ frame'[i] = r /\ SameNames /\ SameOthers
  BY <1>1, EditFrame DEF PlaceInv
<1>3. UNCHANGED <<file, metrics, fib, active>> /\ box' = box /\ begin' = begin /\ mid' = mid
  BY DEF bitmaps
<1>4. BitmapsInv'
  BY <1>3 DEF PlaceInv, BitmapsInv, FilesOK, SizesOK, OnlyActive, Opened
<1>5. FramesOK'
  BY <1>1, <1>2, <1>3 DEF PlaceInv, FramesOK, SameNames
<1>6. Chain'
  BY <1>2, ChainSame DEF PlaceInv
<1>7. GivenSizes'
  BY <1>1, <1>2, <1>3, GivenSame DEF PlaceInv, SameOthers
<1>8. \A f \in DOMAIN box : Settled(frame[f].bitmap)'
                            /\ metrics'[frame[f].bitmap] = metrics[frame[f].bitmap]
  <2>1. ASSUME NEW f \in DOMAIN box PROVE Settled(frame[f].bitmap)'
    <3>1. Settled(frame[f].bitmap) /\ f \in DOMAIN frame
      BY <1>1 DEF PlaceInv, Made
    <3>2. frame'[f].bitmap = frame[f].bitmap
      BY <1>2, <3>1 DEF SameNames
    <3> QED
      BY <1>3, <3>1, <3>2 DEF Settled
  <2> QED
    BY <1>3, <2>1
<1>9. Made'
  BY <1>2, <1>3, <1>8, MadeSame DEF PlaceInv
<1>10. \A f \in DOMAIN frame : f # i =>
         /\ frame'[f] = frame[f] /\ Seen(f)' = Seen(f)
         /\ (Kept(f)' <=> Kept(f)) /\ (Finished(f)' <=> Finished(f))
  BY <1>2, <1>3, FrameSame DEF SameOthers
<1> QED
  BY <1>1, <1>2, <1>4, <1>5, <1>6, <1>7, <1>9, <1>10

(* What a step keeps that changes no frame                                 *)
LEMMA AfterNothing ==
  ASSUME PlaceInv, UNCHANGED <<bitmaps, frame, box>>,
         begin' \in 1 .. Len(frame) + 1, i' \in 1 .. Len(frame) + 1,
         mid'.x \in Int /\ mid'.y \in Int
  PROVE  /\ BitmapsInv' /\ FramesOK' /\ Chain' /\ GivenSizes' /\ Made'
         /\ \A f : /\ Seen(f)' = Seen(f) /\ (Kept(f)' <=> Kept(f))
                   /\ (Finished(f)' <=> Finished(f))
                   /\ F!RectOfFrame(f)' = F!RectOfFrame(f)
<1>3. UNCHANGED <<file, metrics, fib, active>> /\ box' = box /\ frame' = frame
  BY DEF bitmaps
<1>4. BitmapsInv'
  BY <1>3 DEF PlaceInv, BitmapsInv, FilesOK, SizesOK, OnlyActive, Opened
<1>5. FramesOK'
  BY <1>3 DEF PlaceInv, FramesOK
<1>6. SameNames
  BY <1>3 DEF SameNames
<1>7. Chain' /\ GivenSizes'
  BY <1>3, <1>6, ChainSame, GivenSame DEF PlaceInv
<1>8. \A f \in DOMAIN box : Settled(frame[f].bitmap)'
  BY <1>3 DEF PlaceInv, Made, Settled
<1>9. Made'
  BY <1>3, <1>6, <1>8, MadeSame DEF PlaceInv
<1> QED
  BY <1>3, <1>4, <1>5, <1>7, <1>9, FrameSame

(* Open settles the size of the bitmap it opens and changes that of no     *)
(* bitmap settled before.                                                  *)
LEMMA OpenSettles ==
  ASSUME BitmapsInv, NEW b \in DOMAIN file, Open(b)
  PROVE  /\ Settled(b)' /\ file' = file
         /\ \A c \in DOMAIN file : Settled(c) => Settled(c)' /\ metrics'[c] = metrics[c]
<1>1. b \in Slots /\ DOMAIN file \subseteq Slots /\ DOMAIN metrics = Slots /\ file' = file
  BY FilesInSlots DEF BitmapsInv, SizesOK, Open
<1>2. CASE Opened(b) /\ metrics' = metrics
  <2>1. fib[b] = Picture(file[b]) /\ fib[b].w = metrics[b].w /\ fib[b].h = metrics[b].h
    BY <1>1, <1>2 DEF BitmapsInv, OnlyActive
  <2>2. Picture(file[b]).w # 0
    BY <1>2, <2>1 DEF Opened
  <2>3. file[b].kind = "ok" /\ metrics[b].w = Shrunk(file[b]).w /\ metrics[b].h = Shrunk(file[b]).h
    BY <2>1, <2>2, PictureSize
  <2>4. metrics[b] = Shrunk(file[b])
    <3>1. metrics[b] \in [w : Nat, h : Nat] /\ Shrunk(file[b]) \in [w : Nat, h : Nat]
      BY <1>1, ShrunkOK DEF BitmapsInv, FilesOK, SizesOK
    <3> QED
      BY <2>3, <3>1
  <2> QED
    BY <1>1, <1>2, <2>3, <2>4 DEF Settled
<1>3. CASE file[b].kind = "bad" /\ metrics' = metrics
  BY <1>1, <1>3 DEF Settled
<1>4. CASE file[b].kind = "depth"
           /\ metrics' = [metrics EXCEPT ![b] = [w |-> file[b].w, h |-> file[b].h]]
  <2>1. metrics'[b] = [w |-> file[b].w, h |-> file[b].h]
        /\ \A c \in DOMAIN file : c # b => metrics'[c] = metrics[c]
    BY <1>1, <1>4
  <2> QED
    BY <1>1, <1>4, <2>1 DEF Settled
<1>5. CASE file[b].kind = "ok" /\ metrics' = [metrics EXCEPT ![b] = Shrunk(file[b])]
  <2>1. metrics'[b] = Shrunk(file[b])
        /\ \A c \in DOMAIN file : c # b => metrics'[c] = metrics[c]
    BY <1>1, <1>5
  <2> QED
    BY <1>1, <1>5, <2>1 DEF Settled
<1> QED
  BY <1>2, <1>3, <1>4, <1>5 DEF Open

(* So frames that were placed or finished remain so when their bitmap, or  *)
(* another, is opened again.                                               *)
LEMMA Reopened ==
  ASSUME BitmapsInv, FramesOK, Chain, GivenSizes, Made, NEW b \in DOMAIN file, Open(b),
         UNCHANGED <<frame, box>>,
         begin' \in 1 .. Len(frame) + 1, i' \in 1 .. Len(frame) + 1, mid' = mid
  PROVE  /\ BitmapsInv' /\ FramesOK' /\ Chain' /\ GivenSizes' /\ Made'
         /\ file' = file /\ Settled(b)'
         /\ \A f : /\ Seen(f)' = Seen(f) /\ (Kept(f)' <=> Kept(f))
                   /\ (Finished(f)' <=> Finished(f))
<1>1. BitmapsInv'
  BY OpenStep
<1>2. /\ Settled(b)' /\ file' = file
      /\ \A c \in DOMAIN file : Settled(c) => Settled(c)' /\ metrics'[c] = metrics[c]
  BY OpenSettles
<1>3. FramesOK'
  BY <1>2 DEF FramesOK
<1>4. SameNames
  BY DEF SameNames
<1>5. Chain' /\ GivenSizes'
  BY <1>4, ChainSame, GivenSame
<1>6. ASSUME NEW f \in DOMAIN box
      PROVE  Settled(frame[f].bitmap)' /\ metrics'[frame[f].bitmap] = metrics[frame[f].bitmap]
  <2>1. frame[f].bitmap \in DOMAIN file
    BY FramesFacts DEF FramesOK
  <2>2. Settled(frame[f].bitmap)
    BY DEF Made
  <2>3. PICK c \in DOMAIN file : c = frame[f].bitmap
    BY <2>1
  <2>4. Settled(c)' /\ metrics'[c] = metrics[c]
    BY <1>2, <2>2, <2>3
  <2>5. frame'[f].bitmap = c
    BY <2>3
  <2> QED
    BY <2>3, <2>4, <2>5 DEF Settled
<1>7. Made'
  BY <1>2, <1>4, <1>6, MadeSame
<1> QED
  BY <1>1, <1>2, <1>3, <1>5, <1>7, FrameSame

(* OpenGroup                                                               *)
LEMMA OpenGroupStep ==
  ASSUME PlaceInv, F!OpenGroup
  PROVE  PlaceInv'
<1> DEFINE b == frame[begin].bitmap
<1>1. /\ placePc = "group" /\ begin <= Len(frame) /\ Open(b)
      /\ i' = begin /\ placePc' = "place" /\ UNCHANGED <<frame, box, begin, mid>>
  BY SameOpen DEF F!OpenGroup, F!Count, F!Bitmap
<1>2. /\ Len(frame) \in Nat /\ DOMAIN frame = 1 .. Len(frame)
      /\ Len(box) \in Nat /\ DOMAIN box = 1 .. Len(box) /\ Len(box) = begin - 1
      /\ begin \in 1 .. Len(frame)
  BY <1>1, FramesFacts DEF PlaceInv, FramesOK, Control
<1>3. b \in DOMAIN file
  BY <1>2 DEF PlaceInv, FramesOK
<1>4. /\ BitmapsInv' /\ FramesOK' /\ Chain' /\ GivenSizes' /\ Made'
      /\ file' = file /\ Settled(b)'
      /\ \A f : /\ Seen(f)' = Seen(f) /\ (Kept(f)' <=> Kept(f))
                /\ (Finished(f)' <=> Finished(f))
  BY <1>1, <1>2, <1>3, Reopened DEF PlaceInv
<1>5. PlacePcOK'
  BY <1>1 DEF PlacePcOK
<1>6. Control'
  <2>1. frame[begin].bitmap # frame[begin - 1].bitmap \/ ~(1 < begin)
    BY <1>1, <1>2 DEF PlaceInv, Control
  <2> QED
    BY <1>1, <1>2, <1>4, <2>1 DEF Control, Wrapping, Trimming
<1>7. AllFinished'
  <2>1. \A f \in 1 .. begin - 1 : Finished(f)
    BY <1>1 DEF PlaceInv, AllFinished, Ready
  <2>2. Ready' = begin - 1 /\ Len(box') = begin - 1
    BY <1>1, <1>2 DEF Ready
  <2> QED
    BY <1>2, <1>4, <2>1, <2>2 DEF AllFinished
<1>8. Trim'
  BY <1>1 DEF Trim, Trimming
<1> QED
  BY <1>4, <1>5, <1>6, <1>7, <1>8 DEF PlaceInv

(* PlacedAll: no frame of the group is trimmed before all have a box, so   *)
(* that each box is made from that of the frame before, not from the       *)
(* frame.                                                                  *)
LEMMA PlacedAllStep ==
  ASSUME PlaceInv, F!PlacedAll
  PROVE  PlaceInv'
<1>1. /\ placePc = "place" /\ ~(i <= Len(frame) /\ frame[i].bitmap = frame[begin].bitmap)
      /\ i' = begin /\ placePc' = "wrap" /\ UNCHANGED <<bitmaps, frame, box, begin, mid>>
  BY DEF F!PlacedAll, F!InGroup, F!Count, F!Bitmap, F!bitmaps, bitmaps
<1>2. /\ Len(frame) \in Nat /\ DOMAIN frame = 1 .. Len(frame)
      /\ Len(box) \in Nat /\ Len(box) <= Len(frame) /\ Len(box) = i - 1 /\ i \in Nat
      /\ begin \in 1 .. Len(frame) /\ begin <= i
      /\ \A f \in begin .. Len(box) : frame[f].bitmap = frame[begin].bitmap
      /\ Settled(frame[begin].bitmap)
  BY <1>1, FramesFacts DEF PlaceInv, FramesOK, Control
<1>3. /\ BitmapsInv' /\ FramesOK' /\ Chain' /\ GivenSizes' /\ Made'
      /\ \A f : /\ Seen(f)' = Seen(f) /\ (Kept(f)' <=> Kept(f))
                /\ (Finished(f)' <=> Finished(f))
  BY <1>1, <1>2, AfterNothing DEF PlaceInv, FramesOK
<1>4. PlacePcOK'
  BY <1>1 DEF PlacePcOK, Wrapping
<1>5. begin < i
  BY <1>1, <1>2
<1>6. Settled(frame[begin].bitmap)'
  BY <1>1, <1>2 DEF Settled, bitmaps
<1>7. Control'
  BY <1>1, <1>2, <1>5, <1>6 DEF Control, Wrapping, Trimming
<1>8. AllFinished'
  <2>1. /\ \A f \in 1 .. begin - 1 : Finished(f)
        /\ \A f \in begin .. Len(box) : Kept(f)
    BY <1>1, <1>2 DEF PlaceInv, AllFinished, Ready, Trimming
  <2>2. Ready' = begin - 1
    BY <1>1 DEF Ready
  <2> QED
    BY <1>1, <1>2, <1>3, <2>1, <2>2 DEF AllFinished
<1>9. Trim'
  BY <1>1 DEF Trim, Trimming
<1> QED
  BY <1>3, <1>4, <1>7, <1>8, <1>9 DEF PlaceInv

(* WrappedAll: the group ended because the next bitmap differs.            *)
LEMMA WrappedAllStep ==
  ASSUME PlaceInv, F!WrappedAll
  PROVE  PlaceInv'
<1>1. /\ placePc = "wrap" /\ ~(i <= Len(frame) /\ frame[i].bitmap = frame[begin].bitmap)
      /\ begin' = i /\ placePc' = "group" /\ UNCHANGED <<bitmaps, frame, box, i, mid>>
  BY DEF F!WrappedAll, F!InGroup, F!Count, F!Bitmap, F!bitmaps, bitmaps
<1>2. /\ Len(frame) \in Nat /\ DOMAIN frame = 1 .. Len(frame)
      /\ Len(box) \in Nat /\ Len(box) <= Len(frame) /\ i \in 1 .. Len(box) + 1
      /\ begin \in 1 .. Len(frame) /\ begin <= i /\ begin <= Len(box)
      /\ \A f \in begin .. Len(box) : frame[f].bitmap = frame[begin].bitmap
  BY <1>1, FramesFacts DEF PlaceInv, FramesOK, Control, Wrapping
<1>3. /\ BitmapsInv' /\ FramesOK' /\ Chain' /\ GivenSizes' /\ Made'
      /\ \A f : /\ Seen(f)' = Seen(f) /\ (Kept(f)' <=> Kept(f))
                /\ (Finished(f)' <=> Finished(f))
  BY <1>1, <1>2, AfterNothing DEF PlaceInv, FramesOK
<1>4. PlacePcOK'
  BY <1>1 DEF PlacePcOK
<1>5. i = Len(box) + 1
  <2>1. i \notin begin .. Len(box)
    BY <1>1, <1>2
  <2> QED
    BY <1>2, <2>1
<1>6. i <= Len(frame) => frame[i].bitmap # frame[i - 1].bitmap
  <2>1. frame[i - 1].bitmap = frame[begin].bitmap
    BY <1>2, <1>5
  <2> QED
    BY <1>1, <2>1
<1>7. Control'
  BY <1>1, <1>2, <1>5, <1>6 DEF Control, Wrapping, Trimming
<1>8. AllFinished'
  <2>1. \A f \in 1 .. i - 1 : Finished(f)
    BY <1>1 DEF PlaceInv, AllFinished, Ready
  <2>2. Ready' = i - 1 /\ Len(box') = i - 1
    BY <1>1, <1>2, <1>5 DEF Ready
  <2> QED
    BY <1>2, <1>3, <2>1, <2>2 DEF AllFinished
<1>9. Trim'
  BY <1>1 DEF Trim, Trimming
<1> QED
  BY <1>3, <1>4, <1>7, <1>8, <1>9 DEF PlaceInv

(* Finish                                                                  *)
LEMMA FinishPlacing ==
  ASSUME PlaceInv, F!Finish
  PROVE  PlaceInv'
<1>1. /\ placePc = "group" /\ begin > Len(frame) /\ placePc' = "done"
      /\ UNCHANGED <<bitmaps, frame, box, begin, i, mid>>
  BY DEF F!Finish, F!Count, F!bitmaps, bitmaps
<1>2. /\ Len(frame) \in Nat /\ Len(box) \in Nat /\ Len(box) <= Len(frame)
      /\ Len(box) = begin - 1 /\ begin \in 1 .. Len(frame) + 1
  BY <1>1, FramesFacts DEF PlaceInv, FramesOK, Control
<1>3. /\ BitmapsInv' /\ FramesOK' /\ Chain' /\ GivenSizes' /\ Made'
      /\ \A f : /\ Seen(f)' = Seen(f) /\ (Kept(f)' <=> Kept(f))
                /\ (Finished(f)' <=> Finished(f))
  BY <1>1, <1>2, AfterNothing DEF PlaceInv, FramesOK
<1>4. PlacePcOK'
  BY <1>1 DEF PlacePcOK
<1>7. Control'
  BY <1>1, <1>2 DEF Control, Wrapping, Trimming
<1>8. AllFinished'
  <2>1. \A f \in 1 .. begin - 1 : Finished(f)
    BY <1>1 DEF PlaceInv, AllFinished, Ready
  <2>2. Ready' = Len(box)
    BY <1>1 DEF Ready
  <2> QED
    BY <1>1, <1>2, <1>3, <2>1, <2>2 DEF AllFinished
<1>9. Trim'
  BY <1>1 DEF Trim, Trimming
<1> QED
  BY <1>3, <1>4, <1>7, <1>8, <1>9 DEF PlaceInv

(* ReadNull                                                                *)
LEMMA ReadNullStep ==
  ASSUME PlaceInv, F!ReadNull
  PROVE  PlaceInv'
<1>1. /\ placePc' = "crashed" /\ UNCHANGED <<bitmaps, frame, box, begin, i, mid>>
  BY DEF F!ReadNull, F!bitmaps, bitmaps
<1>3. BitmapsInv' /\ FramesOK' /\ Chain' /\ GivenSizes' /\ Made'
  BY <1>1, AfterNothing DEF PlaceInv, FramesOK
<1>4. PlacePcOK' /\ Control' /\ AllFinished' /\ Trim'
  BY <1>1 DEF PlacePcOK, Control, Wrapping, Trimming, AllFinished, Trim
<1> QED
  BY <1>3, <1>4 DEF PlaceInv

(* StartWrap: an untouched frame has all the visible pixels of its box.    *)
LEMMA StartWrapStep ==
  ASSUME PlaceInv, F!StartWrap
  PROVE  PlaceInv'
<1>1. /\ placePc = "wrap" /\ i <= Len(frame) /\ frame[i].bitmap = frame[begin].bitmap
      /\ frame[i].wrap /\ placePc' = "top"
      /\ mid' = [x |-> frame[i].x + frame[i].w \div 2, y |-> frame[i].y + frame[i].h \div 2]
      /\ UNCHANGED <<bitmaps, frame, box, begin, i>>
  BY DEF F!StartWrap, F!InGroup, F!Count, F!Bitmap, F!bitmaps, bitmaps
<1>2. /\ Len(frame) \in Nat /\ DOMAIN frame = 1 .. Len(frame)
      /\ Len(box) \in Nat /\ Len(box) <= Len(frame) /\ i \in 1 .. Len(box) + 1
      /\ begin \in 1 .. Len(frame) /\ begin <= i /\ begin <= Len(box)
      /\ (Len(box) < Len(frame) => frame[Len(box) + 1].bitmap # frame[begin].bitmap)
      /\ \A f \in begin .. Len(box) : frame[f].bitmap = frame[begin].bitmap
      /\ Settled(frame[begin].bitmap)
  BY <1>1, FramesFacts DEF PlaceInv, FramesOK, Control, Wrapping
<1>a. mid'.x \in Int /\ mid'.y \in Int
  <2>1. frame[i] \in FrameRec
    BY <1>1, <1>2, FramesFacts DEF PlaceInv
  <2>2. frame[i].x \in Int /\ frame[i].y \in Int /\ frame[i].w \in Nat /\ frame[i].h \in Nat
    BY <2>1, FrameFields
  <2> QED
    BY <1>1, <2>2
<1>3. /\ BitmapsInv' /\ FramesOK' /\ Chain' /\ GivenSizes' /\ Made'
      /\ \A f : /\ Seen(f)' = Seen(f) /\ (Kept(f)' <=> Kept(f))
                /\ (Finished(f)' <=> Finished(f)) /\ F!RectOfFrame(f)' = F!RectOfFrame(f)
  BY <1>1, <1>2, <1>a, AfterNothing DEF PlaceInv, FramesOK
<1>4. PlacePcOK'
  BY <1>1 DEF PlacePcOK, Wrapping
<1>5. i <= Len(box)
  BY <1>1, <1>2
<1>6. Settled(frame[begin].bitmap)'
  BY <1>1, <1>2 DEF Settled, bitmaps
<1>7. Control'
  BY <1>1, <1>2, <1>5, <1>6 DEF Control, Wrapping, Trimming
<1>8. /\ \A f \in 1 .. i - 1 : Finished(f)
      /\ \A f \in i .. Len(box) : Kept(f)
  BY <1>1, <1>2 DEF PlaceInv, AllFinished, Ready, Trimming
<1>9. AllFinished'
  <2>1. Ready' = i - 1
    BY <1>1 DEF Ready
  <2> QED
    BY <1>1, <1>2, <1>3, <1>8, <2>1 DEF AllFinished
<1>10. Trim'
  <2>1. Kept(i) /\ box[i] \in BoxRec
    BY <1>2, <1>5, <1>8, FramesFacts DEF PlaceInv
  <2>2. F!OpaqueIn(F!RectOfFrame(i), frame[i].bitmap) = Seen(i) /\ Inside(F!RectOfFrame(i), box[i])
    BY <2>1 DEF Kept, Seen, Inside, BoxRec
  <2>3. F!OpaqueIn(F!RectOfFrame(i), frame[i].bitmap)' = F!OpaqueIn(F!RectOfFrame(i), frame[i].bitmap)
    BY <1>1, <1>3 DEF F!OpaqueIn, bitmaps
  <2>4. Inside(F!RectOfFrame(i), box[i])'
    BY <1>1, <1>3, <2>2 DEF Inside
  <2> QED
    BY <1>1, <1>3, <2>2, <2>3, <2>4 DEF Trim, Trimming
<1> QED
  BY <1>3, <1>4, <1>7, <1>9, <1>10 DEF PlaceInv

(* A step in a loop of ShrinkWrap                                          *)
LEMMA StillTrimming ==
  ASSUME PlaceInv, placePc \in Trimming, placePc' \in Trimming, NEW r \in FrameRec, Edited(r),
         r.mode = frame[i].mode, r.bitmap = frame[i].bitmap,
         r.dir = frame[i].dir, r.wrap = frame[i].wrap,
         UNCHANGED <<bitmaps, box, begin, i, mid>>, Trim'
  PROVE  PlaceInv'
<1>1. /\ Len(frame) \in Nat /\ DOMAIN frame = 1 .. Len(frame)
      /\ Len(box) \in Nat /\ Len(box) <= Len(frame) /\ i \in 1 .. Len(box)
      /\ begin \in 1 .. Len(frame) /\ begin <= i /\ begin <= Len(box) /\ frame[i].wrap
      /\ (Len(box) < Len(frame) => frame[Len(box) + 1].bitmap # frame[begin].bitmap)
      /\ \A f \in begin .. Len(box) : frame[f].bitmap = frame[begin].bitmap
      /\ Settled(frame[begin].bitmap)
  BY FramesFacts DEF PlaceInv, FramesOK, Control, Wrapping, Trimming
<1>2. /\ BitmapsInv' /\ FramesOK' /\ Chain' /\ GivenSizes' /\ Made'
      /\ SameNames /\ frame'[i] = r
      /\ \A f \in DOMAIN frame : f # i =>
           /\ frame'[f] = frame[f] /\ Seen(f)' = Seen(f)
           /\ (Kept(f)' <=> Kept(f)) /\ (Finished(f)' <=> Finished(f))
  <2>1. UNCHANGED <<bitmaps, box, begin, mid>> /\ i' \in {i, i + 1} /\ i <= Len(box)
    BY <1>1
  <2> QED
    BY <2>1, AfterEdit
<1>3. PlacePcOK'
  BY DEF PlacePcOK, Trimming, Wrapping
<1>4. Settled(frame[begin].bitmap)'
  <2>1. frame'[begin'].bitmap = frame[begin].bitmap
    BY <1>1, <1>2 DEF SameNames
  <2>2. metrics' = metrics /\ file' = file
    BY DEF bitmaps
  <2> QED
    BY <1>1, <2>1, <2>2 DEF Settled
<1>5. Control'
  BY <1>1, <1>2, <1>4 DEF Control, Wrapping, Trimming, SameNames
<1>6. AllFinished'
  <2>1. Ready = i - 1 /\ Ready' = i - 1
    BY DEF Ready, Trimming
  <2>2. /\ \A f \in 1 .. i - 1 : Finished(f)
        /\ \A f \in i .. Len(box) : f = i \/ Kept(f)
    <3>1. AllFinished /\ placePc \notin {"failed", "crashed"}
      BY DEF PlaceInv, Trimming
    <3> QED
      BY <1>1, <2>1, <3>1 DEF AllFinished
  <2>3. box' = box /\ i' = i
    OBVIOUS
  <2>4. \A f \in 1 .. i - 1 : Finished(f)'
    BY <1>1, <1>2, <2>2
  <2>5. \A f \in i .. Len(box) : f = i \/ Kept(f)'
    BY <1>1, <1>2, <2>2
  <2> QED
    BY <1>1, <2>1, <2>3, <2>4, <2>5 DEF AllFinished
<1> QED
  BY <1>2, <1>3, <1>5, <1>6 DEF PlaceInv

(* A step to the next frame                                                *)
LEMMA NextToWrap ==
  ASSUME PlaceInv, placePc \in Wrapping, placePc' = "wrap", i <= Len(box),
         NEW r \in FrameRec, Edited(r),
         r.mode = frame[i].mode, r.bitmap = frame[i].bitmap,
         r.dir = frame[i].dir, r.wrap = frame[i].wrap,
         UNCHANGED <<bitmaps, box, begin, mid>>, i' = i + 1,
         NEW i0, i0 = i, Finished(i0)'
  PROVE  PlaceInv'
<1>0. i0 = i /\ Finished(i0)'
  OBVIOUS
<1>1. /\ Len(frame) \in Nat /\ DOMAIN frame = 1 .. Len(frame)
      /\ Len(box) \in Nat /\ Len(box) <= Len(frame) /\ i \in 1 .. Len(box)
      /\ begin \in 1 .. Len(frame) /\ begin <= i /\ begin <= Len(box)
      /\ (Len(box) < Len(frame) => frame[Len(box) + 1].bitmap # frame[begin].bitmap)
      /\ \A f \in begin .. Len(box) : frame[f].bitmap = frame[begin].bitmap
      /\ Settled(frame[begin].bitmap)
  BY FramesFacts DEF PlaceInv, FramesOK, Control, Wrapping
<1>2. /\ BitmapsInv' /\ FramesOK' /\ Chain' /\ GivenSizes' /\ Made'
      /\ SameNames /\ frame'[i] = r
      /\ \A f \in DOMAIN frame : f # i =>
           /\ frame'[f] = frame[f] /\ Seen(f)' = Seen(f)
           /\ (Kept(f)' <=> Kept(f)) /\ (Finished(f)' <=> Finished(f))
  <2>1. UNCHANGED <<bitmaps, box, begin, mid>> /\ i' \in {i, i + 1} /\ i <= Len(box)
    BY <1>1
  <2> QED
    BY <2>1, AfterEdit
<1>3. PlacePcOK'
  BY DEF PlacePcOK, Wrapping
<1>4. Settled(frame[begin].bitmap)'
  <2>1. frame'[begin'].bitmap = frame[begin].bitmap
    BY <1>1, <1>2 DEF SameNames
  <2>2. metrics' = metrics /\ file' = file
    BY DEF bitmaps
  <2> QED
    BY <1>1, <2>1, <2>2 DEF Settled
<1>5. Control'
  BY <1>1, <1>2, <1>4 DEF Control, Wrapping, Trimming, SameNames
<1>6. AllFinished'
  <2>1. Ready = i - 1 /\ Ready' = i
    BY <1>1 DEF Ready, Wrapping
  <2>2. /\ \A f \in 1 .. i - 1 : Finished(f)
        /\ \A f \in i .. Len(box) : f = i \/ Kept(f)
    <3>1. AllFinished /\ placePc \notin {"failed", "crashed"}
      BY DEF PlaceInv, Wrapping
    <3> QED
      BY <1>1, <2>1, <3>1 DEF AllFinished
  <2>3. box' = box
    OBVIOUS
  <2>4. ASSUME NEW f \in 1 .. i0 PROVE Finished(f)'
    <3>1. CASE f = i0
      BY <1>0, <3>1
    <3>2. CASE f # i0
      BY <1>0, <1>1, <1>2, <2>2, <3>2
    <3> QED
      BY <3>1, <3>2
  <2>5. \A f \in i0 + 1 .. Len(box) : Kept(f)'
    BY <1>0, <1>1, <1>2, <2>2
  <2> QED
    BY <1>0, <2>1, <2>3, <2>4, <2>5 DEF AllFinished
<1>7. Trim'
  BY DEF Trim, Trimming
<1> QED
  BY <1>2, <1>3, <1>5, <1>6, <1>7 DEF PlaceInv

(* KeepBox                                                                 *)
LEMMA KeepBoxStep ==
  ASSUME PlaceInv, F!KeepBox
  PROVE  PlaceInv'
<1> DEFINE r == [frame[i] EXCEPT !.cx = frame[i].w \div 2, !.cy = frame[i].h \div 2]
<1>1. /\ placePc = "wrap" /\ i <= Len(frame) /\ frame[i].bitmap = frame[begin].bitmap
      /\ ~frame[i].wrap /\ placePc' = "wrap" /\ i' = i + 1
      /\ frame' = [frame EXCEPT ![i].cx = frame[i].w \div 2, ![i].cy = frame[i].h \div 2]
      /\ UNCHANGED <<bitmaps, box, begin, mid>>
  BY DEF F!KeepBox, F!InGroup, F!Count, F!Bitmap, F!bitmaps, bitmaps
<1>2. /\ Len(frame) \in Nat /\ DOMAIN frame = 1 .. Len(frame)
      /\ Len(box) \in Nat /\ Len(box) <= Len(frame) /\ i \in 1 .. Len(box) + 1
      /\ (Len(box) < Len(frame) => frame[Len(box) + 1].bitmap # frame[begin].bitmap)
      /\ frame[i] \in FrameRec
  BY <1>1, FramesFacts DEF PlaceInv, FramesOK, Control, Wrapping
<1>3. i <= Len(box)
  BY <1>1, <1>2
<1>4. frame[i].w \div 2 \in Int /\ frame[i].h \div 2 \in Int
  BY <1>2, FrameFields
<1>5. r \in FrameRec
  BY <1>2, <1>4 DEF FrameRec
<1>6. /\ r.mode = frame[i].mode /\ r.bitmap = frame[i].bitmap
      /\ r.dir = frame[i].dir /\ r.wrap = frame[i].wrap
      /\ r.x = frame[i].x /\ r.y = frame[i].y /\ r.w = frame[i].w /\ r.h = frame[i].h
  BY <1>2 DEF FrameRec
<1>7. Edited(r)
  BY <1>1, <1>2 DEF Edited
<1> HIDE DEF r
<1>a. PICK i0 : i0 = i
  OBVIOUS
<1>8. Finished(i0)'
  <2>1. i \in DOMAIN frame /\ frame'[i] = r
    BY <1>1, <1>2, <1>5, <1>6, <1>7, EditFrame DEF PlaceInv
  <2>2. Kept(i)
    BY <1>1, <1>2, <1>3 DEF PlaceInv, AllFinished, Ready, Trimming
  <2>4. box' = box
    BY <1>1
  <2> QED
    BY <1>1, <1>6, <1>a, <2>1, <2>2, <2>4 DEF Finished, Kept, F!RectOfFrame
<1> QED
  BY <1>1, <1>3, <1>5, <1>6, <1>7, <1>8, <1>a, NextToWrap DEF Wrapping

(* A pixel of bitmap b that is not transparent                             *)
Visible(b, x, y) == F!Look(F!Picture(file[b]), x, y).a # 0

(* A rectangle with integer sides, which may be empty                      *)
IntRect(r) == r.x \in Int /\ r.y \in Int /\ r.w \in Int /\ r.h \in Int

(* OpaqueIn, pixel by pixel                                                *)
LEMMA OpaqueIsVisible ==
  ASSUME NEW r, IntRect(r), NEW b
  PROVE  /\ \A q \in F!OpaqueIn(r, b) :
              /\ q[1] \in Int /\ q[2] \in Int
              /\ r.x <= q[1] /\ q[1] <= r.x + r.w - 1 /\ r.y <= q[2] /\ q[2] <= r.y + r.h - 1
              /\ Visible(b, q[1], q[2]) /\ q = <<q[1], q[2]>>
         /\ \A x, y \in Int :
              (/\ r.x <= x /\ x <= r.x + r.w - 1 /\ r.y <= y /\ y <= r.y + r.h - 1
               /\ Visible(b, x, y)) => <<x, y>> \in F!OpaqueIn(r, b)
<1> DEFINE xs == r.x .. r.x + r.w - 1
           ys == r.y .. r.y + r.h - 1
<1>1. F!OpaqueIn(r, b) = {q \in xs \X ys : Visible(b, q[1], q[2])}
  BY DEF F!OpaqueIn, Visible
<1>2. \A x \in Int : x \in xs <=> r.x <= x /\ x <= r.x + r.w - 1
  BY DEF IntRect
<1>3. \A y \in Int : y \in ys <=> r.y <= y /\ y <= r.y + r.h - 1
  BY DEF IntRect
<1>4. xs \subseteq Int /\ ys \subseteq Int
  BY DEF IntRect
<1> HIDE DEF xs, ys
<1>5. ASSUME NEW q \in F!OpaqueIn(r, b)
      PROVE  /\ q[1] \in xs /\ q[2] \in ys
             /\ Visible(b, q[1], q[2]) /\ q = <<q[1], q[2]>>
  BY <1>1
<1>6. \A x \in xs, y \in ys : Visible(b, x, y) => <<x, y>> \in F!OpaqueIn(r, b)
  BY <1>1
<1>7. \A q \in F!OpaqueIn(r, b) :
        /\ q[1] \in Int /\ q[2] \in Int
        /\ r.x <= q[1] /\ q[1] <= r.x + r.w - 1 /\ r.y <= q[2] /\ q[2] <= r.y + r.h - 1
        /\ Visible(b, q[1], q[2]) /\ q = <<q[1], q[2]>>
  <2>1. SUFFICES ASSUME NEW q \in F!OpaqueIn(r, b)
                 PROVE  /\ q[1] \in Int /\ q[2] \in Int
                        /\ r.x <= q[1] /\ q[1] <= r.x + r.w - 1
                        /\ r.y <= q[2] /\ q[2] <= r.y + r.h - 1
                        /\ Visible(b, q[1], q[2]) /\ q = <<q[1], q[2]>>
    OBVIOUS
  <2>2. q[1] \in Int /\ q[2] \in Int
    BY <1>4, <1>5
  <2>3. r.x <= q[1] /\ q[1] <= r.x + r.w - 1
    BY <1>2, <1>5, <2>2
  <2>4. r.y <= q[2] /\ q[2] <= r.y + r.h - 1
    BY <1>3, <1>5, <2>2
  <2> QED
    BY <1>5, <2>2, <2>3, <2>4
<1>8. \A x, y \in Int :
        (/\ r.x <= x /\ x <= r.x + r.w - 1 /\ r.y <= y /\ y <= r.y + r.h - 1
         /\ Visible(b, x, y)) => <<x, y>> \in F!OpaqueIn(r, b)
  BY <1>2, <1>3, <1>6
<1> QED
  BY <1>7, <1>8

(* A rectangle can be cut to one that has all its visible pixels.          *)
LEMMA CutRect ==
  ASSUME NEW r, IntRect(r), NEW s, IntRect(s), NEW b,
         r.x <= s.x /\ s.x + s.w <= r.x + r.w /\ r.y <= s.y /\ s.y + s.h <= r.y + r.h,
         \A q \in F!OpaqueIn(r, b) :
           s.x <= q[1] /\ q[1] <= s.x + s.w - 1 /\ s.y <= q[2] /\ q[2] <= s.y + s.h - 1
  PROVE  F!OpaqueIn(s, b) = F!OpaqueIn(r, b)
<1>1. ASSUME NEW q \in F!OpaqueIn(r, b) PROVE q \in F!OpaqueIn(s, b)
  <2>1. /\ q[1] \in Int /\ q[2] \in Int /\ Visible(b, q[1], q[2]) /\ q = <<q[1], q[2]>>
    BY OpaqueIsVisible
  <2>2. <<q[1], q[2]>> \in F!OpaqueIn(s, b)
    BY <2>1, OpaqueIsVisible
  <2> QED
    BY <2>1, <2>2
<1>2. ASSUME NEW q \in F!OpaqueIn(s, b) PROVE q \in F!OpaqueIn(r, b)
  <2>1. /\ q[1] \in Int /\ q[2] \in Int /\ Visible(b, q[1], q[2]) /\ q = <<q[1], q[2]>>
        /\ s.x <= q[1] /\ q[1] <= s.x + s.w - 1 /\ s.y <= q[2] /\ q[2] <= s.y + s.h - 1
    BY OpaqueIsVisible
  <2>2. r.x <= q[1] /\ q[1] <= r.x + r.w - 1 /\ r.y <= q[2] /\ q[2] <= r.y + r.h - 1
    BY <2>1 DEF IntRect
  <2>3. <<q[1], q[2]>> \in F!OpaqueIn(r, b)
    BY <2>1, <2>2, OpaqueIsVisible
  <2> QED
    BY <2>1, <2>3
<1> QED
  BY <1>1, <1>2

(* IsClearH, on the file                                                   *)
ClearRow(b, x, y, width) == \A k \in 0 .. width - 1 : ~Visible(b, x + k, y)

(* IsClearV, on the file                                                   *)
ClearColumn(b, x, y, height) == \A k \in 0 .. height - 1 : ~Visible(b, x, y + k)

(* A row of a rectangle is clear if and only if it has no visible pixel.   *)
LEMMA RowLemma ==
  ASSUME NEW r, IntRect(r), NEW b, NEW y \in Int, r.y <= y, y <= r.y + r.h - 1
  PROVE  /\ ClearRow(b, r.x, y, r.w) => \A q \in F!OpaqueIn(r, b) : q[2] # y
         /\ ~ClearRow(b, r.x, y, r.w) => \E q \in F!OpaqueIn(r, b) : q[2] = y
<1>1. ASSUME ClearRow(b, r.x, y, r.w), NEW q \in F!OpaqueIn(r, b) PROVE q[2] # y
  <2>1. /\ q[1] \in Int /\ q[2] \in Int /\ Visible(b, q[1], q[2])
        /\ r.x <= q[1] /\ q[1] <= r.x + r.w - 1
    BY OpaqueIsVisible
  <2>2. q[1] - r.x \in 0 .. r.w - 1 /\ r.x + (q[1] - r.x) = q[1]
    BY <2>1 DEF IntRect
  <2> QED
    BY <1>1, <2>1, <2>2 DEF ClearRow
<1>2. ASSUME ~ClearRow(b, r.x, y, r.w) PROVE \E q \in F!OpaqueIn(r, b) : q[2] = y
  <2>1. PICK k \in 0 .. r.w - 1 : Visible(b, r.x + k, y)
    BY <1>2 DEF ClearRow
  <2>2. r.x + k \in Int /\ r.x <= r.x + k /\ r.x + k <= r.x + r.w - 1
    BY DEF IntRect
  <2>3. <<r.x + k, y>> \in F!OpaqueIn(r, b)
    BY <2>1, <2>2, OpaqueIsVisible
  <2> QED
    BY <2>3
<1> QED
  BY <1>1, <1>2

(* So is a column.                                                         *)
LEMMA ColumnLemma ==
  ASSUME NEW r, IntRect(r), NEW b, NEW x \in Int, r.x <= x, x <= r.x + r.w - 1
  PROVE  /\ ClearColumn(b, x, r.y, r.h) => \A q \in F!OpaqueIn(r, b) : q[1] # x
         /\ ~ClearColumn(b, x, r.y, r.h) => \E q \in F!OpaqueIn(r, b) : q[1] = x
<1>1. ASSUME ClearColumn(b, x, r.y, r.h), NEW q \in F!OpaqueIn(r, b) PROVE q[1] # x
  <2>1. /\ q[1] \in Int /\ q[2] \in Int /\ Visible(b, q[1], q[2])
        /\ r.y <= q[2] /\ q[2] <= r.y + r.h - 1
    BY OpaqueIsVisible
  <2>2. q[2] - r.y \in 0 .. r.h - 1 /\ r.y + (q[2] - r.y) = q[2]
    BY <2>1 DEF IntRect
  <2> QED
    BY <1>1, <2>1, <2>2 DEF ClearColumn
<1>2. ASSUME ~ClearColumn(b, x, r.y, r.h) PROVE \E q \in F!OpaqueIn(r, b) : q[1] = x
  <2>1. PICK k \in 0 .. r.h - 1 : Visible(b, x, r.y + k)
    BY <1>2 DEF ClearColumn
  <2>2. r.y + k \in Int /\ r.y <= r.y + k /\ r.y + k <= r.y + r.h - 1
    BY DEF IntRect
  <2>3. <<x, r.y + k>> \in F!OpaqueIn(r, b)
    BY <2>1, <2>2, OpaqueIsVisible
  <2> QED
    BY <2>3
<1> QED
  BY <1>1, <1>2

(* Cutting a clear row off the top loses nothing,                          *)
LEMMA CutTop ==
  ASSUME NEW r, IntRect(r), NEW t, IntRect(t), NEW b, r.h >= 1,
         Inside(r, t), ClearRow(b, r.x, r.y, r.w),
         NEW s, s = [x |-> r.x, y |-> r.y + 1, w |-> r.w, h |-> r.h - 1]
  PROVE  F!OpaqueIn(s, b) = F!OpaqueIn(r, b) /\ Inside(s, t)
<1>1. IntRect(s) /\ s.x = r.x /\ s.y = r.y + 1 /\ s.w = r.w /\ s.h = r.h - 1
  BY DEF IntRect
<1>2. \A q \in F!OpaqueIn(r, b) : q[2] # r.y
  BY RowLemma DEF IntRect
<1>3. \A q \in F!OpaqueIn(r, b) :
        s.x <= q[1] /\ q[1] <= s.x + s.w - 1 /\ s.y <= q[2] /\ q[2] <= s.y + s.h - 1
  BY <1>1, <1>2, OpaqueIsVisible DEF IntRect
<1>4. r.x <= s.x /\ s.x + s.w <= r.x + r.w /\ r.y <= s.y /\ s.y + s.h <= r.y + r.h
  BY <1>1 DEF IntRect
<1> QED
  BY <1>1, <1>3, <1>4, CutRect DEF Inside, IntRect

(* nor off the bottom,                                                     *)
LEMMA CutBottom ==
  ASSUME NEW r, IntRect(r), NEW t, IntRect(t), NEW b, r.h >= 1,
         Inside(r, t), ClearRow(b, r.x, r.y + (r.h - 1), r.w),
         NEW s, s = [x |-> r.x, y |-> r.y, w |-> r.w, h |-> r.h - 1]
  PROVE  F!OpaqueIn(s, b) = F!OpaqueIn(r, b) /\ Inside(s, t)
<1>1. IntRect(s) /\ s.x = r.x /\ s.y = r.y /\ s.w = r.w /\ s.h = r.h - 1
  BY DEF IntRect
<1>2. \A q \in F!OpaqueIn(r, b) : q[2] # r.y + (r.h - 1)
  BY RowLemma DEF IntRect
<1>3. \A q \in F!OpaqueIn(r, b) :
        s.x <= q[1] /\ q[1] <= s.x + s.w - 1 /\ s.y <= q[2] /\ q[2] <= s.y + s.h - 1
  BY <1>1, <1>2, OpaqueIsVisible DEF IntRect
<1>4. r.x <= s.x /\ s.x + s.w <= r.x + r.w /\ r.y <= s.y /\ s.y + s.h <= r.y + r.h
  BY <1>1 DEF IntRect
<1> QED
  BY <1>1, <1>3, <1>4, CutRect DEF Inside, IntRect

(* nor a column off the left,                                              *)
LEMMA CutLeft ==
  ASSUME NEW r, IntRect(r), NEW t, IntRect(t), NEW b, r.w >= 1,
         Inside(r, t), ClearColumn(b, r.x, r.y, r.h),
         NEW s, s = [x |-> r.x + 1, y |-> r.y, w |-> r.w - 1, h |-> r.h]
  PROVE  F!OpaqueIn(s, b) = F!OpaqueIn(r, b) /\ Inside(s, t)
<1>1. IntRect(s) /\ s.x = r.x + 1 /\ s.y = r.y /\ s.w = r.w - 1 /\ s.h = r.h
  BY DEF IntRect
<1>2. \A q \in F!OpaqueIn(r, b) : q[1] # r.x
  BY ColumnLemma DEF IntRect
<1>3. \A q \in F!OpaqueIn(r, b) :
        s.x <= q[1] /\ q[1] <= s.x + s.w - 1 /\ s.y <= q[2] /\ q[2] <= s.y + s.h - 1
  BY <1>1, <1>2, OpaqueIsVisible DEF IntRect
<1>4. r.x <= s.x /\ s.x + s.w <= r.x + r.w /\ r.y <= s.y /\ s.y + s.h <= r.y + r.h
  BY <1>1 DEF IntRect
<1> QED
  BY <1>1, <1>3, <1>4, CutRect DEF Inside, IntRect

(* nor off the right.                                                      *)
LEMMA CutRight ==
  ASSUME NEW r, IntRect(r), NEW t, IntRect(t), NEW b, r.w >= 1,
         Inside(r, t), ClearColumn(b, r.x + (r.w - 1), r.y, r.h),
         NEW s, s = [x |-> r.x, y |-> r.y, w |-> r.w - 1, h |-> r.h]
  PROVE  F!OpaqueIn(s, b) = F!OpaqueIn(r, b) /\ Inside(s, t)
<1>1. IntRect(s) /\ s.x = r.x /\ s.y = r.y /\ s.w = r.w - 1 /\ s.h = r.h
  BY DEF IntRect
<1>2. \A q \in F!OpaqueIn(r, b) : q[1] # r.x + (r.w - 1)
  BY ColumnLemma DEF IntRect
<1>3. \A q \in F!OpaqueIn(r, b) :
        s.x <= q[1] /\ q[1] <= s.x + s.w - 1 /\ s.y <= q[2] /\ q[2] <= s.y + s.h - 1
  BY <1>1, <1>2, OpaqueIsVisible DEF IntRect
<1>4. r.x <= s.x /\ s.x + s.w <= r.x + r.w /\ r.y <= s.y /\ s.y + s.h <= r.y + r.h
  BY <1>1 DEF IntRect
<1> QED
  BY <1>1, <1>3, <1>4, CutRect DEF Inside, IntRect

(* IsClearH and IsClearV read the file, if the bitmap is open.             *)
LEMMA ReadsThePicture ==
  ASSUME OnlyActive, NEW b \in Slots, Opened(b), NEW x, NEW y, NEW n
  PROVE  /\ F!IsClearH(b, x, y, n) <=> ClearRow(b, x, y, n)
         /\ F!IsClearV(b, x, y, n) <=> ClearColumn(b, x, y, n)
<1>1. fib[b] = F!Picture(file[b])
  BY SamePicture DEF OnlyActive
<1> QED
  BY <1>1 DEF F!IsClearH, F!IsClearV, ClearRow, ClearColumn, Visible

(* What is known of the frame being trimmed                                *)
LEMMA TrimmingFacts ==
  ASSUME PlaceInv, placePc \in Trimming
  PROVE  /\ i \in DOMAIN frame /\ i \in DOMAIN box /\ i <= Len(box)
         /\ frame[i] \in FrameRec /\ box[i] \in BoxRec /\ frame[i].wrap
         /\ frame[i].bitmap = frame[begin].bitmap /\ frame[i].bitmap \in Slots
         /\ IntRect(F!RectOfFrame(i)) /\ IntRect(box[i])
         /\ F!OpaqueIn(F!RectOfFrame(i), frame[i].bitmap) = Seen(i)
         /\ Inside(F!RectOfFrame(i), box[i])
<1>1. /\ Len(frame) \in Nat /\ DOMAIN frame = 1 .. Len(frame)
      /\ Len(box) \in Nat /\ Len(box) <= Len(frame) /\ i \in 1 .. Len(box)
      /\ DOMAIN box = 1 .. Len(box)
      /\ begin \in 1 .. Len(frame) /\ begin <= i /\ begin <= Len(box) /\ frame[i].wrap
      /\ \A f \in begin .. Len(box) : frame[f].bitmap = frame[begin].bitmap
  BY FramesFacts DEF PlaceInv, FramesOK, Control, Wrapping, Trimming
<1>2. frame[i] \in FrameRec /\ box[i] \in BoxRec
  BY <1>1, FramesFacts DEF PlaceInv
<1>3. IntRect(F!RectOfFrame(i)) /\ IntRect(box[i])
  BY <1>2, FrameFields DEF IntRect, F!RectOfFrame, BoxRec
<1>4. Trim
  BY DEF PlaceInv
<1> QED
  BY <1>1, <1>2, <1>3, <1>4, FrameFields DEF Trim

(* A frame of which nothing is left                                        *)
LEMMA FieldsCleared ==
  ASSUME NEW f \in FrameRec, NEW g, g = [f EXCEPT !.x = 0, !.y = 0, !.w = 0, !.h = 0]
  PROVE  /\ g \in FrameRec
         /\ g.mode = f.mode /\ g.bitmap = f.bitmap /\ g.dir = f.dir /\ g.wrap = f.wrap
         /\ g.x = 0 /\ g.y = 0 /\ g.w = 0 /\ g.h = 0
<1>1. g = [mode |-> f.mode, bitmap |-> f.bitmap, dir |-> f.dir, wrap |-> f.wrap,
           x |-> 0, y |-> 0, w |-> 0, h |-> 0, cx |-> f.cx, cy |-> f.cy]
  BY DEF FrameRec
<1>2. /\ f.mode \in F!Modes /\ f.bitmap \in Slots /\ f.dir \in {0, 1} /\ f.wrap \in BOOLEAN
      /\ f.cx \in Int /\ f.cy \in Int
  BY DEF FrameRec
<1>3. g \in FrameRec
  BY <1>1, <1>2 DEF FrameRec
<1> QED
  BY <1>1, <1>3

(* TrimTop: one row less, or on to the bottom, or nothing is left because  *)
(* all rows were clear.                                                    *)
LEMMA TrimTopStep ==
  ASSUME PlaceInv, F!TrimTop
  PROVE  PlaceInv'
<1> DEFINE f == frame[i]
           b == frame[i].bitmap
           r == F!RectOfFrame(i)
           s == [x |-> r.x, y |-> r.y + 1, w |-> r.w, h |-> r.h - 1]
<1>1. /\ placePc = "top" /\ UNCHANGED <<bitmaps, box, begin, mid>>
      /\ (Opened(frame[begin].bitmap) \/ f.w = 0)
  BY SameOpened DEF F!TrimTop, F!Readable, F!Bitmap, F!bitmaps, bitmaps
<1>2. /\ i \in DOMAIN frame /\ i \in DOMAIN box /\ i <= Len(box)
      /\ f \in FrameRec /\ box[i] \in BoxRec /\ f.wrap
      /\ b = frame[begin].bitmap /\ b \in Slots
      /\ IntRect(r) /\ IntRect(box[i])
      /\ F!OpaqueIn(r, b) = Seen(i) /\ Inside(r, box[i])
  BY <1>1, TrimmingFacts DEF Trimming
<1>3. f.x \in Int /\ f.y \in Int /\ f.w \in Nat /\ f.h \in Nat
  BY <1>2, FrameFields
<1>4. r.x = f.x /\ r.y = f.y /\ r.w = f.w /\ r.h = f.h
  BY DEF F!RectOfFrame
<1>5. F!IsClearH(b, f.x, f.y, f.w) <=> ClearRow(b, f.x, f.y, f.w)
  <2>1. CASE Opened(b)
    BY <1>2, <2>1, ReadsThePicture DEF PlaceInv, BitmapsInv
  <2>2. CASE f.w = 0
    BY <2>2 DEF F!IsClearH, ClearRow
  <2> QED
    BY <1>1, <1>2, <2>1, <2>2
<1>6. file' = file /\ box' = box
  BY <1>1 DEF bitmaps
<1>a. PICK i0 : i0 = i
  OBVIOUS
<1>b. SameNames => Seen(i0)' = Seen(i0)
  BY <1>2, <1>6, <1>a DEF Seen, F!OpaqueIn, SameNames
<1>7. CASE /\ ClearRow(b, f.x, f.y, f.w) /\ f.h # 0
           /\ frame' = [frame EXCEPT ![i].y = f.y + 1, ![i].h = f.h - 1]
           /\ placePc' = placePc /\ i' = i
  <2>0. PICK g : g = [f EXCEPT !.y = f.y + 1, !.h = f.h - 1]
    OBVIOUS
  <2>1. f.y + 1 \in Int /\ f.h - 1 \in Nat
    BY <1>3, <1>7
  <2>2. g \in FrameRec
    BY <1>2, <2>0, <2>1 DEF FrameRec
  <2>3. /\ g.mode = f.mode /\ g.bitmap = f.bitmap /\ g.dir = f.dir /\ g.wrap = f.wrap
        /\ g.x = f.x /\ g.y = f.y + 1 /\ g.w = f.w /\ g.h = f.h - 1
    BY <1>2, <2>0 DEF FrameRec
  <2>4. Edited(g)
    BY <1>2, <1>7, <2>0 DEF Edited
  <2>5. frame'[i] = g /\ SameNames
    BY <1>2, <2>2, <2>3, <2>4, EditFrame DEF PlaceInv
  <2>8. F!OpaqueIn(s, b) = Seen(i) /\ Inside(s, box[i])
    <3>1. r.h >= 1 /\ ClearRow(b, r.x, r.y, r.w)
      BY <1>3, <1>4, <1>7
    <3> QED
      BY <1>2, <3>1, CutTop
  <2>9. F!RectOfFrame(i0)' = s
    BY <1>4, <1>a, <2>3, <2>5 DEF F!RectOfFrame
  <2>10. Trim'
    <3>2. frame'[i0].bitmap = b
      BY <1>a, <2>3, <2>5
    <3>3. F!OpaqueIn(F!RectOfFrame(i0), frame[i0].bitmap)' = Seen(i0)'
      BY <1>6, <1>a, <1>b, <2>5, <2>8, <2>9, <3>2 DEF F!OpaqueIn
    <3>4. Inside(F!RectOfFrame(i0), box[i0])'
      BY <1>6, <1>a, <2>8, <2>9 DEF Inside
    <3>5. i' = i0 /\ placePc' = "top"
      BY <1>1, <1>7, <1>a
    <3> QED
      BY <3>3, <3>4, <3>5 DEF Trim
  <2> QED
    BY <1>1, <1>7, <2>2, <2>3, <2>4, <2>10, StillTrimming DEF Trimming
<1>8. CASE /\ f.h = 0 /\ i' = i + 1 /\ placePc' = "wrap"
           /\ frame' = [frame EXCEPT ![i].x = 0, ![i].y = 0, ![i].w = 0, ![i].h = 0]
  <2>0. PICK g : g = [f EXCEPT !.x = 0, !.y = 0, !.w = 0, !.h = 0]
    OBVIOUS
  <2>2. g \in FrameRec
    BY <1>2, <2>0, FieldsCleared
  <2>3. /\ g.mode = f.mode /\ g.bitmap = f.bitmap /\ g.dir = f.dir /\ g.wrap = f.wrap
        /\ g.x = 0 /\ g.y = 0 /\ g.w = 0 /\ g.h = 0
    BY <1>2, <2>0, FieldsCleared
  <2>4. Edited(g)
    BY <1>2, <1>8, <2>0 DEF Edited
  <2>5. frame'[i] = g /\ SameNames
    BY <1>2, <2>2, <2>3, <2>4, EditFrame DEF PlaceInv
  <2>6. Seen(i) = {}
    <3>1. ASSUME NEW q \in F!OpaqueIn(r, b) PROVE FALSE
      <4>1. q[2] \in Int /\ r.y <= q[2] /\ q[2] <= r.y + r.h - 1
        BY <1>2, OpaqueIsVisible
      <4> QED
        BY <1>3, <1>4, <1>8, <4>1
    <3> QED
      BY <1>2, <3>1
  <2>7. F!RectOfFrame(i0)' = [x |-> 0, y |-> 0, w |-> 0, h |-> 0]
    BY <1>a, <2>3, <2>5 DEF F!RectOfFrame
  <2>8. Finished(i0)'
    BY <1>2, <1>a, <1>b, <2>3, <2>5, <2>6, <2>7 DEF Finished, Tight
  <2> QED
    BY <1>1, <1>2, <1>8, <1>a, <2>2, <2>3, <2>4, <2>8, NextToWrap DEF Wrapping
<1>9. CASE /\ ~ClearRow(b, f.x, f.y, f.w) /\ f.h # 0 /\ i' = i /\ placePc' = "bottom"
           /\ frame' = frame
  <2>1. Edited(f)
    BY <1>2, <1>9 DEF Edited, FrameRec, PlaceInv, FramesOK
  <2>2. \E p \in Seen(i) : p[2] = f.y
    BY <1>2, <1>3, <1>4, <1>9, RowLemma, SMTT(60) DEF IntRect
  <2>3. Opened(b)
    <3>1. f.w # 0
      BY <1>9 DEF ClearRow
    <3> QED
      BY <1>1, <1>2, <3>1
  <2>4. Seen(i0)' = Seen(i0) /\ F!RectOfFrame(i0)' = r
    BY <1>6, <1>9, <1>a, FrameSame DEF F!RectOfFrame
  <2>5. Opened(frame[begin].bitmap)'
    BY <1>1, <1>2, <1>9, <2>3 DEF Opened, bitmaps
  <2>6. Trim'
    <3>1. i' = i0 /\ placePc' = "bottom" /\ frame'[i0] = f
      BY <1>9, <1>a
    <3>2. F!OpaqueIn(F!RectOfFrame(i0), frame[i0].bitmap)' = Seen(i0)'
      BY <1>2, <1>6, <1>a, <2>4, <3>1 DEF F!OpaqueIn
    <3>3. Inside(F!RectOfFrame(i0), box[i0])'
      BY <1>2, <1>6, <1>a, <2>4 DEF Inside
    <3>4. (\E p \in Seen(i0) : p[2] = frame[i0].y)'
      BY <1>a, <2>2, <2>4, <3>1
    <3> QED
      BY <2>5, <3>1, <3>2, <3>3, <3>4 DEF Trim
  <2> QED
    BY <1>1, <1>2, <1>9, <2>1, <2>6, StillTrimming DEF Trimming
<1> QED
  BY <1>2, <1>5, <1>7, <1>8, <1>9 DEF F!TrimTop, F!Bitmap

(* The other three loops                                                   *)
Later3 == {"bottom", "left", "right"}

(* One row or column less                                                  *)
LEMMA TrimCut ==
  ASSUME PlaceInv, placePc \in Later3, placePc' = placePc,
         NEW g \in FrameRec, Edited(g),
         g.mode = frame[i].mode, g.bitmap = frame[i].bitmap,
         g.dir = frame[i].dir, g.wrap = frame[i].wrap,
         UNCHANGED <<bitmaps, box, begin, i, mid>>,
         NEW s, s = [x |-> g.x, y |-> g.y, w |-> g.w, h |-> g.h],
         F!OpaqueIn(s, frame[i].bitmap) = Seen(i), Inside(s, box[i]),
         g.y = frame[i].y, placePc # "bottom" => g.h = frame[i].h,
         placePc = "right" => g.x = frame[i].x
  PROVE  PlaceInv'
<1>1. /\ i \in DOMAIN frame /\ frame[i].bitmap = frame[begin].bitmap
  BY TrimmingFacts DEF Later3, Trimming
<1>2. frame'[i] = g /\ SameNames /\ SameOthers
  BY <1>1, EditFrame DEF PlaceInv
<1>3. PICK i0 : i0 = i
  OBVIOUS
<1>4. /\ i' = i0 /\ box' = box /\ begin' = begin
      /\ file' = file /\ fib' = fib
  BY <1>3 DEF bitmaps
<1>5. Seen(i0)' = Seen(i0)
  BY <1>1, <1>2, <1>3, <1>4 DEF Seen, F!OpaqueIn, SameNames
<1>6. F!RectOfFrame(i0)' = s
  BY <1>2, <1>3 DEF F!RectOfFrame
<1>7. F!OpaqueIn(F!RectOfFrame(i0), frame[i0].bitmap)' = Seen(i0)'
  <2>1. frame'[i0].bitmap = frame[i].bitmap
    BY <1>2, <1>3
  <2>2. F!OpaqueIn(s, frame'[i0].bitmap) = Seen(i0)
    BY <1>3, <2>1
  <2> QED
    BY <1>4, <1>5, <1>6, <2>2 DEF F!OpaqueIn
<1>8. Inside(F!RectOfFrame(i0), box[i0])'
  BY <1>3, <1>4, <1>6 DEF Inside
<1>9. Opened(frame[begin].bitmap)'
  <2>1. Opened(frame[begin].bitmap)
    BY DEF PlaceInv, Trim, Later3
  <2>2. frame'[begin'].bitmap = frame[begin].bitmap
    BY <1>1, <1>4, FramesFacts, <1>2, TrimmingFacts DEF SameNames, PlaceInv, FramesOK, Control, Later3, Trimming, Wrapping
  <2> QED
    BY <1>4, <2>1, <2>2 DEF Opened
<1>10. (\E p \in Seen(i0) : p[2] = frame[i0].y)'
  <2>1. \E p \in Seen(i) : p[2] = frame[i].y
    BY DEF PlaceInv, Trim, Later3
  <2> QED
    BY <1>2, <1>3, <1>5, <2>1
<1>11. placePc \in {"left", "right"} => (\E p \in Seen(i0) : p[2] = frame[i0].y + frame[i0].h - 1)'
  <2>1. placePc \in {"left", "right"} => \E p \in Seen(i) : p[2] = frame[i].y + frame[i].h - 1
    BY DEF PlaceInv, Trim
  <2>2. placePc \in {"left", "right"} => g.h = frame[i].h
    OBVIOUS
  <2> QED
    BY <1>2, <1>3, <1>5, <2>1, <2>2
<1>12. placePc = "right" => (\E p \in Seen(i0) : p[1] = frame[i0].x)'
  <2>1. placePc = "right" => \E p \in Seen(i) : p[1] = frame[i].x
    BY DEF PlaceInv, Trim
  <2> QED
    BY <1>2, <1>3, <1>5, <2>1
<1>13. Trim'
  BY <1>4, <1>7, <1>8, <1>9, <1>10, <1>11, <1>12 DEF Trim
<1> QED
  BY <1>13, StillTrimming DEF Later3, Trimming

(* On to the next side                                                     *)
LEMMA TrimNext ==
  ASSUME PlaceInv, placePc \in Later3, placePc' \in {"left", "right"}, frame' = frame,
         UNCHANGED <<bitmaps, box, begin, i, mid>>,
         \E p \in Seen(i) : p[2] = frame[i].y + frame[i].h - 1,
         placePc' = "right" => \E p \in Seen(i) : p[1] = frame[i].x
  PROVE  PlaceInv'
<1>1. /\ i \in DOMAIN frame /\ frame[i] \in FrameRec
      /\ F!OpaqueIn(F!RectOfFrame(i), frame[i].bitmap) = Seen(i)
      /\ Inside(F!RectOfFrame(i), box[i])
  BY TrimmingFacts DEF Later3, Trimming
<1>2. Edited(frame[i])
  BY <1>1 DEF Edited, PlaceInv, FramesOK
<1>3. PICK i0 : i0 = i
  OBVIOUS
<1>4. /\ i' = i0 /\ box' = box /\ begin' = begin
      /\ file' = file /\ fib' = fib
  BY <1>3 DEF bitmaps
<1>5. Seen(i0)' = Seen(i0) /\ F!RectOfFrame(i0)' = F!RectOfFrame(i0)
  BY <1>4, FrameSame
<1>6. F!OpaqueIn(F!RectOfFrame(i0), frame[i0].bitmap)' = Seen(i0)'
  BY <1>1, <1>3, <1>4, <1>5 DEF F!OpaqueIn
<1>7. Inside(F!RectOfFrame(i0), box[i0])'
  BY <1>1, <1>3, <1>4, <1>5 DEF Inside
<1>8. Opened(frame[begin].bitmap)'
  BY <1>4 DEF PlaceInv, Trim, Later3, Opened
<1>9. (\E p \in Seen(i0) : p[2] = frame[i0].y)'
  <2>1. \E p \in Seen(i) : p[2] = frame[i].y
    BY DEF PlaceInv, Trim, Later3
  <2> QED
    BY <1>3, <1>5, <2>1
<1>10. (\E p \in Seen(i0) : p[2] = frame[i0].y + frame[i0].h - 1)'
  BY <1>3, <1>5
<1>11. placePc' = "right" => (\E p \in Seen(i0) : p[1] = frame[i0].x)'
  BY <1>3, <1>5
<1>12. Trim'
  BY <1>4, <1>6, <1>7, <1>8, <1>9, <1>10, <1>11 DEF Trim
<1> QED
  BY <1>1, <1>2, <1>12, StillTrimming DEF Later3, Trimming

(* In these loops the bitmap is open and a pixel is visible.               *)
LEMMA TrimFacts ==
  ASSUME PlaceInv, placePc \in Later3
  PROVE  /\ i \in DOMAIN frame /\ i \in DOMAIN box /\ i <= Len(box)
         /\ frame[i] \in FrameRec /\ box[i] \in BoxRec /\ frame[i].wrap
         /\ frame[i].bitmap = frame[begin].bitmap /\ frame[i].bitmap \in Slots
         /\ IntRect(F!RectOfFrame(i)) /\ IntRect(box[i])
         /\ F!OpaqueIn(F!RectOfFrame(i), frame[i].bitmap) = Seen(i)
         /\ Inside(F!RectOfFrame(i), box[i])
         /\ frame[i].x \in Int /\ frame[i].y \in Int
         /\ frame[i].w \in Nat \ {0} /\ frame[i].h \in Nat \ {0}
         /\ Opened(frame[i].bitmap)
         /\ \A x, y, n : /\ F!IsClearH(frame[begin].bitmap, x, y, n) <=> ClearRow(frame[i].bitmap, x, y, n)
                         /\ F!IsClearV(frame[begin].bitmap, x, y, n) <=> ClearColumn(frame[i].bitmap, x, y, n)
<1>1. /\ i \in DOMAIN frame /\ i \in DOMAIN box /\ i <= Len(box)
      /\ frame[i] \in FrameRec /\ box[i] \in BoxRec /\ frame[i].wrap
      /\ frame[i].bitmap = frame[begin].bitmap /\ frame[i].bitmap \in Slots
      /\ IntRect(F!RectOfFrame(i)) /\ IntRect(box[i])
      /\ F!OpaqueIn(F!RectOfFrame(i), frame[i].bitmap) = Seen(i)
      /\ Inside(F!RectOfFrame(i), box[i])
  BY TrimmingFacts DEF Later3, Trimming
<1>2. frame[i].x \in Int /\ frame[i].y \in Int /\ frame[i].w \in Nat /\ frame[i].h \in Nat
  BY <1>1, FrameFields
<1>3. Opened(frame[begin].bitmap) /\ \E p \in Seen(i) : p[2] = frame[i].y
  BY DEF PlaceInv, Trim, Later3
<1>4. frame[i].w # 0 /\ frame[i].h # 0
  <2>1. PICK p \in F!OpaqueIn(F!RectOfFrame(i), frame[i].bitmap) : TRUE
    BY <1>1, <1>3
  <2>2. /\ p[1] \in Int /\ p[2] \in Int
        /\ frame[i].x <= p[1] /\ p[1] <= frame[i].x + frame[i].w - 1
        /\ frame[i].y <= p[2] /\ p[2] <= frame[i].y + frame[i].h - 1
    BY <1>1, <2>1, OpaqueIsVisible DEF F!RectOfFrame
  <2> QED
    BY <1>2, <2>2
<1>5. \A x, y, n : /\ F!IsClearH(frame[begin].bitmap, x, y, n) <=> ClearRow(frame[i].bitmap, x, y, n)
                   /\ F!IsClearV(frame[begin].bitmap, x, y, n) <=> ClearColumn(frame[i].bitmap, x, y, n)
  BY <1>1, <1>3, ReadsThePicture DEF PlaceInv, BitmapsInv
<1> QED
  BY <1>1, <1>2, <1>3, <1>4, <1>5

(* TrimBottom                                                              *)
LEMMA TrimBottomStep ==
  ASSUME PlaceInv, F!TrimBottom
  PROVE  PlaceInv'
<1> DEFINE f == frame[i]
           b == frame[i].bitmap
           r == F!RectOfFrame(i)
           clear == ClearRow(b, f.x, f.y + (f.h - 1), f.w)
<1>1. placePc = "bottom" /\ UNCHANGED <<bitmaps, box, begin, i, mid>>
  BY DEF F!TrimBottom, F!bitmaps, bitmaps
<1>2. /\ i \in DOMAIN frame /\ f \in FrameRec /\ b = frame[begin].bitmap
      /\ IntRect(r) /\ IntRect(box[i]) /\ F!OpaqueIn(r, b) = Seen(i) /\ Inside(r, box[i])
      /\ f.x \in Int /\ f.y \in Int /\ f.w \in Nat \ {0} /\ f.h \in Nat \ {0}
      /\ \A x, y, n : F!IsClearH(frame[begin].bitmap, x, y, n) <=> ClearRow(b, x, y, n)
  BY <1>1, TrimFacts DEF Later3
<1>3. r.x = f.x /\ r.y = f.y /\ r.w = f.w /\ r.h = f.h
  BY DEF F!RectOfFrame
<1>4. CASE /\ clear
           /\ frame' = [frame EXCEPT ![i].h = f.h - 1] /\ placePc' = placePc
  <2>1. PICK g : g = [f EXCEPT !.h = f.h - 1]
    OBVIOUS
  <2>2. f.h - 1 \in Nat
    BY <1>2
  <2>3. /\ g \in FrameRec
        /\ g.mode = f.mode /\ g.bitmap = f.bitmap /\ g.dir = f.dir /\ g.wrap = f.wrap
        /\ g.x = f.x /\ g.y = f.y /\ g.w = f.w /\ g.h = f.h - 1
    BY <1>2, <2>1, <2>2 DEF FrameRec
  <2>4. Edited(g)
    BY <1>2, <1>4, <2>1 DEF Edited
  <2>5. PICK s : s = [x |-> g.x, y |-> g.y, w |-> g.w, h |-> g.h]
    OBVIOUS
  <2>6. s = [x |-> r.x, y |-> r.y, w |-> r.w, h |-> r.h - 1]
    BY <1>3, <2>3, <2>5
  <2>7. r.h >= 1 /\ ClearRow(b, r.x, r.y + (r.h - 1), r.w)
    BY <1>2, <1>3, <1>4
  <2>8. F!OpaqueIn(s, b) = Seen(i) /\ Inside(s, box[i])
    BY <1>2, <2>6, <2>7, CutBottom
  <2> QED
    BY <1>1, <1>4, <2>3, <2>4, <2>5, <2>8, TrimCut DEF Later3
<1>5. CASE ~clear /\ frame' = frame /\ placePc' = "left"
  <2>1. \E p \in Seen(i) : p[2] = f.y + f.h - 1
    <3>1. PICK y \in Int : y = f.y + (f.h - 1)
      BY <1>2
    <3>2. r.y <= y /\ y <= r.y + r.h - 1 /\ ~ClearRow(b, r.x, y, r.w) /\ y = f.y + f.h - 1
      BY <1>2, <1>3, <1>5, <3>1
    <3>3. \E p \in F!OpaqueIn(r, b) : p[2] = y
      BY <1>2, <3>2, RowLemma
    <3> QED
      BY <1>2, <3>2, <3>3
  <2> QED
    BY <1>1, <1>5, <2>1, TrimNext DEF Later3
<1> QED
  BY <1>1, <1>2, <1>4, <1>5 DEF F!TrimBottom, F!Bitmap

(* TrimLeft                                                                *)
LEMMA TrimLeftStep ==
  ASSUME PlaceInv, F!TrimLeft
  PROVE  PlaceInv'
<1> DEFINE f == frame[i]
           b == frame[i].bitmap
           r == F!RectOfFrame(i)
           clear == ClearColumn(b, f.x, f.y, f.h)
<1>1. placePc = "left" /\ UNCHANGED <<bitmaps, box, begin, i, mid>>
  BY DEF F!TrimLeft, F!bitmaps, bitmaps
<1>2. /\ i \in DOMAIN frame /\ f \in FrameRec /\ b = frame[begin].bitmap
      /\ IntRect(r) /\ IntRect(box[i]) /\ F!OpaqueIn(r, b) = Seen(i) /\ Inside(r, box[i])
      /\ f.x \in Int /\ f.y \in Int /\ f.w \in Nat \ {0} /\ f.h \in Nat \ {0}
      /\ \A x, y, n : F!IsClearV(frame[begin].bitmap, x, y, n) <=> ClearColumn(b, x, y, n)
  BY <1>1, TrimFacts DEF Later3
<1>3. r.x = f.x /\ r.y = f.y /\ r.w = f.w /\ r.h = f.h
  BY DEF F!RectOfFrame
<1>4. CASE /\ clear
           /\ frame' = [frame EXCEPT ![i].x = f.x + 1, ![i].w = f.w - 1] /\ placePc' = placePc
  <2>1. PICK g : g = [f EXCEPT !.x = f.x + 1, !.w = f.w - 1]
    OBVIOUS
  <2>2. f.w - 1 \in Nat /\ f.x + 1 \in Int
    BY <1>2
  <2>3. /\ g \in FrameRec
        /\ g.mode = f.mode /\ g.bitmap = f.bitmap /\ g.dir = f.dir /\ g.wrap = f.wrap
        /\ g.x = f.x + 1 /\ g.y = f.y /\ g.w = f.w - 1 /\ g.h = f.h
    BY <1>2, <2>1, <2>2 DEF FrameRec
  <2>4. Edited(g)
    BY <1>2, <1>4, <2>1 DEF Edited
  <2>5. PICK s : s = [x |-> g.x, y |-> g.y, w |-> g.w, h |-> g.h]
    OBVIOUS
  <2>6. s = [x |-> r.x + 1, y |-> r.y, w |-> r.w - 1, h |-> r.h]
    BY <1>3, <2>3, <2>5
  <2>7. r.w >= 1 /\ ClearColumn(b, r.x, r.y, r.h)
    BY <1>2, <1>3, <1>4
  <2>8. F!OpaqueIn(s, b) = Seen(i) /\ Inside(s, box[i])
    BY <1>2, <2>6, <2>7, CutLeft
  <2> QED
    BY <1>1, <1>4, <2>3, <2>4, <2>5, <2>8, TrimCut DEF Later3
<1>5. CASE ~clear /\ frame' = frame /\ placePc' = "right"
  <2>1. \E p \in Seen(i) : p[1] = f.x
    <3>1. PICK x \in Int : x = f.x
      BY <1>2
    <3>2. r.x <= x /\ x <= r.x + r.w - 1 /\ ~ClearColumn(b, x, r.y, r.h)
      BY <1>2, <1>3, <1>5, <3>1
    <3>3. \E p \in F!OpaqueIn(r, b) : p[1] = x
      BY <1>2, <3>2, ColumnLemma
    <3> QED
      BY <1>2, <3>1, <3>3
  <2>2. \E p \in Seen(i) : p[2] = f.y + f.h - 1
    BY <1>1 DEF PlaceInv, Trim
  <2> QED
    BY <1>1, <1>5, <2>1, <2>2, TrimNext DEF Later3
<1> QED
  BY <1>1, <1>2, <1>4, <1>5 DEF F!TrimLeft, F!Bitmap

(* TrimRight: the frame is finished.                                       *)
LEMMA TrimRightStep ==
  ASSUME PlaceInv, F!TrimRight
  PROVE  PlaceInv'
<1> DEFINE f == frame[i]
           b == frame[i].bitmap
           r == F!RectOfFrame(i)
           clear == ClearColumn(b, f.x + (f.w - 1), f.y, f.h)
<1>1. placePc = "right" /\ UNCHANGED <<bitmaps, box, begin, mid>>
  BY DEF F!TrimRight, F!bitmaps, bitmaps
<1>2. /\ i \in DOMAIN frame /\ f \in FrameRec /\ b = frame[begin].bitmap /\ i <= Len(box)
      /\ IntRect(r) /\ IntRect(box[i]) /\ F!OpaqueIn(r, b) = Seen(i) /\ Inside(r, box[i])
      /\ f.x \in Int /\ f.y \in Int /\ f.w \in Nat \ {0} /\ f.h \in Nat \ {0} /\ f.wrap
      /\ \A x, y, n : F!IsClearV(frame[begin].bitmap, x, y, n) <=> ClearColumn(b, x, y, n)
  BY <1>1, TrimFacts DEF Later3
<1>3. r.x = f.x /\ r.y = f.y /\ r.w = f.w /\ r.h = f.h
  BY DEF F!RectOfFrame
<1>4. CASE /\ clear
           /\ frame' = [frame EXCEPT ![i].w = f.w - 1] /\ placePc' = placePc /\ i' = i
  <2>1. PICK g : g = [f EXCEPT !.w = f.w - 1]
    OBVIOUS
  <2>2. f.w - 1 \in Nat
    BY <1>2
  <2>3. /\ g \in FrameRec
        /\ g.mode = f.mode /\ g.bitmap = f.bitmap /\ g.dir = f.dir /\ g.wrap = f.wrap
        /\ g.x = f.x /\ g.y = f.y /\ g.w = f.w - 1 /\ g.h = f.h
    BY <1>2, <2>1, <2>2 DEF FrameRec
  <2>4. Edited(g)
    BY <1>2, <1>4, <2>1 DEF Edited
  <2>5. PICK s : s = [x |-> g.x, y |-> g.y, w |-> g.w, h |-> g.h]
    OBVIOUS
  <2>6. s = [x |-> r.x, y |-> r.y, w |-> r.w - 1, h |-> r.h]
    BY <1>3, <2>3, <2>5
  <2>7. r.w >= 1 /\ ClearColumn(b, r.x + (r.w - 1), r.y, r.h)
    BY <1>2, <1>3, <1>4
  <2>8. F!OpaqueIn(s, b) = Seen(i) /\ Inside(s, box[i])
    BY <1>2, <2>6, <2>7, CutRight
  <2> QED
    BY <1>1, <1>4, <2>3, <2>4, <2>5, <2>8, TrimCut DEF Later3
<1>5. CASE /\ ~clear /\ i' = i + 1 /\ placePc' = "wrap"
           /\ frame' = [frame EXCEPT ![i].cx = mid.x - f.x, ![i].cy = mid.y - f.y]
  <2>0. PICK i0 : i0 = i
    OBVIOUS
  <2>1. PICK g : g = [f EXCEPT !.cx = mid.x - f.x, !.cy = mid.y - f.y]
    OBVIOUS
  <2>2. mid.x - f.x \in Int /\ mid.y - f.y \in Int
    BY <1>2 DEF PlaceInv, FramesOK
  <2>3. /\ g \in FrameRec
        /\ g.mode = f.mode /\ g.bitmap = f.bitmap /\ g.dir = f.dir /\ g.wrap = f.wrap
        /\ g.x = f.x /\ g.y = f.y /\ g.w = f.w /\ g.h = f.h
    BY <1>2, <2>1, <2>2 DEF FrameRec
  <2>4. Edited(g)
    BY <1>2, <1>5, <2>1 DEF Edited
  <2>5. frame'[i] = g /\ SameNames
    BY <1>2, <2>3, <2>4, EditFrame DEF PlaceInv
  <2>6. Seen(i0)' = Seen(i0) /\ box'[i0] = box[i0] /\ file' = file
    BY <1>1, <1>2, <2>0, <2>5 DEF Seen, F!OpaqueIn, SameNames, bitmaps
  <2>7. F!RectOfFrame(i0)' = r
    BY <1>3, <2>0, <2>3, <2>5 DEF F!RectOfFrame
  <2>8. \E p \in Seen(i) : p[1] = r.x + r.w - 1
    <3>1. PICK x \in Int : x = f.x + (f.w - 1)
      BY <1>2
    <3>2. r.x <= x /\ x <= r.x + r.w - 1 /\ ~ClearColumn(b, x, r.y, r.h) /\ x = r.x + r.w - 1
      BY <1>2, <1>3, <1>5, <3>1
    <3>3. \E p \in F!OpaqueIn(r, b) : p[1] = x
      BY <1>2, <3>2, ColumnLemma
    <3> QED
      BY <1>2, <3>2, <3>3
  <2>9. /\ \E p \in Seen(i) : p[2] = r.y
        /\ \E p \in Seen(i) : p[2] = r.y + r.h - 1
        /\ \E p \in Seen(i) : p[1] = r.x
    BY <1>1, <1>3 DEF PlaceInv, Trim
  <2>10. Tight(i0)'
    <3>1. F!OpaqueIn(F!RectOfFrame(i0), frame[i0].bitmap)' = Seen(i0)'
      <4>1. frame'[i0].bitmap = b
        BY <2>0, <2>3, <2>5
      <4> QED
        BY <1>2, <2>0, <2>6, <2>7, <4>1 DEF F!OpaqueIn
    <3>2. Inside(F!RectOfFrame(i0), box[i0])'
      BY <1>2, <2>0, <2>6, <2>7 DEF Inside
    <3>3. /\ \E p \in Seen(i0)' : p[1] = F!RectOfFrame(i0)'.x
          /\ \E p \in Seen(i0)' : p[1] = F!RectOfFrame(i0)'.x + F!RectOfFrame(i0)'.w - 1
          /\ \E p \in Seen(i0)' : p[2] = F!RectOfFrame(i0)'.y
          /\ \E p \in Seen(i0)' : p[2] = F!RectOfFrame(i0)'.y + F!RectOfFrame(i0)'.h - 1
      BY <2>0, <2>6, <2>7, <2>8, <2>9
    <3> QED
      BY <3>1, <3>2, <3>3 DEF Tight
  <2>11. Finished(i0)'
    BY <1>2, <2>0, <2>3, <2>5, <2>10 DEF Finished
  <2> QED
    BY <1>1, <1>2, <1>5, <2>0, <2>3, <2>4, <2>11, NextToWrap DEF Wrapping
<1> QED
  BY <1>1, <1>2, <1>4, <1>5 DEF F!TrimRight, F!Bitmap

(* Frame i gets the box q.                                                 *)
LEMMA PlaceOne ==
  ASSUME PlaceInv, placePc = "place", i <= Len(frame),
         frame[i].bitmap = frame[begin].bitmap,
         NEW q \in BoxRec, SizeOK(q), NEW r \in FrameRec, Edited(r),
         r.mode = frame[i].mode, r.bitmap = frame[i].bitmap,
         r.dir = frame[i].dir, r.wrap = frame[i].wrap,
         r.x = q.x, r.y = q.y, r.w = q.w, r.h = q.h,
         box' = Append(box, q), i' = i + 1,
         UNCHANGED <<bitmaps, begin, mid, placePc>>,
         frame[i].mode # "SEQ" => q.w = frame[i].w /\ q.h = frame[i].h,
         NEW n, n = F!NextBox([dir |-> frame[i].dir, w |-> q.w, h |-> q.h], box[i - 1],
                              metrics[frame[i].bitmap]),
         frame[i].mode = "BOX_N" => n.ok /\ q.x = n.x /\ q.y = n.y
  PROVE  PlaceInv'
<1>1. /\ Len(frame) \in Nat /\ DOMAIN frame = 1 .. Len(frame)
      /\ Len(box) \in Nat /\ DOMAIN box = 1 .. Len(box) /\ Len(box) = i - 1
      /\ i \in 1 .. Len(frame) /\ begin \in 1 .. i /\ i \in DOMAIN frame
      /\ \A f \in begin .. Len(box) : frame[f].bitmap = frame[begin].bitmap
      /\ Settled(frame[begin].bitmap)
      /\ (1 < begin => frame[begin].bitmap # frame[begin - 1].bitmap)
  BY FramesFacts DEF PlaceInv, FramesOK, Control
<1>2. /\ frame' \in Seq(FrameRec) /\ frame'[i] = r /\ SameNames /\ SameOthers
  BY <1>1, EditFrame DEF PlaceInv
<1>3. UNCHANGED <<file, metrics, fib, active>> /\ begin' = begin /\ mid' = mid
      /\ placePc' = "place"
  BY DEF bitmaps
<1>4. /\ box' \in Seq(BoxRec) /\ Len(box') = i /\ DOMAIN box' = 1 .. i
      /\ box'[i] = q /\ \A f \in 1 .. i - 1 : box'[f] = box[f]
  <2>1. box \in Seq(BoxRec)
    BY DEF PlaceInv, FramesOK
  <2>2. /\ box' \in Seq(BoxRec) /\ Len(box') = Len(box) + 1
        /\ box'[Len(box) + 1] = q /\ \A k \in 1 .. Len(box) : box'[k] = box[k]
    BY <2>1, ListExtended
  <2>3. DOMAIN box' = 1 .. Len(box')
    BY <2>2, ListFacts
  <2> QED
    BY <1>1, <2>2, <2>3
<1>5. BitmapsInv'
  BY <1>3 DEF PlaceInv, BitmapsInv, FilesOK, SizesOK, OnlyActive, Opened
<1>6. FramesOK'
  BY <1>1, <1>2, <1>3, <1>4 DEF PlaceInv, FramesOK, SameNames
<1>7. Chain'
  BY <1>2, ChainSame DEF PlaceInv
<1>8. \A f \in DOMAIN frame : f # i => Given(f)' = Given(f)
  BY <1>1, <1>2, <1>4 DEF Given, F!RectOfFrame, SameOthers
<1>9. \A f \in DOMAIN frame : frame[f].mode # "SEQ" =>
        (Given(f).w)' = Given(f).w /\ (Given(f).h)' = Given(f).h
  <2>1. ASSUME NEW f \in DOMAIN frame, frame[f].mode # "SEQ"
        PROVE  (Given(f).w)' = Given(f).w /\ (Given(f).h)' = Given(f).h
    <3>1. CASE f = i
      <4>1. Given(f).w = frame[i].w /\ Given(f).h = frame[i].h
        BY <1>1, <3>1 DEF Given, F!RectOfFrame
      <4>2. Given(f)' = q
        BY <1>1, <1>4, <3>1 DEF Given
      <4> QED
        BY <2>1, <3>1, <4>1, <4>2
    <3> QED
      BY <1>8, <3>1
  <2> QED
    BY <2>1
<1>10. GivenSizes'
  <2>1. SUFFICES ASSUME NEW f \in DOMAIN frame
                 PROVE  /\ (frame[f].mode # "SEQ" => Given(f).w # 0 /\ Given(f).h # 0)'
                        /\ (frame[f].mode = "BOX_N" =>
                              Given(f).w = Given(f - 1).w /\ Given(f).h = Given(f - 1).h)'
    BY <1>2 DEF GivenSizes, SameNames
  <2>2. frame'[f].mode = frame[f].mode
    BY <1>2 DEF SameNames
  <2>3. (frame[f].mode # "SEQ" => Given(f).w # 0 /\ Given(f).h # 0)'
    BY <1>9, <2>2 DEF PlaceInv, GivenSizes
  <2>4. ASSUME frame[f].mode = "BOX_N"
        PROVE  (Given(f).w)' = (Given(f - 1).w)' /\ (Given(f).h)' = (Given(f - 1).h)'
    <3>1. f - 1 \in DOMAIN frame /\ frame[f - 1].mode # "SEQ"
      BY <1>1, <2>4 DEF PlaceInv, Chain
    <3>2. Given(f).w = Given(f - 1).w /\ Given(f).h = Given(f - 1).h
      BY <2>4 DEF PlaceInv, GivenSizes
    <3>3. PICK g \in DOMAIN frame : g = f - 1
      BY <3>1
    <3>4. (Given(g).w)' = Given(g).w /\ (Given(g).h)' = Given(g).h
      BY <1>9, <3>1, <3>3
    <3>5. (Given(f).w)' = Given(f).w /\ (Given(f).h)' = Given(f).h
      BY <1>9, <2>4
    <3> QED
      BY <3>2, <3>3, <3>4, <3>5
  <2> QED
    BY <2>2, <2>3, <2>4
<1>11. Made'
  <2>1. SUFFICES ASSUME NEW f \in 1 .. i
                 PROVE  /\ Settled(frame[f].bitmap)'
                        /\ SizeOK(box[f])'
                        /\ (frame[f].mode = "BOX_N" =>
                             NextOf(f).ok /\ box[f].x = NextOf(f).x /\ box[f].y = NextOf(f).y)'
    BY <1>4 DEF Made
  <2>2. /\ f \in DOMAIN frame
        /\ frame'[f].bitmap = frame[f].bitmap /\ frame'[f].dir = frame[f].dir
        /\ frame'[f].mode = frame[f].mode
    BY <1>1, <1>2 DEF SameNames
  <2>3. Settled(frame[f].bitmap)
    BY <1>1 DEF PlaceInv, Made
  <2>4. Settled(frame[f].bitmap)'
    BY <1>3, <2>2, <2>3 DEF Settled
  <2>5. SizeOK(box[f])'
    BY <1>1, <1>4 DEF PlaceInv, Made, SizeOK
  <2>6. ASSUME frame[f].mode = "BOX_N"
        PROVE  (NextOf(f).ok /\ box[f].x = NextOf(f).x /\ box[f].y = NextOf(f).y)'
    <3>0. f > 1
      BY <2>2, <2>6 DEF PlaceInv, Chain
    <3>1. f > 1 /\ f - 1 \in 1 .. i - 1
      BY <1>1, <3>0
    <3>2. box'[f - 1] = box[f - 1]
      BY <1>4, <3>1
    <3>3. CASE f = i
      <4>1. NextOf(f)' = n
        <5>1. box'[f] = q /\ metrics' = metrics /\ frame'[f].dir = frame[i].dir
              /\ frame'[f].bitmap = frame[i].bitmap /\ box'[f - 1] = box[i - 1]
          BY <1>3, <1>4, <2>2, <3>2, <3>3
        <5> QED
          BY <5>1 DEF NextOf, F!NextBox
      <4> QED
        BY <1>4, <2>6, <3>3, <4>1
    <3>4. CASE f # i
      <4>1. box'[f] = box[f] /\ f \in DOMAIN box
        BY <1>1, <1>4, <3>4
      <4>2. NextOf(f)' = NextOf(f)
        BY <1>3, <2>2, <3>2, <4>1 DEF NextOf, F!NextBox
      <4> QED
        BY <2>6, <4>1, <4>2 DEF PlaceInv, Made
    <3> QED
      BY <3>3, <3>4
  <2> QED
    BY <2>2, <2>4, <2>5, <2>6
<1>12. Control'
  <2>1. frame'[begin].bitmap = frame[begin].bitmap
    BY <1>1, <1>2 DEF SameNames
  <2>2. Settled(frame[begin].bitmap)'
    BY <1>1, <1>3, <2>1 DEF Settled
  <2>3. \A f \in begin .. i : frame'[f].bitmap = frame[begin].bitmap
    BY <1>1, <1>2 DEF SameNames
  <2>4. 1 < begin => frame'[begin - 1].bitmap = frame[begin - 1].bitmap
    BY <1>1, <1>2 DEF SameNames
  <2>5. Len(frame') = Len(frame)
    BY <1>2 DEF SameNames
  <2> QED
    BY <1>1, <1>3, <1>4, <2>1, <2>2, <2>3, <2>4, <2>5 DEF Control, Wrapping, Trimming
<1>13. AllFinished'
  <2>1. /\ \A f \in 1 .. begin - 1 : Finished(f)
        /\ \A f \in begin .. i - 1 : Kept(f)
    BY <1>1 DEF PlaceInv, AllFinished, Ready, Trimming
  <2>2. ASSUME NEW f \in 1 .. i - 1
        PROVE  (Kept(f)' <=> Kept(f)) /\ (Finished(f)' <=> Finished(f))
    <3>1. file' = file /\ box'[f] = box[f] /\ frame'[f] = frame[f]
      BY <1>1, <1>2, <1>3, <1>4 DEF SameOthers
    <3> QED
      BY <3>1, FrameSame
  <2>3. PICK i0 : i0 = i
    OBVIOUS
  <2>4. Kept(i0)'
    BY <1>2, <1>4, <2>3 DEF Kept, F!RectOfFrame, BoxRec
  <2>5. Ready' = begin - 1
    BY <1>3 DEF Ready
  <2>6. \A f \in begin .. i0 : Kept(f)'
    BY <1>1, <2>1, <2>2, <2>3, <2>4
  <2>7. \A f \in 1 .. begin - 1 : Finished(f)'
    BY <1>1, <2>1, <2>2
  <2> QED
    BY <1>1, <1>3, <1>4, <2>3, <2>5, <2>6, <2>7 DEF AllFinished
<1>14. PlacePcOK' /\ Trim'
  BY <1>3 DEF PlacePcOK, Trim, Trimming
<1> QED
  BY <1>5, <1>6, <1>7, <1>10, <1>11, <1>12, <1>13, <1>14 DEF PlaceInv

(* Too many frames on a bitmap                                             *)
LEMMA PlaceFails ==
  ASSUME PlaceInv, placePc' = "failed", UNCHANGED <<bitmaps, frame, box, begin, i, mid>>
  PROVE  PlaceInv'
<1>1. BitmapsInv' /\ FramesOK' /\ Chain' /\ GivenSizes' /\ Made'
  BY AfterNothing DEF PlaceInv, FramesOK
<1>2. PlacePcOK' /\ Control' /\ AllFinished' /\ Trim'
  BY DEF PlacePcOK, Control, Wrapping, Trimming, AllFinished, Trim
<1> QED
  BY <1>1, <1>2 DEF PlaceInv

(* The same for the operator Place                                         *)
LEMMA PlaceAt ==
  ASSUME PlaceInv, placePc = "place", i <= Len(frame),
         frame[i].bitmap = frame[begin].bitmap,
         NEW x \in Int, NEW y \in Int, NEW w \in Nat, NEW h \in Nat, w # 0 => h # 0,
         F!Place(i, x, y, w, h), UNCHANGED <<bitmaps, begin, mid>>,
         frame[i].mode # "SEQ" => w = frame[i].w /\ h = frame[i].h,
         NEW n, n = F!NextBox([dir |-> frame[i].dir, w |-> w, h |-> h], box[i - 1],
                              metrics[frame[i].bitmap]),
         frame[i].mode = "BOX_N" => n.ok /\ x = n.x /\ y = n.y
  PROVE  PlaceInv'
<1>1. /\ frame' = [frame EXCEPT ![i].x = x, ![i].y = y, ![i].w = w, ![i].h = h]
      /\ box' = Append(box, [x |-> x, y |-> y, w |-> w, h |-> h])
      /\ i' = i + 1 /\ placePc' = placePc
  BY DEF F!Place
<1>2. i \in DOMAIN frame /\ frame[i] \in FrameRec
  BY FramesFacts DEF PlaceInv, FramesOK
<1>3. PICK q : q = [x |-> x, y |-> y, w |-> w, h |-> h]
  OBVIOUS
<1>4. q \in BoxRec /\ SizeOK(q) /\ q.x = x /\ q.y = y /\ q.w = w /\ q.h = h
  BY <1>3 DEF BoxRec, SizeOK
<1>5. PICK r : r = [frame[i] EXCEPT !.x = x, !.y = y, !.w = w, !.h = h]
  OBVIOUS
<1>6. /\ r \in FrameRec /\ r.mode = frame[i].mode /\ r.bitmap = frame[i].bitmap
      /\ r.dir = frame[i].dir /\ r.wrap = frame[i].wrap
      /\ r.x = x /\ r.y = y /\ r.w = w /\ r.h = h
  BY <1>2, <1>5 DEF FrameRec
<1>7. Edited(r)
  BY <1>1, <1>2, <1>5 DEF Edited
<1>8. n = F!NextBox([dir |-> frame[i].dir, w |-> q.w, h |-> q.h], box[i - 1],
                    metrics[frame[i].bitmap])
  BY <1>4
<1>9. /\ (frame[i].mode # "SEQ" => q.w = frame[i].w /\ q.h = frame[i].h)
      /\ (frame[i].mode = "BOX_N" => n.ok /\ q.x = n.x /\ q.y = n.y)
      /\ r.x = q.x /\ r.y = q.y /\ r.w = q.w /\ r.h = q.h /\ box' = Append(box, q)
  BY <1>1, <1>3, <1>4, <1>6
<1>10. UNCHANGED <<bitmaps, begin, mid, placePc>>
  BY <1>1
<1> QED
  BY <1>1, <1>4, <1>6, <1>7, <1>8, <1>9, <1>10, PlaceOne

(* PlaceBox: the frame before a box of a run is in the same group, so it   *)
(* has not been trimmed yet.                                               *)
LEMMA PlaceBoxStep ==
  ASSUME PlaceInv, F!PlaceBox
  PROVE  PlaceInv'
<1> DEFINE m == metrics[frame[begin].bitmap]
<1>1. /\ placePc = "place" /\ i <= Len(frame) /\ frame[i].bitmap = frame[begin].bitmap
      /\ UNCHANGED <<bitmaps, begin, mid>>
  BY DEF F!PlaceBox, F!InGroup, F!Count, F!Bitmap, F!bitmaps, bitmaps
<1>2. /\ Len(frame) \in Nat /\ DOMAIN frame = 1 .. Len(frame) /\ frame[i] \in FrameRec
      /\ Len(box) \in Nat /\ DOMAIN box = 1 .. Len(box) /\ Len(box) = i - 1
      /\ i \in DOMAIN frame /\ begin \in 1 .. i
      /\ \A f \in begin .. Len(box) : Kept(f)
      /\ (1 < begin => frame[begin].bitmap # frame[begin - 1].bitmap)
  BY <1>1, FramesFacts DEF PlaceInv, FramesOK, Control, AllFinished, Ready, Trimming
<1>3. /\ frame[i].x \in Int /\ frame[i].y \in Int /\ frame[i].w \in Nat /\ frame[i].h \in Nat
      /\ frame[i].dir \in {0, 1}
  BY <1>2, FrameFields
<1>4. frame[i].mode # "SEQ" => frame[i].w # 0 /\ frame[i].h # 0
  BY <1>2 DEF PlaceInv, GivenSizes, Given, F!RectOfFrame
<1>5. m \in [w : Nat, h : Nat] /\ SizeOK(m)
  <2>1. frame[i].bitmap \in Slots
    BY <1>2, FrameFields
  <2> QED
    BY <1>1, <2>1 DEF PlaceInv, BitmapsInv, SizesOK
<1>6. CASE frame[i].mode = "SEQ" /\ F!Place(i, 0, 0, m.w, m.h)
  <2>1. m.w \in Nat /\ m.h \in Nat /\ (m.w # 0 => m.h # 0)
    BY <1>5
    DEF SizeOK
  <2>2. PICK w, h : w = m.w /\ h = m.h
    OBVIOUS
  <2>3. PICK n : n = F!NextBox([dir |-> frame[i].dir, w |-> w, h |-> h], box[i - 1],
                               metrics[frame[i].bitmap])
    OBVIOUS
  <2>4. /\ w \in Nat /\ h \in Nat /\ (w # 0 => h # 0) /\ F!Place(i, 0, 0, w, h)
        /\ 0 \in Int /\ frame[i].mode # "BOX" /\ frame[i].mode # "BOX_N"
    BY <1>6, <2>1, <2>2
  <2> HIDE DEF m
  <2> QED
    BY <1>1, <1>6, <2>3, <2>4, PlaceAt
<1>7. CASE frame[i].mode = "BOX" /\ F!Place(i, frame[i].x, frame[i].y, frame[i].w, frame[i].h)
  <2>1. PICK n : n = F!NextBox([dir |-> frame[i].dir, w |-> frame[i].w, h |-> frame[i].h],
                               box[i - 1], metrics[frame[i].bitmap])
    OBVIOUS
  <2>2. frame[i].mode # "BOX_N" /\ frame[i].h # 0
    BY <1>4, <1>7
  <2> QED
    BY <1>1, <1>3, <1>7, <2>1, <2>2, PlaceAt, SMTT(60)
<1>8. CASE frame[i].mode = "BOX_N"
           /\ LET n == F!NextBox(frame[i], frame[i - 1], m) IN
                \/ n.ok /\ F!Place(i, n.x, n.y, frame[i].w, frame[i].h)
                \/ ~n.ok /\ placePc' = "failed" /\ UNCHANGED <<frame, box, i>>
  <2>1. /\ i > 1 /\ i - 1 \in DOMAIN frame /\ frame[i - 1].bitmap = frame[i].bitmap
    BY <1>2, <1>8 DEF PlaceInv, Chain
  <2>2. i # begin
    BY <1>1, <1>2, <2>1
  <2>3. Kept(i - 1) /\ box[i - 1] \in BoxRec
    BY <1>2, <2>1, <2>2, FramesFacts DEF PlaceInv
  <2>4. PICK n : n = F!NextBox(frame[i], frame[i - 1], m)
    OBVIOUS
  <2>5. n = F!NextBox([dir |-> frame[i].dir, w |-> frame[i].w, h |-> frame[i].h], box[i - 1],
                      metrics[frame[i].bitmap])
    <3>1. box[i - 1].x = frame[i - 1].x /\ box[i - 1].y = frame[i - 1].y
      BY <2>3 DEF Kept, F!RectOfFrame
    <3>2. metrics[frame[i].bitmap] = m
      BY <1>1
    <3> HIDE DEF m
    <3> QED
      BY <2>4, <3>1, <3>2 DEF F!NextBox
  <2>6. n.x \in Int /\ n.y \in Int
    <3>1. box[i - 1].x \in Int /\ box[i - 1].y \in Int
      BY <2>3 DEF BoxRec
    <3> QED
      BY <1>3, <2>5, <3>1 DEF F!NextBox
  <2>7. CASE n.ok /\ F!Place(i, n.x, n.y, frame[i].w, frame[i].h)
    BY <1>1, <1>3, <1>4, <1>8, <2>5, <2>6, <2>7, PlaceAt
  <2>8. CASE placePc' = "failed" /\ UNCHANGED <<frame, box, i>>
    BY <1>1, <2>8, PlaceFails
  <2> QED
    BY <1>8, <2>4, <2>7, <2>8
<1> QED
  BY <1>1, <1>6, <1>7, <1>8 DEF F!PlaceBox, F!Bitmap

(* Every step of PlaceBoxAndShrinkWrap_All                                 *)
LEMMA WorkStep ==
  ASSUME PlaceInv, F!Work
  PROVE  PlaceInv'
BY OpenGroupStep, PlaceBoxStep, PlacedAllStep, KeepBoxStep, StartWrapStep, ReadNullStep,
   TrimTopStep, TrimBottomStep, TrimLeftStep, TrimRightStep, WrappedAllStep, FinishPlacing
DEF F!Work

(* In a run along rows or columns, q comes after p.                        *)
After(p, q, d) ==
  IF d = 0 THEN (q.y = p.y /\ p.x + p.w <= q.x) \/ p.y + p.h <= q.y
           ELSE (q.x = p.x /\ p.y + p.h <= q.y) \/ p.x + p.w <= q.x

(* Then they have no pixel in common;                                      *)
LEMMA AfterIsApart ==
  ASSUME NEW p, NEW q, NEW d, After(p, q, d)
  PROVE  Disjoint(p, q)
BY DEF After, Disjoint

(* and what comes after q comes after p, if all are equally large.         *)
LEMMA AfterAfter ==
  ASSUME NEW p \in BoxRec, NEW q \in BoxRec, NEW r \in BoxRec, NEW d \in {0, 1},
         q.w = p.w, q.h = p.h, After(p, q, d), After(q, r, d)
  PROVE  After(p, r, d)
<1>1. /\ p.x \in Int /\ p.y \in Int /\ p.w \in Nat /\ p.h \in Nat
      /\ q.x \in Int /\ q.y \in Int /\ r.x \in Int /\ r.y \in Int
  BY DEF BoxRec
<1> QED
  BY <1>1 DEF After

(* NextBox finds a box that comes after the one before it and is on the    *)
(* bitmap if that one is.                                                  *)
LEMMA NextIsAfter ==
  ASSUME NEW p \in BoxRec, NEW q \in BoxRec, NEW d \in {0, 1}, q.w = p.w, q.h = p.h,
         NEW m, m.w \in Nat, m.h \in Nat,
         NEW z, z.dir = d, z.w = q.w, z.h = q.h,
         NEW n, n = F!NextBox(z, p, m),
         n.ok, q.x = n.x, q.y = n.y,
         0 <= p.x, p.x + p.w <= m.w, 0 <= p.y, p.y + p.h <= m.h
  PROVE  /\ After(p, q, d)
         /\ 0 <= q.x /\ q.x + q.w <= m.w /\ 0 <= q.y /\ q.y + q.h <= m.h
<1>1. /\ p.x \in Int /\ p.y \in Int /\ p.w \in Nat /\ p.h \in Nat
      /\ q.x \in Int /\ q.y \in Int
  BY DEF BoxRec
<1>2. CASE d = 0 /\ p.x + p.w + p.w <= m.w
  <2>1. q.x = p.x + p.w /\ q.y = p.y
    BY <1>2 DEF F!NextBox
  <2> QED
    BY <1>1, <1>2, <2>1 DEF After
<1>3. CASE d = 0 /\ ~(p.x + p.w + p.w <= m.w)
  <2>1. q.x = 0 /\ q.y = p.y + p.h /\ p.y + p.h + p.h <= m.h
    BY <1>3 DEF F!NextBox
  <2> QED
    BY <1>1, <1>3, <2>1 DEF After
<1>4. CASE d = 1 /\ p.y + p.h + p.h <= m.h
  <2>1. q.x = p.x /\ q.y = p.y + p.h
    BY <1>4 DEF F!NextBox
  <2> QED
    BY <1>1, <1>4, <2>1 DEF After
<1>5. CASE d = 1 /\ ~(p.y + p.h + p.h <= m.h)
  <2>1. q.x = p.x + p.w /\ q.y = 0 /\ p.x + p.w + p.w <= m.w
    <3>1. n = [x |-> p.x + q.w, y |-> 0, ok |-> p.x + q.w + q.w <= m.w]
      BY <1>1, <1>5 DEF F!NextBox
    <3>2. n.ok = (p.x + q.w + q.w <= m.w)
      BY ONLY <3>1
    <3>3. p.x + q.w + q.w <= m.w
      BY <3>2
    <3>4. n.x = p.x + q.w /\ n.y = 0
      BY ONLY <3>1
    <3> QED
      BY <3>3, <3>4
  <2> QED
    BY <1>1, <1>5, <2>1 DEF After
<1> QED
  BY <1>2, <1>3, <1>4, <1>5

(* g is the first box of the run of f.                                     *)
IsFirst(g, f) ==
  g \in 1 .. f /\ frame[g].mode = "BOX" /\ \A k \in g + 1 .. f : frame[k].mode = "BOX_N"

(* Every run has a first box, by induction.                                *)
LEMMA RunBegins ==
  ASSUME FramesOK, Chain, NEW f \in DOMAIN frame, frame[f].mode = "BOX_N"
  PROVE  IsFirst(F!FirstOf(f), f)
<1> DEFINE S == {k \in DOMAIN frame : frame[k].mode # "SEQ" => \E g \in 1 .. k : IsFirst(g, k)}
<1>0. /\ DOMAIN frame = 1 .. Len(frame) /\ Len(frame) \in Nat
      /\ \A g \in DOMAIN frame : frame[g].mode \in {"SEQ", "BOX", "BOX_N"}
  BY FramesFacts, FrameFields
<1>1. Len(frame) # 0 => 1 \in S
  <2>1. ASSUME 1 \in DOMAIN frame, frame[1].mode # "SEQ" PROVE IsFirst(1, 1)
    <3>0. frame[1].mode = "BOX_N" => 1 > 1
      BY <2>1 DEF Chain
    <3>1. frame[1].mode = "BOX"
      BY <1>0, <2>1, <3>0
    <3> QED
      BY <3>1 DEF IsFirst
  <2> QED
    BY <1>0, <2>1
<1>2. ASSUME NEW k \in 1 .. Len(frame), k \in S, k + 1 <= Len(frame)
      PROVE  k + 1 \in S
  <2>1. k + 1 \in DOMAIN frame /\ k \in DOMAIN frame /\ (k + 1) - 1 = k
    BY <1>0, <1>2
  <2>2. SUFFICES ASSUME frame[k + 1].mode # "SEQ"
                 PROVE  \E g \in 1 .. k + 1 : IsFirst(g, k + 1)
    BY <2>1
  <2>3. CASE frame[k + 1].mode = "BOX"
    <3>1. k + 1 \in 1 .. k + 1
      BY <1>0
    <3>2. IsFirst(k + 1, k + 1)
      BY <2>3, <3>1 DEF IsFirst
    <3> QED
      BY <3>1, <3>2
  <2>4. CASE frame[k + 1].mode = "BOX_N"
    <3>1. frame[k].mode # "SEQ"
      BY <2>1, <2>4 DEF Chain
    <3>2. PICK g \in 1 .. k : IsFirst(g, k)
      BY <1>2, <3>1
    <3>3. g \in 1 .. k + 1 /\ IsFirst(g, k + 1)
      BY <1>0, <2>4, <3>2 DEF IsFirst
    <3> QED
      BY <3>3
  <2> QED
    BY <1>0, <2>1, <2>2, <2>3, <2>4
<1>3. 1 .. Len(frame) \subseteq S
  <2> HIDE DEF S
  <2> QED
    BY <1>0, <1>1, <1>2, RangeInduction
<1>4. \E g \in 1 .. f : IsFirst(g, f)
  BY <1>0, <1>3
<1>5. \E g \in 1 .. f : frame[g].mode = "BOX" /\ \A k \in g + 1 .. f : frame[k].mode = "BOX_N"
  BY <1>4 DEF IsFirst
<1> QED
  BY <1>5 DEF F!FirstOf, IsFirst

(* All boxes of a run are on one bitmap, in one direction and equally      *)
(* large, by induction backwards.                                          *)
LEMMA RunTogether ==
  ASSUME PlaceInv, NEW f \in DOMAIN box, NEW s, IsFirst(s, f),
         NEW d, d = frame[f].dir, NEW b, b = frame[f].bitmap
  PROVE  \A k \in s .. f : /\ frame[k].dir = d /\ frame[k].bitmap = b
                           /\ box[k].w = box[f].w /\ box[k].h = box[f].h
<1> DEFINE S == {j \in 1 .. f : f + 1 - j \in s .. f =>
                   LET k == f + 1 - j IN
                   /\ frame[k].dir = d /\ frame[k].bitmap = b
                   /\ box[k].w = box[f].w /\ box[k].h = box[f].h}
<1>0. /\ DOMAIN frame = 1 .. Len(frame) /\ Len(frame) \in Nat
      /\ Len(box) \in Nat /\ DOMAIN box = 1 .. Len(box) /\ Len(box) <= Len(frame)
      /\ f \in Nat /\ s \in 1 .. f /\ f \in DOMAIN frame
  BY FramesFacts DEF PlaceInv, FramesOK, IsFirst
<1>1. 1 \in S
  BY <1>0
<1>2. ASSUME NEW j \in 1 .. f, j \in S, j + 1 <= f PROVE j + 1 \in S
  <2>1. SUFFICES ASSUME f - j \in s .. f
                 PROVE  /\ frame[f - j].dir = d /\ frame[f - j].bitmap = b
                        /\ box[f - j].w = box[f].w /\ box[f - j].h = box[f].h
    <3>1. f + 1 - (j + 1) = f - j /\ j + 1 \in 1 .. f
      BY <1>0, <1>2
    <3> QED
      BY <3>1
  <2>2. PICK k : k = f + 1 - j
    OBVIOUS
  <2>3. k \in s + 1 .. f /\ k - 1 = f - j /\ k \in DOMAIN frame /\ k \in DOMAIN box /\ k - 1 \in DOMAIN box
    BY <1>0, <2>1, <2>2
  <2>4. frame[k].mode = "BOX_N"
    BY <2>3 DEF IsFirst
  <2>5. frame[k - 1].bitmap = frame[k].bitmap /\ frame[k - 1].dir = frame[k].dir
    BY <2>3, <2>4 DEF PlaceInv, Chain
  <2>6. Given(k).w = Given(k - 1).w /\ Given(k).h = Given(k - 1).h
    BY <2>3, <2>4 DEF PlaceInv, GivenSizes
  <2>7. Given(k) = box[k] /\ Given(k - 1) = box[k - 1]
    BY <1>0, <2>3 DEF Given
  <2>8. /\ frame[k].dir = d /\ frame[k].bitmap = b
        /\ box[k].w = box[f].w /\ box[k].h = box[f].h
    BY <1>0, <1>2, <2>2, <2>3
  <2> QED
    BY <2>3, <2>5, <2>6, <2>7, <2>8
<1>3. 1 .. f \subseteq S
  <2> HIDE DEF S
  <2> QED
    BY <1>0, <1>1, <1>2, RangeInduction
<1>4. ASSUME NEW k \in s .. f
      PROVE  /\ frame[k].dir = d /\ frame[k].bitmap = b
             /\ box[k].w = box[f].w /\ box[k].h = box[f].h
  <2>1. f + 1 - k \in 1 .. f /\ f + 1 - (f + 1 - k) = k
    BY <1>0
  <2>2. f + 1 - k \in S
    BY <1>3, <2>1
  <2> QED
    BY <2>1, <2>2
<1> QED
  BY <1>4

(* BoxesApart, by induction along the run                                  *)
LEMMA BoxesAreApart ==
  ASSUME PlaceInv
  PROVE  F!BoxesApart
<1>1. SUFFICES ASSUME NEW f \in DOMAIN box, frame[f].mode = "BOX_N",
                      F!InBitmap(box[F!FirstOf(f)], frame[f].bitmap)
               PROVE  /\ F!InBitmap(box[f], frame[f].bitmap)
                      /\ \A g \in F!FirstOf(f) .. f - 1 : F!Disjoint(box[g], box[f])
  BY DEF F!BoxesApart
<1>2. PICK s, b, d, m : /\ s = F!FirstOf(f) /\ b = frame[f].bitmap /\ d = frame[f].dir
                        /\ m = metrics[b]
  OBVIOUS
<1>3. /\ DOMAIN frame = 1 .. Len(frame) /\ Len(frame) \in Nat
      /\ Len(box) \in Nat /\ DOMAIN box = 1 .. Len(box) /\ Len(box) <= Len(frame)
      /\ f \in Nat /\ f \in DOMAIN frame /\ \A g \in DOMAIN box : box[g] \in BoxRec
  BY FramesFacts DEF PlaceInv, FramesOK
<1>4. IsFirst(s, f) /\ s \in 1 .. f
  BY <1>1, <1>2, <1>3, RunBegins DEF PlaceInv, IsFirst
<1>5. \A k \in s .. f : /\ frame[k].dir = d /\ frame[k].bitmap = b
                        /\ box[k].w = box[f].w /\ box[k].h = box[f].h
  BY <1>2, <1>4, RunTogether
<1>6. d \in {0, 1} /\ m.w \in Nat /\ m.h \in Nat
  <2>1. frame[f] \in FrameRec
    BY <1>3, FramesFacts DEF PlaceInv
  <2>2. d \in {0, 1} /\ b \in Slots
    BY <1>2, <2>1, FrameFields
  <2> QED
    BY <1>2, <2>2 DEF PlaceInv, BitmapsInv, SizesOK
<1> DEFINE On(r) == 0 <= r.x /\ r.x + r.w <= m.w /\ 0 <= r.y /\ r.y + r.h <= m.h
           S == {j \in 1 .. f + 1 - s :
                   On(box[s + j - 1]) /\ \A g \in s .. s + j - 2 : After(box[g], box[s + j - 1], d)}
<1>7. 1 \in S
  <2>1. On(box[s])
    BY <1>1, <1>2 DEF F!InBitmap
  <2>2. s + 1 - 1 = s /\ 1 \in 1 .. f + 1 - s /\ s .. s + 1 - 2 = {}
    BY <1>3, <1>4
  <2> HIDE DEF On
  <2> QED
    BY <2>1, <2>2
<1>8. ASSUME NEW j \in 1 .. f + 1 - s, j \in S, j + 1 <= f + 1 - s PROVE j + 1 \in S
  <2>1. PICK k : k = s + j - 1
    OBVIOUS
  <2>2. /\ k \in s .. f - 1 /\ k + 1 \in s + 1 .. f /\ k \in DOMAIN box /\ k + 1 \in DOMAIN box
        /\ k + 1 = s + (j + 1) - 1 /\ s + (j + 1) - 2 = k /\ (k + 1) - 1 = k
        /\ s + j - 2 = k - 1 /\ j + 1 \in 1 .. f + 1 - s
    BY <1>3, <1>4, <1>8, <2>1
  <2>3. On(box[k]) /\ \A g \in s .. k - 1 : After(box[g], box[k], d)
    BY <1>8, <2>1, <2>2
  <2>4. /\ frame[k + 1].dir = d /\ frame[k + 1].bitmap = b
        /\ box[k + 1].w = box[k].w /\ box[k + 1].h = box[k].h
        /\ \A g \in s .. k : box[g].w = box[k].w /\ box[g].h = box[k].h
    <3>1. k + 1 \in s .. f /\ k \in s .. f /\ s .. k \subseteq s .. f
      BY <1>3, <1>4, <2>2, SMTT(60)
    <3> QED
      BY <1>5, <3>1
  <2>5. PICK n : n = NextOf(k + 1)
    OBVIOUS
  <2>6. n.ok /\ box[k + 1].x = n.x /\ box[k + 1].y = n.y
    <3>1. frame[k + 1].mode = "BOX_N"
      BY <1>4, <2>2 DEF IsFirst
    <3> QED
      BY <2>2, <2>5, <3>1 DEF PlaceInv, Made
  <2>7. n = F!NextBox([dir |-> d, w |-> box[k + 1].w, h |-> box[k + 1].h], box[k], m)
    BY <1>2, <2>2, <2>4, <2>5 DEF NextOf
  <2>8. After(box[k], box[k + 1], d) /\ On(box[k + 1])
    <3>1. PICK p, q, z : /\ p = box[k] /\ q = box[k + 1]
                         /\ z = [dir |-> d, w |-> box[k + 1].w, h |-> box[k + 1].h]
      OBVIOUS
    <3>2. p \in BoxRec /\ q \in BoxRec /\ q.w = p.w /\ q.h = p.h
      BY <1>3, <2>2, <2>4, <3>1
    <3>3. n = F!NextBox(z, p, m) /\ z.dir = d /\ z.w = q.w /\ z.h = q.h
      BY <2>7, <3>1
    <3>4. /\ 0 <= p.x /\ p.x + p.w <= m.w /\ 0 <= p.y /\ p.y + p.h <= m.h
          /\ n.ok /\ q.x = n.x /\ q.y = n.y
      BY <2>3, <2>6, <3>1
    <3>5. /\ After(p, q, d)
          /\ 0 <= q.x /\ q.x + q.w <= m.w /\ 0 <= q.y /\ q.y + q.h <= m.h
      BY ONLY <1>6, <3>2, <3>3, <3>4, NextIsAfter
    <3> QED
      BY <3>1, <3>5
  <2> HIDE DEF On
  <2>9. ASSUME NEW g \in s .. k PROVE After(box[g], box[k + 1], d)
    <3>1. CASE g = k
      BY <2>8, <3>1
    <3>2. CASE g # k
      <4>1. g \in s .. k - 1 /\ g \in DOMAIN box
        <5>1. s \in Nat /\ 1 <= s /\ k \in Nat /\ k <= Len(box) /\ g \in s .. k
          BY <1>3, <1>4, <2>2
        <5> QED
          BY <1>3, <3>2, <5>1
      <4>2. PICK p, q, r : p = box[g] /\ q = box[k] /\ r = box[k + 1]
        OBVIOUS
      <4>3. p \in BoxRec /\ q \in BoxRec /\ r \in BoxRec /\ q.w = p.w /\ q.h = p.h
        BY <1>3, <2>2, <2>4, <4>1, <4>2
      <4>4. After(p, q, d) /\ After(q, r, d)
        BY <2>3, <2>8, <4>1, <4>2
      <4>5. After(p, r, d)
        BY ONLY <1>6, <4>3, <4>4, AfterAfter
      <4> QED
        BY <4>2, <4>5
    <3> QED
      BY <3>1, <3>2
  <2> QED
    BY <2>2, <2>8, <2>9
<1> HIDE DEF On
<1>9. 1 .. f + 1 - s \subseteq S
  <2>1. f + 1 - s \in Nat
    BY <1>3, <1>4
  <2> HIDE DEF S
  <2> QED
    BY <1>7, <1>8, <2>1, RangeInduction
<1>10. f + 1 - s \in S /\ s + (f + 1 - s) - 1 = f /\ s + (f + 1 - s) - 2 = f - 1
  <2>1. f + 1 - s \in 1 .. f + 1 - s
    BY <1>3, <1>4
  <2> HIDE DEF S
  <2> QED
    BY <1>3, <1>4, <1>9, <2>1
<1>11. On(box[f]) /\ \A g \in s .. f - 1 : After(box[g], box[f], d)
  BY <1>10
<1>12. F!InBitmap(box[f], frame[f].bitmap)
  BY <1>2, <1>11 DEF F!InBitmap, On
<1>13. \A g \in s .. f - 1 : F!Disjoint(box[g], box[f])
  BY <1>11, AfterIsApart DEF Disjoint, F!Disjoint
<1> QED
  BY <1>2, <1>12, <1>13

(* WrapIsTight                                                             *)
LEMMA WrappedAreTight ==
  ASSUME PlaceInv
  PROVE  F!WrapIsTight
<1>1. SUFFICES ASSUME placePc = "done", NEW f \in 1 .. Len(frame), frame[f].wrap
               PROVE  Tight(f)
  BY DEF F!WrapIsTight, F!Count, Tight, Seen, Inside, F!Inside
<1>2. Ready = Len(frame)
  BY <1>1 DEF PlaceInv, Control, Ready
<1>3. Finished(f)
  <2>1. AllFinished
    BY DEF PlaceInv
  <2> QED
    BY <1>1, <1>2, <2>1 DEF AllFinished
<1> QED
  BY <1>1, <1>3 DEF Finished

(* OneOpen                                                                 *)
LEMMA OnlyOneOpen ==
  ASSUME BitmapsInv
  PROVE  F!OneOpen
<1>1. \A b \in Slots : Opened(b) => b = active /\ b \in DOMAIN file /\ fib[b] = Picture(file[b])
  BY DEF BitmapsInv, OnlyActive
<1> QED
  BY <1>1, SameOpened, SamePicture DEF F!OneOpen, F!Slots, Slots

(* Steps that leave the frames alone                                       *)
LEMMA PlaceStutter ==
  ASSUME PlaceInv, UNCHANGED <<bitmaps, frame, loop, placing>>
  PROVE  PlaceInv'
<1>1. /\ UNCHANGED <<file, metrics, fib, active>> /\ frame' = frame /\ begin' = begin
      /\ i' = i /\ box' = box /\ mid' = mid /\ placePc' = placePc
  BY DEF bitmaps, loop, placing
<1>2. /\ BitmapsInv' /\ FramesOK' /\ Chain' /\ GivenSizes' /\ Made'
      /\ \A f : /\ Seen(f)' = Seen(f) /\ (Kept(f)' <=> Kept(f))
                /\ (Finished(f)' <=> Finished(f))
                /\ F!RectOfFrame(f)' = F!RectOfFrame(f)
  <2>1. mid'.x \in Int /\ mid'.y \in Int /\ begin' \in 1 .. Len(frame) + 1
        /\ i' \in 1 .. Len(frame) + 1 /\ UNCHANGED <<bitmaps, frame, box>>
    BY <1>1 DEF PlaceInv, FramesOK
  <2> QED
    BY <2>1, AfterNothing
<1>3. PlacePcOK'
  BY <1>1 DEF PlaceInv, PlacePcOK
<1>4. Control'
  BY <1>1 DEF PlaceInv, Control, Settled
<1>5. AllFinished'
  <2>1. AllFinished /\ Ready' = Ready
    BY <1>1 DEF PlaceInv, Ready
  <2> QED
    BY <1>1, <1>2, <2>1 DEF AllFinished
<1>6. Trim'
  BY <1>1 DEF PlaceInv, Trim, F!OpaqueIn, F!RectOfFrame, Seen, Inside, Opened
<1> QED
  BY <1>2, <1>3, <1>4, <1>5, <1>6 DEF PlaceInv

(* Once all frames are finished, they are, wherever begin and i stand:     *)
LEMMA DoneSame ==
  ASSUME PlaceInv, placePc = "done", placePc' = "done", box' = box, frame' = frame,
         BitmapsInv', FramesOK', Chain', GivenSizes', Made',
         \A f : Finished(f)' <=> Finished(f)
  PROVE  PlaceInv'
<1>1. PlacePcOK' /\ Control' /\ Trim'
  BY DEF PlaceInv, PlacePcOK, Control, Wrapping, Trimming, Trim
<1>2. AllFinished'
  <2>1. \A f \in 1 .. Len(box) : Finished(f)
    BY DEF PlaceInv, AllFinished, Ready
  <2>2. Ready' = Len(box) /\ Len(box) \in Nat
    BY FramesFacts DEF PlaceInv, Ready
  <2> QED
    BY <2>1, <2>2 DEF AllFinished
<1> QED
  BY <1>1, <1>2 DEF PlaceInv

(* Copy_All uses these again,                                              *)
LEMMA CopySame ==
  ASSUME PlaceInv, placePc = "done", UNCHANGED <<bitmaps, frame, placing>>,
         begin' \in 1 .. Len(frame) + 1, i' \in 1 .. Len(frame) + 1
  PROVE  PlaceInv'
<1>1. UNCHANGED <<bitmaps, frame, box>> /\ mid' = mid /\ placePc' = "done"
  BY DEF placing
<1>2. mid'.x \in Int /\ mid'.y \in Int
  BY <1>1 DEF PlaceInv, FramesOK
<1>3. /\ BitmapsInv' /\ FramesOK' /\ Chain' /\ GivenSizes' /\ Made'
      /\ \A f : Finished(f)' <=> Finished(f)
  BY <1>1, <1>2, AfterNothing
<1> QED
  BY <1>1, <1>3, DoneSame

(* and opens the bitmaps again.                                            *)
LEMMA CopyOpens ==
  ASSUME PlaceInv, placePc = "done", UNCHANGED <<frame, placing, begin>>, i' = begin,
         begin <= Len(frame), Open(frame[begin].bitmap)
  PROVE  PlaceInv'
<1>1. UNCHANGED <<frame, box>> /\ mid' = mid /\ placePc' = "done"
  BY DEF placing
<1>2. /\ begin' \in 1 .. Len(frame) + 1 /\ i' \in 1 .. Len(frame) + 1
      /\ frame[begin].bitmap \in DOMAIN file
  BY FramesFacts DEF PlaceInv, FramesOK
<1>3. PICK b \in DOMAIN file : b = frame[begin].bitmap /\ Open(b)
  BY <1>2
<1>4. BitmapsInv /\ FramesOK /\ Chain /\ GivenSizes /\ Made
  BY DEF PlaceInv
<1>5. /\ BitmapsInv' /\ FramesOK' /\ Chain' /\ GivenSizes' /\ Made'
      /\ \A f : Finished(f)' <=> Finished(f)
  BY <1>1, <1>2, <1>3, <1>4, Reopened
<1> QED
  BY <1>1, <1>5, DoneSame

(* Steps that leave the packing alone                                      *)
LEMMA PackSame ==
  ASSUME PP!Inv, UNCHANGED <<packing, dest, side>>
  PROVE  PP!Inv'
BY PackAssumed, PP!Stutter DEF packing, PP!vars, PP!tree

(* The invariant holds at the start.                                       *)
LEMMA PlaceInitial ==
  ASSUME F!Init
  PROVE  PlaceInv
<1>1. /\ BitmapsInv /\ frame = <<>> /\ box = <<>> /\ begin = 1 /\ i = 1
      /\ mid = [x |-> 0, y |-> 0] /\ placePc = "done"
  BY BitmapsInitial DEF F!Init
<1>2. FramesOK
  BY <1>1, PackAssumed DEF FramesOK, P!PackAssumption
<1>3. PlacePcOK /\ Control /\ Chain /\ GivenSizes /\ Made /\ AllFinished /\ Trim
  BY <1>1 DEF PlacePcOK, Control, Wrapping, Trimming, Chain, GivenSizes, Made, AllFinished,
     Ready, Trim
<1> QED
  BY <1>1, <1>2, <1>3 DEF PlaceInv

(* A function on 1 .. n is a sequence.                                     *)
LEMMA ListOfFunction ==
  ASSUME NEW n \in Nat, NEW S, NEW s \in [1 .. n -> S]
  PROVE  s \in Seq(S) /\ Len(s) = n
OBVIOUS

(* Begin: what add_bitmaps_and_frames has made is fit to be placed.        *)
LEMMA PlaceBegins ==
  ASSUME PlaceInv, NEW t \in Textures \cup Later, F!Begin(t)
  PROVE  PlaceInv'
<1>1. /\ AddSources(t.files) /\ box' = <<>> /\ begin' = 1 /\ i' = 1
      /\ mid' = [x |-> 0, y |-> 0] /\ placePc' = "group"
      /\ frame' = [f \in DOMAIN t.frames |->
                 [mode |-> t.frames[f].mode, bitmap |-> t.frames[f].bitmap,
                  dir |-> t.frames[f].dir, wrap |-> t.frames[f].wrap,
                  x |-> t.frames[f].x, y |-> t.frames[f].y,
                  w |-> t.frames[f].w, h |-> t.frames[f].h,
                  cx |-> 0, cy |-> 0]]
  BY SameAddSources DEF F!Begin
<1>2. BitmapsInv' /\ file' = t.files
  BY <1>1, AddSourcesStep DEF PlaceInv, AddSources
<1>3. /\ t.frames \in Seq(F!Added) /\ Len(t.frames) <= FrameMax
      /\ \A f \in DOMAIN t.frames :
         /\ t.frames[f].bitmap \in DOMAIN t.files
         /\ (t.frames[f].mode # "SEQ" => t.frames[f].w # 0 /\ t.frames[f].h # 0)
         /\ t.frames[f].mode = "BOX_N" =>
              /\ f > 1 /\ t.frames[f - 1].mode # "SEQ"
              /\ t.frames[f - 1].bitmap = t.frames[f].bitmap
              /\ t.frames[f - 1].dir = t.frames[f].dir
              /\ t.frames[f - 1].w = t.frames[f].w
              /\ t.frames[f - 1].h = t.frames[f].h
  BY TextureAssumption DEF F!FramesAssumption
<1>4. Len(t.frames) \in Nat /\ DOMAIN t.frames = 1 .. Len(t.frames)
      /\ \A f \in DOMAIN t.frames : t.frames[f] \in F!Added
  BY <1>3, ListFacts
<1>5. frame' \in Seq(FrameRec) /\ Len(frame') = Len(t.frames) /\ DOMAIN frame' = DOMAIN t.frames
  <2>1. ASSUME NEW f \in DOMAIN t.frames PROVE frame'[f] \in FrameRec
    <3>1. t.frames[f] \in F!Added
      BY <1>4
    <3> QED
      BY <1>1, <3>1 DEF FrameRec, F!Added, F!Slots, Slots
  <2>2. DOMAIN frame' = DOMAIN t.frames
    BY <1>1
  <2>3. PICK D : D = DOMAIN t.frames
    OBVIOUS
  <2>4. \E g : frame' = [f \in D |-> g[f]]
    <3>1. PICK g : g = [f \in D |-> frame'[f]]
      OBVIOUS
    <3>2. \A f \in D : g[f] = frame'[f]
      BY <3>1
    <3>3. frame' = [f \in D |-> [mode |-> t.frames[f].mode, bitmap |-> t.frames[f].bitmap,
                  dir |-> t.frames[f].dir, wrap |-> t.frames[f].wrap,
                  x |-> t.frames[f].x, y |-> t.frames[f].y,
                  w |-> t.frames[f].w, h |-> t.frames[f].h,
                  cx |-> 0, cy |-> 0]]
      BY <1>1, <2>3
    <3>4. frame' = [f \in D |-> frame'[f]]
      BY <3>3
    <3> QED
      BY <3>1, <3>2, <3>4
  <2>5. frame' \in [1 .. Len(t.frames) -> FrameRec]
    BY <1>4, <2>1, <2>2, <2>3, <2>4
  <2> QED
    BY <1>4, <2>2, <2>5, ListOfFunction
<1>6. \A f \in DOMAIN t.frames :
        /\ frame'[f].mode = t.frames[f].mode /\ frame'[f].bitmap = t.frames[f].bitmap
        /\ frame'[f].dir = t.frames[f].dir
        /\ frame'[f].w = t.frames[f].w /\ frame'[f].h = t.frames[f].h
  BY <1>1
<1>7. FramesOK'
  <2>1. frame' \in Seq(FrameRec) /\ Len(frame') <= FrameMax
    BY <1>3, <1>5
  <2>2. \A f \in DOMAIN frame' : frame'[f].bitmap \in DOMAIN file'
    BY <1>2, <1>3, <1>5, <1>6, Zenon
  <2>3. box' \in Seq(BoxRec) /\ Len(box') <= Len(frame')
    BY <1>1, <1>5, <2>1
  <2>4. begin' \in 1 .. Len(frame') + 1 /\ i' \in 1 .. Len(frame') + 1
    BY <1>1, <1>4, <1>5
  <2>5. mid'.x \in Int /\ mid'.y \in Int
    BY <1>1
  <2> QED
    BY <2>1, <2>2, <2>3, <2>4, <2>5 DEF FramesOK
<1>8. \A f \in DOMAIN t.frames : f > 1 => f - 1 \in DOMAIN t.frames
  BY <1>4
<1>9. Chain'
  BY <1>3, <1>5, <1>6, <1>8 DEF Chain
<1>10. Len(box') = 0
  BY <1>1
<1>11. \A f \in DOMAIN t.frames : (Given(f).w)' = t.frames[f].w /\ (Given(f).h)' = t.frames[f].h
  BY <1>4, <1>6, <1>10 DEF Given, F!RectOfFrame
<1>12. GivenSizes'
  BY <1>3, <1>5, <1>6, <1>8, <1>11 DEF GivenSizes
<1>13. PlacePcOK' /\ Control' /\ Made' /\ AllFinished' /\ Trim'
  BY <1>1 DEF PlacePcOK, Control, Wrapping, Trimming, Made, AllFinished, Ready, Trim
<1> QED
  BY <1>2, <1>7, <1>9, <1>12, <1>13 DEF PlaceInv

(* A finished frame with a width has a height.                             *)
LEMMA FinishedSize ==
  ASSUME PlaceInv, placePc = "done", NEW f \in DOMAIN frame
  PROVE  [w |-> frame[f].w, h |-> frame[f].h] \in AnySizes
<1>1. /\ DOMAIN frame = 1 .. Len(frame) /\ Len(frame) \in Nat /\ frame[f] \in FrameRec
      /\ Len(box) = Len(frame) /\ DOMAIN box = 1 .. Len(box)
  BY FramesFacts DEF PlaceInv, Control
<1>2. frame[f].w \in Nat /\ frame[f].h \in Nat /\ frame[f].x \in Int /\ frame[f].y \in Int
  BY <1>1, FrameFields
<1>3. Finished(f)
  <2>1. AllFinished /\ Ready = Len(box)
    BY DEF PlaceInv, Ready
  <2> QED
    BY <1>1, <2>1 DEF AllFinished
<1>4. CASE Kept(f)
  <2>1. SizeOK(box[f])
    BY <1>1 DEF PlaceInv, Made
  <2>2. box[f].w = frame[f].w /\ box[f].h = frame[f].h
    BY <1>4 DEF Kept, F!RectOfFrame
  <2> QED
    BY <1>2, <2>1, <2>2 DEF SizeOK, AnySizes
<1>5. CASE Tight(f)
  <2>1. CASE Seen(f) = {}
    <3>1. F!RectOfFrame(f) = [x |-> 0, y |-> 0, w |-> 0, h |-> 0]
      BY <1>5, <2>1 DEF Tight
    <3>2. frame[f].w = 0
      BY <3>1 DEF F!RectOfFrame
    <3> QED
      BY <1>2, <3>2 DEF AnySizes
  <2>2. CASE Seen(f) # {}
    <3>1. F!OpaqueIn(F!RectOfFrame(f), frame[f].bitmap) # {}
      BY <1>5, <2>2 DEF Tight
    <3>2. PICK q \in F!OpaqueIn(F!RectOfFrame(f), frame[f].bitmap) : TRUE
      BY <3>1
    <3>3. q[2] \in frame[f].y .. frame[f].y + frame[f].h - 1
      BY <3>2 DEF F!OpaqueIn, F!RectOfFrame
    <3>4. frame[f].h # 0
      BY <1>2, <3>3
    <3> QED
      BY <1>2, <3>4 DEF AnySizes
  <2> QED
    BY <2>1, <2>2
<1> QED
  BY <1>3, <1>4, <1>5 DEF Finished

(* So Pack_All gets what it can take.                                      *)
LEMMA SizesListed ==
  ASSUME PlaceInv, placePc = "done"
  PROVE  Sizes \in BoundedSeq(AnySizes, FrameMax)
<1>1. DOMAIN frame = 1 .. Len(frame) /\ Len(frame) \in Nat /\ Len(frame) <= FrameMax
  BY FramesFacts DEF PlaceInv, FramesOK
<1>2. FrameMax \in Nat
  BY PackAssumed DEF P!PackAssumption
<1>3. \A f \in DOMAIN frame : [w |-> frame[f].w, h |-> frame[f].h] \in AnySizes
  BY FinishedSize
<1>4. Sizes \in [1 .. Len(frame) -> AnySizes]
  BY <1>1, <1>3 DEF Sizes
<1>5. Len(frame) \in 0 .. FrameMax
  BY <1>1, <1>2
<1> QED
  BY <1>4, <1>5 DEF BoundedSeq, SeqOf

(* The stages of process_ini, and where the loops are in each              *)
Stages ==
  /\ stage \in {"place", "pack", "copy", "passed", "failed", "crashed"}
  /\ stage \in {"pack", "copy", "passed"} => placePc = "done"
  /\ stage # "pack" => packPc = "done"
  /\ stage # "copy" => copyPc = "saved"
  /\ copyPc \in {"group", "copy", "saved"}
  /\ texture \in 0 .. MaxTextures /\ Border \in Int

(* The atlas is empty until Copy_All fills it, and has no pixel outside    *)
(* the texture.                                                            *)
AtlasOK ==
  /\ stage \notin {"copy", "passed"} => DOMAIN atlas = {}
  /\ DOMAIN atlas \subseteq Coordinates(side, side)
  /\ \A q \in DOMAIN atlas : atlas[q] \in Pixel
  /\ allocated \in BOOLEAN

(* The inductive invariant of all steps of a texture                       *)
TexInv == PlaceInv /\ PP!Inv /\ Stages /\ AtlasOK

(* InitDestBitmap                                                          *)
LEMMA BlankAtlas == DOMAIN C!Blank = {}
BY DEF C!Blank

(* It holds before the first texture.                                      *)
LEMMA Initial ==
  ASSUME Init
  PROVE  TexInv
<1>1. PlaceInv /\ PP!Inv
  BY PlaceInitial, PackInit DEF Init
<1>2. placePc = "done" /\ packPc = "done" /\ stage = "passed" /\ copyPc = "saved" /\ texture = 0
  BY DEF Init, F!Init, P!Init
<1>3. Stages
  BY <1>2, TextureAssumption DEF Stages, Init
<1>4. AtlasOK
  BY BlankAtlas DEF AtlasOK, Init
<1> QED
  BY <1>1, <1>3, <1>4 DEF TexInv

(* Begin                                                                   *)
LEMMA BeginStep ==
  ASSUME TexInv, NEW t \in Textures \cup Later, texture < MaxTextures, Begin(t)
  PROVE  TexInv'
<1>1. PlaceInv'
  BY PlaceBegins DEF TexInv, Begin
<1>2. PP!Inv'
  BY PackSame DEF TexInv, Begin
<1>3. Stages'
  <2>1. t.border \in Int
    BY PackAssumed DEF P!PackAssumption
  <2> QED
    BY <2>1, TextureAssumption DEF TexInv, Stages, Begin, F!Begin, packing
<1>4. AtlasOK'
  BY BlankAtlas DEF TexInv, AtlasOK, Begin
<1> QED
  BY <1>1, <1>2, <1>3, <1>4 DEF TexInv

(* PlaceBoxAndShrinkWrap                                                   *)
LEMMA PlacingStep ==
  ASSUME TexInv, PlaceBoxAndShrinkWrap
  PROVE  TexInv'
<1>1. PlaceInv'
  BY WorkStep DEF TexInv, PlaceBoxAndShrinkWrap
<1>2. PP!Inv'
  BY PackSame DEF TexInv, PlaceBoxAndShrinkWrap
<1>3. Stages'
  BY DEF TexInv, Stages, PlaceBoxAndShrinkWrap, packing, copying
<1>4. AtlasOK'
  BY DEF TexInv, AtlasOK, PlaceBoxAndShrinkWrap, copying
<1> QED
  BY <1>1, <1>2, <1>3, <1>4 DEF TexInv

(* StartPack                                                               *)
LEMMA StartPackStep ==
  ASSUME TexInv, StartPack
  PROVE  TexInv'
<1>1. PlaceInv'
  BY PlaceStutter DEF TexInv, StartPack
<1>2. PP!Inv'
  <2>1. PP!PackAll(Sizes, Border)
    BY SamePackAll DEF StartPack
  <2>2. Sizes \in BoundedSeq(AnySizes, FrameMax)
    BY SizesListed DEF TexInv, StartPack
  <2>3. PICK s \in PP!BoundedSeq(AnySizes, FrameMax) : s = Sizes
    BY <2>2 DEF BoundedSeq, SeqOf, PP!BoundedSeq, PP!SeqOf
  <2>4. Border \in Int
    BY DEF TexInv, Stages
  <2>5. PICK b \in Int : b = Border
    BY <2>4
  <2>6. PP!PackAll(s, b)
    BY <2>1, <2>3, <2>5
  <2> QED
    <3>1. PP!PackAssumption /\ PP!Inv
      BY PackAssumed DEF TexInv
    <3> QED
      BY ONLY <2>6, <3>1, PP!PackAllStep
<1>3. Stages'
  BY DEF TexInv, Stages, StartPack, placing, copying
<1>4. AtlasOK'
  BY DEF TexInv, AtlasOK, StartPack, copying
<1> QED
  BY <1>1, <1>2, <1>3, <1>4 DEF TexInv

(* PackFrames                                                              *)
LEMMA PackingStep ==
  ASSUME TexInv, PackFrames
  PROVE  TexInv'
<1>1. PlaceInv'
  BY PlaceStutter DEF TexInv, PackFrames
<1>2. PP!Inv'
  BY SameWork, PackAssumed, PP!WorkStep DEF TexInv, PackFrames
<1>3. Stages'
  BY DEF TexInv, Stages, PackFrames, placing, copying
<1>4. AtlasOK'
  BY DEF TexInv, AtlasOK, PackFrames, copying
<1> QED
  BY <1>1, <1>2, <1>3, <1>4 DEF TexInv

(* SaveTable                                                               *)
LEMMA SaveTableStep ==
  ASSUME TexInv, SaveTable
  PROVE  TexInv'
<1>1. PlaceInv'
  BY PlaceStutter DEF TexInv, SaveTable
<1>2. PP!Inv'
  BY PackSame DEF TexInv, SaveTable
<1>3. Stages'
  BY DEF TexInv, Stages, SaveTable, placing, copying, packing
<1>4. AtlasOK'
  BY DEF TexInv, AtlasOK, SaveTable, copying
<1> QED
  BY <1>1, <1>2, <1>3, <1>4 DEF TexInv

(* No step                                                                 *)
LEMMA StutterStep ==
  ASSUME TexInv, UNCHANGED vars
  PROVE  TexInv'
<1>1. UNCHANGED <<bitmaps, frame, loop, placing, packing, dest, side, copying, Border, texture, stage>>
  BY DEF vars
<1>2. PlaceInv' /\ PP!Inv'
  BY <1>1, PlaceStutter, PackSame DEF TexInv
<1>3. Stages'
  BY <1>1 DEF TexInv, Stages, placing, packing, copying
<1>4. AtlasOK'
  BY <1>1 DEF TexInv, AtlasOK, copying
<1> QED
  BY <1>2, <1>3, <1>4 DEF TexInv

(* The pixel at a place of a picture                                       *)
LEMMA SameLook == \A p, x, y : F!Look(p, x, y) = Look(p, x, y) /\ C!Look(p, x, y) = Look(p, x, y)
BY DEF Look, F!Look, C!Look

(* StartCopy                                                               *)
LEMMA StartCopyStep ==
  ASSUME TexInv, StartCopy
  PROVE  TexInv'
<1>1. /\ stage = "pack" /\ placePc = "done" /\ packPc = "done"
      /\ DOMAIN atlas' = {} /\ begin' = 1 /\ i' = 1 /\ copyPc' = "group" /\ stage' = "copy"
      /\ allocated' \in BOOLEAN
      /\ UNCHANGED <<bitmaps, frame, dest, side, placing, packing, Border, texture>>
  BY BlankAtlas DEF StartCopy, C!CopyAll, C!bitmaps, bitmaps, TexInv, Stages
<1>2. PlaceInv'
  <2>1. Len(frame) \in Nat
    BY FramesFacts DEF TexInv, PlaceInv
  <2> QED
    BY <1>1, <2>1, CopySame DEF TexInv
<1>3. PP!Inv'
  BY <1>1, PackSame DEF TexInv
<1>4. Stages'
  BY <1>1 DEF TexInv, Stages, placing, packing
<1>5. AtlasOK'
  BY <1>1 DEF AtlasOK
<1> QED
  BY <1>2, <1>3, <1>4, <1>5 DEF TexInv

(* What is copied for a frame lies in the texture: its position is not     *)
(* negative, and Left compares the other two sides.                        *)
LEMMA RowsArePixels ==
  ASSUME BitmapsInv, NEW f \in FrameRec, NEW d \in [x : Nat, y : Nat], side \in Int,
         ~C!Left(f, d)
  PROVE  /\ DOMAIN C!Rows(f, d) \subseteq Coordinates(side, side)
         /\ \A q \in DOMAIN C!Rows(f, d) : C!Rows(f, d)[q] \in Pixel
<1>1. /\ f.x \in Int /\ f.y \in Int /\ f.w \in Nat /\ f.h \in Nat /\ f.bitmap \in Slots
      /\ d.x \in Nat /\ d.y \in Nat
  BY FrameFields
<1>2. Opened(f.bitmap) /\ d.x + f.w <= side /\ d.y + f.h <= side
  BY <1>1, SameOpened DEF C!Left
<1>3. GoodPicture(fib[f.bitmap])
  <2>1. f.bitmap \in DOMAIN file /\ fib[f.bitmap] = Picture(file[f.bitmap])
    BY <1>1, <1>2 DEF BitmapsInv, OnlyActive
  <2>2. GoodFile(file[f.bitmap])
    BY <2>1 DEF BitmapsInv, FilesOK
  <2>3. Picture(file[f.bitmap]).w # 0
    BY <1>2, <2>1 DEF Opened
  <2> QED
    BY <2>1, <2>2, <2>3, PictureIsGood
<1>4. DOMAIN C!Rows(f, d) = (d.x .. d.x + f.w - 1) \X (d.y .. d.y + f.h - 1)
  BY DEF C!Rows
<1>5. DOMAIN C!Rows(f, d) \subseteq Coordinates(side, side)
  <2>1. d.x .. d.x + f.w - 1 \subseteq 0 .. side - 1 /\ d.y .. d.y + f.h - 1 \subseteq 0 .. side - 1
    BY <1>1, <1>2
  <2> QED
    BY <1>4, <2>1 DEF Coordinates
<1>6. ASSUME NEW q \in DOMAIN C!Rows(f, d) PROVE C!Rows(f, d)[q] \in Pixel
  <2>1. q[1] \in Int /\ q[2] \in Int
    BY <1>1, <1>4, <1>6
  <2>2. C!Rows(f, d)[q] = Look(fib[f.bitmap], f.x + (q[1] - d.x), f.y + (q[2] - d.y))
    BY <1>4, SameLook DEF C!Rows
  <2>3. f.x + (q[1] - d.x) \in Int /\ f.y + (q[2] - d.y) \in Int
    BY <1>1, <2>1
  <2> QED
    BY <1>3, <2>2, <2>3, LookIsPixel
<1> QED
  BY <1>5, <1>6

(* CopyFrame                                                               *)
LEMMA CopyFrameStep ==
  ASSUME TexInv, CopyFrames, C!CopyFrame
  PROVE  TexInv'
<1> DEFINE rows == C!Rows(frame[i], dest[i])
<1>1. /\ stage = "copy" /\ placePc = "done" /\ i <= Len(frame) /\ i' = i + 1 /\ stage' = "copy"
      /\ copyPc = "copy"
      /\ UNCHANGED <<bitmaps, frame, dest, side, allocated, begin, placing, packing, Border,
                     texture, copyPc>>
      /\ atlas' = IF C!Left(frame[i], dest[i]) THEN atlas
                  ELSE [q \in DOMAIN rows \cup DOMAIN atlas |->
                          IF q \in DOMAIN rows THEN rows[q] ELSE atlas[q]]
  BY DEF CopyFrames, C!CopyFrame, C!InGroup, C!bitmaps, bitmaps, TexInv, Stages
<1>2. /\ i \in 1 .. Len(frame) /\ Len(frame) \in Nat /\ Len(frame) <= FrameMax
      /\ begin \in 1 .. Len(frame) + 1 /\ frame[i] \in FrameRec
  BY <1>1, FramesFacts DEF TexInv, PlaceInv, FramesOK
<1>3. PlaceInv'
  BY <1>1, <1>2, CopySame DEF TexInv
<1>4. PP!Inv'
  BY <1>1, PackSame DEF TexInv
<1>5. Stages'
  BY <1>1 DEF TexInv, Stages, placing, packing
<1>6. AtlasOK'
  <2>1. CASE C!Left(frame[i], dest[i])
    BY <1>1, <2>1 DEF TexInv, AtlasOK
  <2>2. CASE ~C!Left(frame[i], dest[i])
    <3>1. side \in Int /\ dest[i] \in [x : Nat, y : Nat]
      <4>1. side \in Int /\ dest \in [PP!Slots -> [x : Nat, y : Nat]]
        BY DEF TexInv, PP!Inv, PP!TypeOK
      <4>2. i \in PP!Slots
        <5>1. FrameMax \in Nat
          BY PackAssumed DEF P!PackAssumption
        <5> QED
          BY <1>2, <5>1 DEF PP!Slots
      <4> QED
        BY <4>1, <4>2
    <3>2. DOMAIN rows \subseteq Coordinates(side, side) /\ \A q \in DOMAIN rows : rows[q] \in Pixel
      BY <1>2, <2>2, <3>1, RowsArePixels DEF TexInv, PlaceInv
    <3>3. /\ DOMAIN atlas \subseteq Coordinates(side, side)
          /\ \A q \in DOMAIN atlas : atlas[q] \in Pixel
          /\ allocated \in BOOLEAN
      BY DEF TexInv, AtlasOK
    <3> HIDE DEF rows
    <3> QED
      BY <1>1, <2>2, <3>2, <3>3 DEF AtlasOK
  <2> QED
    BY <2>1, <2>2
<1> QED
  BY <1>3, <1>4, <1>5, <1>6 DEF TexInv

(* Copy_All, OpenGroup                                                     *)
LEMMA CopyOpenStep ==
  ASSUME TexInv, CopyFrames, C!OpenGroup
  PROVE  TexInv'
<1>1. /\ stage = "copy" /\ placePc = "done" /\ begin <= Len(frame) /\ i' = begin
      /\ Open(frame[begin].bitmap) /\ copyPc' = "copy" /\ stage' = "copy"
      /\ UNCHANGED <<frame, dest, side, atlas, allocated, begin, placing, packing, Border,
                     texture>>
  BY SameOpen DEF CopyFrames, C!OpenGroup, C!Bitmap, TexInv, Stages
<1>2. PlaceInv'
  BY <1>1, CopyOpens DEF TexInv
<1>3. PP!Inv'
  BY <1>1, PackSame DEF TexInv
<1>4. Stages'
  BY <1>1 DEF TexInv, Stages, placing, packing
<1>5. AtlasOK'
  BY <1>1 DEF TexInv, AtlasOK
<1> QED
  BY <1>2, <1>3, <1>4, <1>5 DEF TexInv

(* CopiedAll and SaveDestBitmap                                            *)
LEMMA CopyEndStep ==
  ASSUME TexInv, CopyFrames, C!CopiedAll \/ C!SaveDestBitmap
  PROVE  TexInv'
<1>1. /\ stage = "copy" /\ placePc = "done" /\ stage' = "copy"
      /\ begin' \in {begin, i} /\ i' = i /\ copyPc' \in {"group", "saved"}
      /\ UNCHANGED <<bitmaps, frame, dest, side, allocated, placing, packing, Border, texture>>
      /\ \/ atlas' = atlas
         \/ atlas' = [q \in {q \in DOMAIN atlas : atlas[q].a # 0} |-> atlas[q]]
  BY DEF CopyFrames, C!CopiedAll, C!SaveDestBitmap, C!bitmaps, bitmaps, TexInv, Stages
<1>2. begin \in 1 .. Len(frame) + 1 /\ i \in 1 .. Len(frame) + 1
  BY DEF TexInv, PlaceInv, FramesOK
<1>3. PlaceInv'
  BY <1>1, <1>2, CopySame DEF TexInv
<1>4. PP!Inv'
  BY <1>1, PackSame DEF TexInv
<1>5. Stages'
  BY <1>1 DEF TexInv, Stages, placing, packing
<1>6. AtlasOK'
  BY <1>1 DEF TexInv, AtlasOK
<1> QED
  BY <1>3, <1>4, <1>5, <1>6 DEF TexInv

(* Every step keeps the invariant.                                         *)
LEMMA TexStep ==
  ASSUME TexInv, [Next]_vars
  PROVE  TexInv'
<1>1. ASSUME NEW t \in Textures \cup Later, texture < MaxTextures, Begin(t) PROVE TexInv'
  BY <1>1, BeginStep
<1>2. CASE Work
  <2>1. CASE CopyFrames
    BY <2>1, CopyOpenStep, CopyFrameStep, CopyEndStep DEF CopyFrames, C!Work
  <2> QED
    BY <1>2, <2>1, PlacingStep, StartPackStep, PackingStep, StartCopyStep, SaveTableStep DEF Work
<1>3. CASE UNCHANGED vars
  BY <1>3, StutterStep
<1> QED
  BY <1>1, <1>2, <1>3 DEF Next

(* The invariant holds for any bitmaps, frames and borders and any number  *)
(* of textures, one after the other.                                       *)
THEOREM TextureInvariant == Spec => []TexInv
<1>1. Init => TexInv
  BY Initial
<1>2. TexInv /\ [Next]_vars => TexInv'
  BY TexStep
<1> QED
  BY <1>1, <1>2, PTL DEF Spec

(* cBitmap::Open: at most one bitmap has its pixels in memory, and they    *)
(* are those of its file, not of a texture before.                         *)
THEOREM OneBitmapOpen == Spec => []OneOpen
<1>1. TexInv => OneOpen
  BY OnlyOneOpen DEF TexInv, PlaceInv, OneOpen
<1> QED
  BY <1>1, TextureInvariant, PTL

(* cFrame::PlaceBox: if the first box of a run is on the bitmap, all boxes *)
(* of the run are, and no two overlap, whatever their number and           *)
(* direction.                                                              *)
THEOREM BoxesInARunApart == Spec => []BoxesApart
<1>1. TexInv => BoxesApart
  BY BoxesAreApart DEF TexInv, BoxesApart
<1> QED
  BY <1>1, TextureInvariant, PTL

(* cFrame::ShrinkWrap ends with the smallest rectangle that has all        *)
(* visible pixels of the box, for every bitmap and wherever the box is.    *)
THEOREM ShrinkWrapIsTight == Spec => []WrapIsTight
<1>1. TexInv => WrapIsTight
  BY WrappedAreTight DEF TexInv, WrapIsTight
<1> QED
  BY <1>1, TextureInvariant, PTL

(* cFrame::Sort: when frames are inserted, the list has every frame that   *)
(* Sort finds once, in the order of the method, also in the second and     *)
(* later textures; and Sort finds them all if a long can count their       *)
(* pixels.                                                                 *)
THEOREM ListSorted == Spec => []SortedList
<1>1. TexInv => SortedList
  BY PackAssumed, PP!InvSorted, SameSortedList DEF TexInv, SortedList
<1> QED
  BY <1>1, TextureInvariant, PTL

(* cFrame::Pack_All: when it is done, the frames of the texture that Sort  *)
(* has found are inside it and a border apart, whatever was packed before. *)
(* A frame whose key has wrapped below 0 is not one of them.               *)
THEOREM PackedFramesApart == Spec => []FramesApart
<1>1. TexInv => FramesApart
  BY SameFramesApart DEF TexInv, FramesApart, PP!Inv
<1> QED
  BY <1>1, TextureInvariant, PTL

(* DoUnMultAlpha_Component undoes the blending over white, but for what    *)
(* its division drops.                                                     *)
LEMMA UnMultUndoesBlend ==
  ASSUME NEW c \in 0 .. ByteMax, NEW a \in 1 .. ByteMax, c >= ByteMax - a
  PROVE  Blend(a, UnMult(c, a)) \in {c - 1, c}
<1> DEFINE n == (c - (ByteMax - a)) * ByteMax
           u == n \div a
           d == ByteMax - c
<1>1. ByteMax \in Nat \ {0} /\ a \in Nat \ {0} /\ d \in Nat
  BY BitmapsAssumption
<1>2. n = (a - d) * ByteMax /\ a - d \in Nat /\ a - d <= a
  BY <1>1
<1>3. n \in Nat
  BY <1>1, <1>2
<1>4. a * ByteMax - n = d * ByteMax /\ d * ByteMax \in Nat
  BY <1>1, <1>2
<1>5. n < a * ByteMax + a
  BY <1>1, <1>3, <1>4
<1> HIDE DEF n
<1>6. u \in Nat /\ a * u <= n /\ n < a * u + a
  BY <1>1, <1>3, QuotientIsNat
<1>7. u <= ByteMax
  BY <1>1, <1>3, <1>5, QuotientBelow
<1>8. UnMult(c, a) = u
  <2>1. UnMult(c, a) = u % (ByteMax + 1)
    BY <1>1, <1>3, <1>7 DEF UnMult, n
  <2> HIDE DEF u
  <2> QED
    BY <2>1, <1>1, <1>6, <1>7
<1> HIDE DEF u
<1> DEFINE m == u * a + ByteMax * (ByteMax - a)
<1>9. Blend(a, UnMult(c, a)) = m \div ByteMax
  BY <1>8 DEF Blend
<1>10. m <= ByteMax * c /\ ByteMax * c < m + a
  <2>1. ByteMax * (ByteMax - a) + n = ByteMax * c
    BY <1>1 DEF n
  <2>2. u * a = a * u
    BY <1>1, <1>6
  <2> HIDE DEF m
  <2>3. ByteMax * c \in Nat /\ ByteMax * (ByteMax - a) \in Int /\ a * u \in Nat
    BY <1>1, <1>6
  <2> QED
    BY <1>1, <1>3, <1>6, <2>1, <2>2, <2>3 DEF m
<1>11. m \in Nat
  <2>1. ByteMax - a \in Nat
    BY <1>1
  <2>2. ByteMax * (ByteMax - a) \in Nat /\ u * a \in Nat
    BY <1>1, <1>6, <2>1
  <2> QED
    BY <2>2
<1> HIDE DEF m
<1> DEFINE q == m \div ByteMax
<1>12. q \in Nat /\ ByteMax * q <= m /\ m < ByteMax * q + ByteMax
  BY <1>1, <1>11, QuotientIsNat
<1>13. q <= c
  <2>1. m < ByteMax * c + ByteMax
    BY <1>1, <1>10, <1>11
  <2> QED
    BY <1>1, <1>11, <2>1, QuotientBelow
<1> HIDE DEF q
<1>14. ByteMax * (c - q) < 2 * ByteMax
  <2>1. ByteMax * (c - q) = ByteMax * c - ByteMax * q
    BY <1>1, <1>12
  <2>2. ByteMax * c \in Nat /\ ByteMax * q \in Nat /\ ByteMax * (c - q) \in Int
    BY <1>1, <1>12
  <2> QED
    BY <1>1, <1>10, <1>11, <1>12, <2>1, <2>2
<1>15. c - q < 2
  <2>1. SUFFICES ASSUME c - q >= 2 PROVE FALSE
    BY <1>12
  <2>2. (c - q) - 2 \in Nat
    BY <1>12, <2>1
  <2>3. ByteMax * ((c - q) - 2) \in Nat
    BY <1>1, <2>2
  <2>4. ByteMax * ((c - q) - 2) = ByteMax * (c - q) - 2 * ByteMax
    BY <1>1, <1>12
  <2> QED
    BY <1>1, <1>12, <1>14, <2>3, <2>4
<1> QED
  BY <1>9, <1>12, <1>13, <1>15 DEF q

(* A PSD keeps its pixels, however they were blended.                      *)
LEMMA UnMultPixel ==
  ASSUME NEW p \in Pixel, p.a # 0, p.c >= ByteMax - p.a
  PROVE  /\ DoUnMultAlpha(p).a = p.a
         /\ Blend(p.a, DoUnMultAlpha(p).c) \in {p.c - 1, p.c}
<1>1. p.a \in 1 .. ByteMax /\ p.c \in 0 .. ByteMax /\ ByteMax \in Nat \ {0}
  BY BitmapsAssumption DEF Pixel
<1>2. CASE p.a = ByteMax
  <2>1. DoUnMultAlpha(p) = p
    BY <1>2 DEF DoUnMultAlpha
  <2>2. Blend(p.a, p.c) = (p.c * ByteMax) \div ByteMax
    BY <1>1, <1>2 DEF Blend
  <2>3. (p.c * ByteMax) \div ByteMax = p.c
    <3> DEFINE c == p.c
               q == (c * ByteMax) \div ByteMax
    <3>1. c \in Nat /\ c * ByteMax \in Nat
      BY <1>1
    <3>2. c * ByteMax = ByteMax * c
      BY <1>1, <3>1
    <3> HIDE DEF c
    <3>3. q \in Nat /\ ByteMax * q <= ByteMax * c /\ ByteMax * c < ByteMax * q + ByteMax
      BY <1>1, <3>1, <3>2, QuotientIsNat
    <3>4. q <= c
      <4>1. c * ByteMax < ByteMax * c + ByteMax
        BY <1>1, <3>1, <3>2
      <4> QED
        BY <1>1, <3>1, <4>1, QuotientBelow
    <3> HIDE DEF q
    <3>5. ByteMax * (c - q) < ByteMax
      BY <1>1, <3>1, <3>3
    <3>6. SUFFICES ASSUME c - q >= 1 PROVE FALSE
      BY <3>1, <3>3, <3>4 DEF c, q
    <3>7. ByteMax * ((c - q) - 1) \in Nat
      <4>1. (c - q) - 1 \in Nat
        BY <3>1, <3>3, <3>6
      <4> QED
        BY <1>1, <4>1
    <3>8. ByteMax * ((c - q) - 1) = ByteMax * (c - q) - ByteMax
      BY <1>1, <3>1, <3>3
    <3> QED
      BY <1>1, <3>1, <3>3, <3>5, <3>7, <3>8
  <2> QED
    BY <2>1, <2>2, <2>3
<1>3. CASE p.a # ByteMax
  <2>1. DoUnMultAlpha(p) = [p EXCEPT !.c = UnMult(p.c, p.a)]
    BY <1>1, <1>3 DEF DoUnMultAlpha
  <2>2. DoUnMultAlpha(p).a = p.a /\ DoUnMultAlpha(p).c = UnMult(p.c, p.a)
    BY <2>1 DEF Pixel
  <2> QED
    BY <1>1, <2>2, UnMultUndoesBlend
<1> QED
  BY <1>2, <1>3

(* What a visible pixel has been, in whatever order Open converts          *)
LEMMA ConvertFacts ==
  ASSUME NEW z, GoodFile(z), NEW p \in Pixel, Convert(z, p).a # 0
  PROVE  /\ Convert(z, p).a > z.aco
         /\ (z.psd /\ z.from = z.to /\ p.c >= ByteMax - p.a) =>
              /\ Convert(z, p).a = p.a
              /\ Blend(Convert(z, p).a, Convert(z, p).c) \in {p.c - 1, p.c}
<1> DEFINE p1 == IF z.psd THEN DoUnMultAlpha(p) ELSE p
           p2 == IF z.from # z.to THEN DoConvertARGB(p1, z.from, z.to) ELSE p1
           new == Convert(z, p)
<1>1. new = IF z.aco # 0 THEN DoAlphaCutOff(p2, z.aco) ELSE p2
  BY DEF Convert
<1>2. new \in Pixel
  BY ConvertIsPixel DEF GoodFile
<1>3. new.a \in Nat /\ z.aco \in Nat /\ p.a \in Nat
  BY <1>2, BitmapsAssumption DEF Pixel, GoodFile
<1>4. p2 \in Pixel
  <2>1. [from |-> z.from, to |-> z.to, psd |-> z.psd, aco |-> 0].aco \in 0 .. ByteMax
    BY BitmapsAssumption
  <2>2. Convert([from |-> z.from, to |-> z.to, psd |-> z.psd, aco |-> 0], p) \in Pixel
    BY <2>1, ConvertIsPixel DEF GoodFile
  <2> QED
    BY <2>2 DEF Convert
<1> HIDE DEF new
<1>5. z.aco # 0 => new = p2 /\ p2.a > z.aco
  <2>1. SUFFICES ASSUME z.aco # 0 PROVE new = p2 /\ p2.a > z.aco
    OBVIOUS
  <2>2. p2.a \in Nat
    BY <1>4, BitmapsAssumption DEF Pixel
  <2>3. CASE p2.a <= z.aco
    <3>1. new = [p2 EXCEPT !.a = 0]
      BY <1>1, <2>1, <2>3 DEF DoAlphaCutOff
    <3>2. new.a = 0
      BY <3>1, <1>4 DEF Pixel
    <3> QED
      BY <3>2 DEF new
  <2>4. CASE ~(p2.a <= z.aco)
    BY <1>1, <1>3, <2>1, <2>2, <2>4 DEF DoAlphaCutOff
  <2> QED
    BY <2>3, <2>4
<1>6. new = p2
  BY <1>1, <1>5
<1>7. new.a > z.aco
  BY <1>3, <1>5, <1>6 DEF new
<1>8. ASSUME z.psd, z.from = z.to, p.c >= ByteMax - p.a
      PROVE  new.a = p.a /\ Blend(new.a, new.c) \in {p.c - 1, p.c}
  <2>1. new = DoUnMultAlpha(p)
    BY <1>6, <1>8
  <2>2. p.a # 0
    <3>1. SUFFICES ASSUME p.a = 0 PROVE FALSE
      OBVIOUS
    <3>2. new = p
      BY <2>1, <3>1 DEF DoUnMultAlpha
    <3> QED
      BY <3>1, <3>2 DEF new
  <2> QED
    BY <1>8, <2>1, <2>2, UnMultPixel
<1> QED
  BY <1>7, <1>8 DEF new

(* Open converts every pixel of a bitmap it does not shrink.               *)
THEOREM PicturesAreConverted == Spec => []PicturesConverted
<1>1. ASSUME TexInv PROVE PicturesConverted
  <2>1. SUFFICES ASSUME NEW b \in Slots, Opened(b), file[b].shrink <= 1,
                        NEW q \in DOMAIN fib[b].px
                 PROVE  LET f == file[b]
                            old == f.px[q]
                            new == fib[b].px[q]
                        IN  /\ new.a # 0 => new.a > f.aco
                            /\ (f.psd /\ f.from = f.to /\ new.a # 0 /\ old.c >= ByteMax - old.a) =>
                                 /\ new.a = old.a
                                 /\ Blend(new.a, new.c) \in {old.c - 1, old.c}
    BY DEF PicturesConverted
  <2> DEFINE f == file[b]
  <2>2. b \in DOMAIN file /\ fib[b] = Picture(f) /\ Picture(f).w # 0 /\ GoodFile(f)
    BY <1>1, <2>1 DEF TexInv, PlaceInv, BitmapsInv, OnlyActive, FilesOK, Opened
  <2> HIDE DEF f
  <2>3. ~(f.shrink > 1)
    BY <2>1, <2>2 DEF f, GoodFile
  <2>4. Picture(f).px = [r \in Coordinates(f.w, f.h) |-> Convert(f, f.px[r])]
    BY <2>2, <2>3, NoFibClosed DEF Picture
  <2>5. q \in Coordinates(f.w, f.h) /\ fib[b].px[q] = Convert(f, f.px[q])
    BY <2>1, <2>2, <2>4
  <2>6. f.px[q] \in Pixel
    BY <2>2, <2>5 DEF GoodFile
  <2> QED
    BY <2>2, <2>5, <2>6, ConvertFacts DEF f
<1> QED
  BY <1>1, TextureInvariant, PTL

(* The types of all fields in all stages: no frame gets a negative size or *)
(* position, the sizes of open bitmaps are right, and no pixel is set      *)
(* outside the texture. The hypothesis makes FrameSizes, which bounds the  *)
(* runs, no bound.                                                         *)
THEOREM TextureTypeCorrect == ASSUME AnySizes \subseteq FrameSizes PROVE Spec => []TypeOK
<1>1. ASSUME TexInv PROVE TypeOK
  <2>1. BitmapsInv /\ FramesOK /\ PlacePcOK /\ PP!TypeOK /\ Stages /\ AtlasOK
    BY <1>1 DEF TexInv, PlaceInv, PP!Inv
  <2>2. /\ DOMAIN frame = 1 .. Len(frame) /\ Len(frame) \in Nat
        /\ \A f \in DOMAIN frame : frame[f] \in FrameRec
    BY <2>1, FramesFacts
  <2>3. BitmapsTypeOK
    <3>1. ASSUME NEW b \in Slots, Opened(b)
          PROVE  /\ [w |-> fib[b].w, h |-> fib[b].h] = metrics[b]
                 /\ fib[b].px \in [Coordinates(fib[b].w, fib[b].h) -> Pixel]
      <4>1. /\ b \in DOMAIN file /\ fib[b] = Picture(file[b])
            /\ fib[b].w = metrics[b].w /\ fib[b].h = metrics[b].h
        BY <2>1, <3>1 DEF BitmapsInv, OnlyActive
      <4>2. GoodFile(file[b]) /\ Picture(file[b]).w # 0
        BY <2>1, <3>1, <4>1 DEF BitmapsInv, FilesOK, Opened
      <4>3. GoodPicture(fib[b])
        BY <4>1, <4>2, PictureIsGood
      <4>4. metrics[b] \in [w : Nat, h : Nat]
        BY <2>1 DEF BitmapsInv, SizesOK
      <4> QED
        BY <4>1, <4>3, <4>4 DEF GoodPicture
    <3>2. Len(file) <= BitmapMax /\ metrics \in [Slots -> [w : Nat, h : Nat]]
          /\ active \in Slots \cup {None}
      BY <2>1, BitmapsAssumption, FilesInSlots DEF BitmapsInv, FilesOK, SizesOK, OnlyActive
    <3> QED
      BY <3>1, <3>2 DEF BitmapsTypeOK
  <2>4. F!BitmapsTypeOK /\ C!BitmapsTypeOK
    BY <2>3, SameOpened
    DEF BitmapsTypeOK, F!BitmapsTypeOK, C!BitmapsTypeOK, Slots, F!Slots, C!Slots,
        None, F!None, C!None, Coordinates, F!Coordinates, C!Coordinates, Pixel, F!Pixel, C!Pixel
  <2>5. F!TypeOK
    <3>1. ASSUME NEW f \in 1 .. Len(frame)
          PROVE  frame[f] \in [mode : F!Modes, bitmap : DOMAIN file, dir : {0, 1},
                     wrap : BOOLEAN, x : Int, y : Int, w : Nat, h : Nat,
                     cx : Int, cy : Int]
      BY <2>1, <2>2 DEF FramesOK, FrameRec
    <3>2. placePc \in {"group", "place", "wrap", "top", "bottom", "left", "right",
                       "done", "failed", "crashed"}
      BY <2>1 DEF PlacePcOK, Wrapping
    <3> QED
      BY <2>1, <2>4, <3>1, <3>2 DEF F!TypeOK, F!Count, FramesOK, BoxRec
  <2>6. P!TypeOK
    <3>1. FrameSizes = AnySizes
      BY PackAssumed DEF P!PackAssumption, AnySizes
    <3> QED
      BY <2>1, <3>1 DEF P!TypeOK, PP!TypeOK, P!Frames, PP!Frames, P!Slots, PP!Slots,
         P!Methods, PP!Methods
  <2>7. C!TypeOK
    BY <2>1, <2>4 DEF C!TypeOK, AtlasOK, Stages, FramesOK, Coordinates, C!Coordinates,
       Pixel, C!Pixel
  <2> QED
    BY <2>1, <2>5, <2>6, <2>7 DEF TypeOK, Stages
<1> QED
  BY <1>1, TextureInvariant, PTL

(* The center of a finished frame: of its box, in its own coordinates; of  *)
(* a frame of which nothing is left, 0.                                    *)
Centered(f) ==
  IF frame[f].wrap /\ Seen(f) = {}
    THEN frame[f].cx = 0 /\ frame[f].cy = 0
    ELSE /\ frame[f].cx = box[f].x + box[f].w \div 2 - frame[f].x
         /\ frame[f].cy = box[f].y + box[f].h \div 2 - frame[f].y

(* The others have none yet; ShrinkWrap remembers the center of the box it *)
(* trims.                                                                  *)
CenterInv ==
  placePc \notin {"failed", "crashed"} =>
    /\ \A f \in 1 .. Ready : Centered(f)
    /\ \A f \in Ready + 1 .. Len(frame) : frame[f].cx = 0 /\ frame[f].cy = 0
    /\ placePc \in Trimming =>
         /\ mid.x = box[i].x + box[i].w \div 2
         /\ mid.y = box[i].y + box[i].h \div 2

(* It is never negative.                                                   *)
LEMMA ReadyIsNat ==
  ASSUME PlaceInv
  PROVE  Ready \in Nat
BY FramesFacts DEF PlaceInv, FramesOK, Ready

(* A frame that a step leaves alone keeps its center.                      *)
LEMMA CenteredSame ==
  ASSUME NEW f, file' = file, box'[f] = box[f], frame'[f] = frame[f]
  PROVE  Centered(f)' <=> Centered(f)
BY FrameSame DEF Centered

(* Steps that change no frame                                              *)
LEMMA CenterStays ==
  ASSUME PlaceInv, CenterInv, placePc \notin {"failed", "crashed"},
         file' = file, box' = box, frame' = frame, Ready' = Ready,
         placePc' \in Trimming =>
           /\ mid'.x = box[i'].x + box[i'].w \div 2
           /\ mid'.y = box[i'].y + box[i'].h \div 2
  PROVE  CenterInv'
<1>1. /\ \A f \in 1 .. Ready : Centered(f)
      /\ \A f \in Ready + 1 .. Len(frame) : frame[f].cx = 0 /\ frame[f].cy = 0
  BY DEF CenterInv
<1>2. PICK n : n = Ready
  OBVIOUS
<1>3. \A f \in 1 .. n : Centered(f)'
  BY <1>1, <1>2, CenteredSame
<1> QED
  BY <1>1, <1>2, <1>3 DEF CenterInv

(* Steps that change frame i and leave it unfinished                       *)
LEMMA CenterLater ==
  ASSUME PlaceInv, CenterInv, placePc \notin {"failed", "crashed"}, file' = file,
         i \in DOMAIN frame, Ready < i, Ready' = Ready, Ready \in Int,
         NEW r, Edited(r), r.cx = frame[i].cx, r.cy = frame[i].cy,
         \A f \in 1 .. Ready : box'[f] = box[f],
         placePc' \in Trimming =>
           /\ mid'.x = box'[i'].x + box'[i'].w \div 2
           /\ mid'.y = box'[i'].y + box'[i'].h \div 2
  PROVE  CenterInv'
<1>1. /\ \A f \in 1 .. Ready : Centered(f)
      /\ \A f \in Ready + 1 .. Len(frame) : frame[f].cx = 0 /\ frame[f].cy = 0
  BY DEF CenterInv
<1>2. PICK n \in Int : n = Ready
  OBVIOUS
<1>3. Len(frame) \in Nat /\ DOMAIN frame = 1 .. Len(frame) /\ frame \in Seq(FrameRec)
  BY FramesFacts DEF PlaceInv, FramesOK
<1>4. /\ Len(frame') = Len(frame) /\ frame'[i] = r
      /\ \A f \in DOMAIN frame : f # i => frame'[f] = frame[f]
  BY <1>3 DEF Edited
<1>5. \A f \in 1 .. n : Centered(f)'
  <2>1. ASSUME NEW f \in 1 .. n PROVE Centered(f)'
    <3>1. f # i
      BY <1>2
    <3>2. frame'[f] = frame[f]
      BY <1>2, <1>3, <1>4, <3>1
    <3>3. box'[f] = box[f] /\ Centered(f)
      BY <1>1, <1>2
    <3> QED
      BY <3>2, <3>3, CenteredSame
  <2> QED
    BY <2>1
<1>6. \A f \in n + 1 .. Len(frame) : frame'[f].cx = 0 /\ frame'[f].cy = 0
  <2>1. ASSUME NEW f \in n + 1 .. Len(frame) PROVE frame'[f].cx = 0 /\ frame'[f].cy = 0
    <3>1. frame[f].cx = 0 /\ frame[f].cy = 0
      BY <1>1, <1>2
    <3>2. CASE f = i
      BY <1>4, <3>1, <3>2
    <3>3. CASE f # i
      <4>1. f \in DOMAIN frame
        <5>1. n >= 0
          BY <1>2, ReadyIsNat
        <5> QED
          BY <1>2, <1>3, <5>1
      <4> QED
        BY <1>4, <3>1, <3>3, <4>1
    <3> QED
      BY <3>2, <3>3
  <2> QED
    BY <2>1
<1> QED
  BY <1>2, <1>4, <1>5, <1>6 DEF CenterInv

(* Steps that finish frame i                                               *)
LEMMA CenterNext ==
  ASSUME PlaceInv, CenterInv, placePc \in Wrapping, placePc' = "wrap", file' = file,
         i \in DOMAIN frame, NEW r, Edited(r), box' = box, i' = i + 1,
         NEW i0, i0 = i, Centered(i0)'
  PROVE  CenterInv'
<1>0. i0 = i /\ Centered(i0)'
  OBVIOUS
<1>1. /\ \A f \in 1 .. i - 1 : Centered(f)
      /\ \A f \in i .. Len(frame) : frame[f].cx = 0 /\ frame[f].cy = 0
  <2>1. Ready = i - 1 /\ placePc \notin {"failed", "crashed"} /\ i \in Int
    BY DEF Ready, Wrapping, PlaceInv, FramesOK
  <2> QED
    BY <2>1 DEF CenterInv
<1>3. Len(frame) \in Nat /\ DOMAIN frame = 1 .. Len(frame) /\ frame \in Seq(FrameRec)
  BY FramesFacts DEF PlaceInv, FramesOK
<1>4. /\ Len(frame') = Len(frame)
      /\ \A f \in DOMAIN frame : f # i => frame'[f] = frame[f]
  BY <1>3 DEF Edited
<1>5. ASSUME NEW f \in 1 .. i0 PROVE Centered(f)'
  <2>1. CASE f = i0
    BY <1>0, <2>1
  <2>2. CASE f # i0
    <3>1. f \in 1 .. i - 1 /\ f \in DOMAIN frame
      BY <1>0, <1>3, <2>2
    <3>2. frame'[f] = frame[f] /\ box'[f] = box[f] /\ Centered(f)
      BY <1>0, <1>1, <1>4, <2>2, <3>1
    <3> QED
      BY <3>2, CenteredSame
  <2> QED
    BY <2>1, <2>2
<1>6. \A f \in i0 + 1 .. Len(frame) : frame'[f].cx = 0 /\ frame'[f].cy = 0
  BY <1>0, <1>1, <1>3, <1>4
<1>7. Ready' = i0
  BY <1>0, <1>3 DEF Ready
<1> QED
  BY <1>4, <1>5, <1>6, <1>7 DEF CenterInv, Trimming

(* The steps of the loops                                                  *)
LEMMA CenterLoops ==
  ASSUME PlaceInv, CenterInv,
         F!OpenGroup \/ F!PlacedAll \/ F!ReadNull \/ F!WrappedAll \/ F!Finish
  PROVE  CenterInv'
<1>1. CASE F!ReadNull
  BY <1>1 DEF F!ReadNull, CenterInv
<1>2. CASE ~F!ReadNull
  <2>1. /\ file' = file /\ box' = box /\ frame' = frame
        /\ placePc \notin {"failed", "crashed"} /\ placePc' \notin Trimming
    BY <1>2 DEF F!OpenGroup, F!Open, F!PlacedAll, F!WrappedAll, F!Finish, F!bitmaps, Trimming
  <2>2. Ready' = Ready
    <3>1. /\ begin \in Nat /\ i \in Nat /\ Len(box) \in Nat /\ Len(box) <= Len(frame)
          /\ begin <= Len(frame) + 1 /\ Len(frame) \in Nat
      BY FramesFacts DEF PlaceInv, FramesOK
    <3>2. CASE F!OpenGroup
      BY <3>2 DEF F!OpenGroup, Ready
    <3>3. CASE F!PlacedAll
      BY <3>3 DEF F!PlacedAll, Ready
    <3>4. CASE F!WrappedAll
      BY <3>4 DEF F!WrappedAll, Ready
    <3>5. CASE F!Finish
      BY <3>1, <3>5 DEF F!Finish, F!Count, Ready, PlaceInv, Control
    <3> QED
      BY <1>2, <3>2, <3>3, <3>4, <3>5
  <2> QED
    BY <2>1, <2>2, CenterStays
<1> QED
  BY <1>1, <1>2

(* PlaceBox: a frame that has just got its box has no center.              *)
LEMMA CenterPlaces ==
  ASSUME PlaceInv, CenterInv, F!PlaceBox
  PROVE  CenterInv'
<1>1. /\ placePc = "place" /\ i <= Len(frame) /\ file' = file /\ begin' = begin
  BY DEF F!PlaceBox, F!InGroup, F!Count, F!bitmaps
<1>2. /\ i \in DOMAIN frame /\ frame[i] \in FrameRec /\ Ready = begin - 1 /\ begin \in 1 .. i
      /\ Len(box) = i - 1 /\ box \in Seq(BoxRec) /\ i \in Nat
  BY <1>1, FramesFacts DEF PlaceInv, FramesOK, Control, Ready
<1>3. CASE placePc' = "failed"
  BY <1>3 DEF CenterInv
<1>4. ASSUME NEW x, NEW y, NEW w, NEW h, F!Place(i, x, y, w, h) PROVE CenterInv'
  <2>1. /\ frame' = [frame EXCEPT ![i].x = x, ![i].y = y, ![i].w = w, ![i].h = h]
        /\ box' = Append(box, [x |-> x, y |-> y, w |-> w, h |-> h])
        /\ i' = i + 1 /\ placePc' = "place"
    BY <1>1, <1>4 DEF F!Place
  <2>2. PICK r : r = [frame[i] EXCEPT !.x = x, !.y = y, !.w = w, !.h = h]
    OBVIOUS
  <2>3. r.cx = frame[i].cx /\ r.cy = frame[i].cy
    BY <1>2, <2>2 DEF FrameRec
  <2>4. Edited(r)
    BY <1>2, <2>1, <2>2 DEF Edited
  <2>5. \A f \in 1 .. Ready : box'[f] = box[f]
    BY <1>2, <2>1
  <2>6. Ready' = Ready /\ placePc' \notin Trimming
    BY <1>1, <2>1 DEF Ready, Trimming
  <2> QED
    BY <1>1, <1>2, <2>3, <2>4, <2>5, <2>6, CenterLater
<1> QED
  BY <1>3, <1>4 DEF F!PlaceBox

(* KeepBox                                                                 *)
LEMMA CenterKeeps ==
  ASSUME PlaceInv, CenterInv, F!KeepBox
  PROVE  CenterInv'
<1> DEFINE r == [frame[i] EXCEPT !.cx = frame[i].w \div 2, !.cy = frame[i].h \div 2]
<1>1. /\ placePc = "wrap" /\ i <= Len(frame) /\ frame[i].bitmap = frame[begin].bitmap
      /\ ~frame[i].wrap /\ placePc' = "wrap" /\ i' = i + 1
      /\ frame' = [frame EXCEPT ![i].cx = frame[i].w \div 2, ![i].cy = frame[i].h \div 2]
      /\ file' = file /\ box' = box
  BY DEF F!KeepBox, F!InGroup, F!Count, F!Bitmap, F!bitmaps
<1>2. /\ Len(frame) \in Nat /\ DOMAIN frame = 1 .. Len(frame) /\ frame \in Seq(FrameRec)
      /\ Len(box) \in Nat /\ Len(box) <= Len(frame) /\ i \in 1 .. Len(box) + 1
      /\ (Len(box) < Len(frame) => frame[Len(box) + 1].bitmap # frame[begin].bitmap)
      /\ frame[i] \in FrameRec
  BY <1>1, FramesFacts DEF PlaceInv, FramesOK, Control, Wrapping
<1>3. i \in DOMAIN frame /\ i <= Len(box)
  BY <1>1, <1>2
<1>4. /\ r.wrap = frame[i].wrap /\ r.cx = frame[i].w \div 2 /\ r.cy = frame[i].h \div 2
      /\ r.x = frame[i].x /\ r.y = frame[i].y
  BY <1>2 DEF FrameRec
<1>5. Edited(r)
  BY <1>1, <1>2 DEF Edited
<1> HIDE DEF r
<1>6. PICK i0 : i0 = i
  OBVIOUS
<1>7. frame'[i0] = r /\ box'[i0] = box[i0]
  BY <1>1, <1>2, <1>3, <1>5, <1>6 DEF Edited
<1>8. Kept(i)
  BY <1>1, <1>2, <1>3 DEF PlaceInv, AllFinished, Ready, Trimming
<1>9. frame[i].x \in Int /\ frame[i].y \in Int /\ frame[i].w \in Nat /\ frame[i].h \in Nat
  BY <1>2, FrameFields
<1>10. /\ r.cx = box[i].x + box[i].w \div 2 - r.x
       /\ r.cy = box[i].y + box[i].h \div 2 - r.y
  <2>1. /\ box[i].x = r.x /\ box[i].y = r.y
        /\ box[i].w = frame[i].w /\ box[i].h = frame[i].h
    BY <1>4, <1>8 DEF Kept, F!RectOfFrame
  <2>2. frame[i].w \div 2 \in Int /\ frame[i].h \div 2 \in Int /\ r.x \in Int /\ r.y \in Int
    BY <1>4, <1>9
  <2> QED
    BY <1>4, <2>1, <2>2
<1>11. Centered(i0)'
  BY <1>1, <1>4, <1>6, <1>7, <1>10 DEF Centered
<1> QED
  BY <1>1, <1>3, <1>5, <1>6, <1>11, CenterNext DEF Wrapping

(* StartWrap                                                               *)
LEMMA CenterStarts ==
  ASSUME PlaceInv, CenterInv, F!StartWrap
  PROVE  CenterInv'
<1>1. /\ placePc = "wrap" /\ i <= Len(frame) /\ frame[i].bitmap = frame[begin].bitmap
      /\ placePc' = "top" /\ i' = i
      /\ mid' = [x |-> frame[i].x + frame[i].w \div 2, y |-> frame[i].y + frame[i].h \div 2]
      /\ file' = file /\ box' = box /\ frame' = frame
  BY DEF F!StartWrap, F!InGroup, F!Count, F!Bitmap, F!bitmaps
<1>2. /\ Len(frame) \in Nat /\ DOMAIN frame = 1 .. Len(frame)
      /\ Len(box) \in Nat /\ Len(box) <= Len(frame) /\ i \in 1 .. Len(box) + 1
      /\ (Len(box) < Len(frame) => frame[Len(box) + 1].bitmap # frame[begin].bitmap)
  BY <1>1, FramesFacts DEF PlaceInv, FramesOK, Control, Wrapping
<1>3. Kept(i)
  <2>1. i <= Len(box)
    BY <1>1, <1>2
  <2> QED
    BY <1>1, <1>2, <2>1 DEF PlaceInv, AllFinished, Ready, Trimming
<1>4. mid'.x = box[i].x + box[i].w \div 2 /\ mid'.y = box[i].y + box[i].h \div 2
  BY <1>1, <1>3 DEF Kept, F!RectOfFrame
<1>5. Ready' = Ready
  BY <1>1 DEF Ready
<1> QED
  BY <1>1, <1>4, <1>5, CenterStays

(* A row or column less, or on to the next side                            *)
LEMMA CenterTrims ==
  ASSUME PlaceInv, CenterInv, placePc \in Trimming, placePc' \in Trimming,
         NEW r, Edited(r), r.cx = frame[i].cx, r.cy = frame[i].cy,
         UNCHANGED <<file, box, i, mid>>
  PROVE  CenterInv'
<1>1. i \in DOMAIN frame /\ i \in Nat
  BY TrimmingFacts, FramesFacts DEF PlaceInv
<1>2. Ready = i - 1 /\ Ready' = i - 1
  BY DEF Ready, Trimming
<1>3. /\ mid.x = box[i].x + box[i].w \div 2
      /\ mid.y = box[i].y + box[i].h \div 2
  BY DEF CenterInv, Trimming
<1> QED
  BY <1>1, <1>2, <1>3, CenterLater DEF Trimming

(* TrimTop                                                                 *)
LEMMA CenterTop ==
  ASSUME PlaceInv, CenterInv, F!TrimTop
  PROVE  CenterInv'
<1> DEFINE f == frame[i]
<1>1. placePc = "top" /\ file' = file /\ box' = box /\ mid' = mid /\ begin' = begin
  BY DEF F!TrimTop, F!bitmaps
<1>2. /\ i \in DOMAIN frame /\ f \in FrameRec /\ f.wrap /\ i \in Nat /\ frame \in Seq(FrameRec)
      /\ IntRect(F!RectOfFrame(i))
      /\ F!OpaqueIn(F!RectOfFrame(i), f.bitmap) = Seen(i)
  BY <1>1, TrimmingFacts, FramesFacts DEF Trimming, PlaceInv, FramesOK
<1>3. CASE /\ frame' = [frame EXCEPT ![i].y = f.y + 1, ![i].h = f.h - 1]
           /\ placePc' = placePc /\ i' = i
  <2>1. PICK g : g = [f EXCEPT !.y = f.y + 1, !.h = f.h - 1]
    OBVIOUS
  <2>2. g.cx = f.cx /\ g.cy = f.cy
    BY <1>2, <2>1 DEF FrameRec
  <2>3. Edited(g)
    BY <1>2, <1>3, <2>1 DEF Edited
  <2> QED
    BY <1>1, <1>3, <2>2, <2>3, CenterTrims DEF Trimming
<1>4. CASE /\ f.h = 0 /\ i' = i + 1 /\ placePc' = "wrap"
           /\ frame' = [frame EXCEPT ![i].x = 0, ![i].y = 0, ![i].w = 0, ![i].h = 0]
  <2>1. PICK g : g = [f EXCEPT !.x = 0, !.y = 0, !.w = 0, !.h = 0]
    OBVIOUS
  <2>2. g.cx = f.cx /\ g.cy = f.cy /\ g.wrap = f.wrap /\ g.bitmap = f.bitmap
    BY <1>2, <2>1 DEF FrameRec
  <2>3. Edited(g)
    BY <1>2, <1>4, <2>1 DEF Edited
  <2>4. f.cx = 0 /\ f.cy = 0
    <3>1. Ready = i - 1 /\ i \in Ready + 1 .. Len(frame)
      BY <1>1, <1>2 DEF Ready
    <3> QED
      BY <1>1, <3>1 DEF CenterInv
  <2>5. Seen(i) = {}
    <3>1. ASSUME NEW q \in F!OpaqueIn(F!RectOfFrame(i), f.bitmap) PROVE FALSE
      <4>1. q[2] \in Int /\ f.y <= q[2] /\ q[2] <= f.y + f.h - 1
        BY <1>2, OpaqueIsVisible DEF F!RectOfFrame
      <4>2. f.y \in Int
        BY <1>2, FrameFields
      <4> QED
        BY <1>4, <4>1, <4>2
    <3> QED
      BY <1>2, <3>1
  <2>6. PICK i0 : i0 = i
    OBVIOUS
  <2>7. frame'[i0] = g /\ box'[i0] = box[i0]
    BY <1>1, <1>2, <2>3, <2>6 DEF Edited
  <2>8. Seen(i0)' = Seen(i0)
    BY <1>1, <2>2, <2>6, <2>7 DEF Seen, F!OpaqueIn
  <2>9. Centered(i0)'
    BY <1>2, <2>2, <2>4, <2>5, <2>6, <2>7, <2>8 DEF Centered
  <2> QED
    BY <1>1, <1>2, <1>4, <2>3, <2>6, <2>9, CenterNext DEF Wrapping
<1>5. CASE i' = i /\ placePc' = "bottom" /\ frame' = frame
  <2>1. Edited(f)
    BY <1>2, <1>5 DEF Edited, FrameRec
  <2> QED
    BY <1>1, <1>5, <2>1, CenterTrims DEF Trimming
<1> QED
  BY <1>3, <1>4, <1>5 DEF F!TrimTop

(* TrimBottom and TrimLeft                                                 *)
LEMMA CenterSides ==
  ASSUME PlaceInv, CenterInv, F!TrimBottom \/ F!TrimLeft
  PROVE  CenterInv'
<1> DEFINE f == frame[i]
<1>1. /\ placePc \in Trimming /\ placePc' \in Trimming
      /\ file' = file /\ box' = box /\ i' = i /\ mid' = mid
  BY DEF F!TrimBottom, F!TrimLeft, F!bitmaps, Trimming
<1>2. i \in DOMAIN frame /\ f \in FrameRec /\ frame \in Seq(FrameRec)
  BY <1>1, TrimmingFacts DEF PlaceInv, FramesOK
<1>3. CASE frame' = [frame EXCEPT ![i].h = f.h - 1]
  <2>1. PICK g : g = [f EXCEPT !.h = f.h - 1]
    OBVIOUS
  <2>2. g.cx = f.cx /\ g.cy = f.cy
    BY <1>2, <2>1 DEF FrameRec
  <2>3. Edited(g)
    BY <1>2, <1>3, <2>1 DEF Edited
  <2> QED
    BY <1>1, <2>2, <2>3, CenterTrims
<1>4. CASE frame' = [frame EXCEPT ![i].x = f.x + 1, ![i].w = f.w - 1]
  <2>1. PICK g : g = [f EXCEPT !.x = f.x + 1, !.w = f.w - 1]
    OBVIOUS
  <2>2. g.cx = f.cx /\ g.cy = f.cy
    BY <1>2, <2>1 DEF FrameRec
  <2>3. Edited(g)
    BY <1>2, <1>4, <2>1 DEF Edited
  <2> QED
    BY <1>1, <2>2, <2>3, CenterTrims
<1>5. CASE frame' = frame
  <2>1. Edited(f)
    BY <1>2, <1>5 DEF Edited, FrameRec
  <2> QED
    BY <1>1, <2>1, CenterTrims
<1> QED
  BY <1>3, <1>4, <1>5 DEF F!TrimBottom, F!TrimLeft

(* TrimRight: the center of the box, in the trimmed frame                  *)
LEMMA CenterRight ==
  ASSUME PlaceInv, CenterInv, F!TrimRight
  PROVE  CenterInv'
<1> DEFINE f == frame[i]
<1>1. placePc = "right" /\ file' = file /\ box' = box /\ mid' = mid /\ begin' = begin
  BY DEF F!TrimRight, F!bitmaps
<1>2. /\ i \in DOMAIN frame /\ f \in FrameRec /\ f.wrap /\ frame \in Seq(FrameRec)
  BY <1>1, TrimmingFacts DEF Trimming, PlaceInv, FramesOK
<1>3. CASE /\ frame' = [frame EXCEPT ![i].w = f.w - 1]
           /\ placePc' = placePc /\ i' = i
  <2>1. PICK g : g = [f EXCEPT !.w = f.w - 1]
    OBVIOUS
  <2>2. g.cx = f.cx /\ g.cy = f.cy
    BY <1>2, <2>1 DEF FrameRec
  <2>3. Edited(g)
    BY <1>2, <1>3, <2>1 DEF Edited
  <2> QED
    BY <1>1, <1>3, <2>2, <2>3, CenterTrims DEF Trimming
<1>4. CASE /\ i' = i + 1 /\ placePc' = "wrap"
           /\ frame' = [frame EXCEPT ![i].cx = mid.x - f.x, ![i].cy = mid.y - f.y]
  <2>1. PICK g : g = [f EXCEPT !.cx = mid.x - f.x, !.cy = mid.y - f.y]
    OBVIOUS
  <2>2. /\ g.cx = mid.x - f.x /\ g.cy = mid.y - f.y /\ g.wrap = f.wrap /\ g.bitmap = f.bitmap
        /\ g.x = f.x /\ g.y = f.y
    BY <1>2, <2>1 DEF FrameRec
  <2>3. Edited(g)
    BY <1>2, <1>4, <2>1 DEF Edited
  <2>4. mid.x = box[i].x + box[i].w \div 2 /\ mid.y = box[i].y + box[i].h \div 2
    BY <1>1 DEF CenterInv, Trimming
  <2>5. Seen(i) # {}
    BY <1>1 DEF PlaceInv, Trim
  <2>6. PICK i0 : i0 = i
    OBVIOUS
  <2>7. frame'[i0] = g /\ box'[i0] = box[i0]
    BY <1>1, <1>2, <2>3, <2>6 DEF Edited
  <2>8. Seen(i0)' = Seen(i0)
    BY <1>1, <2>2, <2>6, <2>7 DEF Seen, F!OpaqueIn
  <2>9. /\ g.cx = box[i0].x + box[i0].w \div 2 - g.x
        /\ g.cy = box[i0].y + box[i0].h \div 2 - g.y
    <3>1. /\ frame[i].x \in Int /\ frame[i].y \in Int
          /\ box[i].x \in Int /\ box[i].y \in Int /\ box[i].w \in Nat /\ box[i].h \in Nat
      BY <1>1, TrimmingFacts, FrameFields DEF Trimming, BoxRec
    <3>2. box[i].w \div 2 \in Int /\ box[i].h \div 2 \in Int
      BY <3>1
    <3> QED
      BY <2>2, <2>4, <2>6, <3>1, <3>2
  <2>a. Seen(i0)' # {}
    BY <2>5, <2>6, <2>8
  <2>10. Centered(i0)'
    <3>1. ~(frame[i0].wrap /\ Seen(i0) = {})'
      BY <2>a
    <3>2. /\ frame'[i0].cx = box'[i0].x + box'[i0].w \div 2 - frame'[i0].x
          /\ frame'[i0].cy = box'[i0].y + box'[i0].h \div 2 - frame'[i0].y
      BY <2>7, <2>9
    <3> QED
      BY <3>1, <3>2 DEF Centered
  <2> QED
    BY <1>1, <1>2, <1>4, <2>3, <2>6, <2>10, CenterNext DEF Wrapping
<1> QED
  BY <1>3, <1>4 DEF F!TrimRight

(* Every step of PlaceBoxAndShrinkWrap_All                                 *)
LEMMA CenterWork ==
  ASSUME PlaceInv, CenterInv, F!Work
  PROVE  CenterInv'
BY CenterLoops, CenterPlaces, CenterKeeps, CenterStarts, CenterTop, CenterSides, CenterRight
DEF F!Work

(* Steps that leave the frames alone, once all are finished or always      *)
LEMMA CenterDone ==
  ASSUME PlaceInv, CenterInv, UNCHANGED <<file, frame, placing>>,
         placePc = "done" \/ UNCHANGED loop
  PROVE  CenterInv'
<1>1. box' = box /\ mid' = mid /\ placePc' = placePc
  BY DEF placing
<1>2. CASE placePc \in {"failed", "crashed"}
  BY <1>1, <1>2 DEF CenterInv
<1>3. CASE placePc \notin {"failed", "crashed"}
  <2>1. Ready' = Ready
    BY <1>1 DEF Ready, loop
  <2>2. placePc \in Trimming =>
          /\ mid'.x = box[i'].x + box[i'].w \div 2
          /\ mid'.y = box[i'].y + box[i'].h \div 2
    BY <1>1, <1>3 DEF CenterInv, Trimming, loop
  <2> QED
    BY <1>1, <1>3, <2>1, <2>2, CenterStays
<1> QED
  BY <1>2, <1>3

(* Begin                                                                   *)
LEMMA CenterBegins ==
  ASSUME PlaceInv, NEW t \in Textures \cup Later, F!Begin(t)
  PROVE  CenterInv'
<1>1. /\ begin' = 1 /\ placePc' = "group"
      /\ \A f \in DOMAIN frame' : frame'[f].cx = 0 /\ frame'[f].cy = 0
  BY DEF F!Begin
<1>2. PlaceInv'
  BY PlaceBegins
<1>3. DOMAIN frame' = 1 .. Len(frame')
  <2>1. frame' \in Seq(FrameRec)
    BY <1>2 DEF PlaceInv, FramesOK
  <2> QED
    BY <2>1
<1>4. Ready' = 0
  BY <1>1 DEF Ready
<1>5. placePc' \notin Trimming
  BY <1>1 DEF Trimming
<1> QED
  BY <1>1, <1>3, <1>4, <1>5 DEF CenterInv

-----------------------------------------------------------------------------
(* The table.                                                              *)

(* What SaveTable writes                                                   *)
Entries == [f \in DOMAIN frame |->
             [x |-> Word(dest[f].x), y |-> Word(dest[f].y),
              w |-> Word(frame[f].w), h |-> Word(frame[f].h),
              cx |-> Short(frame[f].cx), cy |-> Short(frame[f].cy),
              center |-> frame[f].wrap]]

(* Frames keep the sizes they were packed with, and the table is that of   *)
(* this texture or empty.                                                  *)
TableMade ==
  /\ stage \in {"pack", "copy", "passed"} => size = Sizes
  /\ table = IF stage = "passed" THEN Entries ELSE <<>>

(* Both hold before the first texture.                                     *)
LEMMA TableInitial ==
  ASSUME Init
  PROVE  CenterInv /\ TableMade
<1>1. /\ stage = "passed" /\ frame = <<>> /\ box = <<>> /\ size = <<>> /\ table = <<>>
      /\ placePc = "done"
  BY DEF Init, F!Init, P!Init
<1>2. CenterInv
  BY <1>1 DEF CenterInv, Ready, Trimming
<1>3. DOMAIN frame = {}
  BY <1>1
<1>4. Sizes = <<>> /\ Entries = <<>>
  BY <1>3 DEF Sizes, Entries
<1> QED
  BY <1>1, <1>2, <1>4 DEF TableMade

(* Pack_All does not change the sizes it was given.                        *)
LEMMA SizesStay ==
  ASSUME P!Work
  PROVE  size' = size
BY DEF P!Work, P!QuickReject, P!StartTry, P!FirstPass, P!SortPass, P!SkipFrame, P!InsertFrame,
       P!Search, P!Placed, P!NoRoom, P!Finish

(* Every step keeps the centers                                            *)
LEMMA CenterStep ==
  ASSUME TexInv, CenterInv, [Next]_vars
  PROVE  CenterInv'
<1>0. PlaceInv
  BY DEF TexInv
<1>1. ASSUME NEW t \in Textures \cup Later, Begin(t) PROVE CenterInv'
  BY <1>0, <1>1, CenterBegins DEF Begin
<1>2. CASE PlaceBoxAndShrinkWrap
  BY <1>0, <1>2, CenterWork DEF PlaceBoxAndShrinkWrap
<1>3. CASE StartPack \/ PackFrames \/ SaveTable \/ UNCHANGED vars
  <2>1. UNCHANGED <<file, frame, placing>> /\ UNCHANGED loop
    BY <1>3 DEF StartPack, PackFrames, SaveTable, vars, bitmaps
  <2> QED
    BY <1>0, <2>1, CenterDone
<1>4. CASE StartCopy \/ CopyFrames
  <2>1. placePc = "done" /\ UNCHANGED placing
    BY <1>4 DEF TexInv, Stages, StartCopy, CopyFrames
  <2>2. file' = file /\ frame' = frame
    BY <1>4 DEF StartCopy, CopyFrames, C!CopyAll, C!Work, C!OpenGroup, C!Open, C!CopyFrame,
       C!CopiedAll, C!SaveDestBitmap, C!bitmaps
  <2> QED
    BY <1>0, <2>1, <2>2, CenterDone
<1> QED
  BY <1>1, <1>2, <1>3, <1>4 DEF Next, Work

(* and the table.                                                          *)
LEMMA TableStep ==
  ASSUME TexInv, TableMade, [Next]_vars
  PROVE  TableMade'
<1>1. ASSUME NEW t, Begin(t) PROVE TableMade'
  BY <1>1 DEF Begin, TableMade
<1>2. CASE PlaceBoxAndShrinkWrap
  BY <1>2 DEF PlaceBoxAndShrinkWrap, TableMade, TexInv, Stages
<1>3. CASE StartPack
  <2>1. /\ size' = Sizes /\ frame' = frame /\ table' = table /\ stage = "place"
        /\ stage' = "pack"
    BY <1>3 DEF StartPack, P!PackAll
  <2> QED
    BY <2>1 DEF TableMade, Sizes
<1>4. CASE PackFrames
  <2>1. size' = size /\ frame' = frame /\ table' = table /\ stage = "pack" /\ stage' = "pack"
    BY <1>4, SizesStay DEF PackFrames
  <2> QED
    BY <2>1 DEF TableMade, Sizes
<1>5. CASE StartCopy \/ CopyFrames
  <2>1. /\ size' = size /\ frame' = frame /\ table' = table /\ stage \in {"pack", "copy"}
        /\ stage' = "copy"
    BY <1>5 DEF StartCopy, CopyFrames, C!CopyAll, C!Work, C!OpenGroup, C!CopyFrame,
       C!CopiedAll, C!SaveDestBitmap, packing
  <2> QED
    BY <2>1 DEF TableMade, Sizes
<1>6. CASE SaveTable
  <2>1. /\ size' = size /\ frame' = frame /\ dest' = dest /\ stage = "copy" /\ stage' = "passed"
        /\ table' = Entries
    BY <1>6 DEF SaveTable, packing, Entries
  <2> QED
    BY <2>1 DEF TableMade, Sizes, Entries
<1>7. CASE UNCHANGED vars
  <2>1. /\ size' = size /\ frame' = frame /\ dest' = dest /\ stage' = stage /\ table' = table
    BY <1>7 DEF vars, packing
  <2> QED
    BY <2>1 DEF TableMade, Sizes, Entries
<1> QED
  BY <1>1, <1>2, <1>3, <1>4, <1>5, <1>6, <1>7 DEF Next, Work

(* Each frame of every texture has the center of its box, wherever it was  *)
(* trimmed, and the table is made from the frames as they were packed.     *)
THEOREM CentersAndTable == Spec => [](CenterInv /\ TableMade)
<1>1. Init => CenterInv /\ TableMade
  BY TableInitial
<1>2. TexInv /\ CenterInv /\ TableMade /\ [Next]_vars => (CenterInv /\ TableMade)'
  BY CenterStep, TableStep
<1> QED
  BY <1>1, <1>2, TextureInvariant, PTL DEF Spec

(* The sides Pack_All tries, whatever the texture                          *)
LEMMA SidesStep ==
  ASSUME TexInv, PixelsCounted, PP!SideInv, [Next]_vars
  PROVE  PP!SideInv'
<1>0. PP!PackAssumption /\ PP!Inv /\ PP!PixelsCounted
  BY PackAssumed, SameCounted DEF TexInv
<1>1. CASE PackFrames
  BY <1>0, <1>1, SameWork, PP!SideWork DEF PackFrames
<1>2. CASE StartPack
  <2>1. PP!PackAll(Sizes, Border)
    BY <1>2, SamePackAll DEF StartPack
  <2>2. PICK s, b : s = Sizes /\ b = Border
    OBVIOUS
  <2>3. PP!PackAll(s, b)
    BY <2>1, <2>2
  <2> QED
    BY ONLY <1>0, <2>3, PP!SideInv, PP!SidePackAll
<1>3. CASE ~PackFrames /\ ~StartPack
  <2>1. UNCHANGED <<size, dest, side, packPc>>
    BY <1>3 DEF Next, Work, Begin, PlaceBoxAndShrinkWrap, StartCopy, CopyFrames, SaveTable,
       vars, packing, C!CopyAll, C!Work, C!OpenGroup, C!CopyFrame, C!CopiedAll,
       C!SaveDestBitmap
  <2> QED
    BY <2>1, PP!SideSame
<1> QED
  BY <1>1, <1>2, <1>3

(* cFrame::Pack_All: no texture is larger than the largest whose pixels a  *)
(* long can count, and no frame is placed further from its corner.         *)
THEOREM TextureSidesFit == Spec /\ []PixelsCounted => []PP!SideInv
<1>1. Init => PP!SideInv
  <2>1. SUFFICES ASSUME Init PROVE PP!SideInv
    OBVIOUS
  <2>2. size = <<>> /\ side = StartSide /\ dest = [f \in PP!Slots |-> [x |-> 0, y |-> 0]]
    BY <2>1 DEF Init, P!Init, P!Slots, PP!Slots
  <2> QED
    BY <2>2, PackAssumed, PP!SideStart
<1>2. TexInv /\ PixelsCounted /\ PP!SideInv /\ [Next]_vars => PP!SideInv'
  BY SidesStep
<1> QED
  BY <1>1, <1>2, TextureInvariant, PTL DEF Spec

(* cBitmap: boxes are no larger than a WORD can say.                       *)
BoxesSmall ==
  \A f \in DOMAIN box : /\ box[f].w < TwoTo[LongBits \div 2]
                        /\ box[f].h < TwoTo[LongBits \div 2]

(* A WORD has twice as many values as a texture can have columns.          *)
LEMMA WordSize ==
  /\ TwoTo[LongBits \div 2] = 2 * PP!SideMax /\ PP!SideMax \in Nat \ {0}
  /\ TwoTo[LongBits \div 2 - 1] = PP!SideMax
<1>1. PP!TwoTo[LongBits \div 2] = 2 * PP!SideMax /\ PP!SideMax \in Nat \ {0}
  BY PackAssumed, PP!BitsFacts
<1> QED
  BY <1>1, SamePowers DEF PP!SideMax

(* A WORD keeps what is not larger,                                        *)
LEMMA WordExact ==
  ASSUME NEW x \in Nat, x < TwoTo[LongBits \div 2]
  PROVE  Word(x) = x
<1>1. PICK M \in Nat \ {0} : M = TwoTo[LongBits \div 2]
  BY WordSize
<1>2. x % M = x
  BY <1>1
<1> QED
  BY <1>1, <1>2 DEF Word

(* a short what is not larger than half of it either way.                  *)
LEMMA ShortExact ==
  ASSUME NEW x \in Int, -PP!SideMax <= x, x < PP!SideMax
  PROVE  Short(x) = x
<1>1. PICK K \in Nat \ {0} : K = PP!SideMax
  BY WordSize
<1>2. PICK M \in Nat \ {0} : M = 2 * K
  BY <1>1
<1>3. Short(x) = IF x % M < K THEN x % M ELSE (x % M) - M
  BY <1>1, <1>2, WordSize DEF Short, Word
<1>4. -K <= x /\ x < K
  BY <1>1
<1>5. CASE x >= 0
  <2>1. x % M = x
    BY <1>2, <1>4, <1>5
  <2> QED
    BY <1>3, <1>4, <2>1
<1>6. CASE x < 0
  <2>1. x % M = x + M
    BY <1>2, <1>4, <1>6
  <2> QED
    BY <1>2, <1>3, <1>4, <2>1
<1> QED
  BY <1>5, <1>6

(* A finished frame is not larger than its box, and its center is no       *)
(* further from its corner than half the box.                              *)
LEMMA FinishedFrame ==
  ASSUME TexInv, CenterInv, BoxesSmall, placePc = "done", NEW f \in DOMAIN frame
  PROVE  /\ frame[f].w \in Nat /\ frame[f].w < TwoTo[LongBits \div 2]
         /\ frame[f].h \in Nat /\ frame[f].h < TwoTo[LongBits \div 2]
         /\ frame[f].cx \in Int /\ -PP!SideMax <= frame[f].cx /\ frame[f].cx < PP!SideMax
         /\ frame[f].cy \in Int /\ -PP!SideMax <= frame[f].cy /\ frame[f].cy < PP!SideMax
<1>1. /\ DOMAIN frame = 1 .. Len(frame) /\ Len(frame) \in Nat /\ frame[f] \in FrameRec
      /\ Len(box) = Len(frame) /\ f \in DOMAIN box /\ box[f] \in BoxRec
  BY FramesFacts DEF TexInv, PlaceInv, Control
<1>2. /\ frame[f].x \in Int /\ frame[f].y \in Int /\ frame[f].w \in Nat /\ frame[f].h \in Nat
      /\ frame[f].cx \in Int /\ frame[f].cy \in Int
      /\ box[f].x \in Int /\ box[f].y \in Int /\ box[f].w \in Nat /\ box[f].h \in Nat
  BY <1>1, FrameFields DEF BoxRec
<1>3. Ready = Len(box) /\ f \in 1 .. Ready
  BY <1>1 DEF Ready
<1>4. Finished(f) /\ Centered(f)
  BY <1>3 DEF TexInv, PlaceInv, AllFinished, CenterInv
<1>5. PICK K \in Nat \ {0} : K = PP!SideMax /\ TwoTo[LongBits \div 2] = 2 * K
  BY WordSize
<1>6. box[f].w < 2 * K /\ box[f].h < 2 * K
  BY <1>1, <1>5 DEF BoxesSmall
<1>7. CASE frame[f].wrap /\ Seen(f) = {}
  <2>1. F!RectOfFrame(f) = [x |-> 0, y |-> 0, w |-> 0, h |-> 0]
    BY <1>4, <1>7 DEF Finished, Tight
  <2>2. frame[f].w = 0 /\ frame[f].h = 0
    BY <2>1 DEF F!RectOfFrame
  <2>3. frame[f].cx = 0 /\ frame[f].cy = 0
    BY <1>4, <1>7 DEF Centered
  <2> QED
    BY <1>5, <2>2, <2>3
<1>8. CASE ~(frame[f].wrap /\ Seen(f) = {})
  <2>1. /\ box[f].x <= frame[f].x /\ frame[f].x + frame[f].w <= box[f].x + box[f].w
        /\ box[f].y <= frame[f].y /\ frame[f].y + frame[f].h <= box[f].y + box[f].h
    <3>1. CASE frame[f].wrap
      <4>1. Inside(F!RectOfFrame(f), box[f])
        BY <1>4, <1>8, <3>1 DEF Finished, Tight
      <4> QED
        BY <4>1 DEF Inside, F!RectOfFrame
    <3>2. CASE ~frame[f].wrap
      <4>1. F!RectOfFrame(f) = box[f]
        BY <1>4, <3>2 DEF Finished, Kept
      <4>2. /\ box[f].x = frame[f].x /\ box[f].y = frame[f].y
            /\ box[f].w = frame[f].w /\ box[f].h = frame[f].h
        BY <4>1 DEF F!RectOfFrame
      <4> QED
        BY <1>2, <4>2
    <3> QED
      BY <3>1, <3>2
  <2>2. /\ frame[f].cx = box[f].x + box[f].w \div 2 - frame[f].x
        /\ frame[f].cy = box[f].y + box[f].h \div 2 - frame[f].y
    BY <1>4, <1>8 DEF Centered
  <2>3. /\ -K <= frame[f].cx /\ frame[f].cx < K
        /\ -K <= frame[f].cy /\ frame[f].cy < K
    BY <1>2, <1>6, <2>1, <2>2
  <2> QED
    BY <1>2, <1>5, <1>6, <2>1, <2>3
<1> QED
  BY <1>7, <1>8

(* SaveTable writes what it was given.                                     *)
LEMMA TableHolds ==
  ASSUME TexInv, CenterInv, TableMade, BoxesSmall, PP!SideInv
  PROVE  TableExact
<1>1. SUFFICES ASSUME NEW f \in DOMAIN table
               PROVE  /\ <<table[f].x, table[f].y>> = <<dest[f].x, dest[f].y>>
                      /\ <<table[f].w, table[f].h>> = <<frame[f].w, frame[f].h>>
                      /\ <<table[f].cx, table[f].cy>> = <<frame[f].cx, frame[f].cy>>
  BY DEF TableExact
<1>2. stage = "passed" /\ table = Entries
  BY DEF TableMade
<1>3. placePc = "done" /\ f \in DOMAIN frame
  BY <1>2 DEF TexInv, Stages, Entries
<1>4. dest[f].x \in Nat /\ dest[f].y \in Nat /\ dest[f].x < PP!SideMax /\ dest[f].y < PP!SideMax
  <2>1. f \in PP!Slots
    <3>1. FrameMax \in Nat
      BY PackAssumed DEF P!PackAssumption
    <3> QED
      BY <1>3, <3>1, FramesFacts DEF TexInv, PlaceInv, FramesOK, PP!Slots
  <2>2. dest \in [PP!Slots -> [x : Nat, y : Nat]]
    BY DEF TexInv, PP!Inv, PP!TypeOK
  <2> QED
    BY <2>1, <2>2 DEF PP!SideInv
<1>5. dest[f].x < TwoTo[LongBits \div 2] /\ dest[f].y < TwoTo[LongBits \div 2]
  BY <1>4, WordSize
<1>6. Word(dest[f].x) = dest[f].x /\ Word(dest[f].y) = dest[f].y
  BY <1>4, <1>5, WordExact
<1>7. /\ Word(frame[f].w) = frame[f].w /\ Word(frame[f].h) = frame[f].h
      /\ Short(frame[f].cx) = frame[f].cx /\ Short(frame[f].cy) = frame[f].cy
  BY <1>3, FinishedFrame, WordExact, ShortExact
<1> QED
  BY <1>2, <1>3, <1>6, <1>7 DEF Entries

(* SaveTable: no field of the table is cut off, whatever the width of      *)
(* long, as long as a long can count the pixels of the frames and a WORD   *)
(* can say how large their boxes are.                                      *)
THEOREM TableIsExact == Spec /\ []PixelsCounted /\ []BoxesSmall => []TableExact
<1>1. TexInv /\ CenterInv /\ TableMade /\ BoxesSmall /\ PP!SideInv => TableExact
  BY TableHolds
<1> QED
  BY <1>1, TextureInvariant, CentersAndTable, TextureSidesFit, PTL

-----------------------------------------------------------------------------
(* The tree. When FrameSizes are all sizes of frames, the two copies of    *)
(* Pack ask the same of it.                                                *)
LEMMA SameTreeNext ==
  ASSUME AnySizes \subseteq FrameSizes, PP!Tree!Next
  PROVE  P!Tree!Next
<1>1. FrameSizes = AnySizes
  BY PackAssumed DEF P!PackAssumption, AnySizes
<1>2. P!BoxSizes = PP!BoxSizes
  BY <1>1 DEF P!BoxSizes, PP!BoxSizes
<1>3. P!RootSizes = PP!RootSizes
  BY SamePowers DEF P!RootSizes, PP!RootSizes, P!Sides, PP!Sides
<1> QED
  BY <1>2, <1>3, SameTree, SameVisit DEF P!Tree!Next, PP!Tree!Next

(* Every step of a texture is one of the tree's callers, or not theirs.    *)
LEMMA TreeStep ==
  ASSUME AnySizes \subseteq FrameSizes, TexInv, PixelsCounted, PP!SideInv, [Next]_vars
  PROVE  [P!Tree!Next]_P!Tree!vars
<1>1. CASE PackFrames
  <2>1. PP!PackAssumption /\ PP!Inv /\ PP!PixelsCounted /\ PP!SideInv /\ PP!Work
    BY <1>1, PackAssumed, SameCounted, SameWork DEF TexInv, PackFrames
  <2>2. [PP!Tree!Next]_PP!Tree!vars
    BY <2>1, PP!TreeUse DEF PP!Next
  <2> QED
    BY <2>2, SameTreeNext DEF P!Tree!vars, PP!Tree!vars
<1>2. CASE ~PackFrames
  <2>1. UNCHANGED <<heap, call, stack, ret, claimed>>
    BY <1>2 DEF Next, Work, Begin, PlaceBoxAndShrinkWrap, StartPack, P!PackAll, P!tree,
       StartCopy, CopyFrames, SaveTable, vars, packing
  <2> QED
    BY <2>1 DEF P!Tree!vars
<1> QED
  BY <1>1, <1>2

(* cNode: for any number of textures, Pack_All uses the tree only as it is *)
(* made to be used, so that all that is proved of it holds.                *)
THEOREM TextureUsesTree ==
  ASSUME AnySizes \subseteq FrameSizes
  PROVE  Spec /\ []PixelsCounted => TreeSpec
<1>1. ASSUME Init PROVE P!Tree!Init
  <2>1. P!Init
    BY <1>1 DEF Init
  <2>2. FrameSizes = AnySizes
    BY PackAssumed DEF P!PackAssumption, AnySizes
  <2>3. P!BoxSizes = PP!BoxSizes
    BY <2>2 DEF P!BoxSizes, PP!BoxSizes
  <2>4. call \in P!BoxSizes
    <3>1. P!BoxSizes # {}
      <4>1. [w |-> 1, h |-> 1] \in {z \in AnySizes : z.w # 0} /\ 0 \in 0 .. BorderMax
        BY PackAssumed DEF P!PackAssumption, AnySizes
      <4>2. [w |-> 1 + 0, h |-> 1 + 0] \in P!BoxSizes
        <5>1. [w |-> [w |-> 1, h |-> 1].w + 0, h |-> [w |-> 1, h |-> 1].h + 0] \in P!BoxSizes
          BY <2>2, <4>1 DEF P!BoxSizes
        <5> QED
          BY <5>1
      <4> QED
        BY <4>2
    <3> DEFINE S == P!BoxSizes
    <3>2. S # {} /\ call = CHOOSE b \in S : TRUE
      BY <2>1, <3>1 DEF P!Init
    <3> HIDE DEF S
    <3>3. call \in S
      BY <3>2
    <3> QED
      BY <3>3 DEF S
  <2>5. [w |-> StartSide, h |-> StartSide] \in P!RootSizes
    <3>1. [w |-> StartSide + 0, h |-> StartSide + 0] \in PP!RootSizes /\ StartSide + 0 = StartSide
      <4>1. StartSide \in PP!Sides /\ StartSide \in Nat
        BY PackAssumed, PP!FirstSquare, PP!StartSideIsNat
      <4>2. 0 \in 0 .. BorderMax
        BY PackAssumed DEF P!PackAssumption
      <4> QED
        BY <4>1, <4>2 DEF PP!RootSizes
    <3>2. P!RootSizes = PP!RootSizes
      BY SamePowers DEF P!RootSizes, PP!RootSizes, P!Sides, PP!Sides
    <3> QED
      BY <3>1, <3>2
  <2> QED
    BY <2>1, <2>4, <2>5 DEF P!Init, P!Tree!Init, P!Tree!Null
<1>2. TexInv /\ PixelsCounted /\ PP!SideInv /\ [Next]_vars => [P!Tree!Next]_P!Tree!vars
  BY TreeStep
<1> QED
  BY <1>1, <1>2, TextureInvariant, TextureSidesFit, PTL DEF Spec, TreeSpec, P!TreeSpec, P!Tree!Spec

-----------------------------------------------------------------------------
(* The atlas.                                                              *)

(* The number of frames Copy_All has come past                             *)
Copied == IF copyPc = "copy" THEN i - 1
          ELSE IF copyPc = "group" THEN begin - 1 ELSE Len(frame)

(* Copy does not leave frame f out.                                        *)
Shown(f) ==
  /\ frame[f].w # 0 /\ Source(f).w # 0 /\ allocated
  /\ frame[f].x + frame[f].w <= metrics[frame[f].bitmap].w
  /\ frame[f].y + frame[f].h <= metrics[frame[f].bitmap].h

(* Its pixels in the atlas                                                 *)
Area(f) == (dest[f].x .. dest[f].x + frame[f].w - 1) \X (dest[f].y .. dest[f].y + frame[f].h - 1)

(* The pixel of the bitmap that belongs at place q of it                   *)
PixelAt(f, q) ==
  Look(Source(f), frame[f].x + (q[1] - dest[f].x), frame[f].y + (q[2] - dest[f].y))

(* The atlas has the pixels of all frames copied so far, and no others.    *)
CopyInv ==
  /\ stage = "copy" /\ copyPc = "copy" =>
       /\ begin <= Len(frame)
       /\ Opened(frame[begin].bitmap) <=> Source(begin).w # 0
  /\ stage \in {"copy", "passed"} =>
       /\ \A f \in 1 .. Copied : Shown(f) =>
            \A q \in Area(f) : (copyPc = "saved" => PixelAt(f, q).a # 0) =>
              q \in DOMAIN atlas /\ atlas[q] = PixelAt(f, q)
       /\ \A q \in DOMAIN atlas : \E f \in 1 .. Copied :
            frame[f].w # 0 /\ q \in Area(f) /\ atlas[q] = PixelAt(f, q)

(* What these are made of                                                  *)
LEMMA CopiedSame ==
  ASSUME NEW f, file' = file, frame' = frame, dest' = dest, allocated' = allocated,
         metrics'[frame[f].bitmap] = metrics[frame[f].bitmap]
  PROVE  /\ Shown(f)' <=> Shown(f)
         /\ Area(f)' = Area(f)
         /\ \A q : PixelAt(f, q)' = PixelAt(f, q)
<1>1. Source(f)' = Source(f)
  BY DEF Source
<1>2. Shown(f)' <=> Shown(f)
  BY <1>1 DEF Shown
<1>3. Area(f)' = Area(f)
  BY DEF Area
<1>4. \A q : PixelAt(f, q)' = PixelAt(f, q)
  BY <1>1 DEF PixelAt, Look
<1> QED
  BY <1>2, <1>3, <1>4

(* Copy_All does not go beyond the last frame.                             *)
LEMMA CopiedFrames ==
  ASSUME PlaceInv
  PROVE  /\ Copied \in Nat /\ Copied <= Len(frame) /\ Len(frame) \in Nat
         /\ \A f \in 1 .. Copied : f \in DOMAIN frame
BY FramesFacts DEF PlaceInv, FramesOK, Copied

(* Steps that leave the atlas alone                                        *)
LEMMA CopyKeeps ==
  ASSUME PlaceInv, CopyInv, stage \in {"copy", "passed"}, Copied' = Copied,
         UNCHANGED <<file, frame, dest, atlas, allocated>>,
         \A f \in DOMAIN frame : metrics'[frame[f].bitmap] = metrics[frame[f].bitmap],
         copyPc' = "saved" => copyPc = "saved",
         copyPc = "saved" => copyPc' = "saved",
         (stage = "copy" /\ copyPc = "copy" =>
            /\ begin <= Len(frame)
            /\ Opened(frame[begin].bitmap) <=> Source(begin).w # 0)'
  PROVE  CopyInv'
<1>1. /\ \A f \in 1 .. Copied : Shown(f) =>
            \A q \in Area(f) : (copyPc = "saved" => PixelAt(f, q).a # 0) =>
              q \in DOMAIN atlas /\ atlas[q] = PixelAt(f, q)
      /\ \A q \in DOMAIN atlas : \E f \in 1 .. Copied :
            frame[f].w # 0 /\ q \in Area(f) /\ atlas[q] = PixelAt(f, q)
  BY DEF CopyInv
<1>2. PICK n : n = Copied
  OBVIOUS
<1>3. Copied' = n
  BY <1>2
<1>4. \A f \in 1 .. n : f \in DOMAIN frame
  BY <1>2, CopiedFrames
<1>5. \A f \in 1 .. n : /\ Shown(f)' <=> Shown(f)
                        /\ Area(f)' = Area(f)
                        /\ \A q : PixelAt(f, q)' = PixelAt(f, q)
  BY <1>4, CopiedSame
<1>6. \A f \in 1 .. n : Shown(f)' =>
        \A q \in Area(f)' : (copyPc' = "saved" => PixelAt(f, q)'.a # 0) =>
          q \in DOMAIN atlas' /\ atlas'[q] = PixelAt(f, q)'
  <2>1. ASSUME NEW f \in 1 .. n, Shown(f)', NEW q \in Area(f)',
               copyPc' = "saved" => PixelAt(f, q)'.a # 0
        PROVE  q \in DOMAIN atlas' /\ atlas'[q] = PixelAt(f, q)'
    BY <1>1, <1>2, <1>5, <2>1
  <2> QED
    BY <2>1
<1>7. \A q \in DOMAIN atlas' : \E f \in 1 .. n :
        frame'[f].w # 0 /\ q \in Area(f)' /\ atlas'[q] = PixelAt(f, q)'
  <2>1. ASSUME NEW q \in DOMAIN atlas'
        PROVE  \E f \in 1 .. n :
                 frame'[f].w # 0 /\ q \in Area(f)' /\ atlas'[q] = PixelAt(f, q)'
    <3>1. PICK f \in 1 .. n : frame[f].w # 0 /\ q \in Area(f) /\ atlas[q] = PixelAt(f, q)
      BY <1>1, <1>2
    <3> QED
      BY <1>5, <3>1
  <2> QED
    BY <2>1
<1> QED
  BY <1>3, <1>6, <1>7 DEF CopyInv

(* OpenGroup: a bitmap that has a picture is open now.                     *)
LEMMA OpenShows ==
  ASSUME BitmapsInv, NEW b \in DOMAIN file, Open(b)
  PROVE  Opened(b)' <=> Picture(file[b]).w # 0
<1>1. b \in Slots /\ DOMAIN fib = Slots
  BY FilesInSlots DEF BitmapsInv, OnlyActive
<1> QED
  BY <1>1 DEF Open, Opened, OthersFreed, BitmapsInv, OnlyActive, Picture, NoFib

(* Copy_All opens the bitmap of a group: the sizes of those that were      *)
(* settled when their boxes were made are not touched again.               *)
LEMMA CopyOpenGroup ==
  ASSUME TexInv, CopyInv, CopyFrames, C!OpenGroup
  PROVE  CopyInv'
<1>1. /\ stage = "copy" /\ placePc = "done" /\ begin <= Len(frame) /\ i' = begin
      /\ Open(frame[begin].bitmap) /\ copyPc = "group" /\ copyPc' = "copy" /\ stage' = "copy"
      /\ UNCHANGED <<frame, dest, side, atlas, allocated, begin>>
  BY SameOpen DEF CopyFrames, C!OpenGroup, C!Bitmap, TexInv, Stages
<1>2. /\ Len(frame) \in Nat /\ DOMAIN frame = 1 .. Len(frame) /\ begin \in DOMAIN frame
      /\ frame[begin].bitmap \in DOMAIN file /\ Len(box) = Len(frame)
      /\ DOMAIN box = DOMAIN frame
      /\ \A f \in DOMAIN frame : frame[f].bitmap \in DOMAIN file
  BY <1>1, FramesFacts DEF TexInv, PlaceInv, FramesOK, Control
<1>3. PICK b \in DOMAIN file : b = frame[begin].bitmap /\ Open(b)
  BY <1>1, <1>2
<1>4. BitmapsInv /\ PlaceInv
  BY DEF TexInv, PlaceInv
<1>5. file' = file /\ \A c \in DOMAIN file : Settled(c) => metrics'[c] = metrics[c]
  BY <1>3, <1>4, OpenSettles
<1>6. \A f \in DOMAIN frame : metrics'[frame[f].bitmap] = metrics[frame[f].bitmap]
  BY <1>2, <1>4, <1>5 DEF PlaceInv, Made
<1>7. Opened(b)' <=> Picture(file[b]).w # 0
  BY <1>3, <1>4, OpenShows
<1>8. (Opened(frame[begin].bitmap) <=> Source(begin).w # 0)'
  <2>1. frame'[begin'].bitmap = b /\ begin' = begin
    BY <1>1, <1>3
  <2>2. Source(begin)' = Picture(file[b])
    BY <1>5, <2>1 DEF Source
  <2>3. Opened(frame[begin].bitmap)' <=> Opened(b)'
    BY <2>1 DEF Opened
  <2> QED
    BY <1>7, <2>1, <2>2, <2>3
<1>9. Copied' = Copied
  BY <1>1 DEF Copied
<1>10. begin' <= Len(frame')
  BY <1>1
<1> QED
  BY <1>1, <1>4, <1>5, <1>6, <1>8, <1>9, <1>10, CopyKeeps

(* The places of two frames in the texture have no pixel in common, and    *)
(* none lies outside: Sort has found them all.                             *)
LEMMA AreasApart ==
  ASSUME TexInv, TableMade, PixelsCounted, stage = "copy", NEW f \in DOMAIN frame, frame[f].w # 0
  PROVE  /\ dest[f].x + frame[f].w <= side /\ dest[f].y + frame[f].h <= side
         /\ \A g \in DOMAIN frame : g # f /\ frame[g].w # 0 => \A q \in Area(f) : q \notin Area(g)
<1>1. /\ DOMAIN frame = 1 .. Len(frame) /\ Len(frame) \in Nat /\ Len(frame) <= FrameMax
      /\ \A g \in DOMAIN frame : frame[g].w \in Nat /\ frame[g].h \in Nat
  <2>1. \A g \in DOMAIN frame : frame[g] \in FrameRec
    BY FramesFacts DEF TexInv, PlaceInv
  <2> QED
    BY <2>1, FramesFacts, FrameFields DEF TexInv, PlaceInv, FramesOK
<1>2. size = Sizes /\ DOMAIN size = DOMAIN frame
      /\ \A g \in DOMAIN frame : size[g].w = frame[g].w /\ size[g].h = frame[g].h
  BY DEF TableMade, Sizes
<1>3. packPc = "done" /\ PP!FramesApart /\ border \in Nat /\ side \in Int
      /\ dest \in [PP!Slots -> [x : Nat, y : Nat]]
  BY PackAssumed DEF TexInv, Stages, PP!Inv, PP!TypeOK, P!PackAssumption
<1>4. \A g \in DOMAIN frame : dest[g].x \in Nat /\ dest[g].y \in Nat
  <2>1. FrameMax \in Nat
    BY PackAssumed DEF P!PackAssumption
  <2>2. DOMAIN frame \subseteq PP!Slots
    BY <1>1, <2>1 DEF PP!Slots
  <2> QED
    BY <1>3, <2>2
<1>5. \A g \in DOMAIN frame : g \in PP!Visible <=> frame[g].w # 0
  BY <1>2 DEF PP!Visible, PP!Frames
<1>6. /\ dest[f].x + size[f].w <= side /\ dest[f].y + size[f].h <= side
      /\ \A g \in PP!Visible \ {f} : PP!Disjoint(PP!Box(f), PP!Box(g))
  <2>1. PP!Found = PP!Frames
    BY PackAssumed, SameCounted, PP!CountedFound DEF TexInv, PP!Inv
  <2>2. PP!Visible \cap PP!Found = PP!Visible
    BY <2>1 DEF PP!Visible
  <2> QED
    BY <1>3, <1>5, <2>2 DEF PP!FramesApart
<1>7. ASSUME NEW g \in DOMAIN frame, g # f, frame[g].w # 0, NEW q \in Area(f), q \in Area(g)
      PROVE  FALSE
  <2>1. PP!Disjoint(PP!Box(f), PP!Box(g))
    BY <1>5, <1>6, <1>7
  <2>2. \/ dest[f].x + (frame[f].w + border) <= dest[g].x
        \/ dest[g].x + (frame[g].w + border) <= dest[f].x
        \/ dest[f].y + (frame[f].h + border) <= dest[g].y
        \/ dest[g].y + (frame[g].h + border) <= dest[f].y
    BY <1>2, <1>7, <2>1 DEF PP!Disjoint, PP!Box
  <2>3. /\ q[1] \in Int /\ q[2] \in Int
        /\ dest[f].x <= q[1] /\ q[1] <= dest[f].x + frame[f].w - 1
        /\ dest[f].y <= q[2] /\ q[2] <= dest[f].y + frame[f].h - 1
    BY <1>1, <1>4 DEF Area
  <2>4. /\ dest[g].x <= q[1] /\ q[1] <= dest[g].x + frame[g].w - 1
        /\ dest[g].y <= q[2] /\ q[2] <= dest[g].y + frame[g].h - 1
    BY <1>1, <1>4, <1>7 DEF Area
  <2>5. /\ frame[f].w \in Nat /\ frame[f].h \in Nat /\ frame[g].w \in Nat /\ frame[g].h \in Nat
        /\ dest[f].x \in Nat /\ dest[f].y \in Nat /\ dest[g].x \in Nat /\ dest[g].y \in Nat
        /\ border \in Nat
    BY <1>1, <1>3, <1>4, <1>7
  <2>6. PICK fx \in Nat, fy \in Nat, fw \in Nat, fh \in Nat, gx \in Nat, gy \in Nat, gw \in Nat,
             gh \in Nat, qx \in Int, qy \in Int, b \in Nat :
          /\ fx = dest[f].x /\ fy = dest[f].y /\ fw = frame[f].w /\ fh = frame[f].h
          /\ gx = dest[g].x /\ gy = dest[g].y /\ gw = frame[g].w /\ gh = frame[g].h
          /\ qx = q[1] /\ qy = q[2] /\ b = border
    BY <2>3, <2>5
  <2> QED
    BY <2>2, <2>3, <2>4, <2>6
<1> QED
  BY <1>2, <1>6, <1>7

(* CopyFrame: a frame that is shown gets its pixels, and those of no other *)
(* frame are overwritten.                                                  *)
LEMMA CopyOne ==
  ASSUME TexInv, TableMade, PixelsCounted, CopyInv, CopyFrames, C!CopyFrame
  PROVE  CopyInv'
<1> DEFINE rows == C!Rows(frame[i], dest[i])
<1>1. /\ stage = "copy" /\ i <= Len(frame) /\ i' = i + 1 /\ stage' = "copy"
      /\ copyPc = "copy" /\ copyPc' = "copy" /\ frame[i].bitmap = frame[begin].bitmap
      /\ UNCHANGED <<file, metrics, fib, frame, dest, side, allocated, begin>>
      /\ atlas' = IF C!Left(frame[i], dest[i]) THEN atlas
                  ELSE [q \in DOMAIN rows \cup DOMAIN atlas |->
                          IF q \in DOMAIN rows THEN rows[q] ELSE atlas[q]]
  BY DEF CopyFrames, C!CopyFrame, C!InGroup, C!Bitmap, C!bitmaps
<1>2. /\ i \in 1 .. Len(frame) /\ Len(frame) \in Nat /\ DOMAIN frame = 1 .. Len(frame)
      /\ begin \in 1 .. Len(frame) + 1 /\ frame[i] \in FrameRec /\ i \in DOMAIN frame
      /\ frame[i].bitmap \in Slots
  BY <1>1, FramesFacts, FrameFields DEF TexInv, PlaceInv, FramesOK
<1>3. /\ begin <= Len(frame) /\ (Opened(frame[begin].bitmap) <=> Source(begin).w # 0)
      /\ \A f \in 1 .. i - 1 : Shown(f) => \A q \in Area(f) :
           q \in DOMAIN atlas /\ atlas[q] = PixelAt(f, q)
      /\ \A q \in DOMAIN atlas : \E f \in 1 .. i - 1 :
           frame[f].w # 0 /\ q \in Area(f) /\ atlas[q] = PixelAt(f, q)
  BY <1>1 DEF CopyInv, Copied
<1>4. Opened(frame[i].bitmap) <=> Source(i).w # 0
  BY <1>1, <1>3 DEF Source
<1>5. C!Left(frame[i], dest[i]) <=> ~Shown(i)
  <2>1. frame[i].w # 0 => ~(dest[i].x + frame[i].w > side) /\ ~(dest[i].y + frame[i].h > side)
    <3>1. ASSUME frame[i].w # 0
          PROVE  dest[i].x + frame[i].w <= side /\ dest[i].y + frame[i].h <= side
      BY <1>1, <1>2, <3>1, AreasApart
    <3>2. frame[i].w \in Nat /\ frame[i].h \in Nat /\ side \in Int
      BY <1>2, FrameFields DEF TexInv, PP!Inv, PP!TypeOK
    <3>3. dest[i].x \in Nat /\ dest[i].y \in Nat
      <4>1. FrameMax \in Nat /\ Len(frame) <= FrameMax
        BY PackAssumed DEF P!PackAssumption, TexInv, PlaceInv, FramesOK
      <4>2. i \in PP!Slots /\ dest \in [PP!Slots -> [x : Nat, y : Nat]]
        BY <1>2, <4>1 DEF TexInv, PP!Inv, PP!TypeOK, PP!Slots
      <4> QED
        BY <4>2
    <3> QED
      BY <3>1, <3>2, <3>3
  <2>2. /\ frame[i].x + frame[i].w > metrics[frame[i].bitmap].w
             <=> ~(frame[i].x + frame[i].w <= metrics[frame[i].bitmap].w)
        /\ frame[i].y + frame[i].h > metrics[frame[i].bitmap].h
             <=> ~(frame[i].y + frame[i].h <= metrics[frame[i].bitmap].h)
    <3>1. metrics[frame[i].bitmap] \in [w : Nat, h : Nat]
      BY <1>2 DEF TexInv, PlaceInv, BitmapsInv, SizesOK
    <3>2. PICK x \in Int, y \in Int, w \in Nat, h \in Nat, mw \in Nat, mh \in Nat :
            /\ x = frame[i].x /\ y = frame[i].y /\ w = frame[i].w /\ h = frame[i].h
            /\ mw = metrics[frame[i].bitmap].w /\ mh = metrics[frame[i].bitmap].h
      BY <1>2, <3>1, FrameFields
    <3>3. (x + w > mw <=> ~(x + w <= mw)) /\ (y + h > mh <=> ~(y + h <= mh))
      OBVIOUS
    <3> QED
      BY <3>2, <3>3
  <2> QED
    BY <1>4, <2>1, <2>2, SameOpened DEF C!Left, Shown
<1>6. PICK j \in 1 .. Len(frame) : j = i
  BY <1>2
<1>7. Copied' = j
  BY <1>1, <1>2, <1>6 DEF Copied
<1>8. \A f \in 1 .. j : /\ Shown(f)' <=> Shown(f)
                        /\ Area(f)' = Area(f)
                        /\ \A q : PixelAt(f, q)' = PixelAt(f, q)
  BY <1>1, CopiedSame
<1>9. (Opened(frame[begin].bitmap) <=> Source(begin).w # 0)'
  BY <1>1, <1>3 DEF Opened, Source
<1>10. DOMAIN rows = Area(j)
  BY <1>6 DEF C!Rows, Area
<1>11. Shown(j) => \A q \in Area(j) : rows[q] = PixelAt(j, q)
  <2>1. ASSUME Shown(j), NEW q \in Area(j) PROVE rows[q] = PixelAt(j, q)
    <3>1. fib[frame[j].bitmap] = Source(j)
      BY <1>2, <1>4, <1>6, <2>1 DEF Shown, TexInv, PlaceInv, BitmapsInv, OnlyActive, Source
    <3>2. rows[q] = Look(fib[frame[j].bitmap], frame[j].x + (q[1] - dest[j].x),
                         frame[j].y + (q[2] - dest[j].y))
      BY <1>6, <1>10, <2>1, SameLook DEF C!Rows, Area
    <3> QED
      BY <3>1, <3>2 DEF PixelAt
  <2> QED
    BY <2>1
<1>12. \A f \in 1 .. j : Shown(f) => \A q \in Area(f) : q \in DOMAIN atlas' /\ atlas'[q] = PixelAt(f, q)
  <2>1. ASSUME NEW f \in 1 .. j, Shown(f), NEW q \in Area(f)
        PROVE  q \in DOMAIN atlas' /\ atlas'[q] = PixelAt(f, q)
    <3>1. CASE f = j
      <4>1. ~C!Left(frame[i], dest[i]) /\ q \in DOMAIN rows
        BY <1>5, <1>6, <1>10, <2>1, <3>1
      <4> HIDE DEF rows
      <4>2. q \in DOMAIN atlas' /\ atlas'[q] = rows[q]
        BY <1>1, <4>1
      <4> QED
        BY <1>11, <2>1, <3>1, <4>2
    <3>2. CASE f # j
      <4>1. f \in 1 .. i - 1 /\ f \in DOMAIN frame
        BY <1>2, <1>6, <3>2
      <4>2. q \in DOMAIN atlas /\ atlas[q] = PixelAt(f, q)
        BY <1>3, <2>1, <4>1
      <4>3. CASE Shown(j)
        <5>1. q \notin Area(j)
          BY <1>1, <1>2, <1>6, <2>1, <3>2, <4>1, <4>3, AreasApart DEF Shown
        <5>2. q \notin DOMAIN rows
          BY <1>10, <5>1
        <5> HIDE DEF rows
        <5> QED
          BY <1>1, <4>2, <5>2
      <4>4. CASE ~Shown(j)
        BY <1>1, <1>5, <1>6, <4>2, <4>4
      <4> QED
        BY <4>3, <4>4
    <3> QED
      BY <3>1, <3>2
  <2> QED
    BY <2>1
<1>13. \A q \in DOMAIN atlas' : \E f \in 1 .. j :
         frame[f].w # 0 /\ q \in Area(f) /\ atlas'[q] = PixelAt(f, q)
  <2>1. ASSUME NEW q \in DOMAIN atlas'
        PROVE  \E f \in 1 .. j : frame[f].w # 0 /\ q \in Area(f) /\ atlas'[q] = PixelAt(f, q)
    <3>1. CASE Shown(j) /\ q \in DOMAIN rows
      <4>1. ~C!Left(frame[i], dest[i]) /\ q \in Area(j) /\ frame[j].w # 0
        BY <1>5, <1>6, <1>10, <3>1 DEF Shown
      <4> HIDE DEF rows
      <4>2. atlas'[q] = rows[q]
        BY <1>1, <3>1, <4>1
      <4>3. atlas'[q] = PixelAt(j, q) /\ j \in 1 .. j
        BY <1>11, <3>1, <4>1, <4>2
      <4> QED
        BY <4>1, <4>3
    <3>2. CASE ~(Shown(j) /\ q \in DOMAIN rows)
      <4> HIDE DEF rows
      <4>1. q \in DOMAIN atlas /\ atlas'[q] = atlas[q]
        BY <1>1, <1>5, <1>6, <2>1, <3>2
      <4>2. PICK f \in 1 .. i - 1 : frame[f].w # 0 /\ q \in Area(f) /\ atlas[q] = PixelAt(f, q)
        BY <1>3, <4>1
      <4> QED
        BY <1>2, <1>6, <4>1, <4>2
    <3> QED
      BY <3>1, <3>2
  <2> QED
    BY <2>1
<1> HIDE DEF rows
<1>14. \A f \in 1 .. j : Shown(f)' => \A q \in Area(f)' :
         q \in DOMAIN atlas' /\ atlas'[q] = PixelAt(f, q)'
  BY <1>8, <1>12
<1>15. \A q \in DOMAIN atlas' : \E f \in 1 .. j :
         frame'[f].w # 0 /\ q \in Area(f)' /\ atlas'[q] = PixelAt(f, q)'
  BY <1>1, <1>8, <1>13
<1>16. begin' <= Len(frame') /\ copyPc' = "copy"
  BY <1>1, <1>3
<1> QED
  BY <1>7, <1>9, <1>14, <1>15, <1>16 DEF CopyInv

(* InitDestBitmap, CopiedAll and SaveDestBitmap                            *)
LEMMA CopyRest ==
  ASSUME TexInv, CopyInv,
         StartCopy \/ (CopyFrames /\ (C!CopiedAll \/ C!SaveDestBitmap))
  PROVE  CopyInv'
<1>0. PlaceInv /\ Len(frame) \in Nat /\ begin \in 1 .. Len(frame) + 1 /\ i \in Nat
  BY FramesFacts DEF TexInv, PlaceInv, FramesOK
<1>1. CASE StartCopy
  <2>1. begin' = 1 /\ copyPc' = "group" /\ atlas' = C!Blank
    BY <1>1 DEF StartCopy, C!CopyAll
  <2>2. DOMAIN atlas' = {} /\ Copied' = 0
    BY <2>1, BlankAtlas DEF Copied
  <2> QED
    BY <2>1, <2>2 DEF CopyInv
<1>2. CASE CopyFrames /\ C!CopiedAll
  <2>1. /\ stage = "copy" /\ copyPc = "copy" /\ copyPc' = "group" /\ begin' = i
        /\ UNCHANGED <<file, metrics, frame, dest, atlas, allocated>>
    BY <1>2 DEF CopyFrames, C!CopiedAll, C!bitmaps
  <2>2. Copied' = Copied
    BY <2>1 DEF Copied
  <2> QED
    BY <1>0, <2>1, <2>2, CopyKeeps
<1>3. CASE CopyFrames /\ C!SaveDestBitmap
  <2>1. /\ stage = "copy" /\ copyPc = "group" /\ copyPc' = "saved" /\ begin > Len(frame)
        /\ UNCHANGED <<file, metrics, frame, dest, allocated, stage>>
        /\ atlas' = [q \in {q \in DOMAIN atlas : atlas[q].a # 0} |-> atlas[q]]
    BY <1>3 DEF CopyFrames, C!SaveDestBitmap, C!bitmaps
  <2>2. PICK n \in Nat : n = Len(frame)
    BY <1>0
  <2>3. Copied = n /\ Copied' = n
    BY <1>0, <2>1, <2>2 DEF Copied
  <2>4. \A f : /\ Shown(f)' <=> Shown(f)
               /\ Area(f)' = Area(f)
               /\ \A q : PixelAt(f, q)' = PixelAt(f, q)
    BY <2>1, CopiedSame
  <2>5. /\ \A f \in 1 .. n : Shown(f) => \A q \in Area(f) :
             q \in DOMAIN atlas /\ atlas[q] = PixelAt(f, q)
        /\ \A q \in DOMAIN atlas : \E f \in 1 .. n :
             frame[f].w # 0 /\ q \in Area(f) /\ atlas[q] = PixelAt(f, q)
    BY <2>1, <2>3 DEF CopyInv
  <2>6. \A q : q \in DOMAIN atlas' <=> q \in DOMAIN atlas /\ atlas[q].a # 0
    BY <2>1
  <2>7. \A q \in DOMAIN atlas' : atlas'[q] = atlas[q]
    BY <2>1
  <2>8. \A f \in 1 .. n : Shown(f)' => \A q \in Area(f)' : PixelAt(f, q)'.a # 0 =>
          q \in DOMAIN atlas' /\ atlas'[q] = PixelAt(f, q)'
    BY <2>4, <2>5, <2>6, <2>7
  <2>9. \A q \in DOMAIN atlas' : \E f \in 1 .. n :
          frame'[f].w # 0 /\ q \in Area(f)' /\ atlas'[q] = PixelAt(f, q)'
    <3>1. ASSUME NEW q \in DOMAIN atlas'
          PROVE  \E f \in 1 .. n :
                   frame'[f].w # 0 /\ q \in Area(f)' /\ atlas'[q] = PixelAt(f, q)'
      <4>1. PICK f \in 1 .. n : frame[f].w # 0 /\ q \in Area(f) /\ atlas[q] = PixelAt(f, q)
        BY <2>5, <2>6, <3>1
      <4> QED
        BY <2>1, <2>4, <2>7, <3>1, <4>1
    <3> QED
      BY <3>1
  <2> QED
    BY <2>1, <2>3, <2>8, <2>9 DEF CopyInv
<1> QED
  BY <1>1, <1>2, <1>3

(* Every step of Copy_All keeps the pixels copied before, and no other     *)
(* touches them until the next texture.                                    *)
LEMMA CopyStep ==
  ASSUME TexInv, TableMade, PixelsCounted, CopyInv, [Next]_vars
  PROVE  CopyInv'
<1>1. CASE CopyFrames
  BY <1>1, CopyOpenGroup, CopyOne, CopyRest DEF CopyFrames, C!Work
<1>2. CASE StartCopy
  BY <1>2, CopyRest
<1>3. CASE stage' \notin {"copy", "passed"}
  BY <1>3 DEF CopyInv
<1>4. CASE SaveTable \/ UNCHANGED vars
  <2>1. /\ UNCHANGED <<file, metrics, fib, frame, dest, atlas, allocated, copyPc, begin, i>>
        /\ stage' # "copy" => stage' = stage \/ copyPc = "saved"
        /\ stage' = "copy" => stage = "copy"
        /\ SaveTable => stage = "copy" /\ copyPc = "saved"
        /\ ~SaveTable => stage' = stage
    BY <1>4 DEF SaveTable, vars, bitmaps, loop, copying
  <2>2. CASE stage \in {"copy", "passed"}
    <3>1. Copied' = Copied
      BY <2>1 DEF Copied
    <3>2. (stage = "copy" /\ copyPc = "copy" =>
            /\ begin <= Len(frame)
            /\ Opened(frame[begin].bitmap) <=> Source(begin).w # 0)'
      BY <2>1 DEF CopyInv, Opened, Source
    <3> QED
      BY <2>1, <2>2, <3>1, <3>2, CopyKeeps DEF TexInv
  <2>3. CASE stage \notin {"copy", "passed"}
    BY <2>1, <2>3 DEF CopyInv
  <2> QED
    BY <2>2, <2>3
<1>5. CASE PlaceBoxAndShrinkWrap
  <2>1. stage' \notin {"copy", "passed"}
    BY <1>5 DEF PlaceBoxAndShrinkWrap
  <2> QED
    BY <1>3, <2>1
<1>6. CASE StartPack \/ PackFrames \/ \E t : Begin(t)
  <2>1. stage' \notin {"copy", "passed"}
    BY <1>6 DEF StartPack, PackFrames, Begin
  <2> QED
    BY <1>3, <2>1
<1> QED
  BY <1>1, <1>2, <1>4, <1>5, <1>6 DEF Next, Work

(* cFrame::Copy_All: from frame to frame the atlas has all pixels of the   *)
(* frames that have been copied, and no others, of this texture only, as   *)
(* long as a long can count the pixels of the frames.                      *)
THEOREM AtlasHasFrames == Spec /\ []PixelsCounted => []CopyInv
<1>1. Init => CopyInv
  <2>1. SUFFICES ASSUME Init PROVE CopyInv
    OBVIOUS
  <2>2. copyPc = "saved" /\ Len(frame) = 0 /\ DOMAIN atlas = {}
    BY <2>1, BlankAtlas DEF Init, F!Init
  <2> QED
    BY <2>2 DEF CopyInv, Copied
<1>2. TexInv /\ TableMade /\ PixelsCounted /\ CopyInv /\ [Next]_vars => CopyInv'
  BY CopyStep
<1> QED
  BY <1>1, <1>2, TextureInvariant, CentersAndTable, PTL DEF Spec

-----------------------------------------------------------------------------
(* What a game draws.                                                      *)

(* A bitmap without a picture has no visible pixel.                        *)
LEMMA NothingSeen ==
  ASSUME NEW z, Picture(z).w = 0
  PROVE  \A x, y : Look(Picture(z), x, y).a = 0
<1>1. Picture(z) = NoFib
  BY DEF Picture
<1>2. \A x, y : Look(NoFib, x, y) = Clear
  BY DEF Look, NoFib
<1> QED
  BY <1>1, <1>2 DEF Clear

(* The visible pixels of a box, in the terms of Texture                    *)
LEMMA SeenPixels ==
  ASSUME NEW f
  PROVE  /\ \A p : p \in Seen(f) <=> p \in Pixels(box[f]) /\ Look(Source(f), p[1], p[2]).a # 0
         /\ \A r, p : p \in F!OpaqueIn(r, frame[f].bitmap) => p \in Pixels(r)
BY SamePicture, SameLook DEF Seen, F!OpaqueIn, Pixels, Source

(* What a frame of which something is left has to do with its box          *)
LEMMA FrameInBox ==
  ASSUME TexInv, CenterInv, placePc = "done", NEW f \in DOMAIN frame,
         frame[f].w # 0 \/ Seen(f) # {}
  PROVE  /\ Inside(F!RectOfFrame(f), box[f])
         /\ \A p \in Seen(f) : p \in Pixels(F!RectOfFrame(f))
         /\ frame[f].cx = box[f].x + box[f].w \div 2 - frame[f].x
         /\ frame[f].cy = box[f].y + box[f].h \div 2 - frame[f].y
<1>1. /\ DOMAIN frame = 1 .. Len(frame) /\ Len(frame) \in Nat /\ Len(box) = Len(frame)
      /\ f \in DOMAIN box /\ box[f] \in BoxRec
  BY FramesFacts DEF TexInv, PlaceInv, Control
<1>2. Ready = Len(box) /\ f \in 1 .. Ready
  BY <1>1 DEF Ready
<1>3. Finished(f) /\ Centered(f)
  BY <1>2 DEF TexInv, PlaceInv, AllFinished, CenterInv
<1>4. ~(frame[f].wrap /\ Seen(f) = {})
  <2>1. SUFFICES ASSUME frame[f].wrap, Seen(f) = {} PROVE frame[f].w = 0
    OBVIOUS
  <2>2. F!RectOfFrame(f) = [x |-> 0, y |-> 0, w |-> 0, h |-> 0]
    BY <1>3, <2>1 DEF Finished, Tight
  <2> QED
    BY <2>2 DEF F!RectOfFrame
<1>5. CASE frame[f].wrap
  <2>1. F!OpaqueIn(F!RectOfFrame(f), frame[f].bitmap) = Seen(f) /\ Inside(F!RectOfFrame(f), box[f])
    BY <1>3, <1>4, <1>5 DEF Finished, Tight
  <2> QED
    BY <1>3, <1>4, <2>1, SeenPixels DEF Centered
<1>6. CASE ~frame[f].wrap
  <2>1. F!RectOfFrame(f) = box[f]
    BY <1>3, <1>6 DEF Finished, Kept
  <2>2. Inside(box[f], box[f])
    BY <1>1 DEF Inside, BoxRec
  <2> QED
    BY <1>3, <1>4, <2>1, <2>2, SeenPixels DEF Centered
<1> QED
  BY <1>5, <1>6

(* Where a pixel of it is drawn: at its place, moved with the frame        *)
LEMMA DrawnMoved ==
  ASSUME TexInv, CenterInv, TableExact, placePc = "done", NEW f \in DOMAIN frame,
         f \in DOMAIN table, frame[f].w # 0 \/ Seen(f) # {}
  PROVE  /\ \A x, y \in Int :
              Drawn(f, <<x, y>>) = <<dest[f].x + (x - frame[f].x), dest[f].y + (y - frame[f].y)>>
         /\ Pixels(table[f]) = Area(f)
         /\ frame[f].x \in Int /\ frame[f].y \in Int /\ frame[f].w \in Nat /\ frame[f].h \in Nat
         /\ box[f].x \in Int /\ box[f].y \in Int /\ box[f].w \in Nat /\ box[f].h \in Nat
         /\ dest[f].x \in Nat /\ dest[f].y \in Nat
<1>1. /\ DOMAIN frame = 1 .. Len(frame) /\ Len(frame) \in Nat /\ frame[f] \in FrameRec
      /\ Len(box) = Len(frame) /\ f \in DOMAIN box /\ box[f] \in BoxRec
      /\ Len(frame) <= FrameMax
  BY FramesFacts DEF TexInv, PlaceInv, Control, FramesOK
<1>2. /\ frame[f].x \in Int /\ frame[f].y \in Int /\ frame[f].w \in Nat /\ frame[f].h \in Nat
      /\ box[f].x \in Int /\ box[f].y \in Int /\ box[f].w \in Nat /\ box[f].h \in Nat
  BY <1>1, FrameFields DEF BoxRec
<1>3. dest[f].x \in Nat /\ dest[f].y \in Nat
  <2>1. FrameMax \in Nat
    BY PackAssumed DEF P!PackAssumption
  <2>2. f \in PP!Slots /\ dest \in [PP!Slots -> [x : Nat, y : Nat]]
    BY <1>1, <2>1 DEF TexInv, PP!Inv, PP!TypeOK, PP!Slots
  <2> QED
    BY <2>2
<1>4. /\ table[f].x = dest[f].x /\ table[f].y = dest[f].y
      /\ table[f].w = frame[f].w /\ table[f].h = frame[f].h
      /\ table[f].cx = frame[f].cx /\ table[f].cy = frame[f].cy
  BY DEF TableExact
<1>5. /\ frame[f].cx = box[f].x + box[f].w \div 2 - frame[f].x
      /\ frame[f].cy = box[f].y + box[f].h \div 2 - frame[f].y
  BY FrameInBox
<1>6. PICK hx \in Int, hy \in Int : hx = box[f].w \div 2 /\ hy = box[f].h \div 2
  BY <1>2
<1>8. ASSUME NEW x \in Int, NEW y \in Int
      PROVE  Drawn(f, <<x, y>>) = <<dest[f].x + (x - frame[f].x), dest[f].y + (y - frame[f].y)>>
  <2>1. /\ table[f].x + table[f].cx + x - (box[f].x + box[f].w \div 2) = dest[f].x + (x - frame[f].x)
        /\ table[f].y + table[f].cy + y - (box[f].y + box[f].h \div 2) = dest[f].y + (y - frame[f].y)
    BY <1>2, <1>3, <1>4, <1>5, <1>6
  <2> QED
    BY <2>1 DEF Drawn
<1>9. Pixels(table[f]) = Area(f)
  BY <1>4 DEF Pixels, Area
<1> QED
  BY <1>2, <1>3, <1>8, <1>9

(* Each visible pixel is drawn,                                            *)
LEMMA PixelIsDrawn ==
  ASSUME TexInv, CenterInv, TableExact, TableMade, CopyInv, stage = "passed",
         NEW f \in DOMAIN table, allocated, F!InBitmap(box[f], frame[f].bitmap),
         NEW p \in Pixels(box[f]), Look(Source(f), p[1], p[2]).a # 0
  PROVE  Drawn(f, p) \in DOMAIN atlas /\ atlas[Drawn(f, p)] = Look(Source(f), p[1], p[2])
<1>1. placePc = "done" /\ copyPc = "saved" /\ f \in DOMAIN frame
  BY DEF TexInv, Stages, TableMade, Entries
<1>2. /\ DOMAIN frame = 1 .. Len(frame) /\ Len(box) = Len(frame) /\ DOMAIN box = 1 .. Len(box)
      /\ frame[f].bitmap \in Slots
      /\ metrics[frame[f].bitmap] \in [w : Nat, h : Nat]
  BY <1>1, FramesFacts, FrameFields
  DEF TexInv, PlaceInv, Control, BitmapsInv, SizesOK
<1>3. p \in Seen(f)
  BY SeenPixels
<1>4. /\ Inside(F!RectOfFrame(f), box[f]) /\ p \in Pixels(F!RectOfFrame(f))
  BY <1>1, <1>3, FrameInBox
<1>5. /\ frame[f].x \in Int /\ frame[f].y \in Int /\ frame[f].w \in Nat /\ frame[f].h \in Nat
      /\ box[f].x \in Int /\ box[f].y \in Int /\ box[f].w \in Nat /\ box[f].h \in Nat
      /\ dest[f].x \in Nat /\ dest[f].y \in Nat
  BY <1>1, <1>3, DrawnMoved
<1>6. PICK x \in Int, y \in Int :
        /\ p = <<x, y>>
        /\ frame[f].x <= x /\ x <= frame[f].x + frame[f].w - 1
        /\ frame[f].y <= y /\ y <= frame[f].y + frame[f].h - 1
  BY <1>4, <1>5 DEF Pixels, F!RectOfFrame
<1>7. Drawn(f, p) = <<dest[f].x + (x - frame[f].x), dest[f].y + (y - frame[f].y)>>
  BY <1>1, <1>3, <1>6, DrawnMoved
<1>8. Shown(f)
  <2>1. frame[f].w # 0
    BY <1>5, <1>6
  <2>2. Source(f).w # 0
    BY NothingSeen DEF Source
  <2>3. /\ frame[f].x + frame[f].w <= box[f].x + box[f].w
        /\ frame[f].y + frame[f].h <= box[f].y + box[f].h
    BY <1>4 DEF Inside, F!RectOfFrame
  <2>4. /\ box[f].x + box[f].w <= metrics[frame[f].bitmap].w
        /\ box[f].y + box[f].h <= metrics[frame[f].bitmap].h
    BY DEF F!InBitmap
  <2> QED
    <3>1. PICK w \in Nat, h \in Nat :
            w = metrics[frame[f].bitmap].w /\ h = metrics[frame[f].bitmap].h
      BY <1>2
    <3>2. frame[f].x + frame[f].w <= w /\ frame[f].y + frame[f].h <= h
      BY <1>5, <2>3, <2>4, <3>1
    <3> QED
      BY <2>1, <2>2, <3>1, <3>2 DEF Shown
<1> DEFINE q == <<dest[f].x + (x - frame[f].x), dest[f].y + (y - frame[f].y)>>
<1>9. q \in Area(f)
  BY <1>5, <1>6 DEF Area
<1>10. PixelAt(f, q) = Look(Source(f), p[1], p[2])
  <2>1. /\ frame[f].x + (q[1] - dest[f].x) = x
        /\ frame[f].y + (q[2] - dest[f].y) = y
    BY <1>5
  <2> QED
    BY <1>6, <2>1 DEF PixelAt
<1>11. \A g \in 1 .. Len(frame) : Shown(g) => \A r \in Area(g) : PixelAt(g, r).a # 0 =>
         r \in DOMAIN atlas /\ atlas[r] = PixelAt(g, r)
  BY <1>1 DEF CopyInv, Copied
<1> HIDE DEF q
<1>12. q \in DOMAIN atlas /\ atlas[q] = PixelAt(f, q)
  BY <1>1, <1>2, <1>8, <1>9, <1>10, <1>11
<1> QED
  BY <1>7, <1>10, <1>12 DEF q

(* and nothing else.                                                       *)
LEMMA DrawnIsPixel ==
  ASSUME TexInv, CenterInv, TableExact, TableMade, CopyInv, stage = "passed",
         NEW q \in DOMAIN atlas
  PROVE  \E f \in DOMAIN table :
           /\ q \in Pixels(table[f])
           /\ \E p \in Pixels(box[f]) :
                Drawn(f, p) = q /\ atlas[q] = Look(Source(f), p[1], p[2])
<1>1. /\ placePc = "done" /\ copyPc = "saved" /\ DOMAIN table = DOMAIN frame
      /\ DOMAIN frame = 1 .. Len(frame)
  BY FramesFacts DEF TexInv, PlaceInv, Stages, TableMade, Entries
<1>2. PICK f \in DOMAIN table : frame[f].w # 0 /\ q \in Area(f) /\ atlas[q] = PixelAt(f, q)
  BY <1>1 DEF CopyInv, Copied
<1>3. /\ frame[f].x \in Int /\ frame[f].y \in Int /\ frame[f].w \in Nat /\ frame[f].h \in Nat
      /\ box[f].x \in Int /\ box[f].y \in Int /\ box[f].w \in Nat /\ box[f].h \in Nat
      /\ dest[f].x \in Nat /\ dest[f].y \in Nat
      /\ Pixels(table[f]) = Area(f)
  BY <1>1, <1>2, DrawnMoved
<1>4. PICK u \in Int, v \in Int :
        /\ q = <<u, v>>
        /\ dest[f].x <= u /\ u <= dest[f].x + frame[f].w - 1
        /\ dest[f].y <= v /\ v <= dest[f].y + frame[f].h - 1
  BY <1>2, <1>3 DEF Area
<1>5. PICK x \in Int, y \in Int :
        x = frame[f].x + (u - dest[f].x) /\ y = frame[f].y + (v - dest[f].y)
  BY <1>3
<1>6. Inside(F!RectOfFrame(f), box[f])
  BY <1>1, <1>2, FrameInBox
<1>7. <<x, y>> \in Pixels(box[f])
  <2>1. /\ box[f].x <= frame[f].x /\ frame[f].x + frame[f].w <= box[f].x + box[f].w
        /\ box[f].y <= frame[f].y /\ frame[f].y + frame[f].h <= box[f].y + box[f].h
    BY <1>6 DEF Inside, F!RectOfFrame
  <2>2. /\ box[f].x <= x /\ x <= box[f].x + box[f].w - 1
        /\ box[f].y <= y /\ y <= box[f].y + box[f].h - 1
    BY <1>3, <1>4, <1>5, <2>1
  <2> QED
    BY <1>3, <2>2 DEF Pixels
<1>8. Drawn(f, <<x, y>>) = q
  <2>1. Drawn(f, <<x, y>>) = <<dest[f].x + (x - frame[f].x), dest[f].y + (y - frame[f].y)>>
    BY <1>1, <1>2, DrawnMoved
  <2>2. dest[f].x + (x - frame[f].x) = u /\ dest[f].y + (y - frame[f].y) = v
    BY <1>3, <1>5
  <2> QED
    BY <1>4, <2>1, <2>2
<1>9. atlas[q] = Look(Source(f), x, y)
  BY <1>2, <1>4, <1>5 DEF PixelAt
<1>10. <<x, y>>[1] = x /\ <<x, y>>[2] = y
  OBVIOUS
<1>11. \E p \in Pixels(box[f]) : Drawn(f, p) = q /\ atlas[q] = Look(Source(f), p[1], p[2])
  BY <1>7, <1>8, <1>9, <1>10
<1> QED
  BY <1>2, <1>3, <1>11

(* process_ini: what a game draws by the table and the atlas is what the   *)
(* bitmaps of the artist show, neither moved nor cut off, whatever was     *)
(* trimmed, wherever it was packed, and whatever textures came before; as  *)
(* long as there is memory for the atlas, a long can count the pixels of   *)
(* the frames, and a WORD can say how large their boxes are.               *)
THEOREM SpritesAreShown ==
  Spec /\ []PixelsCounted /\ []BoxesSmall => []AtlasShowsSprites
<1>1. TexInv /\ CenterInv /\ TableExact /\ TableMade /\ CopyInv => AtlasShowsSprites
  BY PixelIsDrawn, DrawnIsPixel DEF AtlasShowsSprites
<1> QED
  BY <1>1, TextureInvariant, CentersAndTable, TableIsExact, AtlasHasFrames, PTL
=============================================================================
