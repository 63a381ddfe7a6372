-------------------------- MODULE Sections_proofs ---------------------------
(***************************************************************************)
(* Proofs about Sections: its types, the indexes in the header, the        *)
(* bitmaps of the frames, and that no section is left incomplete.          *)
(***************************************************************************)
EXTENDS Sections, ListLemmas, FiniteSetTheorems, TLAPS

(* A section is being read.                                                *)
InSection == pc \in {"infile", "first", "box", "check", "seq", "uid"}

(* The types of the variables                                              *)
Types ==
  /\ texture \in Seq(Section)
  /\ done \in 0 .. MaxTextures
  /\ k \in 0 .. Len(texture)
  /\ j \in Nat
  /\ iBitmap \in {-1} \cup Slots
  /\ bitmap = [b \in Slots |-> bitmap[b]]
  /\ frame \in Seq([sec : Nat \ {0}, bitmap : Slots])
  /\ total \in Int
  /\ header \in Seq(STRING \X Nat)
  /\ uids \in Seq([uid : STRING, frames : Int, box : BOOLEAN, added : Nat])
  /\ pc \in {"true", "false", "enum", "infile", "first", "box", "check", "seq",
             "uid"}

(* The counts run ahead of the arrays by what did not fit; after a bitmap  *)
(* that did not fit, nothing more is done.                                 *)
Counts ==
  /\ nBitmaps \in 0 .. BITMAP_MAX + 1
  /\ nBitmaps > BITMAP_MAX => pc = "false"
  /\ nFrames \in Nat
  /\ nFrames <= FRAME_MAX => Len(frame) = nFrames
  /\ nFrames > FRAME_MAX => Len(frame) = FRAME_MAX

(* Frames belong to sections read so far, and to none that is only being   *)
(* checked; their bitmaps are there.                                       *)
FrameOK ==
  \A f \in DOMAIN frame :
    /\ frame[f].sec <= k
    /\ pc \in {"infile", "first", "check"} => frame[f].sec < k
    /\ frame[f].bitmap <= nBitmaps

(* EnumSection has passed no two sections of one name, so the #defines     *)
(* have different names; the last is that of the section in progress.      *)
Names ==
  /\ pc # "false" => \A l \in 1 .. k : \A m \in l + 1 .. Len(texture) :
                       texture[l].name # texture[m].name
  /\ \A d \in DOMAIN header :
       /\ \E l \in 1 .. k : texture[l].name = header[d][1]
       /\ header[d][2] <= nFrames
       /\ \A e \in d + 1 .. Len(header) : header[d][1] # header[e][1]
  /\ InSection => /\ k > 0
                  /\ Sec.name # OUTPUT
                  /\ Len(header) > 0
                  /\ header[Len(header)][1] = Sec.name

(* Entry b is what section s asks for, with the n-th file.                 *)
Shows(b, s, n) ==
  /\ bitmap[b].file = <<s.base, n>>
  /\ bitmap[b].aco = s.aco
  /\ s.shrink \in 1 .. 8 => bitmap[b].shrink = s.shrink

(* How many frames the section in progress has                             *)
Added == Cardinality(FramesOf(k))

(* total is the number of multiples of skip below j.                       *)
Steps ==
  /\ Sec.skip = 0 => total = j
  /\ Sec.skip # 0 => /\ Sec.skip * total >= j
                     /\ Sec.skip * (total - 1) < j

(* The check of the files has seen that all numbers can be counted to.     *)
Numbered ==
  Sec.frames = 1 \/ (Sec.base \in Numeric /\ Sec.frames - 1 <= LastNumber)

(* What each loop leaves to the next one                                   *)
Stages ==
  /\ pc = "first" => /\ Sec.box /\ Sec.frames >= 1 /\ j = 1
                     /\ file = <<Sec.base, 0>>
  /\ pc = "box" => /\ Sec.box /\ j \in 1 .. Sec.frames
                   /\ iBitmap \in 1 .. nBitmaps /\ Shows(iBitmap, Sec, 0)
                   /\ nFrames <= FRAME_MAX => Added = j
  /\ pc = "check" => /\ ~Sec.box /\ j \in 1 .. Sec.frames
                     /\ Sec.frames = 1 \/ Sec.base \in Numeric
                     /\ file = <<Sec.base, j - 1>>
                     /\ j - 1 <= LastNumber
  /\ pc = "seq" => /\ ~Sec.box /\ Sec.frames >= 1 /\ j \in 0 .. Sec.frames
                   /\ Numbered
                   /\ j < Sec.frames => file = <<Sec.base, j>>
                   /\ total = Added
                   /\ Steps
  /\ pc = "uid" => /\ ~Sec.box => total = Added
                   /\ nFrames <= FRAME_MAX => Added = Wanted(Sec)

(* Section l has been left behind.                                         *)
Left(l) == l < k \/ (l = k /\ (pc \in {"enum", "uid"} \/ saved # <<>>))

(* Sections left behind have their frames; the header is saved only at the *)
(* end.                                                                    *)
Complete ==
  /\ saved # <<>> => pc = "true"
  /\ nFrames <= FRAME_MAX =>
       \A l \in 1 .. Len(texture) : Left(l) =>
         Cardinality(FramesOf(l)) = Wanted(texture[l])

(* The entries of Bitmap differ as long as every shrink is one that is     *)
(* stored.                                                                 *)
Apart ==
  (\A l \in 1 .. k : texture[l].shrink \in 1 .. 8) =>
    \A b \in 1 .. nBitmaps \cap Slots :
      /\ bitmap[b].shrink \in 1 .. 8
      /\ \A c \in 1 .. nBitmaps \cap Slots : b # c =>
           \/ bitmap[b].file # bitmap[c].file
           \/ bitmap[b].aco # bitmap[c].aco
           \/ bitmap[b].shrink # bitmap[c].shrink

(* The inductive invariant                                                 *)
SecInv ==
  /\ Types /\ Counts /\ FrameOK /\ Names /\ Stages /\ Complete /\ Apart
  /\ HeaderIndexes /\ FramesShowFiles /\ SeqUids

(* An element of Frame                                                     *)
FrameRec == [sec : Nat \ {0}, bitmap : Slots]

(* The frames of a section, for any value of Frame                         *)
In(fr, l) == {f \in DOMAIN fr : fr[f].sec = l}

(* There are finitely many.                                                *)
LEMMA InFinite ==
  ASSUME NEW fr \in Seq(FrameRec), NEW l
  PROVE  IsFiniteSet(In(fr, l)) /\ Cardinality(In(fr, l)) \in Nat
<1>1. In(fr, l) \subseteq 1 .. Len(fr)
  BY DEF In
<1>2. IsFiniteSet(1 .. Len(fr))
  BY FS_Interval
<1> QED
  BY <1>1, <1>2, FS_Subset, FS_CardinalityType

(* A section without frames                                                *)
LEMMA InNone ==
  ASSUME NEW fr \in Seq(FrameRec), NEW l, \A f \in DOMAIN fr : fr[f].sec # l
  PROVE  Cardinality(In(fr, l)) = 0
<1>1. In(fr, l) = {}
  BY DEF In
<1> QED
  BY <1>1, FS_EmptySet

(* One frame more is one frame more of its section, and of no other.       *)
LEMMA InMore ==
  ASSUME NEW fr \in Seq(FrameRec), NEW rec \in FrameRec, NEW l
  PROVE  Cardinality(In(Append(fr, rec), l)) =
           IF rec.sec = l THEN Cardinality(In(fr, l)) + 1
           ELSE Cardinality(In(fr, l))
<1> DEFINE more == Append(fr, rec)
<1>1. /\ DOMAIN more = 1 .. Len(fr) + 1
      /\ more[Len(fr) + 1] = rec
      /\ \A f \in 1 .. Len(fr) : more[f] = fr[f]
      /\ DOMAIN fr = 1 .. Len(fr)
      /\ Len(fr) \in Nat
  OBVIOUS
<1> HIDE DEF more
<1>2. CASE rec.sec = l
  <2>1. In(more, l) = In(fr, l) \cup {Len(fr) + 1}
    BY <1>1, <1>2 DEF In
  <2>2. Len(fr) + 1 \notin In(fr, l)
    BY <1>1 DEF In
  <2>3. Cardinality(In(more, l)) = Cardinality(In(fr, l)) + 1
    BY <2>1, <2>2, InFinite, FS_AddElement
  <2> QED
    BY <1>2, <2>3 DEF more
<1>3. CASE rec.sec # l
  <2>1. In(more, l) = In(fr, l)
    BY <1>1, <1>3 DEF In
  <2> QED
    BY <1>3, <2>1 DEF more
<1> QED
  BY <1>2, <1>3

(* The frames of the same section before f                                 *)
Before(fr, f) == {g \in In(fr, fr[f].sec) : g < f}

(* A frame added at the end is behind all frames of its section.           *)
LEMMA BeforeMore ==
  ASSUME NEW fr \in Seq(FrameRec), NEW rec \in FrameRec
  PROVE  /\ \A f \in DOMAIN fr : Before(Append(fr, rec), f) = Before(fr, f)
         /\ Before(Append(fr, rec), Len(fr) + 1) = In(fr, rec.sec)
<1> DEFINE more == Append(fr, rec)
<1>1. /\ DOMAIN more = 1 .. Len(fr) + 1
      /\ more[Len(fr) + 1] = rec
      /\ \A f \in 1 .. Len(fr) : more[f] = fr[f]
      /\ DOMAIN fr = 1 .. Len(fr)
      /\ Len(fr) \in Nat
  OBVIOUS
<1> HIDE DEF more
<1>2. ASSUME NEW f \in DOMAIN fr PROVE Before(more, f) = Before(fr, f)
  BY <1>1, <1>2 DEF Before, In
<1>3. Before(more, Len(fr) + 1) = In(fr, rec.sec)
  BY <1>1 DEF Before, In
<1> QED
  BY <1>2, <1>3 DEF more

(* FramesOf and Nth in these terms, now and after a step                   *)
LEMMA SameSets ==
  /\ \A l : FramesOf(l) = In(frame, l) /\ FramesOf(l)' = In(frame', l)
  /\ \A f : Nth(f) = Cardinality(Before(frame, f))
  /\ \A f : Nth(f)' = Cardinality(Before(frame', f))
<1>1. \A l : FramesOf(l) = In(frame, l)
  BY Zenon DEF FramesOf, In
<1>2. \A l : FramesOf(l)' = In(frame', l)
  BY Zenon DEF FramesOf, In
<1>3. \A f : Nth(f) = Cardinality(Before(frame, f))
  BY <1>1, Zenon DEF Nth, Before
<1>4. \A f : Nth(f)' = Cardinality(Before(frame', f))
  BY <1>2, Zenon DEF Nth, Before
<1> QED
  BY <1>1, <1>2, <1>3, <1>4

(* Quotient and remainder                                                  *)
LEMMA Division ==
  ASSUME NEW skip \in Nat \ {0}, NEW i \in Nat
  PROVE  /\ i % skip = 0 => \E m \in Int : i = skip * m
         /\ i % skip # 0 =>
              \E q \in Int, r \in 1 .. skip - 1 : i = skip * q + r
<1>1. i % skip = i - skip * (i \div skip)
  OBVIOUS
<1>2. i \div skip \in Int
  OBVIOUS
<1>3. i % skip \in 0 .. skip - 1
  OBVIOUS
<1>4. PICK q \in Int : q = i \div skip
  BY <1>2
<1>5. skip * q \in Int
  OBVIOUS
<1>6. PICK r \in 0 .. skip - 1 : r = i % skip
  BY <1>3
<1>7. i = skip * q + r
  BY <1>1, <1>4, <1>5, <1>6
<1>8. i % skip = 0 => i = skip * q
  BY <1>5, <1>6, <1>7
<1>9. i % skip # 0 => r \in 1 .. skip - 1
  BY <1>6
<1> QED
  BY <1>7, <1>8, <1>9

(* A file that is skipped is no step: total stays the number of steps.     *)
LEMMA StepSkipped ==
  ASSUME NEW skip \in Nat \ {0}, NEW i \in Nat, NEW t \in Int,
         skip * t >= i, skip * (t - 1) < i, i % skip # 0
  PROVE  skip * t >= i + 1
<1>1. PICK q \in Int, r \in 1 .. skip - 1 : i = skip * q + r
  BY Division
<1>2. ASSUME skip * t = i PROVE FALSE
  <2>1. q < t
    BY <1>1, <1>2
  <2>2. t < q + 1
    BY <1>1, <1>2
  <2> QED
    BY <2>1, <2>2
<1>3. skip * t \in Int
  OBVIOUS
<1> QED
  BY <1>2, <1>3

(* A file that is used begins a step, and is the one at that many steps.   *)
LEMMA StepUsed ==
  ASSUME NEW skip \in Nat \ {0}, NEW i \in Nat, NEW t \in Int,
         skip * t >= i, skip * (t - 1) < i, i % skip = 0
  PROVE  /\ skip * t = i
         /\ skip * (t + 1) >= i + 1
         /\ skip * t < i + 1
<1>0. i % skip = 0 => \E m \in Int : i = skip * m
  BY Division
<1>1. PICK m \in Int : i = skip * m
  BY <1>0
<1>2. m <= t /\ t - 1 < m
  BY <1>1
<1> QED
  BY <1>1, <1>2

(* At the end total is what Wanted says.                                   *)
LEMMA StepsAll ==
  ASSUME NEW skip \in Nat \ {0}, NEW i \in Nat, NEW t \in Int,
         skip * t >= i, skip * (t - 1) < i
  PROVE  (i + skip - 1) \div skip = t
OBVIOUS

(* A section being read is one of the texture.                             *)
LEMMA SecFacts ==
  ASSUME SecInv, InSection
  PROVE  /\ k \in 1 .. Len(texture) /\ k \in Nat \ {0}
         /\ Sec \in Section
         /\ pc # "false" /\ pc # "true"
<1>1. k \in 0 .. Len(texture) /\ k > 0 /\ texture \in Seq(Section)
  BY DEF SecInv, Types, Names
<1>2. k \in 1 .. Len(texture) /\ k \in Nat \ {0}
  BY <1>1
<1>3. Sec \in Section
  BY <1>1, <1>2 DEF Sec
<1>4. pc # "false" /\ pc # "true"
  BY DEF InSection
<1> QED
  BY <1>2, <1>3, <1>4

(* The keys of a section                                                   *)
LEMMA SecFields ==
  ASSUME NEW s \in Section
  PROVE  /\ s.base \in STRING /\ s.name \in STRING /\ s.argb \in STRING
         /\ s.box \in BOOLEAN
         /\ s.frames \in Int /\ s.skip \in Nat /\ s.aco \in Int
         /\ s.shrink \in Int /\ s.w \in Int /\ s.h \in Int
BY DEF Section

(* What Add hands back                                                     *)
ShowsAfter(b, s, f) ==
  /\ bitmap'[b].file = f
  /\ bitmap'[b].aco = s.aco
  /\ s.shrink \in 1 .. 8 => bitmap'[b].shrink = s.shrink

(* Add finds an entry there is.                                            *)
LEMMA KnownBitmap ==
  ASSUME SecInv, NEW f, NEW s \in Section, Known(f, s) # {},
         UNCHANGED <<bitmap, nBitmaps>>,
         iBitmap' = CHOOSE b \in Known(f, s) : \A c \in Known(f, s) : b <= c,
         nBitmaps <= BITMAP_MAX
  PROVE  iBitmap' \in 1 .. nBitmaps /\ ShowsAfter(iBitmap', s, f)
<1>1. nBitmaps \in Nat
  BY SectionsAssumption DEF SecInv, Counts
<1>2. Known(f, s) \subseteq Nat
  BY <1>1 DEF Known
<1>3. \E b \in Known(f, s) : \A c \in Known(f, s) : b <= c
  BY <1>2, SmallestExists
<1>4. iBitmap' \in Known(f, s)
  BY <1>3
<1>5. PICK b \in 1 .. nBitmaps : /\ b = iBitmap'
                                 /\ bitmap[b].file = f
                                 /\ bitmap[b].aco = s.aco
                                 /\ bitmap[b].shrink = s.shrink
  BY <1>4 DEF Known
<1> QED
  BY <1>5 DEF ShowsAfter

(* What Add writes into an entry                                           *)
LEMMA EntryFacts ==
  ASSUME NEW f, NEW s, NEW old
  PROVE  /\ Entry(f, s, old).file = f
         /\ Entry(f, s, old).aco = s.aco
         /\ s.shrink \in 1 .. 8 => Entry(f, s, old).shrink = s.shrink
BY DEF Entry

(* Add makes a new entry and leaves the others alone.                      *)
LEMMA NewBitmap ==
  ASSUME SecInv, NEW f, NEW s \in Section,
         nBitmaps' = nBitmaps + 1, nBitmaps' <= BITMAP_MAX,
         iBitmap' = nBitmaps',
         bitmap' = [bitmap EXCEPT ![nBitmaps'] = Entry(f, s, @)]
  PROVE  /\ bitmap' = [b \in Slots |-> bitmap'[b]]
         /\ iBitmap' \in 1 .. nBitmaps' /\ iBitmap' \in Slots
         /\ ShowsAfter(iBitmap', s, f)
         /\ \A b \in 1 .. nBitmaps : bitmap'[b] = bitmap[b]
<1>1. PICK n \in Nat : n = nBitmaps
  BY SectionsAssumption DEF SecInv, Counts
<1>2. bitmap = [b \in Slots |-> bitmap[b]]
  BY DEF SecInv, Types
<1>3. n + 1 \in Slots
  BY <1>1, SectionsAssumption DEF Slots
<1>4. bitmap' = [bitmap EXCEPT ![n + 1] = Entry(f, s, bitmap[n + 1])]
  BY <1>1
<1> DEFINE e == Entry(f, s, bitmap[n + 1])
<1>6. /\ e.file = f /\ e.aco = s.aco
      /\ s.shrink \in 1 .. 8 => e.shrink = s.shrink
  BY EntryFacts
<1>7. bitmap' = [bitmap EXCEPT ![n + 1] = e]
  BY <1>4
<1> HIDE DEF e
<1>8. /\ bitmap' = [b \in Slots |-> bitmap'[b]]
      /\ bitmap'[n + 1] = e
      /\ \A b \in Slots : b # n + 1 => bitmap'[b] = bitmap[b]
  BY <1>2, <1>3, <1>6, <1>7
<1>9. \A b \in 1 .. n : b \in Slots /\ b # n + 1
  BY <1>3, SectionsAssumption DEF Slots
<1>10. iBitmap' = n + 1 /\ nBitmaps' = n + 1
  BY <1>1
<1>11. ShowsAfter(n + 1, s, f)
  BY <1>6, <1>8 DEF ShowsAfter
<1>12. \A b \in 1 .. nBitmaps : bitmap'[b] = bitmap[b]
  BY <1>1, <1>8, <1>9
<1>13. n + 1 \in 1 .. n + 1
  OBVIOUS
<1> QED
  BY <1>3, <1>8, <1>10, <1>11, <1>12, <1>13

(* A new entry differs from the others, or Add would have found one.       *)
LEMMA NewApart ==
  ASSUME SecInv, NEW f, NEW s \in Section,
         Known(f, s) = {},
         nBitmaps' = nBitmaps + 1, nBitmaps' <= BITMAP_MAX,
         iBitmap' = nBitmaps',
         bitmap' = [bitmap EXCEPT ![nBitmaps'] = Entry(f, s, @)],
         UNCHANGED <<texture, k>>,
         k \in 1 .. Len(texture), s = texture[k]
  PROVE  Apart'
<1> SUFFICES ASSUME \A l \in 1 .. k : texture[l].shrink \in 1 .. 8
             PROVE  \A b \in 1 .. nBitmaps' \cap Slots :
                      /\ bitmap'[b].shrink \in 1 .. 8
                      /\ \A c \in 1 .. nBitmaps' \cap Slots : b # c =>
                           \/ bitmap'[b].file # bitmap'[c].file
                           \/ bitmap'[b].aco # bitmap'[c].aco
                           \/ bitmap'[b].shrink # bitmap'[c].shrink
  BY Zenon DEF Apart, Slots
<1>1. PICK n \in Nat : n = nBitmaps
  BY SectionsAssumption DEF SecInv, Counts
<1>2. /\ \A b \in 1 .. n : bitmap'[b] = bitmap[b]
      /\ ShowsAfter(n + 1, s, f)
      /\ nBitmaps' = n + 1
  BY <1>1, NewBitmap
<1>3. k \in 1 .. k
  BY DEF SecInv, Types
<1>4. s.shrink \in 1 .. 8
  BY <1>3
<1>5. /\ bitmap'[n + 1].file = f /\ bitmap'[n + 1].aco = s.aco
      /\ bitmap'[n + 1].shrink = s.shrink
  BY <1>2, <1>4 DEF ShowsAfter
<1>6. \A b \in 1 .. n \cap Slots :
        /\ bitmap[b].shrink \in 1 .. 8
        /\ \A c \in 1 .. n \cap Slots : b # c =>
             \/ bitmap[b].file # bitmap[c].file
             \/ bitmap[b].aco # bitmap[c].aco
             \/ bitmap[b].shrink # bitmap[c].shrink
  BY <1>1, Zenon DEF SecInv, Apart
<1>7. \A b \in 1 .. n : \/ bitmap[b].file # f
                        \/ bitmap[b].aco # s.aco
                        \/ bitmap[b].shrink # s.shrink
  BY <1>1 DEF Known
<1>8. \A b \in 1 .. n + 1 : b \in 1 .. n \/ b = n + 1
  OBVIOUS
<1>9. ASSUME NEW b \in 1 .. nBitmaps' \cap Slots
      PROVE  bitmap'[b].shrink \in 1 .. 8
  BY <1>2, <1>4, <1>5, <1>6, <1>8
<1>10. ASSUME NEW b \in 1 .. nBitmaps' \cap Slots,
              NEW c \in 1 .. nBitmaps' \cap Slots, b # c
       PROVE  \/ bitmap'[b].file # bitmap'[c].file
              \/ bitmap'[b].aco # bitmap'[c].aco
              \/ bitmap'[b].shrink # bitmap'[c].shrink
  <2>1. CASE b = n + 1
    <3>1. c \in 1 .. n
      BY <1>2, <1>8, <1>10, <2>1
    <3> QED
      BY <1>2, <1>5, <1>7, <2>1, <3>1
  <2>2. CASE c = n + 1
    <3>1. b \in 1 .. n
      BY <1>2, <1>8, <1>10, <2>2
    <3> QED
      BY <1>2, <1>5, <1>7, <2>2, <3>1
  <2>3. CASE b \in 1 .. n /\ c \in 1 .. n
    BY <1>2, <1>6, <1>10, <2>3
  <2> QED
    BY <1>2, <1>8, <2>1, <2>2, <2>3
<1> QED
  BY <1>9, <1>10

(* The entries of Bitmap that are in use stay the same.                    *)
LEMMA ApartSame ==
  ASSUME SecInv, UNCHANGED <<texture, k, bitmap>>,
         1 .. nBitmaps' \cap Slots = 1 .. nBitmaps \cap Slots
  PROVE  Apart'
<1>1. Apart
  BY Zenon DEF SecInv
<1>2. Slots' = Slots
  BY Zenon DEF Slots
<1> QED
  BY <1>1, <1>2, Zenon DEF Apart

(* All that the callers of Add may rely on                                 *)
LEMMA AddBitmapFacts ==
  ASSUME SecInv, NEW f, NEW s \in Section,
         AddBitmap(f, s), UNCHANGED <<texture, k>>,
         k \in 1 .. Len(texture), s = texture[k],
         nBitmaps <= BITMAP_MAX
  PROVE  /\ bitmap' = [b \in Slots |-> bitmap'[b]]
         /\ nBitmaps' \in nBitmaps .. nBitmaps + 1
         /\ iBitmap' \in {-1} \cup Slots
         /\ \A b \in 1 .. nBitmaps : bitmap'[b] = bitmap[b]
         /\ iBitmap' >= 0 => /\ iBitmap' \in 1 .. nBitmaps'
                             /\ nBitmaps' <= BITMAP_MAX
                             /\ ShowsAfter(iBitmap', s, f)
         /\ Apart'
<1>1. PICK n \in Nat : n = nBitmaps
  BY SectionsAssumption DEF SecInv, Counts
<1>2. bitmap = [b \in Slots |-> bitmap[b]]
  BY DEF SecInv, Types
<1>3. CASE Known(f, s) # {}
  <2>1. /\ UNCHANGED <<bitmap, nBitmaps>>
        /\ iBitmap' = CHOOSE b \in Known(f, s) : \A c \in Known(f, s) : b <= c
    BY <1>3, Zenon DEF AddBitmap
  <2>2. iBitmap' \in 1 .. nBitmaps /\ ShowsAfter(iBitmap', s, f)
    BY <1>3, <2>1, KnownBitmap
  <2>3. iBitmap' \in Slots
    BY <1>1, <2>2, SectionsAssumption DEF Slots
  <2>4. Apart'
    BY <2>1, ApartSame, Zenon
  <2>5. nBitmaps' \in nBitmaps .. nBitmaps + 1
    BY <1>1, <2>1
  <2> QED
    BY <1>2, <2>1, <2>2, <2>3, <2>4, <2>5
<1>4. CASE Known(f, s) = {} /\ nBitmaps + 1 > BITMAP_MAX
  <2>1. nBitmaps' = nBitmaps + 1 /\ iBitmap' = -1 /\ UNCHANGED bitmap
    BY <1>1, <1>4, SectionsAssumption DEF AddBitmap
  <2>2. nBitmaps' \in nBitmaps .. nBitmaps + 1
    BY <1>1, <2>1
  <2>3. 1 .. nBitmaps' \cap Slots = 1 .. nBitmaps \cap Slots
    BY <1>1, <1>4, <2>1, SectionsAssumption DEF Slots
  <2>4. Apart'
    BY <2>1, <2>3, ApartSame, Zenon
  <2>5. ~(iBitmap' >= 0) /\ iBitmap' \in {-1} \cup Slots
    BY <2>1
  <2> QED
    BY <1>2, <2>1, <2>2, <2>4, <2>5
<1>5. CASE Known(f, s) = {} /\ nBitmaps + 1 <= BITMAP_MAX
  <2>1. /\ nBitmaps' = nBitmaps + 1 /\ nBitmaps' <= BITMAP_MAX
        /\ iBitmap' = nBitmaps'
        /\ bitmap' = [bitmap EXCEPT ![nBitmaps'] = Entry(f, s, @)]
    BY <1>1, <1>5, SectionsAssumption DEF AddBitmap
  <2>2. /\ bitmap' = [b \in Slots |-> bitmap'[b]]
        /\ iBitmap' \in 1 .. nBitmaps' /\ iBitmap' \in Slots
        /\ ShowsAfter(iBitmap', s, f)
        /\ \A b \in 1 .. nBitmaps : bitmap'[b] = bitmap[b]
    BY <2>1, NewBitmap
  <2>3. Apart'
    BY <1>5, <2>1, NewApart
  <2>4. nBitmaps' \in nBitmaps .. nBitmaps + 1
    BY <1>1, <2>1
  <2> QED
    BY <2>1, <2>2, <2>3, <2>4
<1>6. BITMAP_MAX \in Nat
  BY SectionsAssumption
<1> QED
  BY <1>1, <1>3, <1>4, <1>5, <1>6

(* A step that leaves the arrays, the texture and the header alone         *)
LEMMA SameArrays ==
  ASSUME SecInv, UNCHANGED <<texture, k, array, header>>
  PROVE  /\ HeaderIndexes' /\ FramesShowFiles' /\ Apart'
         /\ \A l : FramesOf(l)' = FramesOf(l)
         /\ Added' = Added
         /\ Sec' = Sec
<1>0. /\ texture' = texture /\ k' = k /\ bitmap' = bitmap
      /\ nBitmaps' = nBitmaps /\ frame' = frame /\ header' = header
  BY Zenon DEF array
<1>1. HeaderIndexes'
  <2>1. HeaderIndexes
    BY Zenon DEF SecInv
  <2> QED
    BY <1>0, <2>1, Zenon DEF HeaderIndexes
<1>2. \A l : FramesOf(l)' = FramesOf(l)
  BY <1>0, Zenon DEF FramesOf
<1>3. \A f : Nth(f)' = Nth(f)
  BY <1>0, <1>2, Zenon DEF Nth
<1>4. FramesShowFiles'
  <2>1. FramesShowFiles
    BY Zenon DEF SecInv
  <2> QED
    BY <1>0, <1>3, <2>1, Zenon DEF FramesShowFiles
<1>5. Apart'
  BY <1>0, ApartSame, Zenon
<1>6. Added' = Added
  BY <1>0, <1>2, Zenon DEF Added
<1>7. Sec' = Sec
  BY <1>0, Zenon DEF Sec
<1> QED
  BY <1>1, <1>2, <1>4, <1>5, <1>6, <1>7

(* The initial state                                                       *)
LEMMA InitSec == Init => SecInv
<1> SUFFICES ASSUME Init PROVE SecInv
  OBVIOUS
<1> USE SectionsAssumption
<1>0. /\ texture = <<>> /\ done = 0 /\ k = 0 /\ j = 0 /\ iBitmap = -1
      /\ nBitmaps = 0 /\ frame = <<>> /\ nFrames = 0 /\ header = <<>>
      /\ saved = <<>> /\ uids = <<>> /\ pc = "true" /\ total \in Garbage
      /\ Len(texture) = 0 /\ Len(frame) = 0 /\ Len(header) = 0
      /\ bitmap = [b \in Slots |-> Free]
  BY DEF Init
<1>1. Types
  <2>2. bitmap = [b \in Slots |-> bitmap[b]]
    BY <1>0
  <2>3. total \in Int
    BY <1>0
  <2>4. /\ texture \in Seq(Section)
        /\ frame \in Seq([sec : Nat \ {0}, bitmap : Slots])
        /\ header \in Seq(STRING \X Nat)
        /\ uids \in Seq([uid : STRING, frames : Int, box : BOOLEAN,
                         added : Nat])
    BY <1>0
  <2>5. done \in 0 .. MaxTextures /\ k \in 0 .. Len(texture) /\ j \in Nat
    BY <1>0
  <2>6. iBitmap \in {-1} \cup Slots
    BY <1>0
  <2>7. pc = "true"
    BY <1>0
  <2> QED
    BY <2>2, <2>3, <2>4, <2>5, <2>6, <2>7, Zenon DEF Types
<1>2. Counts
  BY <1>0 DEF Counts
<1>3. FrameOK /\ HeaderIndexes /\ FramesShowFiles /\ SeqUids
  BY <1>0 DEF FrameOK, HeaderIndexes, FramesShowFiles, SeqUids
<1>4. Names
  BY <1>0 DEF Names, InSection
<1>5. Stages
  BY <1>0 DEF Stages
<1>6. Complete
  BY <1>0 DEF Complete
<1>7. Apart
  BY <1>0 DEF Apart
<1> QED
  BY <1>1, <1>2, <1>3, <1>4, <1>5, <1>6, <1>7 DEF SecInv

(* Free_All begins the next texture, whatever the last one left.           *)
LEMMA BeginSec ==
  ASSUME SecInv, NEW t \in Textures, Begin(t)
  PROVE  SecInv'
<1> USE SectionsAssumption
<1>0. /\ texture' = t /\ done' = done + 1 /\ done < MaxTextures /\ k' = 0
      /\ j' = j /\ iBitmap' = iBitmap /\ bitmap' = bitmap /\ uids' = uids
      /\ nBitmaps' = 0 /\ frame' = <<>> /\ nFrames' = 0 /\ header' = <<>>
      /\ saved' = <<>> /\ pc' = "enum" /\ total' \in Garbage
      /\ Len(frame') = 0 /\ Len(header') = 0
  BY DEF Begin
<1>1. Types'
  <2>1. /\ done \in 0 .. MaxTextures /\ j \in Nat /\ iBitmap \in {-1} \cup Slots
        /\ bitmap = [b \in Slots |-> bitmap[b]]
        /\ uids \in Seq([uid : STRING, frames : Int, box : BOOLEAN,
                         added : Nat])
    BY DEF SecInv, Types
  <2>2. texture' \in Seq(Section)
    BY <1>0
  <2>3. done' \in 0 .. MaxTextures
    BY <1>0, <2>1
  <2>4. k' \in 0 .. Len(texture)'
    BY <1>0, <2>2
  <2>5. /\ frame' \in Seq([sec : Nat \ {0}, bitmap : Slots])
        /\ header' \in Seq(STRING \X Nat)
    BY <1>0
  <2>6. total' \in Int
    BY <1>0
  <2>7. iBitmap' \in {-1} \cup Slots /\ bitmap' = [b \in Slots |-> bitmap'[b]]
    BY <1>0, <2>1
  <2>8. Slots' = Slots
    BY DEF Slots
  <2>9. /\ (bitmap = [b \in Slots |-> bitmap[b]])'
        /\ iBitmap' \in ({-1} \cup Slots)'
    BY <2>7, <2>8
  <2>10. (frame \in Seq([sec : Nat \ {0}, bitmap : Slots]))'
    BY <2>5, <2>8
  <2> QED
    BY <1>0, <2>1, <2>2, <2>3, <2>4, <2>5, <2>6, <2>9, <2>10, Zenon
       DEF Types, Section
<1>2. Counts'
  BY <1>0 DEF Counts
<1>3. FrameOK' /\ HeaderIndexes' /\ FramesShowFiles'
  BY <1>0 DEF FrameOK, HeaderIndexes, FramesShowFiles
<1>4. Names'
  BY <1>0 DEF Names, InSection
<1>5. Stages'
  BY <1>0 DEF Stages
<1>6. Complete'
  <2>1. \A l \in 1 .. Len(texture') : ~(l < 0 \/ l = 0)
    OBVIOUS
  <2> QED
    BY <1>0, <2>1 DEF Complete, Left
<1>7. Apart'
  BY <1>0 DEF Apart
<1>8. SeqUids'
  BY <1>0, Zenon DEF SecInv, SeqUids
<1> QED
  BY <1>1, <1>2, <1>3, <1>4, <1>5, <1>6, <1>7, <1>8 DEF SecInv

(* An entry of the list of UIDs                                            *)
UidRec == [uid : STRING, frames : Int, box : BOOLEAN, added : Nat]

(* How the types after a step are shown                                    *)
LEMMA TypesNext ==
  ASSUME texture' \in Seq(Section), done' \in 0 .. MaxTextures,
         k' \in 0 .. Len(texture'), j' \in Nat, iBitmap' \in {-1} \cup Slots,
         bitmap' = [b \in Slots |-> bitmap'[b]], frame' \in Seq(FrameRec),
         total' \in Int, header' \in Seq(STRING \X Nat), uids' \in Seq(UidRec),
         pc' \in {"true", "false", "enum", "infile", "first", "box", "check",
                  "seq", "uid"}
  PROVE  Types'
BY Zenon DEF Types, Slots, Section, FrameRec, UidRec

(* The types before it                                                     *)
LEMMA TypesNow ==
  ASSUME SecInv
  PROVE  /\ texture \in Seq(Section) /\ done \in 0 .. MaxTextures
         /\ k \in 0 .. Len(texture) /\ j \in Nat /\ iBitmap \in {-1} \cup Slots
         /\ bitmap = [b \in Slots |-> bitmap[b]] /\ frame \in Seq(FrameRec)
         /\ total \in Int /\ header \in Seq(STRING \X Nat)
         /\ uids \in Seq(UidRec)
         /\ pc \in {"true", "false", "enum", "infile", "first", "box", "check",
                    "seq", "uid"}
BY Zenon DEF SecInv, Types, FrameRec, UidRec

(* A step within a section keeps the names.                                *)
LEMMA NamesSame ==
  ASSUME SecInv, InSection, UNCHANGED <<texture, k, header>>,
         nFrames' \in Nat, nFrames' >= nFrames
  PROVE  Names'
<1>1. header \in Seq(STRING \X Nat) /\ nFrames \in Nat
  BY DEF SecInv, Types, Counts
<1>2. \A d \in DOMAIN header : header[d][2] <= nFrames'
  <2>1. SUFFICES ASSUME NEW d \in DOMAIN header PROVE header[d][2] <= nFrames'
    OBVIOUS
  <2>2. header[d][2] \in Nat
    BY <1>1
  <2>3. header[d][2] <= nFrames
    BY DEF SecInv, Names
  <2> QED
    BY <1>1, <2>2, <2>3
<1>3. pc # "false"
  BY DEF InSection
<1>4. Sec' = Sec
  BY DEF Sec
<1> QED
  BY <1>2, <1>3, <1>4, Zenon DEF SecInv, Names

(* As long as a section is being read, nothing new is left behind.         *)
LEMMA StillComplete ==
  ASSUME SecInv, InSection, UNCHANGED <<texture, k, saved>>,
         pc' \notin {"enum", "uid"},
         nFrames' <= FRAME_MAX => nFrames <= FRAME_MAX,
         \A l \in 1 .. Len(texture) : l < k =>
           Cardinality(FramesOf(l))' = Cardinality(FramesOf(l))
  PROVE  Complete'
<1>1. saved = <<>>
  BY Zenon DEF SecInv, Complete, InSection
<1>2. ASSUME nFrames' <= FRAME_MAX, NEW l \in 1 .. Len(texture), Left(l)'
      PROVE  Cardinality(FramesOf(l))' = Wanted(texture[l])
  <2>1. l < k
    BY <1>1, <1>2, Zenon DEF Left
  <2> QED
    BY <1>2, <2>1, Zenon DEF SecInv, Complete, Left
<1>3. \A l : Wanted(texture[l])' = Wanted(texture[l])
  BY Zenon DEF Wanted
<1> QED
  BY <1>1, <1>2, <1>3, Zenon DEF Complete

(* A step in a section that adds neither bitmaps nor frames                *)
LEMMA QuietSec ==
  ASSUME SecInv, InSection,
         UNCHANGED <<texture, k, array, header, saved, done, iBitmap, uids>>,
         pc' \in {"true", "false", "first", "box", "check", "seq", "uid"},
         pc' \in {"first", "check"} => pc \in {"infile", "check"},
         j' \in Nat, total' \in Int, Stages'
  PROVE  SecInv'
<1>0. /\ texture' = texture /\ k' = k /\ bitmap' = bitmap
      /\ nBitmaps' = nBitmaps /\ frame' = frame /\ header' = header
      /\ nFrames' = nFrames /\ uids' = uids /\ saved' = saved
      /\ done' = done /\ iBitmap' = iBitmap
  BY Zenon DEF array
<1>1. Types'
  BY <1>0, TypesNow, TypesNext, Zenon
<1>2. Counts'
  <2>1. nBitmaps <= BITMAP_MAX
    BY SectionsAssumption DEF SecInv, Counts, InSection
  <2> QED
    BY <1>0, <2>1, SectionsAssumption DEF SecInv, Counts
<1>3. FrameOK'
  BY <1>0, Zenon DEF SecInv, FrameOK
<1>4. Names'
  <2>1. nFrames' \in Nat /\ nFrames' >= nFrames
    BY <1>0 DEF SecInv, Counts
  <2> QED
    BY <1>0, <2>1, NamesSame
<1>5. /\ HeaderIndexes' /\ FramesShowFiles' /\ Apart'
      /\ \A l : FramesOf(l)' = FramesOf(l)
      /\ Added' = Added /\ Sec' = Sec
  BY <1>0, SameArrays
<1>6. SeqUids'
  BY <1>0, Zenon DEF SecInv, SeqUids
<1>7. Complete'
  <2>1. \A l : Cardinality(FramesOf(l))' = Cardinality(FramesOf(l))
    BY <1>5
  <2>2. CASE pc' # "uid"
    <3>1. pc' \notin {"enum", "uid"}
      BY <2>2
    <3> QED
      BY <1>0, <2>1, <3>1, StillComplete
  <2>3. CASE pc' = "uid"
    <3>1. saved = <<>>
      BY Zenon DEF SecInv, Complete, InSection
    <3>2. nFrames <= FRAME_MAX => Cardinality(FramesOf(k)) = Wanted(texture[k])
      <4>1. nFrames' <= FRAME_MAX => Added' = Wanted(Sec)'
        BY <2>3, Zenon DEF Stages
      <4>2. Wanted(Sec)' = Wanted(Sec)
        BY <1>5, Zenon DEF Wanted
      <4> QED
        BY <1>0, <1>5, <4>1, <4>2, Zenon DEF Added, Sec
    <3>3. ASSUME nFrames' <= FRAME_MAX, NEW l \in 1 .. Len(texture), Left(l)'
          PROVE  Cardinality(FramesOf(l))' = Wanted(texture[l])
      <4>1. l < k \/ l = k
        BY <1>0, <3>3, Zenon DEF Left
      <4>2. CASE l < k
        BY <1>0, <2>1, <3>3, <4>2, Zenon DEF SecInv, Complete, Left
      <4>3. CASE l = k
        BY <1>0, <2>1, <3>2, <3>3, <4>3
      <4> QED
        BY <4>1, <4>2, <4>3
    <3>4. \A l : Wanted(texture[l])' = Wanted(texture[l])
      BY <1>0, Zenon DEF Wanted
    <3> QED
      BY <1>0, <3>1, <3>3, <3>4, Zenon DEF Complete
  <2> QED
    BY <2>2, <2>3
<1> QED
  BY <1>1, <1>2, <1>3, <1>4, <1>5, <1>6, <1>7, Zenon DEF SecInv

(* Between the loops nothing is handed on.                                 *)
LEMMA StagesIdle ==
  ASSUME pc' \in {"true", "false", "enum", "infile"}
  PROVE  Stages'
BY DEF Stages

(* The fields of a frame                                                   *)
LEMMA FrameFields ==
  ASSUME SecInv, NEW f \in DOMAIN frame
  PROVE  /\ f \in 1 .. Len(frame)
         /\ frame[f].sec \in Nat \ {0} /\ frame[f].bitmap \in Slots
<1>1. frame \in Seq(FrameRec)
  BY TypesNow
<1>2. frame[f] \in FrameRec /\ f \in 1 .. Len(frame)
  BY <1>1
<1> QED
  BY <1>2 DEF FrameRec

(* CheckSection keeps the invariant.                                       *)
LEMMA CheckSectionSec ==
  ASSUME SecInv, CheckSection
  PROVE  SecInv'
<1>0. /\ pc = "infile" /\ file' = <<Sec.base, 0>> /\ j' = 1
      /\ UNCHANGED <<texture, done, k, iBitmap, array, total, header, saved,
                     uids>>
  BY Zenon DEF CheckSection
<1>1. InSection
  BY <1>0 DEF InSection
<1>2. /\ Sec \in Section /\ Sec.frames \in Int
      /\ Sec' = Sec
  BY <1>0, <1>1, SecFacts, SecFields DEF Sec
<1>3. \/ pc' \in {"true", "false"}
      \/ pc' = "first" /\ Sec.box /\ Sec.frames >= 1
      \/ /\ pc' = "check" /\ ~Sec.box /\ Sec.frames >= 1
         /\ Sec.base \in Numeric \/ Sec.frames = 1
  BY Zenon DEF CheckSection, Return
<1>4. Stages'
  <2>1. CASE pc' \in {"true", "false"}
    BY <2>1, StagesIdle
  <2>2. CASE pc' = "first" /\ Sec.box /\ Sec.frames >= 1
    BY <1>0, <1>2, <2>2 DEF Stages
  <2>3. CASE /\ pc' = "check" /\ ~Sec.box /\ Sec.frames >= 1
             /\ Sec.base \in Numeric \/ Sec.frames = 1
    <3>1. j' \in 1 .. Sec.frames /\ j' - 1 = 0 /\ j' - 1 <= LastNumber
      BY <1>0, <1>2, <2>3, SectionsAssumption
    <3> QED
      BY <1>0, <1>2, <2>3, <3>1 DEF Stages
  <2> QED
    BY <1>3, <2>1, <2>2, <2>3
<1>5. j' \in Nat /\ total' \in Int
  BY <1>0, TypesNow
<1>6. pc' \in {"true", "false", "first", "box", "check", "seq", "uid"}
  BY <1>3
<1> QED
  BY <1>0, <1>1, <1>4, <1>5, <1>6, QuietSec

(* CheckFile keeps it: the number of the file is that of the counter.      *)
LEMMA CheckFileSec ==
  ASSUME SecInv, CheckFile
  PROVE  SecInv'
<1>0. /\ pc = "check"
      /\ UNCHANGED <<texture, done, k, iBitmap, array, header, saved, uids>>
  BY Zenon DEF CheckFile
<1>1. InSection
  BY <1>0 DEF InSection
<1>2. /\ Sec \in Section /\ Sec.frames \in Int /\ Sec.skip \in Nat
      /\ Sec' = Sec /\ k \in Nat \ {0}
  BY <1>0, <1>1, SecFacts, SecFields DEF Sec
<1>3. /\ ~Sec.box /\ j \in 1 .. Sec.frames
      /\ Sec.frames = 1 \/ Sec.base \in Numeric
      /\ file = <<Sec.base, j - 1>>
      /\ j - 1 <= LastNumber
  BY <1>0, Zenon DEF SecInv, Stages
<1>4. CASE j = Sec.frames
  <2>1. /\ file' = <<Sec.base, 0>> /\ j' = 0 /\ total' = 0 /\ pc' = "seq"
    <3>1. ~(j < Sec.frames)
      BY <1>2, <1>4
    <3> QED
      BY <3>1, Zenon DEF CheckFile
  <2>2. Added = 0
    <3>1. \A f \in DOMAIN frame : frame[f].sec # k
      <4>1. SUFFICES ASSUME NEW f \in DOMAIN frame PROVE frame[f].sec # k
        OBVIOUS
      <4>2. frame[f].sec < k
        BY <1>0 DEF SecInv, FrameOK
      <4>3. frame[f].sec \in Nat
        BY FrameFields
      <4> QED
        BY <1>2, <4>2, <4>3
    <3> QED
      BY <3>1, TypesNow, InNone, SameSets DEF Added
  <2>3. Added' = Added
    BY <1>0, SameArrays
  <2>4. Numbered'
    BY <1>2, <1>3, <1>4 DEF Numbered
  <2>5. Steps'
    <3>1. Sec.skip # 0 => Sec.skip * 0 >= 0 /\ Sec.skip * (0 - 1) < 0
      BY <1>2
    <3> QED
      BY <1>2, <2>1, <3>1 DEF Steps
  <2>6. j' \in 0 .. Sec.frames /\ Sec.frames >= 1
    BY <1>2, <1>3, <2>1
  <2>7. Stages'
    BY <1>2, <1>3, <2>1, <2>2, <2>3, <2>4, <2>5, <2>6, Zenon DEF Stages
  <2>8. j' \in Nat /\ total' \in Int
    BY <2>1
  <2> QED
    BY <1>0, <1>1, <2>1, <2>7, <2>8, QuietSec
<1>5. CASE j < Sec.frames
  <2>1. /\ file' = Increment(file) /\ j' = j + 1 /\ total' = total
        /\ \/ IncrementOK(file) /\ pc' = pc
           \/ pc' = "false"
    BY <1>2, <1>3, <1>5 DEF CheckFile, Return
  <2>2. Stages'
    <3>1. CASE pc' = "false"
      BY <3>1, StagesIdle
    <3>2. CASE IncrementOK(file) /\ pc' = "check"
      <4>1. file' = <<Sec.base, j - 1 + 1>> /\ j - 1 < LastNumber
            /\ Sec.base \in Numeric
        BY <1>3, <2>1, <3>2 DEF Increment, IncrementOK
      <4>2. /\ j - 1 + 1 = j' - 1 /\ j' - 1 <= LastNumber
            /\ j' \in 1 .. Sec.frames
        BY <1>2, <1>3, <1>5, <2>1, <4>1, SectionsAssumption
      <4>3. file' = <<Sec.base, j' - 1>>
        BY <4>1, <4>2
      <4> QED
        BY <1>2, <1>3, <3>2, <4>1, <4>2, <4>3 DEF Stages
    <3> QED
      BY <1>0, <2>1, <3>1, <3>2
  <2>3. j' \in Nat /\ total' \in Int
    BY <1>3, <2>1, TypesNow
  <2> QED
    BY <1>0, <1>1, <2>1, <2>2, <2>3, QuietSec
<1> QED
  BY <1>2, <1>3, <1>4, <1>5

(* SkipFile keeps it.                                                      *)
LEMMA SkipFileSec ==
  ASSUME SecInv, SkipFile
  PROVE  SecInv'
<1>0. /\ pc = "seq" /\ j < Sec.frames /\ Skipped
      /\ file' = Increment(file) /\ j' = j + 1
      /\ UNCHANGED <<texture, done, k, iBitmap, array, total, header, saved,
                     uids, pc>>
  BY Zenon DEF SkipFile
<1>1. InSection
  BY <1>0 DEF InSection
<1>2. /\ Sec \in Section /\ Sec.frames \in Int /\ Sec.skip \in Nat
      /\ Sec' = Sec
  BY <1>0, <1>1, SecFacts, SecFields DEF Sec
<1>3. /\ ~Sec.box /\ Sec.frames >= 1 /\ j \in 0 .. Sec.frames
      /\ Numbered /\ file = <<Sec.base, j>>
      /\ total = Added /\ Steps
  BY <1>0, Zenon DEF SecInv, Stages
<1>4. Added' = Added /\ total' = total
  BY <1>0, SameArrays
<1>5. Numbered'
  BY <1>2, <1>3, Zenon DEF Numbered
<1>6. Steps'
  <2>1. total \in Int /\ j \in Nat /\ Sec.skip \in Nat \ {0} /\ j % Sec.skip # 0
    BY <1>0, <1>2, <1>3, TypesNow DEF Skipped
  <2>2. Sec.skip * total >= j /\ Sec.skip * (total - 1) < j
    BY <1>3, <2>1, Zenon DEF Steps
  <2>3. Sec.skip * total >= j + 1
    BY <2>1, <2>2, StepSkipped
  <2>4. PICK s \in Nat \ {0} : s = Sec.skip
    BY <2>1
  <2>5. s * (total - 1) < j + 1
    BY <2>1, <2>2, <2>4
  <2> QED
    BY <1>0, <1>2, <2>1, <2>3, <2>4, <2>5 DEF Steps
<1>7. j' < Sec.frames => file' = <<Sec.base, j'>>
  <2>1. SUFFICES ASSUME j + 1 < Sec.frames PROVE file' = <<Sec.base, j + 1>>
    BY <1>0
  <2>2. Sec.base \in Numeric /\ j < LastNumber
    BY <1>2, <1>3, <2>1, SectionsAssumption DEF Numbered
  <2> QED
    BY <1>0, <1>3, <2>2 DEF Increment
<1>8. j' \in 0 .. Sec.frames /\ j' \in Nat /\ total' \in Int
  BY <1>0, <1>2, <1>3, TypesNow
<1>9. Stages'
  <2>1. pc' = "seq"
    BY <1>0
  <2>2. total' = Added'
    BY <1>3, <1>4
  <2> QED
    BY <1>2, <1>3, <1>5, <1>6, <1>7, <1>8, <2>1, <2>2, Zenon DEF Stages
<1> QED
  BY <1>0, <1>1, <1>8, <1>9, QuietSec

(* The frames a section asks for, in terms of the counters                 *)
LEMMA WantedFacts ==
  ASSUME NEW s \in Section, s.name # OUTPUT, s.frames >= 1, NEW t \in Int,
         IF s.box THEN t = s.frames
         ELSE /\ s.skip = 0 => t = s.frames
              /\ s.skip # 0 => /\ s.skip * t >= s.frames
                               /\ s.skip * (t - 1) < s.frames
  PROVE  Wanted(s) = t
<1>1. s.frames \in Nat /\ s.skip \in Nat /\ s.box \in BOOLEAN
  BY SecFields
<1>2. CASE s.box \/ s.skip = 0
  BY <1>2 DEF Wanted
<1>3. CASE ~s.box /\ s.skip # 0
  <2>1. (s.frames + s.skip - 1) \div s.skip = t
    BY <1>1, <1>3, StepsAll
  <2> QED
    BY <1>3, <2>1 DEF Wanted
<1> QED
  BY <1>2, <1>3

(* LastFile keeps it.                                                      *)
LEMMA LastFileSec ==
  ASSUME SecInv, LastFile
  PROVE  SecInv'
<1>0. /\ pc = "seq" /\ j = Sec.frames /\ pc' = "uid"
      /\ UNCHANGED <<texture, done, k, j, file, iBitmap, array, total, header,
                     saved, uids>>
  BY Zenon DEF LastFile
<1>1. InSection
  BY <1>0 DEF InSection
<1>2. Sec \in Section /\ Sec.frames \in Int /\ Sec' = Sec
  BY <1>0, <1>1, SecFacts, SecFields DEF Sec
<1>3. /\ ~Sec.box /\ Sec.frames >= 1 /\ total = Added /\ Steps
  BY <1>0, Zenon DEF SecInv, Stages
<1>4. Sec.name # OUTPUT
  BY <1>1, Zenon DEF SecInv, Names
<1>5. Wanted(Sec) = total
  <2>1. total \in Int
    BY TypesNow
  <2> QED
    BY <1>0, <1>2, <1>3, <1>4, <2>1, WantedFacts DEF Steps
<1>6. Added' = Added /\ total' = total
  BY <1>0, SameArrays
<1>7. Wanted(Sec)' = Wanted(Sec)
  BY <1>2, Zenon DEF Wanted
<1>8. Stages'
  BY <1>0, <1>3, <1>5, <1>6, <1>7 DEF Stages
<1>9. j' \in Nat /\ total' \in Int
  BY <1>0, TypesNow
<1> QED
  BY <1>0, <1>1, <1>8, <1>9, QuietSec

(* AddUID keeps it.                                                        *)
LEMMA AddUIDSec ==
  ASSUME SecInv, AddUID
  PROVE  SecInv'
<1>0. /\ pc = "uid" /\ pc' = "enum"
      /\ uids' = Append(uids, [uid |-> Sec.name, frames |-> total,
                               box |-> Sec.box, added |-> Added])
      /\ UNCHANGED <<texture, done, k, j, file, iBitmap, array, total, header,
                     saved>>
  BY Zenon DEF AddUID, Added
<1>1. /\ InSection /\ nFrames' = nFrames /\ frame' = frame
      /\ nBitmaps' = nBitmaps
  BY <1>0, Zenon DEF InSection, array
<1>2. /\ Sec \in Section /\ Sec.name \in STRING /\ Sec.box \in BOOLEAN
      /\ k \in 1 .. Len(texture)
  BY <1>1, SecFacts, SecFields
<1>3. /\ ~Sec.box => total = Added
      /\ nFrames <= FRAME_MAX => Added = Wanted(Sec)
  BY <1>0, Zenon DEF SecInv, Stages
<1>4. Added \in Nat
  BY TypesNow, InFinite, SameSets DEF Added
<1> DEFINE u == [uid |-> Sec.name, frames |-> total, box |-> Sec.box,
                 added |-> Added]
<1>5. u \in UidRec
  BY <1>2, <1>4, TypesNow DEF UidRec
<1>6. Types'
  <2>1. bitmap' = bitmap
    BY <1>0, Zenon DEF array
  <2>2. uids' \in Seq(UidRec)
    BY <1>0, <1>5, TypesNow
  <2> QED
    BY <1>0, <1>1, <2>1, <2>2, TypesNow, TypesNext, Zenon
<1>7. Counts'
  <2>1. nBitmaps <= BITMAP_MAX
    BY <1>0, SectionsAssumption DEF SecInv, Counts
  <2> QED
    BY <1>1, <2>1, SectionsAssumption DEF SecInv, Counts
<1>8. FrameOK'
  BY <1>0, <1>1, Zenon DEF SecInv, FrameOK
<1>9. Names'
  <2>1. nFrames' \in Nat /\ nFrames' >= nFrames
    BY <1>1 DEF SecInv, Counts
  <2> QED
    BY <1>0, <1>1, <2>1, NamesSame
<1>10. /\ HeaderIndexes' /\ FramesShowFiles' /\ Apart'
       /\ \A l : FramesOf(l)' = FramesOf(l)
  BY <1>0, SameArrays
<1>11. SeqUids'
  <2>1. \A v \in DOMAIN uids : ~uids[v].box => uids[v].frames = uids[v].added
    BY Zenon DEF SecInv, SeqUids
  <2>2. ~u.box => u.frames = u.added
    BY <1>3
  <2>3. /\ DOMAIN uids' = 1 .. Len(uids) + 1 /\ DOMAIN uids = 1 .. Len(uids)
        /\ uids'[Len(uids) + 1] = u /\ Len(uids) \in Nat
        /\ \A v \in 1 .. Len(uids) : uids'[v] = uids[v]
    BY <1>0, <1>5, TypesNow
  <2>4. \A v \in 1 .. Len(uids) + 1 : v \in 1 .. Len(uids) \/ v = Len(uids) + 1
    BY <2>3
  <2> HIDE DEF u
  <2>5. \A v \in DOMAIN uids' :
          ~uids'[v].box => uids'[v].frames = uids'[v].added
    BY <2>1, <2>2, <2>3, <2>4, Zenon
  <2> QED
    BY <2>5, Zenon DEF SeqUids
<1>12. Stages'
  BY <1>0, StagesIdle
<1>13. Complete'
  <2>1. saved = <<>> /\ saved' = <<>> /\ texture' = texture /\ k' = k
    BY <1>0, Zenon DEF SecInv, Complete
  <2>2. ASSUME nFrames' <= FRAME_MAX, NEW l \in 1 .. Len(texture), Left(l)'
        PROVE  Cardinality(FramesOf(l))' = Wanted(texture[l])
    <3>1. l < k \/ l = k
      BY <2>1, <2>2, Zenon DEF Left
    <3>2. Left(l)
      BY <1>0, <3>1, Zenon DEF Left
    <3>3. Cardinality(FramesOf(l)) = Wanted(texture[l])
      BY <1>1, <2>2, <3>2, Zenon DEF SecInv, Complete
    <3> QED
      BY <1>10, <3>3
  <2>3. \A l : Wanted(texture[l])' = Wanted(texture[l])
    BY <2>1, Zenon DEF Wanted
  <2> QED
    BY <2>1, <2>2, <2>3, Zenon DEF Complete
<1> QED
  BY <1>6, <1>7, <1>8, <1>9, <1>10, <1>11, <1>12, <1>13, Zenon DEF SecInv

(* Whatever Enum does with the next section, no other is disturbed.        *)
LEMMA NextSection ==
  ASSUME SecInv, pc = "enum", k < Len(texture), k' = k + 1,
         UNCHANGED <<texture, done, j, file, iBitmap, array, total, uids,
                     saved>>,
         pc' \in {"false", "enum", "infile"},
         header' \in Seq(STRING \X Nat), Names', HeaderIndexes',
         pc' = "enum" => texture[k'].name = OUTPUT
  PROVE  SecInv'
<1>0. /\ texture' = texture /\ bitmap' = bitmap
      /\ nBitmaps' = nBitmaps /\ frame' = frame
      /\ nFrames' = nFrames /\ uids' = uids /\ saved' = saved
      /\ done' = done /\ iBitmap' = iBitmap
  BY Zenon DEF array
<1>1. PICK n \in Nat : n = k
  BY TypesNow
<1>2. k' = n + 1 /\ n + 1 \in 0 .. Len(texture)
  BY <1>1, TypesNow
<1>3. Types'
  <2>1. k' \in 0 .. Len(texture')
    BY <1>0, <1>2
  <2> QED
    BY <1>0, <2>1, TypesNow, TypesNext, Zenon
<1>4. Counts'
  <2>1. nBitmaps <= BITMAP_MAX
    BY SectionsAssumption DEF SecInv, Counts
  <2> QED
    BY <1>0, <2>1, SectionsAssumption DEF SecInv, Counts
<1>5. \A f \in DOMAIN frame : frame[f].sec \in Nat /\ frame[f].sec <= n
  <2>1. SUFFICES ASSUME NEW f \in DOMAIN frame
                 PROVE  frame[f].sec \in Nat /\ frame[f].sec <= n
    OBVIOUS
  <2>2. frame[f].sec <= k
    BY DEF SecInv, FrameOK
  <2>3. frame[f].sec \in Nat
    BY FrameFields
  <2> QED
    BY <1>1, <2>2, <2>3
<1>6. FrameOK'
  <2>1. \A f \in DOMAIN frame : frame[f].sec < n + 1 /\ frame[f].sec <= n + 1
    BY <1>5
  <2> QED
    BY <1>0, <1>2, <2>1, Zenon DEF SecInv, FrameOK
<1>7. FramesShowFiles'
  <2>1. \A l : FramesOf(l)' = FramesOf(l)
    BY <1>0, Zenon DEF FramesOf
  <2>2. \A f : Nth(f)' = Nth(f)
    BY <1>0, <2>1, Zenon DEF Nth
  <2>3. FramesShowFiles
    BY Zenon DEF SecInv
  <2> QED
    BY <1>0, <2>2, <2>3, Zenon DEF FramesShowFiles
<1>8. SeqUids'
  BY <1>0, Zenon DEF SecInv, SeqUids
<1>9. Stages'
  BY StagesIdle
<1>10. Apart'
  <2>1. \A l \in 1 .. n : l \in 1 .. n + 1
    OBVIOUS
  <2>2. Apart /\ Slots' = Slots
    BY Zenon DEF SecInv, Slots
  <2>3. (\A l \in 1 .. k' : texture'[l].shrink \in 1 .. 8) =>
          \A l \in 1 .. k : texture[l].shrink \in 1 .. 8
    BY <1>0, <1>1, <1>2, <2>1, Zenon
  <2>4. ASSUME \A l \in 1 .. k' : texture'[l].shrink \in 1 .. 8,
               NEW b \in 1 .. nBitmaps \cap Slots
        PROVE  /\ bitmap[b].shrink \in 1 .. 8
               /\ \A c \in 1 .. nBitmaps \cap Slots : b # c =>
                    \/ bitmap[b].file # bitmap[c].file
                    \/ bitmap[b].aco # bitmap[c].aco
                    \/ bitmap[b].shrink # bitmap[c].shrink
    <3>1. \A l \in 1 .. k : texture[l].shrink \in 1 .. 8
      BY <2>3, <2>4, Zenon
    <3> QED
      BY <2>2, <3>1, Zenon DEF Apart
  <2>5. ASSUME \A l \in 1 .. k' : texture'[l].shrink \in 1 .. 8,
               NEW b \in 1 .. nBitmaps' \cap Slots
        PROVE  /\ bitmap'[b].shrink \in 1 .. 8
               /\ \A c \in 1 .. nBitmaps' \cap Slots : b # c =>
                    \/ bitmap'[b].file # bitmap'[c].file
                    \/ bitmap'[b].aco # bitmap'[c].aco
                    \/ bitmap'[b].shrink # bitmap'[c].shrink
    BY <1>0, <2>4, <2>5, Zenon
  <2> QED
    BY <2>5, Zenon DEF Apart, Slots
<1>11. Complete'
  <2>1. saved = <<>> /\ saved' = <<>>
    BY <1>0, Zenon DEF SecInv, Complete
  <2>2. ASSUME nFrames' <= FRAME_MAX, NEW l \in 1 .. Len(texture), Left(l)'
        PROVE  Cardinality(FramesOf(l))' = Wanted(texture[l])
    <3>1. FramesOf(l)' = FramesOf(l)
      BY <1>0, Zenon DEF FramesOf
    <3>2. l < n + 1 \/ (l = n + 1 /\ pc' = "enum")
      BY <1>2, <2>1, <2>2 DEF Left
    <3>3. CASE l < n + 1
      <4>1. l < n \/ l = n
        BY <3>3
      <4>2. Left(l)
        BY <1>1, <4>1, Zenon DEF Left
      <4> QED
        BY <1>0, <2>2, <3>1, <4>2, Zenon DEF SecInv, Complete
    <3>4. CASE l = n + 1 /\ pc' = "enum"
      <4>1. Cardinality(In(frame, l)) = 0
        <5>1. \A f \in DOMAIN frame : frame[f].sec # l
          BY <1>5, <3>4
        <5> QED
          BY <5>1, TypesNow, InNone
      <4>2. Wanted(texture[l]) = 0
        BY <1>2, <3>4, Zenon DEF Wanted
      <4> QED
        BY <3>1, <4>1, <4>2, SameSets
    <3> QED
      BY <3>2, <3>3, <3>4
  <2>3. \A l : Wanted(texture[l])' = Wanted(texture[l])
    BY <1>0, Zenon DEF Wanted
  <2> QED
    BY <1>0, <2>1, <2>2, <2>3, Zenon DEF Complete
<1> QED
  BY <1>3, <1>4, <1>6, <1>7, <1>8, <1>9, <1>10, <1>11, Zenon DEF SecInv

(* So does the header, with the frames.                                    *)
LEMMA SameIndexes ==
  ASSUME SecInv, UNCHANGED <<texture, frame, header>>
  PROVE  HeaderIndexes'
<1>1. HeaderIndexes
  BY Zenon DEF SecInv
<1> QED
  BY <1>1, Zenon DEF HeaderIndexes

(* Enum keeps it: a new #define begins behind all frames there are.        *)
LEMMA EnumSec ==
  ASSUME SecInv, Enum
  PROVE  SecInv'
<1>0. /\ pc = "enum"
      /\ UNCHANGED <<texture, done, j, file, iBitmap, array, total, uids>>
  BY Zenon DEF Enum
<1>00. /\ texture' = texture /\ bitmap' = bitmap
       /\ nBitmaps' = nBitmaps /\ frame' = frame
       /\ nFrames' = nFrames /\ uids' = uids
       /\ done' = done /\ iBitmap' = iBitmap
  BY <1>0, Zenon DEF array
<1>1. PICK n \in Nat : n = k
  BY TypesNow
<1>2. CASE k = Len(texture) /\ saved' = header /\ pc' = "true"
           /\ UNCHANGED <<k, header>>
  <2>1. Types'
    BY <1>0, <1>00, <1>2, TypesNow, TypesNext, Zenon
  <2>2. Counts'
    <3>1. nBitmaps <= BITMAP_MAX
      BY <1>0, SectionsAssumption DEF SecInv, Counts
    <3> QED
      BY <1>00, <3>1, SectionsAssumption DEF SecInv, Counts
  <2>3. FrameOK'
    BY <1>00, <1>2, Zenon DEF SecInv, FrameOK
  <2>4. Names'
    <3>1. ~InSection'
      BY <1>2 DEF InSection
    <3>2. pc # "false"
      BY <1>0
    <3> QED
      BY <1>00, <1>2, <3>1, <3>2, Zenon DEF SecInv, Names
  <2>5. HeaderIndexes' /\ FramesShowFiles' /\ Apart'
    BY <1>0, <1>00, <1>2, SameArrays
  <2>6. SeqUids'
    BY <1>00, Zenon DEF SecInv, SeqUids
  <2>7. Stages'
    BY <1>2, StagesIdle
  <2>8. Complete'
    <3>1. \A l \in 1 .. Len(texture) : Left(l)
      <4>1. SUFFICES ASSUME NEW l \in 1 .. Len(texture) PROVE Left(l)
        OBVIOUS
      <4>2. l < k \/ l = k
        BY <1>1, <1>2
      <4> QED
        BY <1>0, <4>2, Zenon DEF Left
    <3>2. \A l : FramesOf(l)' = FramesOf(l)
      BY <1>00, Zenon DEF FramesOf
    <3>3. \A l : Wanted(texture[l])' = Wanted(texture[l])
      BY <1>00, Zenon DEF Wanted
    <3> QED
      BY <1>00, <1>2, <3>1, <3>2, <3>3, Zenon DEF SecInv, Complete
  <2> QED
    BY <2>1, <2>2, <2>3, <2>4, <2>5, <2>6, <2>7, <2>8, Zenon DEF SecInv
<1>3. ASSUME k < Len(texture), k' = k + 1, saved' = saved PROVE SecInv'
  <2>0. /\ k' = n + 1 /\ n + 1 \in 1 .. Len(texture)
        /\ n + 1 \in Nat
    BY <1>1, <1>3, TypesNow
  <2>1. \/ pc' = "false" /\ header' = header
        \/ /\ \A l \in n + 1 + 1 .. Len(texture) :
                texture[l].name # texture[n + 1].name
           /\ \/ /\ pc' = "enum" /\ header' = header
                 /\ texture[n + 1].name = OUTPUT
              \/ /\ pc' = "infile"
                 /\ texture[n + 1].name # OUTPUT
                 /\ header' = Append(header, <<texture[n + 1].name, nFrames>>)
    <3>1. k # Len(texture)
      BY <1>1, <1>3
    <3> QED
      BY <1>0, <2>0, <3>1, Zenon DEF Enum, Return, GetFramesUsed
  <2>2. /\ \A l \in 1 .. n : \A m \in l + 1 .. Len(texture) :
             texture[l].name # texture[m].name
        /\ \A d \in DOMAIN header :
             /\ \E l \in 1 .. n : texture[l].name = header[d][1]
             /\ header[d][2] <= nFrames
             /\ \A e \in d + 1 .. Len(header) : header[d][1] # header[e][1]
    BY <1>0, <1>1, Zenon DEF SecInv, Names
  <2>3. /\ 1 .. n + 1 = 1 .. n \cup {n + 1}
        /\ \A l \in 1 .. n : n + 1 \in l + 1 .. Len(texture)
    BY <2>0
  <2>4. \A l \in 1 .. n : texture[l].name # texture[n + 1].name
    BY <2>2, <2>3
  <2>5. CASE pc' = "false" /\ header' = header
    <3>1. Names'
      <4>1. ~InSection' /\ ~(pc' # "false")
        BY <2>5 DEF InSection
      <4>2. \A d \in DOMAIN header :
              \E l \in 1 .. n + 1 : texture[l].name = header[d][1]
        BY <2>2, <2>3
      <4>3. \A d \in DOMAIN header' :
              /\ \E l \in 1 .. k' : texture'[l].name = header'[d][1]
              /\ header'[d][2] <= nFrames'
              /\ \A e \in d + 1 .. Len(header') : header'[d][1] # header'[e][1]
        BY <1>00, <2>0, <2>2, <2>5, <4>2, Zenon
      <4> QED
        BY <4>1, <4>3, Zenon DEF Names
    <3>2. HeaderIndexes'
      BY <1>00, <2>5, SameIndexes, Zenon
    <3>3. header' \in Seq(STRING \X Nat)
      BY <2>5, TypesNow
    <3> QED
      BY <1>0, <1>3, <2>5, <3>1, <3>2, <3>3, NextSection
  <2>6. CASE /\ \A l \in n + 1 + 1 .. Len(texture) :
                  texture[l].name # texture[n + 1].name
             /\ pc' = "enum" /\ header' = header /\ texture[n + 1].name = OUTPUT
    <3>1. Names'
      <4>1. ~InSection'
        BY <2>6 DEF InSection
      <4>2. \A l \in 1 .. n + 1 : \A m \in l + 1 .. Len(texture) :
              texture[l].name # texture[m].name
        BY <2>2, <2>3, <2>6
      <4>3. \A d \in DOMAIN header :
              \E l \in 1 .. n + 1 : texture[l].name = header[d][1]
        BY <2>2, <2>3
      <4>4. \A d \in DOMAIN header' :
              /\ \E l \in 1 .. k' : texture'[l].name = header'[d][1]
              /\ header'[d][2] <= nFrames'
              /\ \A e \in d + 1 .. Len(header') : header'[d][1] # header'[e][1]
        BY <1>00, <2>0, <2>2, <2>6, <4>3, Zenon
      <4> QED
        BY <1>00, <2>0, <4>1, <4>2, <4>4, Zenon DEF Names
    <3>2. HeaderIndexes'
      BY <1>00, <2>6, SameIndexes, Zenon
    <3>3. header' \in Seq(STRING \X Nat)
      BY <2>6, TypesNow
    <3>4. texture[k'].name = OUTPUT
      BY <2>0, <2>6
    <3> QED
      BY <1>0, <1>3, <2>6, <3>1, <3>2, <3>3, <3>4, NextSection
  <2>7. CASE /\ \A l \in n + 1 + 1 .. Len(texture) :
                  texture[l].name # texture[n + 1].name
             /\ pc' = "infile" /\ texture[n + 1].name # OUTPUT
             /\ header' = Append(header, <<texture[n + 1].name, nFrames>>)
    <3>0. texture[n + 1].name \in STRING /\ nFrames \in Nat
      <4>1. texture[n + 1] \in Section
        BY <2>0, TypesNow
      <4> QED
        BY <4>1, SecFields DEF SecInv, Counts
    <3>1. PICK h \in STRING \X Nat : h = <<texture[n + 1].name, nFrames>>
      BY <3>0
    <3>2. /\ h[1] = texture[n + 1].name /\ h[2] = nFrames
      BY <3>1
    <3>3. /\ header' = Append(header, h)
          /\ header \in Seq(STRING \X Nat)
      BY <2>7, <3>1, TypesNow
    <3>4. PICK hl \in Nat : hl = Len(header)
      BY <3>3
    <3>5. /\ DOMAIN header' = 1 .. hl + 1 /\ DOMAIN header = 1 .. hl
          /\ Len(header') = hl + 1
          /\ header'[hl + 1] = h
          /\ \A d \in 1 .. hl : header'[d] = header[d]
          /\ header' \in Seq(STRING \X Nat)
      BY <3>3, <3>4
    <3>6. \A d \in 1 .. hl + 1 : d \in 1 .. hl \/ d = hl + 1
      OBVIOUS
    <3>61. \A d \in 1 .. hl :
             /\ \E l \in 1 .. n : texture[l].name = header[d][1]
             /\ header[d][2] <= nFrames
             /\ \A e \in d + 1 .. hl : header[d][1] # header[e][1]
      BY <2>2, <3>4, <3>5, Zenon
    <3>7. \A d \in 1 .. hl : header[d][1] # h[1]
      BY <2>4, <3>2, <3>61, Zenon
    <3>8. Names'
      <4>1. \A l \in 1 .. n + 1 : \A m \in l + 1 .. Len(texture) :
              texture[l].name # texture[m].name
        BY <2>2, <2>3, <2>7
      <4>2. ASSUME NEW d \in 1 .. hl + 1
            PROVE  \E l \in 1 .. n + 1 : texture[l].name = header'[d][1]
        <5>1. CASE d \in 1 .. hl
          BY <2>3, <3>5, <3>61, <5>1, Zenon
        <5>2. CASE d = hl + 1
          BY <2>3, <3>2, <3>5, <5>2
        <5> QED
          BY <3>6, <5>1, <5>2
      <4>3. ASSUME NEW d \in 1 .. hl + 1
            PROVE  header'[d][2] <= nFrames
        <5>1. CASE d \in 1 .. hl
          BY <3>5, <3>61, <5>1, Zenon
        <5>2. CASE d = hl + 1
          BY <3>0, <3>2, <3>5, <5>2
        <5> QED
          BY <3>6, <5>1, <5>2
      <4>4. ASSUME NEW d \in 1 .. hl + 1, NEW e \in d + 1 .. hl + 1
            PROVE  header'[d][1] # header'[e][1]
        <5>1. d \in 1 .. hl
          OBVIOUS
        <5>2. CASE e = hl + 1
          BY <3>5, <3>7, <5>1, <5>2
        <5>3. CASE e \in d + 1 .. hl
          <6>1. e \in 1 .. hl
            BY <5>3
          <6>2. header[d][1] # header[e][1]
            BY <3>61, <5>1, <5>3, Zenon
          <6> QED
            BY <3>5, <5>1, <6>1, <6>2
        <5> QED
          BY <5>2, <5>3
      <4>5. /\ k' > 0 /\ Len(header') > 0 /\ Sec' = texture[n + 1]
            /\ header'[Len(header')][1] = texture[n + 1].name
        BY <1>00, <2>0, <3>2, <3>5 DEF Sec
      <4>6. /\ pc' # "false" =>
                 \A l \in 1 .. k' : \A m \in l + 1 .. Len(texture') :
                   texture'[l].name # texture'[m].name
            /\ \A d \in DOMAIN header' :
                 /\ \E l \in 1 .. k' : texture'[l].name = header'[d][1]
                 /\ header'[d][2] <= nFrames'
                 /\ \A e \in d + 1 .. Len(header') :
                      header'[d][1] # header'[e][1]
        BY <1>00, <2>0, <3>5, <4>1, <4>2, <4>3, <4>4, Zenon
      <4>7. Sec'.name # OUTPUT /\ header'[Len(header')][1] = Sec'.name
        BY <2>7, <4>5
      <4> QED
        BY <4>5, <4>6, <4>7, Zenon DEF Names
    <3>9. HeaderIndexes'
      <4>1. \A f \in DOMAIN frame :
              /\ f \in Nat /\ f <= nFrames
              /\ texture[frame[f].sec].name # h[1]
        <5>1. SUFFICES ASSUME NEW f \in DOMAIN frame
                       PROVE  /\ f \in Nat /\ f <= nFrames
                              /\ texture[frame[f].sec].name # h[1]
          OBVIOUS
        <5>2. frame \in Seq(FrameRec) /\ f \in 1 .. Len(frame)
          BY TypesNow
        <5>3. frame[f].sec \in Nat \ {0}
          BY FrameFields
        <5>4. frame[f].sec <= n
          BY <1>1 DEF SecInv, FrameOK
        <5>5. frame[f].sec \in 1 .. n
          BY <5>3, <5>4
        <5>6. Len(frame) <= nFrames
          BY <3>0, SectionsAssumption DEF SecInv, Counts
        <5>7. f \in Nat /\ f <= nFrames
          BY <3>0, <5>2, <5>6
        <5> QED
          BY <2>4, <3>2, <5>5, <5>7
      <4>2. ASSUME NEW d \in 1 .. hl + 1, NEW f \in DOMAIN frame
            PROVE  texture[frame[f].sec].name = header'[d][1] <=>
                     /\ header'[d][2] < f
                     /\ d = hl + 1 \/ f <= header'[d + 1][2]
        <5>1. CASE d = hl + 1
          BY <3>0, <3>2, <3>5, <4>1, <5>1
        <5>2. CASE d = hl
          <6>1. hl \in DOMAIN header
            BY <3>5, <5>2
          <6>2. texture[frame[f].sec].name = header[hl][1] <=> header[hl][2] < f
            BY <3>4, <6>1, Zenon DEF SecInv, HeaderIndexes
          <6>3. f <= header'[hl + 1][2]
            BY <3>2, <3>5, <4>1
          <6> QED
            BY <3>5, <5>2, <6>1, <6>2, <6>3
        <5>3. CASE d \in 1 .. hl - 1
          <6>1. d \in DOMAIN header /\ d # hl /\ d + 1 \in 1 .. hl /\ d # hl + 1
            BY <3>5, <5>3
          <6>2. texture[frame[f].sec].name = header[d][1] <=>
                     /\ header[d][2] < f
                     /\ d = hl \/ f <= header[d + 1][2]
            BY <3>4, <6>1, Zenon DEF SecInv, HeaderIndexes
          <6> QED
            BY <3>5, <6>1, <6>2
        <5> QED
          BY <5>1, <5>2, <5>3
      <4>3. ASSUME NEW d \in DOMAIN header', NEW f \in DOMAIN frame'
            PROVE  texture'[frame'[f].sec].name = header'[d][1] <=>
                     /\ header'[d][2] < f
                     /\ d = Len(header') \/ f <= header'[d + 1][2]
        <5>1. d \in 1 .. hl + 1 /\ f \in DOMAIN frame /\ Len(header') = hl + 1
          BY <1>00, <3>5
        <5>2. texture'[frame'[f].sec].name = texture[frame[f].sec].name
          BY <1>00
        <5> QED
          BY <4>2, <5>1, <5>2
      <4> QED
        BY <4>3, Zenon DEF HeaderIndexes
    <3>10. pc' # "enum" /\ pc' \in {"false", "enum", "infile"}
      BY <2>7
    <3> QED
      BY <1>0, <1>3, <3>5, <3>8, <3>9, <3>10, NextSection
  <2> QED
    BY <2>1, <2>5, <2>6, <2>7
<1> QED
  BY <1>2, <1>3, Zenon DEF Enum, Return

(* The file the n-th frame of section s shows                              *)
NthFile(s, n) ==
  <<s.base, IF s.box THEN 0 ELSE (IF s.skip = 0 THEN 1 ELSE s.skip) * n>>

(* FramesShowFiles in these terms                                          *)
LEMMA ShowFacts ==
  FramesShowFiles <=>
    \A f \in DOMAIN frame :
      LET s == texture[frame[f].sec]
          b == bitmap[frame[f].bitmap]
      IN  /\ b.file = NthFile(s, Nth(f))
          /\ b.aco = s.aco
          /\ s.shrink \in 1 .. 8 => b.shrink = s.shrink
BY Zenon DEF FramesShowFiles, NthFile

(* The bitmap of a frame that is there is not touched.                     *)
LEMMA FrameBitmaps ==
  ASSUME SecInv, \A b \in 1 .. nBitmaps : bitmap'[b] = bitmap[b],
         NEW f \in DOMAIN frame
  PROVE  bitmap'[frame[f].bitmap] = bitmap[frame[f].bitmap]
<1>1. frame[f].bitmap \in 1 .. BITMAP_MAX
  BY FrameFields DEF Slots
<1>2. frame[f].bitmap <= nBitmaps /\ nBitmaps \in Nat
  BY SectionsAssumption DEF SecInv, FrameOK, Counts
<1>3. frame[f].bitmap \in 1 .. nBitmaps
  BY <1>1, <1>2, SectionsAssumption
<1> QED
  BY <1>3

(* A step that finds no room for a frame, or none for a bitmap             *)
LEMMA NoFrameSec ==
  ASSUME SecInv, InSection,
         UNCHANGED <<texture, k, done, header, saved, uids, frame>>,
         \/ nFrames' = nFrames
         \/ Full /\ nFrames' = nFrames + 1,
         nBitmaps <= BITMAP_MAX,
         nBitmaps' \in nBitmaps .. nBitmaps + 1,
         bitmap' = [b \in Slots |-> bitmap'[b]],
         iBitmap' \in {-1} \cup Slots,
         \A b \in 1 .. nBitmaps : bitmap'[b] = bitmap[b],
         nBitmaps' > BITMAP_MAX => pc' = "false",
         pc' \in {"false", "box"},
         Apart', Stages', j' \in Nat, total' \in Int
  PROVE  SecInv'
<1>1. Types'
  BY TypesNow, TypesNext, Zenon
<1>2. Counts'
  <2>1. /\ nBitmaps \in Nat /\ nFrames \in Nat /\ BITMAP_MAX \in Nat
        /\ FRAME_MAX \in Nat
    BY SectionsAssumption DEF SecInv, Counts
  <2>2. nBitmaps' \in 0 .. BITMAP_MAX + 1
    BY <2>1
  <2>3. /\ nFrames <= FRAME_MAX => Len(frame) = nFrames
        /\ nFrames > FRAME_MAX => Len(frame) = FRAME_MAX
    BY DEF SecInv, Counts
  <2>4. /\ nFrames' \in Nat
        /\ nFrames' <= FRAME_MAX => Len(frame) = nFrames'
        /\ nFrames' > FRAME_MAX => Len(frame) = FRAME_MAX
    <3>1. CASE nFrames' = nFrames
      BY <2>1, <2>3, <3>1
    <3>2. CASE Full /\ nFrames' = nFrames + 1
      BY <2>1, <2>3, <3>2 DEF Full
    <3> QED
      BY <3>1, <3>2
  <2> QED
    BY <2>2, <2>4 DEF Counts
<1>3. FrameOK'
  <2>1. SUFFICES ASSUME NEW f \in DOMAIN frame
                 PROVE  frame[f].sec <= k /\ frame[f].bitmap <= nBitmaps'
    BY Zenon DEF FrameOK
  <2>2. frame[f].sec <= k /\ frame[f].bitmap <= nBitmaps
    BY DEF SecInv, FrameOK
  <2>3. nBitmaps \in Nat
    BY SectionsAssumption DEF SecInv, Counts
  <2>4. frame[f].bitmap \in Nat
    <3>1. frame[f].bitmap \in Slots
      BY FrameFields
    <3> QED
      BY <3>1, SectionsAssumption DEF Slots
  <2> QED
    BY <2>2, <2>3, <2>4
<1>4. Names'
  <2>1. nFrames' \in Nat /\ nFrames' >= nFrames
    BY DEF SecInv, Counts
  <2> QED
    BY <2>1, NamesSame
<1>5. HeaderIndexes'
  <2>1. HeaderIndexes
    BY Zenon DEF SecInv
  <2> QED
    BY <2>1, Zenon DEF HeaderIndexes
<1>6. \A l : FramesOf(l)' = FramesOf(l)
  BY Zenon DEF FramesOf
<1>7. FramesShowFiles'
  <2>1. \A f : Nth(f)' = Nth(f)
    BY <1>6, Zenon DEF Nth
  <2>2. ASSUME NEW f \in DOMAIN frame
        PROVE  /\ bitmap'[frame[f].bitmap].file =
                    NthFile(texture[frame[f].sec], Nth(f)')
               /\ bitmap'[frame[f].bitmap].aco = texture[frame[f].sec].aco
               /\ texture[frame[f].sec].shrink \in 1 .. 8 =>
                    bitmap'[frame[f].bitmap].shrink =
                      texture[frame[f].sec].shrink
    <3>1. bitmap'[frame[f].bitmap] = bitmap[frame[f].bitmap]
      BY FrameBitmaps
    <3>2. Nth(f)' = Nth(f)
      BY <2>1
    <3> QED
      BY <3>1, <3>2, ShowFacts, Zenon DEF SecInv
  <2> QED
    BY <2>2, Zenon DEF FramesShowFiles, NthFile
<1>8. SeqUids'
  BY Zenon DEF SecInv, SeqUids
<1>9. Complete'
  <2>1. nFrames' <= FRAME_MAX => nFrames <= FRAME_MAX
    BY SectionsAssumption DEF SecInv, Counts
  <2>2. \A l : Cardinality(FramesOf(l))' = Cardinality(FramesOf(l))
    BY <1>6
  <2>3. pc' \notin {"enum", "uid"}
    OBVIOUS
  <2> QED
    BY <2>1, <2>2, <2>3, StillComplete
<1> QED
  BY <1>1, <1>2, <1>3, <1>4, <1>5, <1>7, <1>8, <1>9, Zenon DEF SecInv

(* One frame more                                                          *)
LEMMA OneMore ==
  ASSUME SecInv, InSection, UNCHANGED <<texture, k>>,
         NEW b \in Slots, frame' = Append(frame, [sec |-> k, bitmap |-> b])
  PROVE  /\ [sec |-> k, bitmap |-> b] \in FrameRec
         /\ frame' \in Seq(FrameRec)
         /\ DOMAIN frame = 1 .. Len(frame) /\ Len(frame) \in Nat
         /\ DOMAIN frame' = 1 .. Len(frame) + 1
         /\ Len(frame') = Len(frame) + 1
         /\ frame'[Len(frame) + 1].sec = k
         /\ frame'[Len(frame) + 1].bitmap = b
         /\ \A f \in DOMAIN frame : frame'[f] = frame[f]
         /\ Added' = Added + 1
         /\ \A l \in Nat : l < k =>
              Cardinality(FramesOf(l))' = Cardinality(FramesOf(l))
<1> DEFINE rec == [sec |-> k, bitmap |-> b]
<1>1. rec \in FrameRec
  BY SecFacts DEF FrameRec
<1>2. frame \in Seq(FrameRec)
  BY TypesNow
<1>3. rec.sec = k /\ rec.bitmap = b
  OBVIOUS
<1>4. frame' = Append(frame, rec)
  OBVIOUS
<1> HIDE DEF rec
<1>5. /\ frame' \in Seq(FrameRec)
      /\ DOMAIN frame = 1 .. Len(frame) /\ Len(frame) \in Nat
      /\ DOMAIN frame' = 1 .. Len(frame) + 1
      /\ Len(frame') = Len(frame) + 1
      /\ frame'[Len(frame) + 1] = rec
      /\ \A f \in DOMAIN frame : frame'[f] = frame[f]
  BY <1>1, <1>2, <1>4
<1>6. Cardinality(In(frame', k)) = Cardinality(In(frame, k)) + 1
  BY <1>1, <1>2, <1>3, <1>4, InMore
<1>7. Added' = Added + 1
  BY <1>6, SameSets DEF Added
<1>8. ASSUME NEW l \in Nat, l < k
      PROVE  Cardinality(FramesOf(l))' = Cardinality(FramesOf(l))
  <2>1. l # k
    BY <1>8, SecFacts
  <2>2. Cardinality(In(frame', l)) = Cardinality(In(frame, l))
    BY <1>1, <1>2, <1>3, <1>4, <2>1, InMore
  <2> QED
    BY <2>2, SameSets
<1> QED
  BY <1>1, <1>3, <1>5, <1>7, <1>8 DEF rec

(* The new frame shows the file of its place, and the others theirs.       *)
LEMMA MoreShow ==
  ASSUME SecInv, InSection, UNCHANGED <<texture, k>>,
         NEW b \in Slots, frame' = Append(frame, [sec |-> k, bitmap |-> b]),
         \A c \in 1 .. nBitmaps : bitmap'[c] = bitmap[c],
         ShowsAfter(b, Sec, NthFile(Sec, Added))
  PROVE  FramesShowFiles'
<1>1. /\ [sec |-> k, bitmap |-> b] \in FrameRec
      /\ DOMAIN frame = 1 .. Len(frame) /\ Len(frame) \in Nat
      /\ DOMAIN frame' = 1 .. Len(frame) + 1
      /\ frame'[Len(frame) + 1].sec = k
      /\ frame'[Len(frame) + 1].bitmap = b
      /\ \A f \in DOMAIN frame : frame'[f] = frame[f]
  BY OneMore
<1>20. PICK n \in Nat : n = Len(frame)
  BY <1>1
<1>2. /\ \A f \in DOMAIN frame : Before(frame', f) = Before(frame, f)
      /\ Before(frame', n + 1) = In(frame, k)
  BY <1>1, <1>20, TypesNow, BeforeMore
<1>3. /\ \A f \in DOMAIN frame : Nth(f)' = Nth(f)
      /\ Nth(n + 1)' = Added
  BY <1>2, SameSets, Zenon DEF Added
<1>4. ASSUME NEW f \in DOMAIN frame
      PROVE  /\ bitmap'[frame'[f].bitmap].file =
                  NthFile(texture[frame'[f].sec], Nth(f)')
             /\ bitmap'[frame'[f].bitmap].aco = texture[frame'[f].sec].aco
             /\ texture[frame'[f].sec].shrink \in 1 .. 8 =>
                  bitmap'[frame'[f].bitmap].shrink =
                    texture[frame'[f].sec].shrink
  <2>1. bitmap'[frame[f].bitmap] = bitmap[frame[f].bitmap]
    BY FrameBitmaps
  <2>2. /\ bitmap[frame[f].bitmap].file = NthFile(texture[frame[f].sec], Nth(f))
        /\ bitmap[frame[f].bitmap].aco = texture[frame[f].sec].aco
        /\ texture[frame[f].sec].shrink \in 1 .. 8 =>
             bitmap[frame[f].bitmap].shrink = texture[frame[f].sec].shrink
    BY ShowFacts, Zenon DEF SecInv
  <2> QED
    BY <1>1, <1>3, <2>1, <2>2, Zenon
<1>5. /\ bitmap'[b].file = NthFile(texture[k], Added)
      /\ bitmap'[b].aco = texture[k].aco
      /\ texture[k].shrink \in 1 .. 8 => bitmap'[b].shrink = texture[k].shrink
  BY Zenon DEF ShowsAfter, Sec
<1>6. ASSUME NEW f \in DOMAIN frame'
      PROVE  /\ bitmap'[frame'[f].bitmap].file =
                  NthFile(texture[frame'[f].sec], Nth(f)')
             /\ bitmap'[frame'[f].bitmap].aco = texture[frame'[f].sec].aco
             /\ texture[frame'[f].sec].shrink \in 1 .. 8 =>
                  bitmap'[frame'[f].bitmap].shrink =
                    texture[frame'[f].sec].shrink
  <2>1. f \in DOMAIN frame \/ f = n + 1
    BY <1>1, <1>20
  <2>2. CASE f \in DOMAIN frame
    BY <1>4, <2>2, Zenon
  <2>3. CASE f = n + 1
    <3>1. frame'[f].sec = k /\ frame'[f].bitmap = b
      BY <1>1, <1>20, <2>3
    <3>2. Nth(f)' = Added
      BY <1>3, <2>3, Zenon
    <3> QED
      BY <1>5, <3>1, <3>2, Zenon
  <2> QED
    BY <2>1, <2>2, <2>3
<1> QED
  BY <1>6, Zenon DEF FramesShowFiles, NthFile

(* The new frame is in the range of the last #define and of no other.      *)
LEMMA MoreHeader ==
  ASSUME SecInv, InSection, UNCHANGED <<texture, k, header>>, ~Full,
         NEW b \in Slots, frame' = Append(frame, [sec |-> k, bitmap |-> b])
  PROVE  HeaderIndexes'
<1>1. /\ DOMAIN frame = 1 .. Len(frame) /\ Len(frame) \in Nat
      /\ DOMAIN frame' = 1 .. Len(frame) + 1
      /\ frame'[Len(frame) + 1].sec = k
      /\ \A f \in DOMAIN frame : frame'[f] = frame[f]
  BY OneMore
<1>2. PICK hl \in Nat \ {0} : /\ hl = Len(header) /\ DOMAIN header = 1 .. hl
                              /\ header \in Seq(STRING \X Nat)
  <2>1. header \in Seq(STRING \X Nat) /\ Len(header) > 0
    BY DEF SecInv, Types, Names
  <2> QED
    BY <2>1
<1>3. nFrames = Len(frame)
  BY SectionsAssumption DEF SecInv, Counts, Full
<1>4. PICK n \in Nat : n = Len(frame)
  BY <1>1
<1>5. /\ header[hl][1] = texture[k].name
      /\ \A d \in 1 .. hl - 1 : header[d][1] # texture[k].name
  <2>1. header[hl][1] = texture[k].name
    BY <1>2, Zenon DEF SecInv, Names, Sec
  <2>2. \A d \in 1 .. hl : \A e \in d + 1 .. hl : header[d][1] # header[e][1]
    BY <1>2, Zenon DEF SecInv, Names
  <2>3. \A d \in 1 .. hl - 1 : d \in 1 .. hl /\ hl \in d + 1 .. hl
    OBVIOUS
  <2> QED
    BY <2>1, <2>2, <2>3
<1>6. \A d \in 1 .. hl : header[d][2] \in Nat /\ header[d][2] <= n
  <2>1. SUFFICES ASSUME NEW d \in 1 .. hl
                 PROVE  header[d][2] \in Nat /\ header[d][2] <= n
    OBVIOUS
  <2>2. header[d] \in STRING \X Nat
    BY <1>2
  <2>3. header[d][2] <= nFrames
    BY <1>2, Zenon DEF SecInv, Names
  <2> QED
    BY <1>3, <1>4, <2>2, <2>3
<1>7. ASSUME NEW d \in DOMAIN header, NEW f \in DOMAIN frame'
      PROVE  texture[frame'[f].sec].name = header[d][1] <=>
               /\ header[d][2] < f
               /\ d = hl \/ f <= header[d + 1][2]
  <2>1. CASE f \in DOMAIN frame
    <3>1. texture[frame[f].sec].name = header[d][1] <=>
            /\ header[d][2] < f
            /\ d = hl \/ f <= header[d + 1][2]
      BY <1>2, <2>1, Zenon DEF SecInv, HeaderIndexes
    <3> QED
      BY <1>1, <2>1, <3>1
  <2>2. CASE f = n + 1 /\ d = hl
    BY <1>1, <1>2, <1>4, <1>5, <1>6, <2>2
  <2>3. CASE f = n + 1 /\ d \in 1 .. hl - 1
    <3>1. d + 1 \in 1 .. hl
      BY <2>3
    <3>2. ~(f <= header[d + 1][2])
      BY <1>6, <2>3, <3>1
    <3>3. texture[frame'[f].sec].name # header[d][1]
      BY <1>1, <1>4, <1>5, <2>3
    <3>4. d # hl
      BY <2>3
    <3> QED
      BY <3>2, <3>3, <3>4
  <2>4. f \in DOMAIN frame \/ f = n + 1
    BY <1>1, <1>4
  <2>5. d = hl \/ d \in 1 .. hl - 1
    BY <1>2
  <2> QED
    BY <2>1, <2>2, <2>3, <2>4, <2>5
<1> QED
  BY <1>2, <1>7, Zenon DEF HeaderIndexes

(* A step that adds a frame                                                *)
LEMMA FrameSec ==
  ASSUME SecInv, InSection, pc \in {"first", "box", "seq"}, ~Full,
         UNCHANGED <<texture, k, done, header, saved, uids>>,
         nFrames' = nFrames + 1, nBitmaps <= BITMAP_MAX,
         nBitmaps' \in nBitmaps .. nBitmaps + 1, nBitmaps' <= BITMAP_MAX,
         bitmap' = [b \in Slots |-> bitmap'[b]],
         iBitmap' \in Slots, iBitmap' \in 1 .. nBitmaps',
         \A b \in 1 .. nBitmaps : bitmap'[b] = bitmap[b],
         frame' = Append(frame, [sec |-> k, bitmap |-> iBitmap']),
         ShowsAfter(iBitmap', Sec, NthFile(Sec, Added)),
         pc' \in {"box", "seq"},
         Apart', Stages', j' \in Nat, total' \in Int
  PROVE  SecInv'
<1>0. /\ [sec |-> k, bitmap |-> iBitmap'] \in FrameRec
      /\ frame' \in Seq(FrameRec)
      /\ DOMAIN frame = 1 .. Len(frame) /\ Len(frame) \in Nat
      /\ DOMAIN frame' = 1 .. Len(frame) + 1
      /\ Len(frame') = Len(frame) + 1
      /\ frame'[Len(frame) + 1].sec = k
      /\ frame'[Len(frame) + 1].bitmap = iBitmap'
      /\ \A f \in DOMAIN frame : frame'[f] = frame[f]
      /\ Added' = Added + 1
      /\ \A l \in Nat : l < k =>
           Cardinality(FramesOf(l))' = Cardinality(FramesOf(l))
  BY OneMore
<1>1. Types'
  <2>1. iBitmap' \in {-1} \cup Slots
    OBVIOUS
  <2>2. /\ pc' \in {"true", "false", "enum", "infile", "first", "box", "check",
                   "seq", "uid"}
    OBVIOUS
  <2> QED
    BY <1>0, <2>1, <2>2, TypesNow, TypesNext, Zenon
<1>2. Counts'
  <2>1. /\ nBitmaps \in Nat /\ nFrames \in Nat /\ BITMAP_MAX \in Nat
        /\ FRAME_MAX \in Nat
    BY SectionsAssumption DEF SecInv, Counts
  <2>2. nBitmaps' \in 0 .. BITMAP_MAX + 1 /\ ~(nBitmaps' > BITMAP_MAX)
    BY <2>1
  <2>3. Len(frame) = nFrames /\ nFrames + 1 <= FRAME_MAX
    BY <2>1 DEF SecInv, Counts, Full
  <2>4. nFrames' \in Nat /\ nFrames' <= FRAME_MAX /\ Len(frame') = nFrames'
    BY <1>0, <2>1, <2>3
  <2>5. ~(nFrames' > FRAME_MAX)
    BY <2>1, <2>4
  <2> QED
    BY <2>2, <2>4, <2>5, Zenon DEF Counts
<1>3. FrameOK'
  <2>1. pc' \notin {"infile", "first", "check"}
    OBVIOUS
  <2>2. ASSUME NEW f \in DOMAIN frame'
        PROVE  frame'[f].sec <= k /\ frame'[f].bitmap <= nBitmaps'
    <3>1. CASE f \in DOMAIN frame
      <4>1. frame[f].sec <= k /\ frame[f].bitmap <= nBitmaps
        BY <3>1 DEF SecInv, FrameOK
      <4>2. nBitmaps \in Nat
        BY SectionsAssumption DEF SecInv, Counts
      <4>3. frame[f].bitmap \in Slots
        BY <3>1, FrameFields
      <4>4. frame[f].bitmap \in Nat
        BY <4>3, SectionsAssumption DEF Slots
      <4>5. frame[f].bitmap <= nBitmaps'
        BY <4>1, <4>2, <4>4
      <4> QED
        BY <1>0, <3>1, <4>1, <4>5
    <3>2. CASE f = Len(frame) + 1
      <4>1. k <= k /\ iBitmap' <= nBitmaps'
        BY SecFacts
      <4> QED
        BY <1>0, <3>2, <4>1
    <3> QED
      BY <1>0, <3>1, <3>2
  <2> QED
    BY <2>1, <2>2, Zenon DEF FrameOK
<1>4. Names'
  <2>1. nFrames' \in Nat /\ nFrames' >= nFrames
    BY DEF SecInv, Counts
  <2> QED
    BY <2>1, NamesSame
<1>5. HeaderIndexes'
  BY MoreHeader
<1>6. FramesShowFiles'
  BY MoreShow
<1>7. SeqUids'
  BY Zenon DEF SecInv, SeqUids
<1>8. Complete'
  <2>1. nFrames' <= FRAME_MAX => nFrames <= FRAME_MAX
    BY SectionsAssumption DEF SecInv, Counts
  <2>2. \A l \in 1 .. Len(texture) : l < k =>
          Cardinality(FramesOf(l))' = Cardinality(FramesOf(l))
    BY <1>0
  <2>3. pc' \notin {"enum", "uid"}
    OBVIOUS
  <2> QED
    BY <2>1, <2>2, <2>3, StillComplete
<1> QED
  BY <1>1, <1>2, <1>3, <1>4, <1>5, <1>6, <1>7, <1>8, Zenon DEF SecInv

(* FirstBox keeps the invariant.                                           *)
LEMMA FirstBoxSec ==
  ASSUME SecInv, FirstBox
  PROVE  SecInv'
<1>0. /\ pc = "first" /\ AddBitmap(file, Sec)
      /\ UNCHANGED <<texture, done, k, j, file, total, header, saved, uids>>
  BY Zenon DEF FirstBox
<1>1. InSection
  BY <1>0 DEF InSection
<1>2. /\ Sec \in Section /\ Sec.frames \in Int /\ Sec' = Sec
      /\ k \in 1 .. Len(texture)
  BY <1>0, <1>1, SecFacts, SecFields DEF Sec
<1>3. /\ Sec.box /\ Sec.frames >= 1 /\ j = 1 /\ file = <<Sec.base, 0>>
  BY <1>0, Zenon DEF SecInv, Stages
<1>4. nBitmaps <= BITMAP_MAX /\ nBitmaps \in Nat /\ BITMAP_MAX \in Nat
  BY <1>0, SectionsAssumption DEF SecInv, Counts
<1>5. /\ bitmap' = [b \in Slots |-> bitmap'[b]]
      /\ nBitmaps' \in nBitmaps .. nBitmaps + 1
      /\ iBitmap' \in {-1} \cup Slots
      /\ \A b \in 1 .. nBitmaps : bitmap'[b] = bitmap[b]
      /\ iBitmap' >= 0 => /\ iBitmap' \in 1 .. nBitmaps'
                          /\ nBitmaps' <= BITMAP_MAX
                          /\ ShowsAfter(iBitmap', Sec, file)
      /\ Apart'
  BY <1>0, <1>2, <1>4, AddBitmapFacts DEF Sec
<1>6. Added = 0
  <2>1. \A f \in DOMAIN frame : frame[f].sec # k
    <3>1. SUFFICES ASSUME NEW f \in DOMAIN frame PROVE frame[f].sec # k
      OBVIOUS
    <3>2. frame[f].sec < k
      BY <1>0 DEF SecInv, FrameOK
    <3>3. frame[f].sec \in Nat /\ k \in Nat
      BY <1>1, FrameFields, SecFacts
    <3> QED
      BY <3>2, <3>3
  <2> QED
    BY <2>1, TypesNow, InNone, SameSets DEF Added
<1>7. j' \in Nat /\ total' \in Int
  BY <1>0, TypesNow
<1>8. CASE iBitmap' < 0
  <2>1. pc' = "false" /\ frame' = frame /\ nFrames' = nFrames
    <3>1. ~(iBitmap' >= 0)
      BY <1>5, <1>8, SectionsAssumption DEF Slots
    <3> QED
      BY <3>1, Zenon DEF FirstBox, Return
  <2>2. Stages'
    BY <2>1, StagesIdle
  <2> QED
    BY <1>0, <1>1, <1>4, <1>5, <1>7, <2>1, <2>2, NoFrameSec
<1>9. CASE iBitmap' >= 0
  <2>1. pc' = "box" /\ AddFrame(iBitmap')
    <3>1. ~(iBitmap' < 0)
      BY <1>5, <1>9, SectionsAssumption DEF Slots
    <3> QED
      BY <3>1, Zenon DEF FirstBox
  <2>2. /\ nFrames' = nFrames + 1
        /\ Full => frame' = frame
        /\ ~Full => frame' = Append(frame, [sec |-> k, bitmap |-> iBitmap'])
    BY <2>1, Zenon DEF AddFrame
  <2>3. ShowsAfter(iBitmap', Sec, NthFile(Sec, Added))
    BY <1>3, <1>5, <1>9, Zenon DEF NthFile
  <2>4. iBitmap' \in Slots
    BY <1>5, <1>9
  <2>5. nFrames' <= FRAME_MAX => Added' = j'
    <3>1. ASSUME nFrames' <= FRAME_MAX PROVE ~Full
      BY <2>2, <3>1, SectionsAssumption DEF SecInv, Counts, Full
    <3>2. ASSUME ~Full PROVE Added' = 1
      <4>1. Added' = Added + 1
        BY <1>0, <1>1, <2>2, <2>4, <3>2, OneMore
      <4> QED
        BY <1>6, <4>1
    <3> QED
      BY <1>0, <1>3, <3>1, <3>2
  <2>6. Stages'
    <3>1. Shows(iBitmap, Sec, 0)'
      BY <1>2, <1>3, <1>5, <1>9, Zenon DEF Shows, ShowsAfter
    <3>2. j' \in 1 .. Sec.frames
      BY <1>0, <1>2, <1>3
    <3>3. Sec'.box /\ j' \in 1 .. Sec'.frames /\ iBitmap' \in 1 .. nBitmaps'
      BY <1>2, <1>3, <1>5, <1>9, <3>2
    <3> QED
      BY <2>1, <2>5, <3>1, <3>3 DEF Stages
  <2>7. CASE Full
    <3>1. ~(nBitmaps' > BITMAP_MAX)
      BY <1>4, <1>5, <1>9
    <3> QED
      BY <1>0, <1>1, <1>4, <1>5, <1>7, <2>1, <2>2, <2>6, <2>7, <3>1, NoFrameSec
  <2>8. CASE ~Full
    BY <1>0, <1>1, <1>4, <1>5, <1>7, <1>9, <2>1, <2>2, <2>3, <2>4, <2>6, <2>8,
       FrameSec
  <2> QED
    BY <2>7, <2>8
<1> QED
  BY <1>5, <1>8, <1>9, SectionsAssumption DEF Slots

(* NextBox keeps it.                                                       *)
LEMMA NextBoxSec ==
  ASSUME SecInv, NextBox
  PROVE  SecInv'
<1>0. /\ pc = "box"
      /\ UNCHANGED <<texture, done, k, file, iBitmap, bitmap, nBitmaps, total,
                     header, saved, uids>>
  BY Zenon DEF NextBox
<1>1. InSection
  BY <1>0 DEF InSection
<1>2. /\ Sec \in Section /\ Sec.frames \in Int /\ Sec' = Sec
      /\ k \in 1 .. Len(texture)
  BY <1>0, <1>1, SecFacts, SecFields DEF Sec
<1>3. /\ Sec.box /\ j \in 1 .. Sec.frames
      /\ iBitmap \in 1 .. nBitmaps /\ Shows(iBitmap, Sec, 0)
      /\ nFrames <= FRAME_MAX => Added = j
  BY <1>0, Zenon DEF SecInv, Stages
<1>4. nBitmaps <= BITMAP_MAX /\ nBitmaps \in Nat /\ BITMAP_MAX \in Nat
  BY <1>0, SectionsAssumption DEF SecInv, Counts
<1>5. total' \in Int /\ bitmap' = [b \in Slots |-> bitmap'[b]]
  BY <1>0, TypesNow
<1>6. CASE j = Sec.frames
  <2>1. pc' = "uid" /\ UNCHANGED <<frame, nFrames, j>>
    <3>1. ~(j < Sec.frames)
      BY <1>2, <1>6
    <3> QED
      BY <3>1, Zenon DEF NextBox
  <2>2. UNCHANGED array
    BY <1>0, <2>1, Zenon DEF array
  <2>3. Added' = Added
    BY <1>0, <2>2, SameArrays
  <2>4. nFrames <= FRAME_MAX => Added = Wanted(Sec)
    <3>1. Sec.name # OUTPUT /\ Sec.frames >= 1
      BY <1>1, <1>2, <1>3 DEF SecInv, Names
    <3>2. Wanted(Sec) = Sec.frames
      BY <1>3, <3>1, Zenon DEF Wanted
    <3> QED
      BY <1>3, <1>6, <3>2
  <2>5. Wanted(Sec)' = Wanted(Sec)
    BY <1>2, Zenon DEF Wanted
  <2>6. Stages'
    BY <1>2, <1>3, <2>1, <2>3, <2>4, <2>5 DEF Stages
  <2>7. j' \in Nat
    BY <2>1, TypesNow
  <2> QED
    BY <1>0, <1>1, <1>5, <2>1, <2>2, <2>6, <2>7, QuietSec
<1>7. CASE j < Sec.frames
  <2>1. /\ AddFrame(iBitmap)
        /\ \/ Full /\ pc' = "false" /\ j' = j
           \/ ~Full /\ j' = j + 1 /\ pc' = pc
    <3>1. j # Sec.frames
      BY <1>2, <1>3, <1>7
    <3> QED
      BY <3>1, Zenon DEF NextBox, Return
  <2>2. /\ nFrames' = nFrames + 1
        /\ Full => frame' = frame
        /\ ~Full => frame' = Append(frame, [sec |-> k, bitmap |-> iBitmap])
    BY <2>1, Zenon DEF AddFrame
  <2>3. j' \in Nat /\ nBitmaps' \in nBitmaps .. nBitmaps + 1
        /\ ~(nBitmaps' > BITMAP_MAX) /\ nBitmaps' <= BITMAP_MAX
        /\ iBitmap' \in Slots /\ iBitmap' = iBitmap
        /\ iBitmap' \in {-1} \cup Slots /\ iBitmap' \in 1 .. nBitmaps'
    BY <1>0, <1>3, <1>4, <2>1, TypesNow DEF Slots
  <2>4. \A b \in 1 .. nBitmaps : bitmap'[b] = bitmap[b]
    BY <1>0
  <2>5. Apart'
    BY <1>0, ApartSame, Zenon
  <2>6. CASE Full
    <3>1. pc' = "false"
      BY <2>1, <2>6
    <3>2. Stages'
      BY <3>1, StagesIdle
    <3>3. frame' = frame
      BY <2>2, <2>6
    <3> QED
      BY <1>0, <1>1, <1>4, <1>5, <2>2, <2>3, <2>4, <2>5, <2>6, <3>1, <3>2,
         <3>3, NoFrameSec
  <2>7. CASE ~Full
    <3>1. pc' = "box" /\ j' = j + 1
      BY <1>0, <2>1, <2>7
    <3>2. frame' = Append(frame, [sec |-> k, bitmap |-> iBitmap'])
      BY <2>2, <2>3, <2>7
    <3>3. Added' = Added + 1
      BY <1>0, <1>1, <2>3, <3>2, OneMore
    <3>4. nFrames <= FRAME_MAX
      BY <2>7, SectionsAssumption DEF SecInv, Counts, Full
    <3>5. ShowsAfter(iBitmap', Sec, NthFile(Sec, Added))
      BY <1>0, <1>3, Zenon DEF Shows, ShowsAfter, NthFile
    <3>6. Stages'
      <4>1. Shows(iBitmap, Sec, 0)'
        BY <1>0, <1>2, <1>3, Zenon DEF Shows
      <4>2. j' \in 1 .. Sec.frames
        BY <1>2, <1>3, <1>7, <3>1
      <4>3. Added' = j'
        BY <1>3, <3>1, <3>3, <3>4
      <4>4. Sec'.box /\ j' \in 1 .. Sec'.frames /\ iBitmap' \in 1 .. nBitmaps'
        BY <1>2, <1>3, <2>3, <4>2
      <4> QED
        BY <3>1, <4>1, <4>3, <4>4 DEF Stages
    <3>7. pc' \in {"box", "seq"} /\ pc \in {"first", "box", "seq"}
      BY <1>0, <3>1
    <3> QED
      BY <1>0, <1>1, <1>4, <1>5, <2>2, <2>3, <2>4, <2>5, <2>7, <3>2, <3>5,
         <3>6, <3>7, FrameSec
  <2> QED
    BY <2>6, <2>7
<1> QED
  BY <1>2, <1>3, <1>6, <1>7

(* NextFile keeps it.                                                      *)
LEMMA NextFileSec ==
  ASSUME SecInv, NextFile
  PROVE  SecInv'
<1>0. /\ pc = "seq" /\ j < Sec.frames /\ ~Skipped
      /\ total' = total + 1 /\ AddBitmap(file, Sec)
      /\ UNCHANGED <<texture, done, k, header, saved, uids>>
  BY Zenon DEF NextFile
<1>1. InSection
  BY <1>0 DEF InSection
<1>2. /\ Sec \in Section /\ Sec.frames \in Int /\ Sec.skip \in Nat
      /\ Sec' = Sec /\ k \in 1 .. Len(texture)
  BY <1>0, <1>1, SecFacts, SecFields DEF Sec
<1>3. /\ ~Sec.box /\ Sec.frames >= 1 /\ j \in 0 .. Sec.frames
      /\ Numbered /\ file = <<Sec.base, j>>
      /\ total = Added /\ Steps
  BY <1>0, Zenon DEF SecInv, Stages
<1>4. nBitmaps <= BITMAP_MAX /\ nBitmaps \in Nat /\ BITMAP_MAX \in Nat
  BY <1>0, SectionsAssumption DEF SecInv, Counts
<1>5. /\ bitmap' = [b \in Slots |-> bitmap'[b]]
      /\ nBitmaps' \in nBitmaps .. nBitmaps + 1
      /\ iBitmap' \in {-1} \cup Slots
      /\ \A b \in 1 .. nBitmaps : bitmap'[b] = bitmap[b]
      /\ iBitmap' >= 0 => /\ iBitmap' \in 1 .. nBitmaps'
                          /\ nBitmaps' <= BITMAP_MAX
                          /\ ShowsAfter(iBitmap', Sec, file)
      /\ Apart'
  BY <1>0, <1>2, <1>4, AddBitmapFacts DEF Sec
<1>6. /\ total \in Int /\ j \in Nat /\ total' \in Int
  BY <1>0, TypesNow
<1>7. /\ Sec.skip = 0 => total = j
      /\ Sec.skip # 0 => /\ Sec.skip * total = j
                         /\ Sec.skip * (total + 1) >= j + 1
                         /\ Sec.skip * total < j + 1
  <2>1. Sec.skip = 0 => total = j
    BY <1>3, Zenon DEF Steps
  <2>2. ASSUME Sec.skip # 0
        PROVE  /\ Sec.skip * total = j
               /\ Sec.skip * (total + 1) >= j + 1
               /\ Sec.skip * total < j + 1
    <3>1. Sec.skip \in Nat \ {0}
      BY <1>2, <2>2
    <3>2. j % Sec.skip = 0
      BY <1>0, <2>2, Zenon DEF Skipped
    <3>3. Sec.skip * total >= j /\ Sec.skip * (total - 1) < j
      BY <1>3, <2>2, Zenon DEF Steps
    <3> QED
      BY <1>6, <3>1, <3>2, <3>3, StepUsed
  <2> QED
    BY <2>1, <2>2
<1>8. file = NthFile(Sec, Added)
  <2>1. CASE Sec.skip = 0
    <3>1. 1 * total = j
      BY <1>6, <1>7, <2>1
    <3> QED
      BY <1>3, <2>1, <3>1, Zenon DEF NthFile
  <2>2. CASE Sec.skip # 0
    BY <1>3, <1>7, <2>2, Zenon DEF NthFile
  <2> QED
    BY <2>1, <2>2
<1>9. CASE iBitmap' < 0
  <2>1. pc' = "false" /\ UNCHANGED <<frame, nFrames, j>>
    <3>1. ~(iBitmap' >= 0)
      BY <1>5, <1>9, SectionsAssumption DEF Slots
    <3> QED
      BY <3>1, Zenon DEF NextFile, Return
  <2>2. Stages' /\ j' \in Nat
    BY <1>6, <2>1, StagesIdle
  <2> QED
    BY <1>0, <1>1, <1>4, <1>5, <1>6, <2>1, <2>2, NoFrameSec
<1>10. CASE iBitmap' >= 0
  <2>1. /\ AddFrame(iBitmap')
        /\ \/ Full /\ pc' = "false" /\ UNCHANGED <<file, j>>
           \/ ~Full /\ file' = Increment(file) /\ j' = j + 1 /\ pc' = pc
    <3>1. ~(iBitmap' < 0)
      BY <1>5, <1>10, SectionsAssumption DEF Slots
    <3> QED
      BY <3>1, Zenon DEF NextFile, Return
  <2>2. /\ nFrames' = nFrames + 1
        /\ Full => frame' = frame
        /\ ~Full => frame' = Append(frame, [sec |-> k, bitmap |-> iBitmap'])
    BY <2>1, Zenon DEF AddFrame
  <2>3. ShowsAfter(iBitmap', Sec, NthFile(Sec, Added))
    BY <1>5, <1>8, <1>10, Zenon
  <2>4. iBitmap' \in Slots /\ iBitmap' \in 1 .. nBitmaps'
        /\ nBitmaps' <= BITMAP_MAX /\ ~(nBitmaps' > BITMAP_MAX)
    BY <1>4, <1>5, <1>10
  <2>5. j' \in Nat
    BY <1>6, <2>1
  <2>6. CASE Full
    <3>1. pc' = "false" /\ frame' = frame
      BY <2>1, <2>2, <2>6
    <3>2. Stages'
      BY <3>1, StagesIdle
    <3> QED
      BY <1>0, <1>1, <1>4, <1>5, <1>6, <2>2, <2>4, <2>5, <2>6, <3>1, <3>2,
         NoFrameSec
  <2>7. CASE ~Full
    <3>1. pc' = "seq" /\ j' = j + 1 /\ file' = Increment(file)
      BY <1>0, <2>1, <2>7
    <3>2. frame' = Append(frame, [sec |-> k, bitmap |-> iBitmap'])
      BY <2>2, <2>7
    <3>3. Added' = Added + 1
      BY <1>0, <1>1, <2>4, <3>2, OneMore
    <3>4. Steps'
      <4>1. /\ total' - 1 = total /\ total' = total + 1
        BY <1>0, <1>6
      <4>2. Sec.skip = 0 => total' = j'
        BY <1>7, <3>1, <4>1, Zenon
      <4>3. Sec.skip # 0 => Sec.skip * total' >= j'
        BY <1>7, <3>1, <4>1, Zenon
      <4>4. Sec.skip # 0 => Sec.skip * (total' - 1) < j'
        BY <1>7, <3>1, <4>1, Zenon
      <4> QED
        BY <1>2, <4>2, <4>3, <4>4, Zenon DEF Steps
    <3>5. j' < Sec.frames => file' = <<Sec.base, j'>>
      <4>1. SUFFICES ASSUME j + 1 < Sec.frames PROVE file' = <<Sec.base, j + 1>>
        BY <3>1
      <4>2. Sec.base \in Numeric /\ j < LastNumber
        BY <1>2, <1>3, <4>1, SectionsAssumption DEF Numbered
      <4> QED
        BY <1>3, <3>1, <4>2 DEF Increment
    <3>6. Numbered' /\ j' \in 0 .. Sec.frames
      <4>1. Numbered'
        BY <1>2, <1>3, Zenon DEF Numbered
      <4>2. j' \in 0 .. Sec.frames
        BY <1>0, <1>2, <1>3, <3>1
      <4> QED
        BY <4>1, <4>2
    <3>7. Stages'
      <4>1. total' = Added'
        BY <1>0, <1>3, <3>3
      <4> QED
        BY <1>2, <1>3, <3>1, <3>4, <3>5, <3>6, <4>1, Zenon DEF Stages
    <3>8. pc' \in {"box", "seq"} /\ pc \in {"first", "box", "seq"}
      BY <1>0, <3>1
    <3> QED
      BY <1>0, <1>1, <1>4, <1>5, <1>6, <2>2, <2>3, <2>4, <2>5, <2>7, <3>2,
         <3>7, <3>8, FrameSec
  <2> QED
    BY <2>6, <2>7
<1> QED
  BY <1>5, <1>9, <1>10, SectionsAssumption DEF Slots

(* Every step keeps it.                                                    *)
LEMMA NextSec ==
  ASSUME SecInv, [Next]_vars
  PROVE  SecInv'
<1>1. CASE UNCHANGED vars
  <2>1. /\ UNCHANGED <<texture, done, k, j, file, iBitmap, array, total, header,
                       saved, uids, pc>>
        /\ UNCHANGED <<bitmap, nBitmaps, frame, nFrames>>
    BY <1>1, Zenon DEF vars, array
  <2>2. Types' /\ Counts' /\ FrameOK' /\ SeqUids'
    BY <2>1, Zenon DEF SecInv, Types, Counts, FrameOK, SeqUids, Slots, Section
  <2>3. /\ HeaderIndexes' /\ FramesShowFiles' /\ Apart'
        /\ \A l : FramesOf(l)' = FramesOf(l)
        /\ Added' = Added /\ Sec' = Sec
    BY <2>1, SameArrays
  <2>4. Names'
    BY <2>1, <2>3, Zenon DEF SecInv, Names, InSection
  <2>5. Stages'
    <3>1. Wanted(Sec)' = Wanted(Sec)
      BY <2>3, Zenon DEF Wanted
    <3>2. (Numbered' <=> Numbered) /\ (Steps' <=> Steps)
          /\ (Shows(iBitmap, Sec, 0)' <=> Shows(iBitmap, Sec, 0))
      BY <2>1, <2>3, Zenon DEF Numbered, Steps, Shows
    <3> QED
      BY <2>1, <2>3, <3>1, <3>2, Zenon DEF SecInv, Stages
  <2>6. Complete'
    <3>1. \A l : Wanted(texture[l])' = Wanted(texture[l])
      BY <2>1, Zenon DEF Wanted
    <3>2. \A l : Left(l)' <=> Left(l)
      BY <2>1, Zenon DEF Left
    <3> QED
      BY <2>1, <2>3, <3>1, <3>2, Zenon DEF SecInv, Complete
  <2> QED
    BY <2>2, <2>3, <2>4, <2>5, <2>6, Zenon DEF SecInv
<1>2. CASE Work
  BY <1>2, EnumSec, CheckSectionSec, FirstBoxSec, NextBoxSec, CheckFileSec,
     SkipFileSec, NextFileSec, LastFileSec, AddUIDSec DEF Work
<1>3. CASE \E t \in Textures : Begin(t)
  BY <1>3, BeginSec
<1> QED
  BY <1>1, <1>2, <1>3 DEF Next

(* The invariant holds in every state, for any number of textures,         *)
(* sections, files and frames and any size of the arrays.                  *)
THEOREM SectionsInvariant == Spec => []SecInv
<1>1. Init => SecInv
  BY InitSec
<1>2. SecInv /\ [Next]_vars => SecInv'
  BY NextSec
<1> QED
  BY <1>1, <1>2, PTL DEF Spec

(* The counts never exceed the arrays by more than what did not fit, and   *)
(* every m_iBitmap is the index of an entry in use (cBitmap::Add,          *)
(* cFrame::Add).                                                           *)
THEOREM SectionsTypeCorrect == Spec => []TypeOK
<1>1. SecInv => TypeOK
  <2> SUFFICES ASSUME SecInv PROVE TypeOK
    OBVIOUS
  <2>1. Len(frame) <= FRAME_MAX /\ nFrames >= Len(frame)
    BY SectionsAssumption DEF SecInv, Counts
  <2>2. \A f \in DOMAIN frame : frame[f].bitmap \in 1 .. nBitmaps \cap Slots
    <3>1. SUFFICES ASSUME NEW f \in DOMAIN frame
                   PROVE  frame[f].bitmap \in 1 .. nBitmaps \cap Slots
      OBVIOUS
    <3>2. frame[f].bitmap \in Slots
      BY FrameFields
    <3>3. frame[f].bitmap <= nBitmaps /\ nBitmaps \in Nat
      BY SectionsAssumption DEF SecInv, FrameOK, Counts
    <3> QED
      BY <3>2, <3>3, SectionsAssumption DEF Slots
  <2>3. nBitmaps \in 0 .. BITMAP_MAX + 1
    BY DEF SecInv, Counts
  <2> QED
    BY <2>1, <2>2, <2>3, TypesNow, Zenon DEF TypeOK
<1> QED
  BY <1>1, SectionsInvariant, PTL

(* The #define of a section is the index of its first frame, and its       *)
(* frames go on up to the next #define (add_bitmaps_and_frames,            *)
(* DefineValue), in both modes, with skipped files, shared bitmaps and a   *)
(* Frame that is full.                                                     *)
THEOREM IndexesOfHeader == Spec => []HeaderIndexes
<1>1. SecInv => HeaderIndexes
  BY Zenon DEF SecInv
<1> QED
  BY <1>1, SectionsInvariant, PTL

(* Every frame has the bitmap its section asks for, also when it is an     *)
(* entry of another section (cBitmap::Add), and with the number that       *)
(* IncrementString has counted to.                                         *)
THEOREM FramesShowTheirFiles == Spec => []FramesShowFiles
<1>1. SecInv => FramesShowFiles
  BY Zenon DEF SecInv
<1> QED
  BY <1>1, SectionsInvariant, PTL

(* No two entries of Bitmap are the same file with the same treatment      *)
(* (cBitmap::Add), when every shrink is one that is stored.                *)
THEOREM EachBitmapOnce == Spec => []NoBitmapTwice
<1>1. SecInv => NoBitmapTwice
  BY Zenon DEF SecInv, Apart, NoBitmapTwice
<1> QED
  BY <1>1, SectionsInvariant, PTL

(* No section is left without a frame it asks for, as long as the frames   *)
(* fit (the loops over the files and boxes, which drop the result of the   *)
(* first cFrame::Add).                                                     *)
THEOREM SectionsAreComplete == Spec => []SectionsComplete
<1>1. SecInv => SectionsComplete
  BY Zenon DEF SecInv, Complete, Left, SectionsComplete
<1> QED
  BY <1>1, SectionsInvariant, PTL

(* TotalFrames in the UID list is the number of frames that were added for *)
(* a sequence.                                                             *)
THEOREM SequencesInUIDs == Spec => []SeqUids
<1>1. SecInv => SeqUids
  BY Zenon DEF SecInv
<1> QED
  BY <1>1, SectionsInvariant, PTL
=============================================================================
