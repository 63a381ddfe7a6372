-------------------------------- MODULE Pack --------------------------------
(***************************************************************************)
(* cFrame_pack.cpp: cFrame::Pack_All looks for the smallest square texture *)
(* all frames fit in, and cFrame::Pack_TrySize tries one size with one     *)
(* sort order, inserting the frames one by one in the tree of cNode.       *)
(*                                                                         *)
(* Frame is the static array of cFrame.h; its m_DestX, m_DestY survive     *)
(* failed attempts and whole textures.  A C long is an integer modulo      *)
(* 2^LongBits, a long long one of twice as many bits (32 and 64 in the     *)
(* 32-bit builds of the repository).                                       *)
(***************************************************************************)
EXTENDS Rects, SequencesExt, Sums, Powers

CONSTANTS
  LongBits,     (* the width of long                                  *)
  StartSide,    (* the side Pack_All begins with: 64                  *)
  BorderMax,    (* the largest border: 2                              *)
  FrameMax,     (* FRAME_MAX, the number of elements of Frame         *)
  FrameSizes,   (* the sizes [w, h] a frame may have                  *)
  Borders       (* the values of the border key                       *)

(* A frame with a width has a height: it is a box, which has both, or a    *)
(* trimmed frame; only a bitmap shrunk to no rows would be an exception.   *)
PackAssumption ==
  /\ LongBits \in Nat \ {0} /\ LongBits % 2 = 0
  /\ StartSide \in {TwoTo[k] : k \in 0 .. LongBits \div 2 - 1}
  /\ BorderMax \in Nat
  /\ FrameMax \in Nat
  /\ FrameSizes \subseteq [w : Nat, h : Nat]
  /\ \A z \in FrameSizes : z.w # 0 => z.h # 0
  /\ \E z \in FrameSizes : z.w # 0
  /\ Borders \subseteq Int

VARIABLES
  heap, call, stack, ret, claimed,      (* the tree: see cNode        *)
  size,         (* m_Width, m_Height of the frames of this texture    *)
  dest,         (* m_DestX, m_DestY of every element of Frame         *)
  order,        (* the list from s_pFirst along m_pNext               *)
  i,            (* the position of pFrame in it                       *)
  method,       (* the sort order being tried                         *)
  side,         (* s_PackWidth and s_PackHeight, always the same      *)
  border,       (* s_PackBorder                                       *)
  pc            (* where Pack_All is                                  *)

tree == <<heap, call, stack, ret, claimed>>

vars == <<tree, size, dest, order, i, method, side, border, pc>>

Methods == 0 .. 3

(* Seeded fault: a long that does not overflow *)
LongUnbounded(x) == x

(* What a long and a long long hold of x *)
Long(x) == Signed(LongBits, x)

LongLong(x) == Signed(2 * LongBits, x)

(* The sides that can be reached by doubling StartSide *)
Sides == {StartSide * TwoTo[k] : k \in 0 .. LongBits}

RootSizes == {[w |-> s + b, h |-> s + b] : s \in Sides, b \in 0 .. BorderMax}

(* The boxes of all frames that are not empty, with their border *)
BoxSizes ==
  {[w |-> z.w + b, h |-> z.h + b] :
     z \in {z \in FrameSizes : z.w # 0}, b \in 0 .. BorderMax}

Tree == INSTANCE cNode

(* Frame[FRAME_MAX], of which s_nFrames = Len(size) are in use *)
Slots == 1 .. FrameMax

Frames == DOMAIN size

-----------------------------------------------------------------------------
(* cFrame::GetPixelsUsed *)
Pixels == Long(SumOf([f \in Frames |-> size[f].w * size[f].h]))

(* The keys of cFrame::Sort: a product too large for a long long wraps. *)
Key(s, m) ==
  CASE m = 0 -> LongLong(s.w * s.h)
    [] m = 1 -> LongLong((s.w * s.w) * (s.h * s.h))
    [] m = 2 -> s.w
    [] m = 3 -> s.h

(* Seeded fault: the best key starts at 0, so empty frames are not found *)
BestOfVisible(list, m) ==
  LET best[f \in 0 .. Len(size)] ==
        CASE f = 0 -> [frame |-> 0, key |-> 0]
          [] f # 0 /\ f \notin ToSet(list) /\ Key(size[f], m) > best[f - 1].key ->
               [frame |-> f, key |-> Key(size[f], m)]
          [] OTHER -> best[f - 1]
  IN  best[Len(size)].frame

(* One pass of the do loop of cFrame::Sort: best[f] is the frame the for   *)
(* loop has found best among the first f, leaving out those in the list.   *)
Best(list, m) ==
  LET best[f \in 0 .. Len(size)] ==
        CASE f = 0 -> [frame |-> 0, key |-> -1]
          [] f # 0 /\ f \notin ToSet(list) /\ Key(size[f], m) > best[f - 1].key ->
               [frame |-> f, key |-> Key(size[f], m)]
          [] OTHER -> best[f - 1]
  IN  best[Len(size)].frame

Clamp(b) == IF b < 0 THEN 0 ELSE Smaller(b, BorderMax)

-----------------------------------------------------------------------------
Init ==
  /\ heap = <<Tree!NewNode(0, 0, StartSide, StartSide)>>
  /\ call = CHOOSE b \in BoxSizes : TRUE
  /\ stack = <<>>
  /\ ret = Tree!Null
  /\ claimed = 0
  /\ size = <<>>
  /\ dest = [f \in Slots |-> [x |-> 0, y |-> 0]]
  /\ order = <<>>
  /\ i = 1
  /\ method = 0
  /\ side = StartSide
  /\ border = 0
  /\ pc = "done"

(* Pack_All is called for the frames of the next texture, for which        *)
(* Free_All has dropped the list of the one before.                        *)
PackAll(s, b) ==
  /\ pc = "done"
  /\ size' = s
  /\ order' = <<>>
  /\ side' = StartSide
  /\ border' = Clamp(b)
  /\ method' = 0
  /\ pc' = "try"
  /\ UNCHANGED <<tree, dest, i>>

(* Seeded fault: the texture never becomes larger. *)
NextTrySameSide ==
  /\ method' = (method + 1) % 4
  /\ side' = side
  /\ pc' = "try"

(* Pack_TrySize returned false: the next order, or all orders once more on *)
(* a texture of twice the side.                                            *)
NextTry ==
  /\ method' = (method + 1) % 4
  /\ side' = IF method = 3 THEN Long(2 * side) ELSE side
  /\ pc' = "try"

(* The quick check: more pixels than the texture has. *)
QuickReject ==
  /\ pc = "try"
  /\ Pixels > Long(side * side)
  /\ NextTry
  /\ UNCHANGED <<tree, size, dest, order, i, border>>

(* Seeded fault: the root has room for a second border. *)
StartTryTwoBorders ==
  /\ pc = "try"
  /\ Pixels <= Long(side * side)
  /\ Tree!SetRoot([w |-> side + 2 * border, h |-> side + 2 * border])
  /\ i' = 1
  /\ pc' = "first"
  /\ UNCHANGED <<size, dest, order, method, side, border>>

(* A new tree with room for the border of the last row and column          *)
StartTry ==
  /\ pc = "try"
  /\ Pixels <= Long(side * side)
  /\ Tree!SetRoot([w |-> side + border, h |-> side + border])
  /\ i' = 1
  /\ pc' = "first"
  /\ UNCHANGED <<size, dest, order, method, side, border>>

(* The first pass of Sort begins the list anew.  If it finds nothing, the  *)
(* list of an earlier attempt stays, and is gone through once more.        *)
FirstPass ==
  /\ pc = "first"
  /\ LET best == Best(<<>>, method) IN
       \/ /\ best # 0
          /\ order' = <<best>>
          /\ pc' = "sort"
       \/ /\ best = 0
          /\ pc' = "insert"
          /\ UNCHANGED order
  /\ UNCHANGED <<tree, size, dest, i, method, side, border>>

SortPass ==
  /\ pc = "sort"
  /\ LET best == Best(order, method) IN
       \/ /\ best # 0
          /\ order' = Append(order, best)
          /\ UNCHANGED pc
       \/ /\ best = 0
          /\ pc' = "insert"
          /\ UNCHANGED order
  /\ UNCHANGED <<tree, size, dest, i, method, side, border>>

(* Empty frames are not packed. *)
SkipFrame ==
  /\ pc = "insert"
  /\ i <= Len(order)
  /\ size[order[i]].w = 0
  /\ i' = i + 1
  /\ UNCHANGED <<tree, size, dest, order, method, side, border, pc>>

(* Seeded fault: empty frames are inserted too. *)
InsertAny ==
  /\ pc = "insert"
  /\ i <= Len(order)
  /\ LET s == size[order[i]] IN
       Tree!Insert([w |-> s.w + border, h |-> s.h + border])
  /\ pc' = "search"
  /\ UNCHANGED <<size, dest, order, i, method, side, border>>

InsertFrame ==
  /\ pc = "insert"
  /\ i <= Len(order)
  /\ LET s == size[order[i]] IN
       /\ s.w # 0
       /\ Tree!Insert([w |-> s.w + border, h |-> s.h + border])
  /\ pc' = "search"
  /\ UNCHANGED <<size, dest, order, i, method, side, border>>

(* cNode::Insert at work *)
Search ==
  /\ pc = "search"
  /\ Tree!Visit
  /\ UNCHANGED <<size, dest, order, i, method, side, border, pc>>

Placed ==
  /\ pc = "search" /\ stack = <<>>
  /\ ret # Tree!Null
  /\ dest' = [dest EXCEPT ![order[i]] = [x |-> heap[ret].x, y |-> heap[ret].y]]
  /\ i' = i + 1
  /\ pc' = "insert"
  /\ UNCHANGED <<tree, size, order, method, side, border>>

NoRoom ==
  /\ pc = "search" /\ stack = <<>>
  /\ ret = Tree!Null
  /\ NextTry
  /\ UNCHANGED <<tree, size, dest, order, i, border>>

(* Every frame of the list has its place: Pack_All returns true. *)
Finish ==
  /\ pc = "insert"
  /\ i > Len(order)
  /\ pc' = "done"
  /\ UNCHANGED <<tree, size, dest, order, i, method, side, border>>

Work ==
  \/ QuickReject \/ StartTry \/ FirstPass \/ SortPass \/ SkipFrame
  \/ InsertFrame \/ Search \/ Placed \/ NoRoom \/ Finish

Next == Work \/ \E s \in BoundedSeq(FrameSizes, FrameMax), b \in Borders :
                  PackAll(s, b)

Spec == Init /\ [][Next]_vars

-----------------------------------------------------------------------------
(* The types of cFrame's packing fields: the border has been clamped, the  *)
(* order is one of the four, positions are never negative.                 *)
TypeOK ==
  /\ size \in Seq(FrameSizes) /\ Frames \subseteq Slots
  /\ dest \in [Slots -> [x : Nat, y : Nat]]
  /\ order \in Seq(Slots)
  /\ i \in Nat \ {0}
  /\ method \in Methods
  /\ side \in Int
  /\ border \in 0 .. BorderMax
  /\ pc \in {"try", "first", "sort", "insert", "search", "done"}

(* A long can count the pixels of the frames: GetPixelsUsed is exact. *)
PixelsCounted ==
  SumOf([f \in Frames |-> size[f].w * size[f].h]) < TwoTo[LongBits - 1]

(* The frames Sort finds: a key that has wrapped is not above the key -1   *)
(* it begins with if it is negative.                                       *)
Found == {f \in Frames : Key(size[f], method) >= 0}

(* The list Sort links is every frame it finds exactly once, largest first *)
(* by the key of the method, frames with equal keys in the order they were *)
(* added; and it finds them all if a long can count their pixels.  Where   *)
(* it finds none, no frame is twice in the list that is left of earlier    *)
(* attempts.                                                               *)
SortedList ==
  pc \in {"insert", "search"} =>
    /\ IsInjective(order) /\ ToSet(order) \subseteq Frames
    /\ PixelsCounted => Found = Frames
    /\ Found # {} =>
         /\ ToSet(order) = Found
         /\ \A j, k \in DOMAIN order : j < k =>
              LET a == Key(size[order[j]], method)
                  b == Key(size[order[k]], method)
              IN  a > b \/ (a = b /\ order[j] < order[k])

(* The pixels of frame f in the texture, with the border on its right and  *)
(* below it                                                                *)
Box(f) == [x |-> dest[f].x, y |-> dest[f].y,
           w |-> size[f].w + border, h |-> size[f].h + border]

Visible == {f \in Frames : size[f].w # 0}

(* When Pack_All returns, every frame with pixels that Sort has found lies *)
(* inside the texture, and between two of them there is at least the       *)
(* border: no position is left over from an attempt that failed half-way,  *)
(* or from the texture before.  A frame whose key has wrapped below 0 is   *)
(* left out, and keeps the position it had.                                *)
FramesApart ==
  pc = "done" =>
    \A f \in Visible \cap Found :
      /\ dest[f].x + size[f].w <= side
      /\ dest[f].y + size[f].h <= side
      /\ \A g \in (Visible \cap Found) \ {f} : Disjoint(Box(f), Box(g))

(* The tree is only used the way cNode is made to be used, so all that is  *)
(* proved of cNode holds of it in every attempt.                           *)
TreeSpec == Tree!Spec

(* The largest side whose square a long can hold: 32768 *)
SideMax == TwoTo[LongBits \div 2 - 1]

(* The frames fit the largest texture one beside the other on its diagonal *)
FitsSideMax ==
  FoldLeft(LAMBDA sum, s :
             IF s.w = 0 THEN sum ELSE sum + Larger(s.w, s.h) + border,
           0, size) <= SideMax + border
=============================================================================
