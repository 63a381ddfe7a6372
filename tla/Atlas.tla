------------------------------- MODULE Atlas --------------------------------
(***************************************************************************)
(* What the packer promises: an atlas is a bin and the rectangles placed   *)
(* in it so far.  A box that was asked for is placed wherever it does not  *)
(* leave the bin and touches no pixel of another one; it is exactly as     *)
(* large as asked, and never moves again.                                  *)
(* The only other thing that can happen is to give the bin up for a new    *)
(* one, which is what a failed attempt of cFrame::Pack_TrySize does.       *)
(***************************************************************************)
EXTENDS Rects

CONSTANTS
  BinSizes,     (* the [w, h] a bin may have                  *)
  BoxSizes      (* the [w, h] of the boxes that may be placed *)

VARIABLES
  bin,          (* [w, h] of the current bin                  *)
  box,          (* the [w, h] last asked for                  *)
  placed        (* the set of rectangles placed in it         *)

vars == <<bin, box, placed>>

Fits(r) ==
  /\ Inside(r, [x |-> 0, y |-> 0, w |-> bin.w, h |-> bin.h])
  /\ \A s \in placed : Disjoint(r, s)

Init ==
  /\ bin \in BinSizes
  /\ box \in BoxSizes
  /\ placed = {}

NewBin ==
  /\ bin' \in BinSizes
  /\ placed' = {}
  /\ UNCHANGED box

Ask ==
  /\ box' \in BoxSizes
  /\ UNCHANGED <<bin, placed>>

Place ==
  \E x \in 0 .. bin.w, y \in 0 .. bin.h :
    LET r == [x |-> x, y |-> y, w |-> box.w, h |-> box.h] IN
      /\ Fits(r)
      /\ placed' = placed \cup {r}
      /\ UNCHANGED <<bin, box>>

Next == NewBin \/ Ask \/ Place

Spec == Init /\ [][Next]_vars
=============================================================================
