------------------------------- MODULE Rects --------------------------------
(***************************************************************************)
(* Axis-parallel integer rectangles [x, y, w, h], the data every part of   *)
(* the packer works on: a rectangle covers the pixels x .. x+w-1 by        *)
(* y .. y+h-1.                                                             *)
(***************************************************************************)
EXTENDS Integers

Rect == [x : Nat, y : Nat, w : Nat \ {0}, h : Nat \ {0}]

RectOf(n) == [x |-> n.x, y |-> n.y, w |-> n.w, h |-> n.h]

(* r covers no pixel outside s. *)
Inside(r, s) ==
  /\ s.x <= r.x  /\ r.x + r.w <= s.x + s.w
  /\ s.y <= r.y  /\ r.y + r.h <= s.y + s.h

(* r and s have no pixel in common. *)
Disjoint(r, s) ==
  \/ r.x + r.w <= s.x  \/ s.x + s.w <= r.x
  \/ r.y + r.h <= s.y  \/ s.y + s.h <= r.y

Larger(a, b) == IF a < b THEN b ELSE a

Smaller(a, b) == IF a < b THEN a ELSE b
=============================================================================
