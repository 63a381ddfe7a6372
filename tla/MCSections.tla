----------------------------- MODULE MCSections -----------------------------
(* Two textures one after the other, each of up to three sections that     *)
(* share files: a and b are numbered files, p has no number.  The arrays   *)
(* hold three bitmaps and four frames.                                     *)
EXTENDS Sections

Seq3(name, base, frames, skip, aco, argb, shrink) ==
  [name |-> name, base |-> base, box |-> FALSE, w |-> -1, h |-> -1,
   frames |-> frames, skip |-> skip, aco |-> aco, argb |-> argb,
   shrink |-> shrink]

Box(name, base, w, h, frames, aco, argb, shrink) ==
  [name |-> name, base |-> base, box |-> TRUE, w |-> w, h |-> h,
   frames |-> frames, skip |-> 0, aco |-> aco, argb |-> argb,
   shrink |-> shrink]

MCFiles == ({"a"} \X (0 .. 3)) \cup {<<"b", 0>>, <<"b", 1>>, <<"p", 0>>}

Output == Seq3(OUTPUT, "", 0, 0, 0, "", 1)

First ==
  { Seq3("ONE", "a", 2, 0, 0, "", 1), Seq3("ONE", "a", 4, 2, 0, "", 2),
    Seq3("ONE", "a", 3, 2, 1, "", 1), Box("ONE", "p", 1, 1, 2, 0, "", 1),
    Box("ONE", "a", 1, 1, 1, 0, "", 1), Seq3("ONE", "b", 2, 3, 0, "", 1),
    Seq3("ONE", "p", 1, 0, 0, "", 16), Box("ONE", "p", 1, 1, 4, 0, "", 1) }

Second ==
  { Seq3("TWO", "a", 2, 0, 0, "", 1), Seq3("TWO", "a", 1, 0, 0, "red", 1),
    Seq3("TWO", "a", 4, 2, 0, "", 2), Box("TWO", "p", 1, 1, 3, 0, "", 1),
    Seq3("TWO", "b", 3, 0, 0, "", 1), Seq3("TWO", "p", 1, 0, 0, "", 16),
    Seq3("TWO", "p", 2, 0, 0, "", 1), Seq3("TWO", "a", 0, 0, 0, "", 1),
    Box("TWO", "p", 0, 1, 1, 0, "", 1), Box("TWO", "a", 1, 1, 1, 0, "", 1),
    Seq3("ONE", "a", 1, 0, 0, "", 1) }

Third ==
  { Box("THREE", "p", 1, 1, 1, 0, "", 1), Seq3("THREE", "a", 5, 0, 0, "", 1),
    Seq3("THREE", "b", 2, 0, 1, "", 1), Seq3("THREE", "q", 1, 0, 0, "", 1),
    Box("THREE", "b", 1, 1, 1, 0, "", 2) }

MCTextures ==
  {<<s, t>> : s \in First, t \in Second} \cup
  {<<s, Output, t, u>> : s \in First, u \in Third,
     t \in {Seq3("TWO", "a", 4, 2, 0, "", 2), Box("TWO", "p", 1, 1, 3, 0, "", 1),
            Seq3("TWO", "p", 1, 0, 0, "", 16)}}
=============================================================================
