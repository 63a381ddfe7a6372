------------------------------- MODULE Powers -------------------------------
(***************************************************************************)
(* Powers of two: what integers of a number of bits can hold.              *)
(***************************************************************************)
EXTENDS Integers

TwoTo[n \in Nat] == IF n = 0 THEN 1 ELSE 2 * TwoTo[n - 1]

(* What a signed integer of so many bits holds of x *)
Signed(bits, x) ==
  LET m == x % TwoTo[bits]
  IN  IF m >= TwoTo[bits - 1] THEN m - TwoTo[bits] ELSE m
=============================================================================
