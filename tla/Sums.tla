-------------------------------- MODULE Sums --------------------------------
(***************************************************************************)
(* The sum of a list of numbers: frames of sections, lengths of texts.     *)
(***************************************************************************)
EXTENDS Integers, Sequences

SumOf(list) ==
  LET sum[n \in 0 .. Len(list)] == IF n = 0 THEN 0 ELSE sum[n - 1] + list[n]
  IN  sum[Len(list)]
=============================================================================
