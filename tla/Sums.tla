-------------------------------- MODULE Sums --------------------------------
(* The sum of the elements of a sequence of integers. *)
EXTENDS Integers, SequencesExt

Total(s) == FoldLeft(LAMBDA x, y : x + y, 0, s)
=============================================================================
