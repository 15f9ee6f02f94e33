-------------------------- MODULE MCWorkGroupScan --------------------------
(***************************************************************************)
(* Operands of powers of four: no two sums of distinct elements are equal, *)
(* also when an element is counted up to three times.                      *)
(***************************************************************************)
EXTENDS WorkGroupScan

Operand(n) == [i \in 1 .. n |-> 4 ^ (i - 1)]

MCGarbage == {0, 2}

(* Every operand that one iteration handles, and many by one subgroup. *)
OneIteration ==
    {[tiles |-> t, sgs |-> s, A |-> Operand(n)] : t \in 2 .. 3, s \in 1 .. 2, n \in 0 .. 6}

Fitting ==
    {l \in OneIteration : Len(l.A) <= l.tiles * l.sgs}
    \cup {[tiles |-> 1, sgs |-> s, A |-> Operand(n)] : s \in 1 .. 3, n \in 0 .. 7}

(* An operand longer than the work-group is wide. *)
Looping == {[tiles |-> 2, sgs |-> 1, A |-> Operand(4)]}
=============================================================================
