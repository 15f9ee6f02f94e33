------------------------- MODULE MCWorkGroupReduce -------------------------
(* Operands of powers of four, all different between the sums. *)
EXTENDS WorkGroupReduce

Operand(from, n) == [i \in 1 .. n |-> 4 ^ (from + i - 1)]

Sum(from, n, b) == [A |-> Operand(from, n), b |-> b]

MCResult == {"x", "y"}

MCGarbage == {0, 2}

(* One sum with any number of elements, and chains of sums into one result *)
(* that insert-barrier keeps apart.  One subgroup may run any chain.       *)
Separated ==
    {[tiles |-> t, sgs |-> s, sums |-> <<Sum(0, n, "x")>>] :
        t \in 1 .. 4, s \in 1 .. 2, n \in 0 .. 9}
    \cup {[tiles |-> t, sgs |-> 1, sums |-> <<Sum(0, 3, "x"), Sum(3, 2, "x"), Sum(5, 4, "x")>>] :
             t \in 2 .. 3}
    \cup {[tiles |-> 1, sgs |-> 2, sums |-> <<Sum(0, 3, "x"), Sum(3, 2, "y"), Sum(5, 4, "x")>>]}

(* Two sums into different results, with no barrier in between. *)
Independent == {[tiles |-> 2, sgs |-> 1, sums |-> <<Sum(0, 2, "x"), Sum(2, 2, "y")>>]}
=============================================================================
