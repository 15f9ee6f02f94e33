-------------------------------- MODULE Uses --------------------------------
(***************************************************************************)
(* What the lists of uses promise to the passes: every value has a         *)
(* sequence of uses without repetition, no use is in two of them, and one  *)
(* operand is set at a time.                                               *)
(***************************************************************************)
EXTENDS SequencesExt

CONSTANTS Use, Value

VARIABLE uses       \* the sequence of uses of every value

(* The use leaves the value it referred to and comes first at v.           *)
SetTo(u, v) ==
    uses' = [x \in Value |-> IF x = v THEN <<u>> \o RemoveFirst(uses[x], u)
                             ELSE RemoveFirst(uses[x], u)]

Drop(u) == uses' = [x \in Value |-> RemoveFirst(uses[x], u)]

Init == uses = [v \in Value |-> <<>>]

Next == \E u \in Use : Drop(u) \/ \E v \in Value : SetTo(u, v)

Spec == Init /\ [][Next]_uses
=============================================================================
