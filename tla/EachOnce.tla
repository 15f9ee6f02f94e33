------------------------------ MODULE EachOnce ------------------------------
(***************************************************************************)
(* What a parallel loop nest promises: every point of its index space is   *)
(* executed exactly once, in any order and any number at a time, no point  *)
(* outside of it is executed, and in the end none is left.                 *)
(***************************************************************************)
EXTENDS Bags

VARIABLES
    space,  \* the index space
    ran     \* the bag of the points executed

vars == <<space, ran>>

Init == ran = EmptyBag

Execute ==
    /\ DOMAIN ran \subseteq DOMAIN ran' /\ ran' # ran
    /\ \A p \in DOMAIN ran' : p \in space /\ ran'[p] = 1
    /\ UNCHANGED space

Safe == Init /\ [][Execute]_vars
Live == <>(BagToSet(ran) = space)

Spec == Safe /\ Live
=============================================================================
