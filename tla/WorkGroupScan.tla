--------------------------- MODULE WorkGroupScan ---------------------------
(***************************************************************************)
(* The code that lower-linalg emits for a one-dimensional cumsum           *)
(* (scan_loop_1d in src/src/pass/lower_linalg.cpp), with the work-group    *)
(* scan of src/src/codegen_tools.cpp inside its loop, as the subgroups of  *)
(* a work-group run it: each at its own pace, together only at barriers.   *)
(*                                                                         *)
(* The work items of a subgroup run in lockstep.  The scalars alpha and    *)
(* beta are one, and B is zero at first, so B counts what is added to it.  *)
(***************************************************************************)
EXTENDS Sums

CONSTANTS
    Launches,   \* [tiles : subgroups, sgs : their size, A : the operand]
    Garbage     \* what uninitialised local memory may hold

ASSUME LaunchesAssumption ==
    \A l \in Launches : /\ l.tiles \in Nat \ {0}
                        /\ l.sgs \in Nat \ {0}
                        /\ l.A \in Seq(Int)

ASSUME GarbageAssumption == Garbage \subseteq Int

VARIABLES
    launch,     \* the launch, fixed from the start
    pc,         \* what a subgroup does next
    base,       \* loop variable of its first work item
    scan,       \* a_scan of its work items
    k,          \* loop variable of the loop over the subgroups before
    prefix,     \* the value carried from iteration to iteration
    tmp,        \* the array in local memory, one element per subgroup
    B           \* the result

vars == <<launch, pc, base, scan, k, prefix, tmp, B>>

Subgroup == 0 .. launch.tiles - 1
Lane == 0 .. launch.sgs - 1
LastTile == launch.tiles - 1
LastLane == launch.sgs - 1
Shape0 == Len(launch.A)

-----------------------------------------------------------------------------
Step == launch.sgs * launch.tiles

(* Mutant of TripCount: it is not rounded up. *)
TripCountExact == Shape0

(* Division truncates, so an empty operand still gets one iteration. *)
TripCount ==
    LET iterations == IF Shape0 = 0 THEN IF Step = 1 THEN 0 ELSE 1
                      ELSE (Shape0 - 1) \div Step + 1
    IN  iterations * Step

(* The element a work item loads, zero out of bounds. *)
Element(i) == IF i < Shape0 THEN launch.A[i + 1] ELSE 0

(* Mutant of SubgroupScan: the scan is exclusive. *)
SubgroupScanExclusive(b) ==
    [l \in Lane |-> Total([j \in 1 .. l |-> Element(b + j - 1)])]

(* subgroup_inclusive_scan_add of the elements loaded at b. *)
SubgroupScan(b) ==
    [l \in Lane |-> Total([j \in 1 .. l + 1 |-> Element(b + j - 1)])]

AtLoop(b) == IF \E l \in Lane : b + l < TripCount THEN "load" ELSE "done"

Init ==
    /\ launch \in Launches
    /\ base = [g \in Subgroup |-> g * launch.sgs]
    /\ pc = [g \in Subgroup |-> AtLoop(base[g])]
    /\ scan = [g \in Subgroup |-> [l \in Lane |-> 0]]
    /\ k = [g \in Subgroup |-> 0]
    /\ prefix = [g \in Subgroup |-> 0]
    /\ tmp \in [Subgroup -> Garbage]
    /\ B = [i \in 1 .. Shape0 |-> 0]

Goto(g, label) == pc' = [pc EXCEPT ![g] = label]

(* Load and scan in the subgroup.  A single subgroup needs no tmp. *)
Load(g) ==
    /\ pc[g] = "load"
    /\ scan' = [scan EXCEPT ![g] = SubgroupScan(base[g])]
    /\ Goto(g, IF launch.tiles > 1 THEN "publish" ELSE "update")
    /\ UNCHANGED <<launch, base, k, prefix, tmp, B>>

(* The last work item stores the sum of its subgroup. *)
Publish(g) ==
    /\ pc[g] = "publish"
    /\ tmp' = [tmp EXCEPT ![g] = scan[g][LastLane]]
    /\ Goto(g, "barrier1")
    /\ UNCHANGED <<launch, base, scan, k, prefix, B>>

(* Mutant of AfterPrefix: no second barrier. *)
AfterPrefixUnsynchronized(g) == IF g = LastTile THEN "publishSum" ELSE "update"

(* Where the loop over the subgroups before g leads when it ends. *)
AfterPrefix(g) == IF g = LastTile THEN "publishSum" ELSE "barrier2"

AfterBarrier(g) ==
    IF pc[g] = "barrier2" THEN "update"
    ELSE IF g = 0 THEN AfterPrefix(g) ELSE "addPrefix"

Barrier ==
    /\ \A g \in Subgroup : pc[g] \in {"barrier1", "barrier2"}
    /\ pc' = [g \in Subgroup |-> AfterBarrier(g)]
    /\ k' = [g \in Subgroup |-> 0]
    /\ UNCHANGED <<launch, base, scan, prefix, tmp, B>>

MorePrefix(g) == k[g] + 1 < g

(* One iteration of the loop over the subgroups before g. *)
AddPrefix(g) ==
    /\ pc[g] = "addPrefix"
    /\ scan' = [scan EXCEPT ![g] = [l \in Lane |-> @[l] + tmp[k[g]]]]
    /\ k' = [k EXCEPT ![g] = @ + 1]
    /\ Goto(g, IF MorePrefix(g) THEN "addPrefix" ELSE AfterPrefix(g))
    /\ UNCHANGED <<launch, base, prefix, tmp, B>>

(* compute_sum: the last work item stores the sum of the work-group. *)
PublishSum(g) ==
    /\ pc[g] = "publishSum"
    /\ tmp' = [tmp EXCEPT ![LastTile] = scan[g][LastLane]]
    /\ Goto(g, "barrier2")
    /\ UNCHANGED <<launch, base, scan, k, prefix, B>>

(* The sum of the work-group, broadcast by a single subgroup. *)
Sum(g) == IF launch.tiles > 1 THEN tmp[LastTile] ELSE scan[g][LastLane]

(* Load the sum, update B in bounds, and go to the next iteration. *)
Update(g) ==
    /\ pc[g] = "update"
    /\ B' = [i \in DOMAIN B |->
                IF i - 1 - base[g] \in Lane
                THEN B[i] + prefix[g] + scan[g][i - 1 - base[g]] ELSE B[i]]
    /\ prefix' = [prefix EXCEPT ![g] = @ + Sum(g)]
    /\ base' = [base EXCEPT ![g] = @ + Step]
    /\ Goto(g, AtLoop(base[g] + Step))
    /\ UNCHANGED <<launch, scan, k, tmp>>

Run(g) ==
    Load(g) \/ Publish(g) \/ AddPrefix(g) \/ PublishSum(g) \/ Update(g)

Finished == \A g \in Subgroup : pc[g] = "done"

Next == Barrier \/ \E g \in Subgroup : Run(g)

MaxTiles == CHOOSE t \in {x.tiles : x \in Launches} :
                \A x \in Launches : x.tiles <= t

Spec == /\ Init /\ [][Next]_vars /\ WF_vars(Barrier)
        /\ \A g \in 0 .. MaxTiles - 1 : WF_vars(g \in Subgroup /\ Run(g))

-----------------------------------------------------------------------------
(* When all subgroups are done, B_j is the sum of A_i over i from 1 to j   *)
(* (src/docs/manual/tensor-ir.rst:603), whatever the operand's size is     *)
(* compared with that of the work-group.                                   *)
CumulativeSum ==
    Finished => \A j \in 1 .. Shape0 : B[j] = Total(SubSeq(launch.A, 1, j))

(* The elements of tmp that the next step of a subgroup reads and writes. *)
Reads(g) == CASE pc[g] = "addPrefix" -> {k[g]}
              [] pc[g] = "update"    -> {LastTile}
              [] OTHER               -> {}
Writes(g) == CASE pc[g] = "publish"    -> {g}
               [] pc[g] = "publishSum" -> {LastTile}
               [] OTHER                -> {}

(* No subgroup is about to write an element of tmp while another is about  *)
(* to access it: the two barriers of the scan separate every such pair.    *)
NoDataRace ==
    \A g, h \in Subgroup :
        g # h => Writes(g) \cap (Reads(h) \cup Writes(h)) = {}

(* Every work-group leaves the scan; none waits for ever at a barrier. *)
Terminates == <>Finished
=============================================================================
