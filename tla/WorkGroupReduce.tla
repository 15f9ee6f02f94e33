-------------------------- MODULE WorkGroupReduce --------------------------
(***************************************************************************)
(* A function of sum instructions with scalar results, as lower-linalg     *)
(* emits them (operator()(sum_inst) in src/src/pass/lower_linalg.cpp with  *)
(* the work_group_reduce of src/src/codegen_tools.cpp) and as subgroups    *)
(* run it.  Each sum allocates its tmp array at its start and ends its     *)
(* lifetime at its end, so set-stack-ptr gives all of them one place.      *)
(*                                                                         *)
(* The work items of a subgroup run in lockstep.  The scalars alpha and    *)
(* beta are one, and all results are zero at first.                        *)
(***************************************************************************)
EXTENDS Sums

CONSTANTS
    Launches,   \* [tiles : subgroups, sgs : their size, sums : Seq([A, b])]
    Result,     \* the scalars
    Garbage     \* what uninitialised local memory may hold

ASSUME LaunchesAssumption ==
    \A l \in Launches : /\ l.tiles \in Nat \ {0}
                        /\ l.sgs \in Nat \ {0}
                        /\ l.sums \in Seq([A : Seq(Int), b : Result])

ASSUME GarbageAssumption == Garbage \subseteq Int

VARIABLES
    launch,     \* the launch, fixed from the start
    pc,         \* what a subgroup does next
    at,         \* the sum it is at
    partial,    \* its own share of that sum
    acc,        \* what subgroup 0 has added up from tmp
    round,      \* loop iterations of subgroup 0 over tmp
    tmp,        \* the array in local memory, one element per subgroup
    result      \* the scalars in memory

vars == <<launch, pc, at, partial, acc, round, tmp, result>>

Subgroup == 0 .. launch.tiles - 1
Sums == 1 .. Len(launch.sums)

-----------------------------------------------------------------------------
(* The elements whose index a work item of g reaches from sgid * sgs +     *)
(* sglid in steps of sgs * num_tiles.                                      *)
Share(g, A) ==
    Total([i \in DOMAIN A |->
              IF ((i - 1) \div launch.sgs) % launch.tiles = g THEN A[i] ELSE 0])

(* Mutant of Fenced: no barrier between sums into one result. *)
FencedNever(s) == FALSE

(* insert-barrier, which runs before the sums are lowered, fences a sum    *)
(* whose result an earlier one wrote with no barrier since.                *)
Fenced(s) ==
    LET fenced[i \in 1 .. s] ==
            \E j \in 1 .. i - 1 : /\ launch.sums[j].b = launch.sums[i].b
                                  /\ \A x \in j + 1 .. i - 1 : ~fenced[x]
    IN  fenced[s]

(* Where a subgroup goes that is through with all sums before s. *)
Entry(s) == IF s > Len(launch.sums) THEN "done"
            ELSE IF Fenced(s) THEN "fence" ELSE "accumulate"

Init ==
    /\ launch \in Launches
    /\ at = [g \in Subgroup |-> 1]
    /\ pc = [g \in Subgroup |-> Entry(1)]
    /\ partial = [g \in Subgroup |-> 0]
    /\ acc = 0
    /\ round = 0
    /\ tmp \in [Subgroup -> Garbage]
    /\ result = [b \in Result |-> 0]

Goto(g, label) == pc' = [pc EXCEPT ![g] = label]

(* Mutant of AfterShare: a subgroup with nothing to add returns early. *)
AfterShareEarlyExit(g) ==
    IF g # 0 /\ partial'[g] = 0 THEN "done"
    ELSE IF launch.tiles > 1 THEN "publish" ELSE "update"

AfterShare(g) == IF launch.tiles > 1 THEN "publish" ELSE "update"

(* The loop over A and the reduction in the subgroup. *)
Accumulate(g) ==
    /\ pc[g] = "accumulate"
    /\ partial' = [partial EXCEPT ![g] = Share(g, launch.sums[at[g]].A)]
    /\ Goto(g, AfterShare(g))
    /\ UNCHANGED <<launch, at, acc, round, tmp, result>>

(* Work item 0 of the subgroup stores its sum. *)
Publish(g) ==
    /\ pc[g] = "publish"
    /\ tmp' = [tmp EXCEPT ![g] = partial[g]]
    /\ Goto(g, "barrier")
    /\ UNCHANGED <<launch, at, partial, acc, round, result>>

(* The barrier of the reduction, behind which only subgroup 0 has work     *)
(* left, or one that insert-barrier put in front of a sum.                 *)
Barrier ==
    /\ \A g \in Subgroup : pc[g] \in {"barrier", "fence"}
    /\ pc' = [g \in Subgroup |->
                 IF pc[g] = "fence" THEN "accumulate"
                 ELSE IF g = 0 THEN "gather" ELSE Entry(at[g] + 1)]
    /\ at' = [g \in Subgroup |-> IF pc[g] = "barrier" /\ g # 0 THEN at[g] + 1 ELSE at[g]]
    /\ acc' = 0
    /\ round' = 0
    /\ UNCHANGED <<launch, partial, tmp, result>>

MoreRounds(r) == r * launch.sgs < launch.tiles

(* One iteration of the loop of subgroup 0 over tmp, sgs elements a time.  *)
Gather ==
    /\ pc[0] = "gather"
    /\ acc' = acc + Total([l \in 1 .. launch.sgs |->
                              LET i == round * launch.sgs + l - 1
                              IN  IF i \in Subgroup THEN tmp[i] ELSE 0])
    /\ round' = round + 1
    /\ Goto(0, IF MoreRounds(round + 1) THEN "gather" ELSE "update")
    /\ UNCHANGED <<launch, at, partial, tmp, result>>

(* blas_update by the first work item. *)
Update ==
    /\ pc[0] = "update"
    /\ result' = [result EXCEPT ![launch.sums[at[0]].b] =
                     @ + (IF launch.tiles > 1 THEN acc ELSE partial[0])]
    /\ at' = [at EXCEPT ![0] = @ + 1]
    /\ Goto(0, Entry(at[0] + 1))
    /\ UNCHANGED <<launch, partial, acc, round, tmp>>

Run(g) == \/ Accumulate(g)
          \/ Publish(g)
          \/ g = 0 /\ Gather
          \/ g = 0 /\ Update

Finished == \A g \in Subgroup : pc[g] = "done"

Next == Barrier \/ \E g \in Subgroup : Run(g)

MaxTiles == CHOOSE t \in {x.tiles : x \in Launches} :
                \A x \in Launches : x.tiles <= t

Spec == /\ Init /\ [][Next]_vars /\ WF_vars(Barrier)
        /\ \A g \in 0 .. MaxTiles - 1 : WF_vars(g \in Subgroup /\ Run(g))

-----------------------------------------------------------------------------
(* The sums before s, as they are defined, added up in their results. *)
Expected(s) ==
    [b \in Result |-> Total([j \in 1 .. s - 1 |->
        IF launch.sums[j].b = b THEN Total(launch.sums[j].A) ELSE 0])]

(* At every moment memory holds b + <A, 1> for the sums subgroup 0 is      *)
(* through with, in program order, and nothing of the next one             *)
(* (src/docs/manual/tensor-ir.rst:965).                                    *)
SumsInOrder == result = Expected(at[0])

(* The elements of tmp that the next step of a subgroup reads and writes. *)
Reads(g) == IF pc[g] = "gather"
            THEN round * launch.sgs .. (round + 1) * launch.sgs - 1 ELSE {}
Writes(g) == IF pc[g] = "publish" THEN {g} ELSE {}

(* No subgroup is about to write an element of tmp while another is about  *)
(* to access it.                                                           *)
NoDataRace ==
    \A g, h \in Subgroup :
        g # h => Writes(g) \cap (Reads(h) \cup Writes(h)) = {}

(* The work-group gets through all sums. *)
Terminates == <>Finished
=============================================================================
