-------------------------- MODULE StackAllocation --------------------------
(***************************************************************************)
(* The set-stack-ptr pass, src/src/pass/stack.cpp: a first fit allocator   *)
(* that assigns an address in the local memory of the work-group to every  *)
(* alloca.  The pass walks the instructions of a function once; here the   *)
(* allocas and lifetime_stops come in any order in which no alloca is      *)
(* visited twice.  Module StackLifetime drives it along a region tree and  *)
(* states what is assumed of its constants.                                *)
(***************************************************************************)
EXTENDS Integers, SequencesExt

CONSTANTS Buffer, Size, Alignment

Unset == -1     \* stack_ptr of an alloca the pass has not visited

VARIABLES
    allocs,     \* std::list of the live allocations, in address order
    stackPtr,   \* stack_ptr of each alloca
    failed      \* a lifetime_stop threw a compilation_error

vars == <<allocs, stackPtr, failed>>

Allocation == [value : Buffer, start : Int, stop : Int]

-----------------------------------------------------------------------------
(* C++ division truncates towards zero. *)
CDiv(x, a) == IF x < 0 THEN -((-x) \div a) ELSE x \div a

(* Mutants of AlignUp: no alignment; a byte that is aligned is skipped. *)
AlignNever(x, a) == x
AlignAbove(x, a) == (1 + CDiv(x, a)) * a

(* The address the search resumes at behind an allocation that ends at x. *)
AlignUp(x, a) == (1 + CDiv(x - 1, a)) * a

(* stack_ptr when the search has reached entry k of the list. *)
Candidate(v, k) ==
    IF k = 1 THEN 0 ELSE AlignUp(allocs[k - 1].stop, Alignment[v])

(* Mutant of Fits: any gap will do. *)
FitsAnyGap(v, k) == k <= Len(allocs) => allocs[k].start - Candidate(v, k) > 0

(* The gap in front of entry k holds v.  Behind the last entry v fits.  *)
Fits(v, k) == k <= Len(allocs) => allocs[k].start - Candidate(v, k) >= Size[v]

(* The entry the first fit search stops at. *)
IsFirstFit(v, k) == /\ k \in 1 .. Len(allocs) + 1
                    /\ Fits(v, k)
                    /\ \A j \in 1 .. k - 1 : ~Fits(v, j)

Entries(v) == {i \in DOMAIN allocs : allocs[i].value = v}

-----------------------------------------------------------------------------
Init == /\ allocs = <<>>
        /\ stackPtr = [v \in Buffer |-> Unset]
        /\ failed = FALSE

(* The entry is inserted and the address written to the alloca. *)
Place(v, k) ==
    /\ allocs' = InsertAt(allocs, k, [value |-> v,
                                      start |-> Candidate(v, k),
                                      stop  |-> Candidate(v, k) + Size[v]])
    /\ stackPtr' = [stackPtr EXCEPT ![v] = Candidate(v, k)]
    /\ UNCHANGED failed

(* The handler of alloca_inst. *)
Alloca(v) ==
    /\ ~failed /\ stackPtr[v] = Unset
    /\ \E k \in 1 .. Len(allocs) + 1 : IsFirstFit(v, k) /\ Place(v, k)

(* Mutant of LifetimeStop: the entry is found by its address.              *)
LifetimeStopByAddress(v) ==
    /\ ~failed
    /\ \E k \in DOMAIN allocs : allocs[k].start = stackPtr[v] /\ allocs' = RemoveAt(allocs, k)
    /\ UNCHANGED <<stackPtr, failed>>

(* The handler of lifetime_stop_inst: exactly one entry is erased. *)
LifetimeStop(v) ==
    /\ ~failed
    /\ \E k \in Entries(v) : Entries(v) = {k} /\ allocs' = RemoveAt(allocs, k)
    /\ UNCHANGED <<stackPtr, failed>>

(* The handler of lifetime_stop_inst when the object is not allocated. *)
LifetimeStopFails(v) ==
    /\ ~failed
    /\ ~\E k \in Entries(v) : Entries(v) = {k}
    /\ failed' = TRUE
    /\ UNCHANGED <<allocs, stackPtr>>

Next == \E v \in Buffer : Alloca(v) \/ LifetimeStop(v) \/ LifetimeStopFails(v)

Spec == Init /\ [][Next]_vars

-----------------------------------------------------------------------------
Live == {allocs[i].value : i \in DOMAIN allocs}

(* Every live allocation records the address written to its alloca. *)
EntriesOK ==
    \A i \in DOMAIN allocs :
        /\ allocs[i].start = stackPtr[allocs[i].value]
        /\ allocs[i].stop = allocs[i].start + Size[allocs[i].value]

TypeOK ==
    /\ allocs \in Seq(Allocation)
    /\ stackPtr \in [Buffer -> Nat \cup {Unset}]
    /\ failed \in BOOLEAN

(* The list stays in address order and its entries do not overlap: the     *)
(* search reads only the end of the entry before a gap and the start of    *)
(* the one behind it, and is right only if this holds.                     *)
Sorted ==
    \A i, j \in DOMAIN allocs : i < j => allocs[i].stop <= allocs[j].start

(* No two live buffers share a byte of local memory. *)
LiveDisjoint ==
    \A v, w \in Live : v # w =>
        \/ stackPtr[v] + Size[v] <= stackPtr[w]
        \/ stackPtr[w] + Size[w] <= stackPtr[v]

(* Every buffer starts at a multiple of its own alignment, also when the   *)
(* one below it in the list has another alignment.                         *)
Aligned ==
    \A v \in Buffer : stackPtr[v] # Unset =>
        \E m \in 0 .. stackPtr[v] : stackPtr[v] = m * Alignment[v]

(* Only a lifetime_stop without a live allocation of its own fails: the    *)
(* num != 1 check of the handler never sees a buffer twice in the list.    *)
OneEntry ==
    \A i, j \in DOMAIN allocs : allocs[i].value = allocs[j].value => i = j

(* First fit finds the lowest place: no aligned address below the chosen   *)
(* one keeps clear of the buffers that are live.                           *)
Clear(v, p) ==
    \A w \in Live : p + Size[v] <= stackPtr[w] \/ stackPtr[w] + Size[w] <= p

LowestPlace ==
    [][\A v \in Buffer : Alloca(v) =>
          \A p \in 0 .. stackPtr'[v] - 1 : p % Alignment[v] = 0 => ~Clear(v, p)]_vars
=============================================================================
