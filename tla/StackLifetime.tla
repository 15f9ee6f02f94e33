--------------------------- MODULE StackLifetime ---------------------------
(***************************************************************************)
(* insert-lifetime-stop (src/src/pass/insert_lifetime_stop.cpp) followed   *)
(* by set-stack-ptr (src/src/pass/stack.cpp, module StackAllocation) on a  *)
(* region tree, and then any execution of the function: every buffer must  *)
(* keep its content as long as the program can still use it, although the  *)
(* passes reuse local memory and see the tree in one linear walk.          *)
(*                                                                         *)
(* The memref values are named by the instruction that defines them, so    *)
(* that a buffer is the position of an alloca; the args of an instruction  *)
(* are the values it has as operands.                                      *)
(***************************************************************************)
EXTENDS ControlFlow, FiniteSetsExt

CONSTANTS
    Programs,   \* the programs the passes run on
    Buffer,     \* the values the allocas define
    Size,       \* [Buffer -> Nat], size_in_bytes of their memref types
    Alignment   \* [Buffer -> positive], "alignment" attribute or that of the element

ASSUME SizeAssumption == Size \in [Buffer -> Nat]
ASSUME AlignmentAssumption == Alignment \in [Buffer -> Nat \ {0}]

VARIABLES
    prog,       \* the function, fixed from the start
    pc,         \* the instruction the walk of set-stack-ptr visits next
    stops,      \* the lifetime_stops to visit before that
    allocs, stackPtr, failed,   \* see StackAllocation
    at,         \* the instruction executed next, 0 when there is none
    memory,     \* the buffer that last wrote a byte of local memory
    holds       \* buffers that were written since their alloca was executed

vars == <<prog, pc, stops, allocs, stackPtr, failed, at, memory, holds>>

walkVars == <<prog, pc, stops, allocs, stackPtr, failed>>

SA == INSTANCE StackAllocation

-----------------------------------------------------------------------------
(* alias_analysis: the value a subview, expand or fuse chain starts from. *)

Views == {"subview", "expand", "fuse"}

Root(p, v) ==
    LET root[w \in Inst(p)] == IF p.op[w] \in Views THEN root[p.args[w][1]] ELSE w
    IN  root[v]

IsMemref(p, n) == p.op[n] \in Views \cup {"alloca"}

(* The value v is defined before n, in the region of n or in one around it. *)
Visible(p, v, n) ==
    \E k \in {n} \cup Enclosing(p, n) : v \in Siblings(p, k) /\ v < k

(* Instructions are in pre-order, allocas have no child regions, operands   *)
(* are visible where they are used, and there are a size and an alignment   *)
(* for what is used as a buffer.                                            *)
ASSUME ProgramsAssumption ==
    \A p \in Programs :
        /\ Len(p.op) \in Nat
        /\ \A n \in Inst(p) :
               /\ p.parent[n] \in 0 .. n - 1
               /\ \A k \in Inst(p), m \in Siblings(p, n) : n \in Enclosing(p, k) /\ n < m => k < m
               /\ p.parent[n] # 0 => p.op[p.parent[n]] # "alloca"
               /\ \A i \in DOMAIN p.args[n] : Visible(p, p.args[n][i], n)
               /\ p.op[n] \in Views => 1 \in DOMAIN p.args[n]
               /\ p.op[n] = "alloca" => n \in Buffer
               /\ p.op[n] = "lifetime_stop" => 1 \in DOMAIN p.args[n] /\ p.args[n][1] \in Buffer

Operands(p, n) == {Root(p, p.args[n][i]) : i \in DOMAIN p.args[n]}

(* rgn_ops: roots of the memref operands and results of n and all in it. *)
RegionOps(p, n) ==
    UNION {Operands(p, m) \cup (IF IsMemref(p, m) THEN {Root(p, m)} ELSE {}) :
               m \in {n} \cup {k \in Inst(p) : n \in Enclosing(p, k)}}

Allocas(p) == {n \in Inst(p) : p.op[n] = "alloca"}

(* Mutants of StopAfter: behind the first instruction of the region that   *)
(* uses a; behind the first instruction of the region.                     *)
StopAfterFirstUse(p, a) ==
    LET users == {n \in Siblings(p, a) : a \in RegionOps(p, n)}
    IN  IF users = {a} THEN a ELSE Min(users \ {a})

StopAtStart(p, a) == Min(Siblings(p, a))

(* The reverse walk over the region of a inserts its lifetime_stop behind  *)
(* the first instruction it meets that uses a, itself or inside.           *)
StopAfter(p, a) == Max({n \in Siblings(p, a) : a \in RegionOps(p, n)})

(* The last instruction of the pre-order walk that is n or inside n. *)
EndOf(p, n) == Max({n} \cup {k \in Inst(p) : n \in Enclosing(p, k)})

(* Mutant of StopsBehind: a buffer without a use is not stopped. *)
StopsBehindUsed(p, n) ==
    {a \in Allocas(p) : /\ EndOf(p, StopAfter(p, a)) = n
                        /\ \E m \in Inst(p) : a \in Operands(p, m)}

(* The lifetime_stops the walk meets right behind instruction n. *)
StopsBehind(p, n) == {a \in Allocas(p) : EndOf(p, StopAfter(p, a)) = n}

-----------------------------------------------------------------------------
Init == /\ prog \in Programs
        /\ pc = 1
        /\ stops = {}
        /\ at = 0
        /\ memory = <<>>
        /\ holds = {}
        /\ SA!Init

Walking == ~failed /\ (pc <= Len(prog.op) \/ stops # {})

(* The visit of a lifetime_stop of insert-lifetime-stop. *)
WalkStop ==
    /\ \E a \in stops : /\ SA!LifetimeStop(a) \/ SA!LifetimeStopFails(a)
                        /\ stops' = stops \ {a}
    /\ UNCHANGED <<prog, pc, at, memory, holds>>

(* The handlers of set-stack-ptr. *)
Visit(n) ==
    CASE prog.op[n] = "alloca"        -> SA!Alloca(n)
      [] prog.op[n] = "lifetime_stop" ->
             SA!LifetimeStop(prog.args[n][1]) \/ SA!LifetimeStopFails(prog.args[n][1])
      [] OTHER                        -> UNCHANGED <<allocs, stackPtr, failed>>

(* The visit of an instruction of the program. *)
WalkInst ==
    /\ stops = {}
    /\ pc <= Len(prog.op)
    /\ Visit(pc)
    /\ pc' = pc + 1
    /\ stops' = StopsBehind(prog, pc)
    /\ UNCHANGED <<prog, at, memory, holds>>

(* stack_high_water_mark: the local memory the function needs. *)
HighWaterMark ==
    Max({0} \cup {stackPtr[a] + Size[a] : a \in Allocas(prog)})

Bytes(a) == stackPtr[a] .. stackPtr[a] + Size[a] - 1

Start ==
    /\ ~Walking /\ ~failed /\ at = 0 /\ memory = <<>>
    /\ at' = 1
    /\ memory' = [x \in 0 .. HighWaterMark - 1 |-> 0]
    /\ UNCHANGED <<walkVars, holds>>

(* The execution of an instruction writes all buffers it has as operands   *)
(* and goes on to any instruction control can flow to.                     *)
Execute ==
    /\ at # 0
    /\ LET used == Operands(prog, at) \cap Allocas(prog)
       IN  /\ memory' = [x \in DOMAIN memory |->
                            IF \E a \in used : x \in Bytes(a)
                            THEN CHOOSE a \in used : x \in Bytes(a)
                            ELSE memory[x]]
           /\ holds' = (holds \cup used) \ (IF prog.op[at] = "alloca" THEN {at} ELSE {})
    /\ \E n \in Inst(prog) \cup {0} :
           /\ n = 0 => Skips(prog, at) /\ Follow(prog, at) = 0
           /\ n # 0 => FlowsTo(prog, at, n)
           /\ at' = n
    /\ UNCHANGED walkVars

Next == \/ ~failed /\ (WalkStop \/ WalkInst)
        \/ Start
        \/ Execute

Spec == Init /\ [][Next]_vars

-----------------------------------------------------------------------------
(* No execution, whatever branches it takes and however often it repeats a *)
(* loop, reaches a use of a buffer one of whose bytes another buffer has   *)
(* overwritten since the buffer was written.                               *)
Intact ==
    at # 0 => \A a \in Operands(prog, at) \cap holds : \A x \in Bytes(a) : memory[x] = a

(* A program without lifetime_stops of its own never meets the             *)
(* "Incorrect lifetime_stop" error: the stops the pass inserts come after  *)
(* their alloca in the walk and once for each of them.                     *)
StopsMatch ==
    failed => \E n \in Inst(prog) : prog.op[n] = "lifetime_stop"

(* Behind the last instruction of its block a buffer is in the list only   *)
(* until the walk has visited its own stop there, so none is left behind a *)
(* block, the function included: "temporary memory that is freed           *)
(* automatically at the end of the block that contains the alloca"         *)
(* (src/docs/manual/tensor-ir.rst:506).                                    *)
FreedAtEndOfBlock ==
    \A i \in DOMAIN allocs : LET a == allocs[i].value IN
        failed \/ pc <= EndOf(prog, Max(Siblings(prog, a))) \/ a \in stops

(* The lifetime_stops the walk has visited: those the program has itself,  *)
(* and whether the one the pass has put in for a buffer is among them.     *)
OwnStops(v) ==
    {n \in Inst(prog) : n < pc /\ prog.op[n] = "lifetime_stop" /\ prog.args[n][1] = v}
Stopped(a) == EndOf(prog, StopAfter(prog, a)) < pc /\ a \notin stops

(* At every point of the walk the list holds the buffers whose alloca is   *)
(* behind it and no stop of which is, whosever stop it is.  A stop for a   *)
(* value that is no alloca and a second stop for a buffer, be it the       *)
(* program's or that of the pass, are errors, erase no other buffer, even  *)
(* one that has the place by now, and nothing else is an error.            *)
ListExact ==
    /\ SA!Live = {a \in Allocas(prog) : a < pc /\ OwnStops(a) = {} /\ ~Stopped(a)}
    /\ failed <=> \E v \in Inst(prog) : \E n \in OwnStops(v) :
                      v \in Allocas(prog) => Stopped(v) \/ OwnStops(v) # {n}

(* What the allocator promises of any sequence of allocations and frees    *)
(* holds of the walk: the buffers that are live share no byte, each starts *)
(* at a multiple of its alignment, and takes the lowest place there is.    *)
LiveDisjoint == SA!LiveDisjoint
Aligned == SA!Aligned
LowestPlace == SA!LowestPlace
=============================================================================
