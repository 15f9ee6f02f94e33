---------------------------- MODULE ControlFlow ----------------------------
(***************************************************************************)
(* Region trees of the tensor IR and the control flow graph that           *)
(* src/src/analysis/cfg.cpp builds from them.                              *)
(*                                                                         *)
(* A program is a record of sequences indexed by the instructions in       *)
(* pre-order: op (the instruction class), parent (the instruction whose    *)
(* child region holds it, 0 at the top of the function body), branch       *)
(* (which child region of the parent: 1, or 2 for the else region of an    *)
(* if), args (the memref operands) and fence (the address spaces a manual  *)
(* barrier fences).                                                        *)
(***************************************************************************)
EXTENDS Integers, Sequences, FiniteSets

Inst(p) == 1 .. Len(p.op)

Loops == {"for", "foreach", "foreach_tile"}

(* The instructions whose child region is an SPMD region. *)
SpmdOps == {"parallel", "foreach", "foreach_tile"}

-----------------------------------------------------------------------------
(* The region tree. *)

Region(p, n, b) == {m \in Inst(p) : p.parent[m] = n /\ p.branch[m] = b}

Regions(p, n) == {b \in 1 .. 2 : Region(p, n, b) # {}}

First(R) == CHOOSE m \in R : \A k \in R : m <= k

Siblings(p, n) == Region(p, p.parent[n], p.branch[n])

LaterSiblings(p, n) == {m \in Siblings(p, n) : m > n}

(* All instructions nested in n, at any depth. *)
Enclosing(p, n) ==
    LET up[m \in Inst(p)] ==
            IF p.parent[m] = 0 THEN {} ELSE {p.parent[m]} \cup up[p.parent[m]]
    IN  up[n]

(* control_flow_graph::kind_max is spmd: some enclosing region is spmd. *)
InSpmd(p, n) == \E m \in Enclosing(p, n) : p.op[m] \in SpmdOps

-----------------------------------------------------------------------------
(* The edges of get_control_flow_graph. *)

(* Where control goes after n and everything nested in it: the next        *)
(* instruction of the region, else back to the enclosing loop, else on     *)
(* after the enclosing instruction.  0 is the end of the function.         *)
Follow(p, n) ==
    LET next[m \in Inst(p)] ==
            IF LaterSiblings(p, m) # {} THEN First(LaterSiblings(p, m))
            ELSE IF p.parent[m] = 0 THEN 0
            ELSE IF p.op[p.parent[m]] \in Loops THEN p.parent[m]
            ELSE next[p.parent[m]]
    IN  next[n]

(* The node itself is an exit of the code it stands for (it is put in      *)
(* pred_nodes): a loop, or an instruction all of whose regions are empty.  *)
OwnExit(p, n) == p.op[n] \in Loops \/ Regions(p, n) = {}

(* The first instructions of the non-empty child regions, in region order. *)
Starts(p, n) ==
    LET start(b) == IF b \in Regions(p, n) THEN <<First(Region(p, n, b))>> ELSE <<>>
    IN  start(1) \o start(2)

(* The successor vector of n, in the order add_edge fills it. *)
Successors(p, n) ==
    Starts(p, n) \o
        (IF OwnExit(p, n) /\ Follow(p, n) # 0 THEN <<Follow(p, n)>> ELSE <<>>)

-----------------------------------------------------------------------------
(* The control flow of an execution, the reference the graph above is      *)
(* judged by: an if with an empty region can skip to what follows it.      *)

Skips(p, n) == \/ p.op[n] \in Loops
               \/ Regions(p, n) = {}
               \/ p.op[n] = "if" /\ Regions(p, n) # {1, 2}

FlowsTo(p, m, n) == \/ \E i \in DOMAIN Starts(p, m) : Starts(p, m)[i] = n
                    \/ Skips(p, m) /\ Follow(p, m) = n
=============================================================================
