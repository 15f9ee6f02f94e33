------------------------- MODULE MCBarrierInsertion -------------------------
(***************************************************************************)
(* Small programs for the insert-barrier pass.  A shape fixes the nesting  *)
(* and the control instructions; every way of filling its leaves ("leaf")  *)
(* from a set of instructions is a program.                                *)
(***************************************************************************)
EXTENDS BarrierInsertion

MCValue == {"A", "B", "C", "L", "M", "V"}

MCSpaceOf == [v \in MCValue |-> IF v \in {"A", "B", "C"} THEN "global" ELSE "local"]

(* V is a subview of L; L and M share a byte of the stack. *)
MCRoot == [v \in MCValue |-> IF v = "V" THEN "L" ELSE v]
MCStack == [v \in {"L", "M"} |-> IF v = "L" THEN <<0, 8>> ELSE <<4, 12>>]

(* A leaf: its class, its memref operands and its fences. *)
Leaf(op, args) == [op |-> op, args |-> args, fence |-> {}]
Nop == Leaf("none", <<>>)
Load(v) == Leaf("memory_read", <<v>>)
Store(v) == Leaf("memory_write", <<v>>)
Axpby(v, w) == Leaf("blas_a2", <<v, w>>)
Gemm(u, v, w) == Leaf("blas_a3", <<u, v, w>>)
Barrier(S) == [op |-> "barrier", args |-> <<>>, fence |-> S]

Shape(op, parent, branch) == [op |-> op, parent |-> parent, branch |-> branch]

Fill(shape, leaf) ==
    [op     |-> [n \in DOMAIN shape.op |->
                    IF shape.op[n] = "leaf" THEN leaf[n].op ELSE shape.op[n]],
     args   |-> [n \in DOMAIN shape.op |->
                    IF shape.op[n] = "leaf" THEN leaf[n].args ELSE <<>>],
     fence  |-> [n \in DOMAIN shape.op |->
                    IF shape.op[n] = "leaf" THEN leaf[n].fence ELSE {}],
     parent |-> shape.parent,
     branch |-> shape.branch]

Leaves(shape) == {n \in DOMAIN shape.op : shape.op[n] = "leaf"}

AllPrograms(shapes, leaves) ==
    UNION {{Fill(shape, f) : f \in [Leaves(shape) -> leaves]} : shape \in shapes}

Straight3 == Shape(<<"leaf", "leaf", "leaf">>, <<0, 0, 0>>, <<1, 1, 1>>)
Straight4 == Shape(<<"leaf", "leaf", "leaf", "leaf">>, <<0, 0, 0, 0>>, <<1, 1, 1, 1>>)
LoopOf2 == Shape(<<"leaf", "for", "leaf", "leaf">>, <<0, 0, 2, 2>>, <<1, 1, 1, 1>>)
LoopFirst == Shape(<<"for", "leaf", "leaf", "leaf">>, <<0, 1, 1, 0>>, <<1, 1, 1, 1>>)
NestedLoop == Shape(<<"for", "leaf", "for", "leaf">>, <<0, 1, 1, 3>>, <<1, 1, 1, 1>>)
IfElse == Shape(<<"leaf", "if", "leaf", "leaf", "leaf">>,
                <<0, 0, 2, 2, 0>>, <<1, 1, 1, 2, 1>>)
IfInLoop == Shape(<<"for", "if", "leaf", "leaf", "leaf">>,
                  <<0, 1, 2, 2, 1>>, <<1, 1, 1, 2, 1>>)
IfNoElse == Shape(<<"leaf", "if", "leaf", "leaf">>, <<0, 0, 2, 0>>, <<1, 1, 1, 1>>)
ParallelFirst == Shape(<<"parallel", "leaf", "leaf", "leaf">>,
                       <<0, 1, 1, 0>>, <<1, 1, 1, 1>>)
ForeachIf == Shape(<<"foreach", "if", "leaf", "leaf">>, <<0, 1, 2, 0>>, <<1, 1, 1, 1>>)

(* One address space at a time: every nesting. *)
OneSpacePrograms ==
    AllPrograms({Straight3, LoopOf2, LoopFirst, NestedLoop, ParallelFirst, ForeachIf},
                {Store("A"), Load("A"), Axpby("A", "B"), Barrier({"global"})})
    \cup AllPrograms({IfElse, IfInLoop}, {Store("A"), Axpby("A", "B")})
    \cup AllPrograms({Straight3}, {Store("L"), Load("M"), Store("V"), Gemm("L", "M", "V")})

(* Both address spaces, loops and branches. *)
TwoSpacePrograms ==
    AllPrograms({Straight3, LoopOf2},
                {Store("A"), Store("L"), Axpby("A", "L"), Gemm("M", "L", "A"),
                 Barrier({"local"}), Barrier({})})
    \cup AllPrograms({Straight4, IfNoElse, NestedLoop}, {Store("A"), Axpby("A", "L"), Nop})

(* Two memrefs are written in a loop inside of another one.  The sets that *)
(* hold them circulate in the outer loop for ever.                         *)
WritesInNestedLoop ==
    {Fill(Shape(<<"for", "for", "leaf", "leaf", "leaf">>,
                <<0, 1, 2, 2, 1>>, <<1, 1, 1, 1, 1>>),
          <<Nop, Nop, Store("A"), Store("B"), Nop>>)}

(* B is read in front of a loop, and written behind it.  In some orders of *)
(* the queue a set on the way changes and keeps its size, and the barrier  *)
(* in front of the last instruction is missing.                            *)
LostChangePrograms ==
    {Fill(Shape(<<"for", "leaf", "for", "leaf", "leaf", "leaf">>,
                <<0, 1, 0, 3, 3, 0>>, <<1, 1, 1, 1, 1, 1>>),
          <<Nop, Load("B"), Nop, Load("A"), Store("C"), Store("B")>>)}

BarrierPrograms ==
    OneSpacePrograms \cup TwoSpacePrograms \cup WritesInNestedLoop \cup LostChangePrograms

(* A global and a local hazard meet at one instruction. *)
MixedHazardPrograms ==
    AllPrograms({Straight3}, {Store("A"), Store("L"), Axpby("A", "M"), Nop})

(* A branch with no else region between two accesses. *)
IfNoElsePrograms == AllPrograms({IfNoElse}, {Store("A"), Load("A")})
=============================================================================
