------------------------------ MODULE IrPasses ------------------------------
(***************************************************************************)
(* The passes of the default pipeline that check and simplify the IR:      *)
(* check-ir, constant propagation and dead code elimination.  A pass works *)
(* on [h, err], the heap and the first error.                              *)
(***************************************************************************)
EXTENDS Parser

Run(h) == [h |-> h, err |-> ""]
Broken(p, status) == [p EXCEPT !.err = status]

InstKind(op) ==
    IF op \in Collective THEN "collective" ELSE IF op \in Spmd THEN "spmd" ELSE "mixed"

-----------------------------------------------------------------------------
(* check_yield: the region ends with a yield of the results' types.        *)
CheckYield(h, r, i, missing) ==
    LET insts == h.reg[r].insts
        last == Last(insts)
    IN  IF insts = <<>> THEN missing
        ELSE IF h.inst[last].op # "yield" THEN missing
        ELSE IF [k \in DOMAIN h.inst[last].args |-> TypeOf(h, h.inst[last].args[k])]
                    # h.inst[i].res
        THEN "ir_yield_mismatch"
        ELSE ""

CheckYields(h, i) ==
    LET inst == h.inst[i]
        Branch(k, missing) == CheckYield(h, inst.regs[k], i, missing)
    IN  IF inst.res = <<>> \/ inst.op \notin {"for", "if"} THEN ""
        ELSE IF Branch(1, "ir_yield_missing") # "" THEN Branch(1, "ir_yield_missing")
        ELSE IF inst.op = "if" THEN Branch(2, "ir_yield_in_else_branch_missing")
        ELSE ""

\* Mutant: the flag is what the kind of the region says, not the stack.
CheckCallFlat(op, spmd) == IF InstKind(op) = "collective" /\ spmd
                           THEN "ir_collective_called_from_spmd" ELSE ""

(* The stack inside_spmd_region of the walk: its top is the flag spmd.     *)
CheckCall(op, spmd) ==
    CASE InstKind(op) = "collective" /\ spmd -> "ir_collective_called_from_spmd"
      [] InstKind(op) = "spmd" /\ ~spmd -> "ir_spmd_called_from_collective"
      [] OTHER -> ""

(* The walk visits an instruction, and checks its yields, before the first *)
(* of its regions.                                                         *)
RECURSIVE CheckRegion(_, _, _)
CheckRegion(h, r, spmd) ==
    LET Check(i) ==
            LET inst == h.inst[i]
                inner == spmd \/ (inst.regs # <<>> /\ h.reg[inst.regs[1]].kind = "spmd")
                Keep1(err, k) == IF err # "" THEN err ELSE CheckRegion(h, inst.regs[k], inner)
            IN  IF CheckCall(inst.op, spmd) # "" THEN CheckCall(inst.op, spmd)
                ELSE FoldLeft(Keep1, CheckYields(h, i), [k \in DOMAIN inst.regs |-> k])
    IN  FoldLeft(LAMBDA err, i : IF err # "" THEN err ELSE Check(i), "", h.reg[r].insts)

-----------------------------------------------------------------------------
(* The visitor of constant folding.                                        *)
FoldInst(h, i, unsafe) ==
    LET inst == h.inst[i]
        C(k) == ConstantOf(h, inst.args[k])
        ty == TypeOf(h, inst.args[1])
    IN  CASE inst.op \in BinaryOps -> FoldArith(inst.op, ty, C(1), C(2), unsafe)
          [] inst.op \in UnaryOps -> FoldUnary(inst.op, ty, C(1))
          [] inst.op = "cast" -> FoldCast(inst.res[1], ty, C(1))
          [] inst.op \in Comparisons -> FoldCompare(inst.op, ty, C(1), C(2))
          [] inst.op = "size" -> FoldSize(Memrefs[ty].extent)
          [] inst.op = "subgroup_broadcast" -> FoldBroadcast(C(1))
          [] OTHER -> Keep

\* Mutant: the new instruction is put behind the old one.
SupersedeBehind(h, r, pos, op, attr, args, ty) ==
    LET i == h.reg[r].insts[pos]
        made == Create(h, op, attr, args, <<ty>>, 0, "mixed")
    IN  Insert(ReplaceUses(made, <<"res", i, 1>>, <<"res", NewInst(made), 1>>),
               r, Len(h.reg[r].insts) + 1, NewInst(made))

(* A new instruction takes over the uses and is put in front of the old    *)
(* one, at position pos of region r; the iterator then skips over it.      *)
Supersede(h, r, pos, op, attr, args, ty) ==
    LET i == h.reg[r].insts[pos]
        made == Create(h, op, attr, args, <<ty>>, 0, "mixed")
    IN  Insert(ReplaceUses(made, <<"res", i, 1>>, <<"res", NewInst(made), 1>>), r, pos, NewInst(made))

ApplyFold(h, r, pos, f) ==
    LET i == h.reg[r].insts[pos]
    IN  CASE f.kind = "operand" -> ReplaceUses(h, <<"res", i, 1>>, h.inst[i].args[f.arg])
          [] f.kind = "constant" -> Supersede(h, r, pos, "constant", f.val, <<>>, f.ty)
          [] f.kind = "neg" ->
                 Supersede(h, r, pos, "neg", <<>>, <<h.inst[i].args[f.arg]>>, h.inst[i].res[1])
          [] OTHER -> h

(* Each instruction in order: its regions first, then itself.              *)
RECURSIVE PropagateFrom(_, _, _, _)
Propagate(p, r, unsafe) == PropagateFrom(p, r, 1, unsafe)
PropagateFrom(p, r, pos, unsafe) ==
    IF p.err # "" \/ pos > Len(p.h.reg[r].insts) THEN p
    ELSE LET i == p.h.reg[r].insts[pos]
             inner == FoldLeft(LAMBDA q, s : Propagate(q, s, unsafe), p, p.h.inst[i].regs)
             f == FoldInst(inner.h, i, unsafe)
             skip == IF f.kind \in {"constant", "neg"} THEN 2 ELSE 1
         IN  IF inner.err # "" THEN inner
             ELSE IF f.kind = "error" THEN Broken(inner, f.status)
             ELSE PropagateFrom([inner EXCEPT !.h = ApplyFold(@, r, pos, f)], r, pos + skip, unsafe)

-----------------------------------------------------------------------------
(* dead_code_analysis: dead, kept, or the branch that is always taken.     *)
\* Mutant: only arithmetic is known to be free of side effects.
HasSideEffectsMostly(inst) == inst.op \notin BinaryOps

HasSideEffects(inst) == inst.regs # <<>> \/ inst.res = <<>>

Unused(h, i) == ~\E v \in Results(h, i) : HasUses(h, v)

AnalyseIf(h, inst) ==
    LET cond == ConstantOf(h, inst.args[1])
    IN  CASE cond = <<>> -> "kept"
          [] cond = <<0>> /\ h.reg[inst.regs[2]].insts = <<>> -> "dead"
          [] cond = <<1>> -> "then"
          [] OTHER -> "otherwise"

\* Mutant: a loop is dead if its bounds are in reverse order or one apart.
AnalyseForShort(h, inst) ==
    LET from == ConstantOf(h, inst.args[1])
        to == ConstantOf(h, inst.args[2])
    IN  IF inst.res = <<>> /\ Known(from) /\ Known(to) /\ from[1] + 1 >= to[1] THEN "dead" ELSE "kept"

AnalyseFor(h, inst) ==
    LET from == ConstantOf(h, inst.args[1])
        to == ConstantOf(h, inst.args[2])
    IN  IF inst.res = <<>> /\ Known(from) /\ Known(to) /\ from[1] >= to[1] THEN "dead" ELSE "kept"

Analyse(h, i) ==
    LET inst == h.inst[i]
    IN  CASE inst.op = "if" -> AnalyseIf(h, inst)
          [] inst.op = "for" -> AnalyseFor(h, inst)
          [] OTHER -> IF ~HasSideEffects(inst) /\ Unused(h, i) THEN "dead" ELSE "kept"

(* The branch b of the if at pos moves in front of it, from its last       *)
(* instruction to its first; a yield hands its operands to the uses of the *)
(* results and goes.                                                       *)
RECURSIVE MergeFrom(_, _, _, _, _)
MergeFrom(p, r, pos, b, insertAt) ==
    LET i == p.h.reg[r].insts[pos]
        last == Len(p.h.reg[b].insts)
        j == p.h.reg[b].insts[last]
        inst == p.h.inst[j]
        yielded == FoldLeft(LAMBDA g, k : ReplaceUses(g, <<"res", i, k>>, inst.args[k]),
                            p.h, [k \in DOMAIN inst.args |-> k])
    IN  IF p.err # "" \/ last = 0 THEN p
        ELSE IF inst.op = "yield"
        THEN IF Len(p.h.inst[i].res) # Len(inst.args) THEN Broken(p, "ir_yield_mismatch")
             ELSE MergeFrom([p EXCEPT !.h = Erase(yielded, b, last)], r, pos, b, insertAt)
        ELSE MergeFrom([p EXCEPT !.h = Insert(Unlink(p.h, b, last), r, insertAt, j)],
                       r, pos + 1, b, insertAt)

(* From the back: an instruction that is dead is erased; one that always   *)
(* takes the same branch is replaced by it, and what was merged is looked  *)
(* at next; of any other the regions are.  pos is one behind it.           *)
RECURSIVE EliminateFrom(_, _, _)
Eliminate(p, r) == EliminateFrom(p, r, Len(p.h.reg[r].insts))
EliminateFrom(p, r, pos) ==
    LET i == p.h.reg[r].insts[pos]
        inst == p.h.inst[i]
        state == Analyse(p.h, i)
        branch == inst.regs[IF state = "then" THEN 1 ELSE 2]
        merged == MergeFrom(p, r, pos, branch, pos)
        at == pos + Len(merged.h.reg[r].insts) - Len(p.h.reg[r].insts)
    IN  IF p.err # "" \/ pos = 0 THEN p
        ELSE CASE state = "dead" -> EliminateFrom([p EXCEPT !.h = Erase(@, r, pos)], r, pos - 1)
               [] state \in {"then", "otherwise"} ->
                      IF merged.err # "" THEN merged
                      ELSE IF ~Unused(merged.h, i) THEN Broken(merged, "internal_compiler_error")
                      ELSE EliminateFrom([merged EXCEPT !.h = Erase(@, r, at)], r, at - 1)
               [] OTHER -> EliminateFrom(FoldLeft(Eliminate, p, inst.regs), r, pos - 1)
=============================================================================
