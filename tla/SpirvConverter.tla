--------------------------- MODULE SpirvConverter ---------------------------
(***************************************************************************)
(* From the tensor IR to a SPIR-V module (spv/converter.cpp).  The state   *)
(* of the converter is the module and                                      *)
(*    vals      the SPIR-V instruction of every IR value                   *)
(*    shape     the extent in the dope vector of every memref              *)
(*    yielded   a stack: what the region being converted has yielded       *)
(*    got       what the last region with yields has handed over           *)
(*    err       the first error                                            *)
(* Complex constants are not told apart from other operands: no program    *)
(* here computes with complex numbers.                                     *)
(***************************************************************************)
EXTENDS SpirvModule, TLC

NewConverter ==
    EmptyModule @@ [vals |-> [v \in {} |-> 0], shape |-> [v \in {} |-> 0],
                    yielded |-> <<>>, got |-> <<>>, err |-> ""]

Refuse(c, status) == IF c.err # "" THEN c ELSE [c EXCEPT !.err = status]

Extend(f, x, y) == [z \in DOMAIN f \cup {x} |-> IF z = x THEN y ELSE f[z]]
Declare(c, v, p) == [c EXCEPT !.vals = Extend(@, v, p)]
DeclareLast(c, v) == Declare(c, v, c.last)

(* A term of ScalarOps as instructions; its leaves are pointers.           *)
ExtInsts == {"s_min", "s_max", "s_abs", "fmin", "fmax", "fabs", "sqrt", "fma"}

(* An instruction with a result of type ty.                                *)
Typed(c, ty, op, args) == AddOfLast(SpvTy(c, ty), op, args)

EmitExt(typed, op, ptrs) == AddOnLast(OpenclExt(typed), "OpExtInst", typed.last, ptrs, <<op>>)
EmitOf(typed, t, ptrs) ==
    IF t.op \in ExtInsts THEN EmitExt(typed, t.op, ptrs)
    ELSE AddTo(typed, "function", t.op, typed.last, ptrs, t.lit)
EmitOver(operands, t) == EmitOf(SpvTy(operands.c, t.ty), t, operands.ptrs)
Emitted(c, ptrs) == [c |-> c, ptrs |-> Append(ptrs, c.last)]

RECURSIVE Emit(_, _)
Emit(c, t) ==
    CASE t.op = "value" -> [c EXCEPT !.last = t.lit[1]]
      [] t.op = "OpConstant" -> UniqueConstant(c, t.ty, t.lit)
      [] OTHER -> EmitOver(FoldLeft(LAMBDA acc, arg : Emitted(Emit(acc.c, arg), acc.ptrs),
                                    [c |-> c, ptrs |-> <<>>], t.args), t)

(* The label of the block that is being filled; 0 if there is none.        *)
LastLabel(c) ==
    FoldLeft(LAMBDA l, p : IF c.inst[p].op = "OpLabel" THEN p ELSE l, 0, c.sec["function"])

(* Labels that are not in the module yet.                                  *)
NewLabels(c, n) == FoldLeft(LAMBDA d, k : Make(d, "OpLabel", 0, <<>>, <<>>), c, [k \in 1 .. n |-> k])
PlaceLabel(c, p) == Place(c, "function", p)
Branch(c, label) == Add(c, "OpBranch", 0, <<label>>)
BranchIf(c, cond, yes, no) == Add(c, "OpBranchConditional", 0, <<cond, yes, no>>)

AddPhi(c, ty, v, from, w, to) == Typed(c, ty, "OpPhi", <<v, from, w, to>>)
SetBack(c, phi, w) == [c EXCEPT !.inst[phi].args[3] = w]

-----------------------------------------------------------------------------
(* get_pointer_helper, for one mode of stride one.                         *)
Pointer(c, h, mem, idx) ==
    Typed(c, TypeOf(h, mem), "OpInBoundsPtrAccessChain", <<c.vals[mem], idx>>)

LoadFrom(typed, h, mem, idx) ==
    AddOnLast(Pointer(typed, h, mem, idx), "OpLoad", typed.last, <<>>, <<>>)
ConvertLoad(c, h, i, a) ==
    LET inst == h.inst[i]
    IN  IF inst.args[1] \notin DOMAIN c.shape THEN Refuse(c, "spirv_missing_dope_vector")
        ELSE DeclareLast(LoadFrom(SpvTy(c, inst.res[1]), h, inst.args[1], a[2]), <<"res", i, 1>>)

ConvertStore(c, h, i, a) ==
    LET mem == h.inst[i].args[2]
    IN  IF mem \notin DOMAIN c.shape THEN Refuse(c, "spirv_missing_dope_vector")
        ELSE AddOnLast(Pointer(c, h, mem, a[3]), "OpStore", 0, <<a[1]>>, <<>>)

ConvertSize(c, h, i) ==
    LET mem == h.inst[i].args[1]
    IN  IF mem \notin DOMAIN c.shape THEN Refuse(c, "spirv_missing_dope_vector")
        ELSE Declare(c, <<"res", i, 1>>, c.shape[mem])

(* Scope::Subgroup and Scope::Workgroup                                    *)
SubgroupScope(c) == UniqueConstant(c, "i32", <<3>>)

Broadcast(scope, ty, a) == Typed(scope, ty, "OpGroupBroadcast", <<scope.last>> \o a)
ConvertBroadcast(c, h, i, a) ==
    DeclareLast(Broadcast(SubgroupScope(c), h.inst[i].res[1], a), <<"res", i, 1>>)

GroupOp(op, ty) ==
    IF op = "subgroup_reduce_add" THEN (IF IsInt(ty) THEN "OpGroupIAdd" ELSE "OpGroupFAdd")
    ELSE IF IsInt(ty) THEN "OpGroupSMax" ELSE "OpGroupFMax"

SubgroupOp(typed, op, a) == AddOnLast(SubgroupScope(typed), op, typed.last, a, <<>>)
ConvertSubgroupOp(c, h, i, a) ==
    LET ty == h.inst[i].res[1]
    IN  DeclareLast(SubgroupOp(SpvTy(c, ty), GroupOp(h.inst[i].op, ty), a), <<"res", i, 1>>)

ConvertScalar(c, h, i, a) ==
    LET inst == h.inst[i]
        leaf == [k \in DOMAIN a |-> Leaf(<<a[k]>>)]
        ty == TypeOf(h, inst.args[1])
        term == CASE inst.op \in BinaryOps -> EmitBinary(inst.op, ty, leaf[1], leaf[2])
                  [] inst.op \in UnaryOps -> EmitUnary(inst.op, ty, leaf[1])
                  [] inst.op \in Comparisons -> EmitCompare(inst.op, ty, leaf[1], leaf[2])
                  [] inst.op = "cast" -> EmitCast(inst.res[1], ty, leaf[1])
    IN  DeclareLast(Emit(c, term), <<"res", i, 1>>)

(* A yield fills the top of the stack.                                     *)
ConvertYield(c, a) ==
    IF c.yielded = <<>> THEN Refuse(c, "ir_unexpected_yield")
    ELSE IF Len(Last(c.yielded)) # Len(a) THEN Refuse(c, "ir_yield_mismatch")
    ELSE [c EXCEPT !.yielded[Len(c.yielded)] = a]

RECURSIVE ConvertRegion(_, _, _), ConvertInst(_, _, _)

(* run_on_region_with_yield                                                *)
HandOver(c) ==
    IF c.err # "" THEN c
    ELSE IF 0 \in ToSet(Last(c.yielded)) THEN Refuse(c, "ir_yield_mismatch")
    ELSE [c EXCEPT !.yielded = Front(@), !.got = Last(c.yielded)]
RegionWithYield(c, h, r, n) ==
    HandOver(ConvertRegion([c EXCEPT !.yielded = Append(@, [k \in 1 .. n |-> 0])], h, r))

\* Mutant: a branch ends where it began.
BranchEndFirst(c, label) == label

(* The label of the block in which the branch that begins at label ends.   *)
BranchEnd(c, label) == LastLabel(c)

(* One phi for each result of an if, over the blocks the branches end in.  *)
MergePhis(c, res, i, thenVals, thenLabel, elseVals, elseLabel) ==
    FoldLeft(LAMBDA d, k : DeclareLast(AddPhi(d, res[k], thenVals[k], thenLabel,
                                              elseVals[k], elseLabel), <<"res", i, k>>),
             c, [k \in DOMAIN res |-> k])

(* Three steps: the header, then what follows the first and the second     *)
(* branch.  The labels are then, then + 1 (otherwise) and then + 2 (merge). *)
AfterBranches(second, first, h, i, then) ==
    IF second.err # "" THEN second
    ELSE MergePhis(PlaceLabel(Branch(second, then + 2), then + 2), h.inst[i].res, i,
                   first.got, BranchEnd(first, then), second.got, BranchEnd(second, then + 1))
AfterThen(first, h, i, then) ==
    IF first.err # "" THEN first
    ELSE AfterBranches(RegionWithYield(PlaceLabel(Branch(first, then + 2), then + 1), h,
                                       h.inst[i].regs[2], Len(h.inst[i].res)),
                       first, h, i, then)
IfHeader(labels, cond, then) ==
    BranchIf(Add(labels, "OpSelectionMerge", 0, <<then + 2>>), cond, then, then + 1)
ConvertIf(c, h, i, a) ==
    LET then == Len(c.inst) + 1
    IN  AfterThen(RegionWithYield(PlaceLabel(IfHeader(NewLabels(c, 3), a[1], then), then), h,
                                  h.inst[i].regs[1], Len(h.inst[i].res)),
                  h, i, then)

\* Mutant: the results of a loop are what its body yielded last.
LoopResult(c, r, k) == c.got[k]

(* The results of a loop are the values it carries, as its header has them. *)
IterArg(c, r, k) == c.vals[<<"par", r, k + 1>>]

LoopLabels(c) ==
    LET n == Len(c.inst)
    IN  [entry |-> LastLabel(c), header |-> n + 1, body |-> n + 2, continue |-> n + 3, merge |-> n + 4]

(* The header: a phi for every value the loop carries, the test, the split. *)
LoopPhis(c, tys, r, initial, l) ==
    FoldLeft(LAMBDA d, k : DeclareLast(AddPhi(d, tys[k], initial[k], l.entry, 0, l.continue),
                                       <<"par", r, k>>), c, [k \in DOMAIN tys |-> k])
Carried(c, r, k) == c.vals[<<"par", r, k>>]
Split(test, l) ==
    BranchIf(Add(test, "OpLoopMerge", 0, <<l.merge, l.continue>>), test.last, l.body, l.merge)
LoopTest(c, r, to, l) == Split(AddOfLast(BoolTy(c), "OpSLessThan", <<Carried(c, r, 1), to>>), l)

(* The continue block: what was yielded goes back, and the loop variable   *)
(* takes a step.                                                           *)
YieldBack(c, r, n) ==
    FoldLeft(LAMBDA d, k : SetBack(d, Carried(d, r, k + 1), c.got[k]), c, [k \in 1 .. n |-> k])
StepOf(c, inst, ty, a) ==
    IF inst.attr = <<1>> THEN [c EXCEPT !.last = a[3]] ELSE UniqueConstant(c, ty, <<1>>)
Advance(step, r, ty) == Typed(step, ty, "OpIAdd", <<Carried(step, r, 1), step.last>>)
Close(next, r, l) ==
    PlaceLabel(Branch(SetBack(next, Carried(next, r, 1), next.last), l.header), l.merge)
AfterBody(inside, h, i, a, l) ==
    LET inst == h.inst[i]
        r == inst.regs[1]
        ty == h.reg[r].params[1]
        latch == PlaceLabel(Branch(YieldBack(inside, r, Len(inst.res)), l.continue), l.continue)
    IN  IF inside.err # "" THEN inside
        ELSE FoldLeft(LAMBDA d, k : Declare(d, <<"res", i, k>>, IterArg(d, r, k)),
                      Close(Advance(StepOf(latch, inst, ty, a), r, ty), r, l),
                      [k \in DOMAIN inst.res |-> k])

LoopFrom(c, h, i, a, l) ==
    LET inst == h.inst[i]
        r == inst.regs[1]
        initial == <<a[1]>> \o SubSeq(a, NumBounds(inst.attr) + 1, Len(a))
        header == PlaceLabel(Branch(NewLabels(c, 4), l.header), l.header)
        split == LoopTest(LoopPhis(header, h.reg[r].params, r, initial, l), r, a[2], l)
    IN  IF l.entry = 0 THEN Refuse(c, "internal_compiler_error")
        ELSE AfterBody(RegionWithYield(PlaceLabel(split, l.body), h, r, Len(inst.res)), h, i, a, l)
ConvertFor(c, h, i, a) == LoopFrom(c, h, i, a, LoopLabels(c))

(* Workgroup scope, both address spaces, sequentially consistent.          *)
BarrierIn(scope) ==
    LET both == <<scope.last, scope.last>>
        Barrier(fence) == Add(fence, "OpControlBarrier", 0, both \o <<fence.last>>)
    IN  Barrier(UniqueConstant(scope, "i32", <<784>>))
ConvertBarrier(c) == BarrierIn(UniqueConstant(c, "i32", <<2>>))

ConvertInst(c, h, i) ==
    LET inst == h.inst[i]
        a == [k \in DOMAIN inst.args |-> c.vals[inst.args[k]]]
    IN  IF c.err # "" THEN c
        ELSE IF ~(ToSet(inst.args) \subseteq DOMAIN c.vals) THEN Refuse(c, "spirv_undefined_value")
        ELSE CASE inst.op = "constant" ->
                      DeclareLast(UniqueConstant(c, inst.res[1], inst.attr), <<"res", i, 1>>)
               [] inst.op = "load" -> ConvertLoad(c, h, i, a)
               [] inst.op = "store" -> ConvertStore(c, h, i, a)
               [] inst.op = "size" -> ConvertSize(c, h, i)
               [] inst.op = "barrier" -> ConvertBarrier(c)
               [] inst.op = "parallel" -> ConvertRegion(c, h, inst.regs[1])
               [] inst.op = "if" -> ConvertIf(c, h, i, a)
               [] inst.op = "for" -> ConvertFor(c, h, i, a)
               [] inst.op = "yield" -> ConvertYield(c, a)
               [] inst.op = "subgroup_linear_id" ->
                      DeclareLast(LoadBuiltin(c, "SubgroupId"), <<"res", i, 1>>)
               [] inst.op = "subgroup_broadcast" -> ConvertBroadcast(c, h, i, a)
               [] inst.op \in SubgroupOps -> ConvertSubgroupOp(c, h, i, a)
               [] OTHER -> ConvertScalar(c, h, i, a)

ConvertRegion(c, h, r) == FoldLeft(LAMBDA d, i : ConvertInst(d, h, i), c, h.reg[r].insts)

-----------------------------------------------------------------------------
(* The parameters of a function: a memref of dynamic extent brings it      *)
(* along, a static extent and the stride are constants.                    *)
ParamTypes(h, r) ==
    FlattenSeq([k \in DOMAIN h.reg[r].params |->
        LET ty == h.reg[r].params[k]
        IN  IF IsMemref(ty) /\ Memrefs[ty].extent = Dynamic THEN <<ty, "index">> ELSE <<ty>>])

Listed(typed) == [typed EXCEPT !.got = Append(@, typed.last)]
Signature(void) == Global(void, "OpTypeFunction", 0, <<void.last>> \o void.got, <<>>)
FunctionTy(c, h, r) ==
    Signature(VoidTy(FoldLeft(LAMBDA acc, ty : Listed(SpvTy(acc, ty)), [c EXCEPT !.got = <<>>],
                              ParamTypes(h, r))))

Shaped(c, v) == [c EXCEPT !.shape = Extend(@, v, c.last)]
DopeVector(c, v, ty) ==
    UniqueConstant(
        Shaped(IF Memrefs[ty].extent = Dynamic THEN Typed(c, "index", "OpFunctionParameter", <<>>)
               ELSE UniqueConstant(c, "index", <<Memrefs[ty].extent>>), v), "index", <<1>>)

ConvertParam(c, v, ty) ==
    LET Declared(d) == IF IsMemref(ty) THEN DopeVector(d, v, ty) ELSE d
    IN  Declared(DeclareLast(Typed(c, ty, "OpFunctionParameter", <<>>), v))

\* Mutant: every variable of the module is in the interface of a function.
InterfaceOfAll(c, begin) ==
    SelectSeq(c.sec["type_const_var"], LAMBDA p : c.inst[p].op = "OpVariable")

(* The variables that the instructions of the function, from position      *)
(* begin on, load from.                                                    *)
Interface(c, begin) ==
    LET code == SubSeq(c.sec["function"], begin, Len(c.sec["function"]))
        loaded == [k \in DOMAIN code |-> IF c.inst[code[k]].op = "OpLoad"
                                         THEN c.inst[code[k]].args[1] ELSE 0]
        vars == SelectSeq(loaded, LAMBDA p : p # 0 /\ c.inst[p].op = "OpVariable")
    IN  FoldLeft(LAMBDA seen, p : IF p \in ToSet(seen) THEN seen ELSE Append(seen, p), <<>>, vars)

(* The function, its parameters, its body, and what the module says of it. *)
OpenFunction(funTy) ==
    LET Open(void) == Add(void, "OpFunction", void.last, <<funTy.last>>) IN Open(VoidTy(funTy))
ConvertParams(fun, h, r) ==
    FoldLeft(LAMBDA d, k : ConvertParam(d, <<"par", r, k>>, h.reg[r].params[k]),
             fun, [k \in DOMAIN h.reg[r].params |-> k])
Describe(c, f, fun, interface) ==
    LET Mode(d, mode) == AddTo(d, "execution_mode", "OpExecutionMode", 0, <<fun>>, <<mode>>)
    IN  Mode(Mode(AddTo(c, "entry_point", "OpEntryPoint", 0, <<fun>> \o interface, <<f.name>>),
                  "LocalSize"), "SubgroupSize")
EndFunction(body, f, fun, begin) ==
    IF body.err # "" THEN body
    ELSE Describe(Add(Add(body, "OpReturn", 0, <<>>), "OpFunctionEnd", 0, <<>>),
                  f, fun, Interface(body, begin))
ConvertBody(params, h, f, fun) ==
    EndFunction(ConvertRegion(Add(params, "OpLabel", 0, <<>>), h, f.body), f, fun,
                Len(params.sec["function"]) + 1)
ConvertFrom(fun, h, f) == ConvertBody(ConvertParams(fun, h, f.body), h, f, fun.last)
ConvertFunction(c, h, f) ==
    IF c.err # "" THEN c ELSE ConvertFrom(OpenFunction(FunctionTy(c, h, f.body)), h, f)

(* convert_prog_to_spirv, for a device with the given features.            *)
CheckFeatures(c, features) ==
    IF c.err # "" THEN c
    ELSE IF ~(RequiredFeatures(c) \subseteq features)
    THEN Refuse(Capex(c), "spirv_required_feature_unavailable")
    ELSE Capex(c)
ConvertProg(h, funcs, features) ==
    CheckFeatures(
        FoldLeft(LAMBDA c, f : ConvertFunction(c, h, f),
                 AddTo(NewConverter, "memory_model", "OpMemoryModel", 0, <<>>, <<"Physical64", "OpenCL">>),
                 funcs), features)
=============================================================================
