----------------------------- MODULE SpirvModule -----------------------------
(***************************************************************************)
(* A SPIR-V module under construction (spv/module, spv/uniquifier) and the *)
(* passes over it: capex, assign_ids and the assembler.                    *)
(* An instruction is an object with a result type, operands and literals;  *)
(* type and operands are numbers of other objects, 0 a null pointer.  Every *)
(* operator that adds or finds an instruction leaves its number in last.   *)
(***************************************************************************)
EXTENDS IrHeap

Sections == <<"capability", "extension", "ext_inst", "memory_model", "entry_point",
              "execution_mode", "decoration", "type_const_var", "function">>

EmptyModule == [inst |-> <<>>, sec |-> [s \in ToSet(Sections) |-> <<>>], last |-> 0]

Make(m, op, ty, args, lit) ==
    [m EXCEPT !.inst = Append(@, [op |-> op, ty |-> ty, args |-> args, lit |-> lit, id |-> 0]),
              !.last = Len(m.inst) + 1]
Place(m, s, p) == [m EXCEPT !.sec[s] = Append(@, p)]
AddTo(m, s, op, ty, args, lit) == Place(Make(m, op, ty, args, lit), s, Len(m.inst) + 1)
Add(m, op, ty, args) == AddTo(m, "function", op, ty, args, <<>>)
(* An instruction whose result type is the one found last.                 *)
AddOfLast(m, op, args) == Add(m, op, m.last, args)
(* An instruction whose first operand is the one found last.               *)
AddOnLast(m, op, ty, args, lit) == AddTo(m, "function", op, ty, <<m.last>> \o args, lit)

AllInOrder(m) == FlattenSeq([k \in DOMAIN Sections |-> m.sec[Sections[k]]])

-----------------------------------------------------------------------------
(* The uniquifier: what its maps hold is what it has added to the module.  *)
Unique(m, s, op, ty, args, lit) ==
    LET same == {p \in ToSet(m.sec[s]) :
                    /\ m.inst[p].op = op /\ m.inst[p].ty = ty
                    /\ m.inst[p].args = args /\ m.inst[p].lit = lit}
    IN  IF same = {} THEN AddTo(m, s, op, ty, args, lit)
        ELSE [m EXCEPT !.last = CHOOSE p \in same : TRUE]

Global(m, op, ty, args, lit) == Unique(m, "type_const_var", op, ty, args, lit)
Capability(m, cap) == Unique(m, "capability", "OpCapability", 0, <<>>, <<cap>>)
OpenclExt(m) == Unique(m, "ext_inst", "OpExtInstImport", 0, <<>>, <<"OpenCL.std">>)

IntTy(m, width) == Global(m, "OpTypeInt", 0, <<>>, <<width>>)
FloatTy(m, width) == Global(m, "OpTypeFloat", 0, <<>>, <<width>>)
BoolTy(m) == Global(m, "OpTypeBool", 0, <<>>, <<>>)
VoidTy(m) == Global(m, "OpTypeVoid", 0, <<>>, <<>>)
VecTy(component) == Global(component, "OpTypeVector", 0, <<component.last>>, <<2>>)

(* Pointer types differ by their alignment too, which is a decoration.     *)
Decorations(m, p) == {m.inst[d].lit : d \in {e \in ToSet(m.sec["decoration"]) :
                                                  m.inst[e].args = <<p>>}}
Decorate(m, lit) ==
    [AddTo(m, "decoration", "OpDecorate", 0, <<m.last>>, lit) EXCEPT !.last = m.last]
PointerTy(m, class, pointee, alignment) ==
    LET same == {p \in ToSet(m.sec["type_const_var"]) :
                    /\ m.inst[p].op = "OpTypePointer"
                    /\ m.inst[p].args = <<pointee>> /\ m.inst[p].lit = <<class>>
                    /\ <<"Alignment", alignment>> \in Decorations(m, p)}
    IN  IF same # {} THEN [m EXCEPT !.last = CHOOSE p \in same : TRUE]
        ELSE Decorate(AddTo(m, "type_const_var", "OpTypePointer", 0, <<pointee>>, <<class>>),
                      <<"Alignment", alignment>>)
PointerToLast(m, class, alignment) == PointerTy(m, class, m.last, alignment)

IndexWidth == 64
Width(ty) == CASE ty = "i8" -> 8 [] ty = "i16" -> 16 [] ty = "i32" -> 32
               [] ty = "index" -> IndexWidth

(* get_spv_ty_non_coopmatrix, get_spv_ty of a memref.                      *)
ScalarTy(m, ty) ==
    CASE IsBool(ty) -> BoolTy(m)
      [] IsInt(ty) -> IntTy(m, Width(ty))
      [] IsFloat(ty) -> FloatTy(m, 32)
      [] IsComplex(ty) -> VecTy(FloatTy(m, 32))
      [] ty = "bool2" -> VecTy(BoolTy(m))

SpvTy(m, ty) ==
    IF IsMemref(ty)
    THEN PointerToLast(ScalarTy(m, Memrefs[ty].elem), "CrossWorkgroup",
                       Width(Memrefs[ty].elem) \div 8)
    ELSE ScalarTy(m, ty)

(* bool_constant, constant                                                 *)
ConstantOfLast(m, op, lit) == Global(m, op, m.last, <<>>, lit)
UniqueConstant(m, ty, val) ==
    IF IsBool(ty)
    THEN ConstantOfLast(BoolTy(m), IF val = <<1>> THEN "OpConstantTrue" ELSE "OpConstantFalse", <<>>)
    ELSE ConstantOfLast(SpvTy(m, ty), "OpConstant", val)

(* builtin_var and load_builtin, of the builtins that are an i32.          *)
VariableOfLast(m) == AddTo(m, "type_const_var", "OpVariable", m.last, <<>>, <<"Input">>)
BuiltinVar(m, builtin) ==
    LET found == {p \in ToSet(m.sec["type_const_var"]) :
                     <<"BuiltIn", builtin>> \in Decorations(m, p)}
    IN  IF found # {} THEN [m EXCEPT !.last = CHOOSE p \in found : TRUE]
        ELSE Decorate(Decorate(VariableOfLast(PointerToLast(IntTy(m, 32), "Input", 4)),
                               <<"Constant">>),
                      <<"BuiltIn", builtin>>)

LoadVar(m, var) == AddOfLast(IntTy(m, 32), "OpLoad", <<var>>)
LoadFromLast(m) == LoadVar(m, m.last)
LoadBuiltin(m, builtin) == LoadFromLast(BuiltinVar(m, builtin))

-----------------------------------------------------------------------------
(* capex: the capabilities and device features an instruction asks for.    *)
GroupOps == {"OpGroupBroadcast", "OpGroupIAdd", "OpGroupFAdd"}

\* Mutant: the kernel entry point and the memory model ask for all there is.
CapabilitiesOfModel(inst) ==
    CASE inst.op = "OpMemoryModel" -> <<"Addresses", "Kernel">>
      [] inst.op \in GroupOps -> <<"Groups">>
      [] OTHER -> <<>>

CapabilitiesOf(inst) ==
    CASE inst.op = "OpEntryPoint" -> <<"Kernel">>
      [] inst.op = "OpExecutionMode" ->
             IF inst.lit = <<"SubgroupSize">> THEN <<"SubgroupDispatch">> ELSE <<>>
      [] inst.op \in GroupOps -> <<"Groups">>
      [] inst.op = "OpInBoundsPtrAccessChain" -> <<"Addresses">>
      [] inst.op = "OpMemoryModel" -> <<"Addresses", "Kernel">>
      [] inst.op = "OpTypeInt" ->
             CASE inst.lit = <<8>> -> <<"Int8">> [] inst.lit = <<16>> -> <<"Int16">>
               [] inst.lit = <<64>> -> <<"Int64">> [] OTHER -> <<>>
      [] OTHER -> <<>>

FeaturesOf(inst) ==
    CASE inst.op = "OpExecutionMode" /\ inst.lit = <<"SubgroupSize">> -> {"subgroup_dispatch"}
      [] inst.op \in GroupOps -> {"groups"}
      [] OTHER -> {}

Capex(m) ==
    FoldLeft(Capability, m, FlattenSeq([k \in DOMAIN AllInOrder(m) |->
                                           CapabilitiesOf(m.inst[AllInOrder(m)[k]])]))
RequiredFeatures(m) == UNION {FeaturesOf(m.inst[p]) : p \in ToSet(AllInOrder(m))}

-----------------------------------------------------------------------------
(* assign_ids works on [m, slot, err].                                     *)
NoResult == {"OpCapability", "OpMemoryModel", "OpEntryPoint", "OpExecutionMode", "OpDecorate",
             "OpBranch", "OpBranchConditional", "OpSelectionMerge", "OpLoopMerge", "OpStore",
             "OpReturn", "OpFunctionEnd", "OpControlBarrier"}

MayBeAhead == {"OpFunction", "OpVariable", "OpLabel", "OpTypePointer", "OpAsmINTEL"}

\* Mutant: the slot is not advanced for an operand that is ahead.
DeclareStuck(a, p) ==
    IF a.m.inst[p].id # 0 THEN a
    ELSE [a EXCEPT !.m.inst[p].id = a.slot,
                   !.slot = IF a.m.inst[p].op = "OpLabel" THEN @ ELSE @ + 1]

DeclareId(a, p) ==
    IF a.m.inst[p].id # 0 THEN a
    ELSE [a EXCEPT !.m.inst[p].id = a.slot, !.slot = @ + 1]

VisitOperand(a, p) ==
    IF p = 0 \/ a.err # "" \/ a.m.inst[p].id # 0 THEN a
    ELSE IF a.m.inst[p].op \in MayBeAhead THEN DeclareId(a, p)
    ELSE [a EXCEPT !.err = "spirv_forbidden_forward_declaration"]

(* The operands of a phi come in pairs of a value and a label; the value   *)
(* may be ahead.                                                           *)
VisitPhiOperand(a, p) == IF a.err # "" THEN a ELSE DeclareId(a, p)

VisitResult(a, p) ==
    IF a.err # "" \/ a.m.inst[p].op \in NoResult THEN a ELSE DeclareId(a, p)
VisitId(a, p) ==
    LET inst == a.m.inst[p]
        Visit(b, q) == IF inst.op = "OpPhi" THEN VisitPhiOperand(b, q) ELSE VisitOperand(b, q)
    IN  FoldLeft(Visit, VisitResult(VisitOperand(a, inst.ty), p), inst.args)

AssignIds(m) == FoldLeft(VisitId, [m |-> m, slot |-> 1, err |-> ""], AllInOrder(m))

Bound(m) ==
    1 + FoldLeft(LAMBDA n, p : IF m.inst[p].op \in NoResult THEN n ELSE Larger(n, m.inst[p].id),
                 0, AllInOrder(m))

(* The binary: the instructions with ids in place of pointers.             *)
IdOf(m, p) == IF p = 0 THEN 0 ELSE m.inst[p].id
Assemble(m) ==
    LET order == AllInOrder(m)
    IN  [bound |-> Bound(m),
         words |-> [k \in DOMAIN order |->
             LET inst == m.inst[order[k]]
             IN  [op |-> inst.op, ty |-> IdOf(m, inst.ty), lit |-> inst.lit,
                  id |-> IF inst.op \in NoResult THEN 0 ELSE inst.id,
                  args |-> [j \in DOMAIN inst.args |-> IdOf(m, inst.args[j])]]]]
=============================================================================
