------------------------------ MODULE Compiler ------------------------------
(***************************************************************************)
(* From the text of a program to a SPIR-V binary: the parser, the passes   *)
(* of the default pipeline that check and simplify the IR, the converter,  *)
(* capex, assign_ids and the assembler.  The other passes of the pipeline  *)
(* find nothing to do in the programs here, or add barriers, which do not  *)
(* change what a work item stores.  The passes that place buffers,         *)
(* barriers and tiles are the subject of modules of their own.             *)
(***************************************************************************)
EXTENDS ProgramMeaning, SpirvMeaning

CONSTANTS
    Texts,      \* the programs
    Levels,     \* the optimization levels
    Devices     \* sets of SPIR-V features that devices have

VARIABLES
    text,       \* the program
    level,      \* opt_level of the compiler context
    device,     \* have_spirv_feature of the core info
    todo,       \* the passes that are still to run
    heap,       \* the IR
    funcs,      \* the functions of the program: name and body
    conv,       \* the SPIR-V module
    binary,     \* the assembled module
    status      \* of the call: "" as long as nothing has failed

vars == <<text, level, device, todo, heap, funcs, conv, binary, status>>

Simplify(lev) ==
    IF lev >= 1 THEN <<"constant-propagation", "dead-code-elimination">> ELSE <<>>

(* apply_default_optimization_pipeline, tinytc_prog_compile_to_spirv       *)
Pipeline(lev) ==
    <<"check-ir">> \o Simplify(lev) \o Simplify(lev)
        \o <<"check-ir", "convert-to-spirv", "assign-ids", "assemble">>

NoBinary == [bound |-> 0, words |-> <<>>]

Init ==
    /\ text \in Texts
    /\ level \in Levels
    /\ device \in Devices
    /\ todo = <<"parse">> \o Pipeline(level)
    /\ heap = EmptyHeap
    /\ funcs = <<>>
    /\ conv = NewConverter
    /\ binary = NoBinary
    /\ status = ""

(* The next pass ends with status err.                                     *)
Finish(pass, err) ==
    /\ status = ""
    /\ todo # <<>>
    /\ Head(todo) = pass
    /\ todo' = Tail(todo)
    /\ status' = err
    /\ UNCHANGED <<text, level, device>>

ParseText ==
    LET s == Parse(text)
    IN  /\ Finish("parse", s.err)
        /\ heap' = s.h
        /\ funcs' = s.funcs
        /\ UNCHANGED <<conv, binary>>

(* run_function_pass                                                       *)
OverFunctions(Pass(_, _), start) == FoldLeft(LAMBDA p, f : Pass(p, f.body), start, funcs)

CheckIr ==
    LET Check(err, r) == IF err # "" THEN err ELSE CheckRegion(heap, r, FALSE)
    IN  /\ Finish("check-ir", OverFunctions(Check, ""))
        /\ UNCHANGED <<heap, funcs, conv, binary>>

PropagateConstants ==
    LET Pass(p, r) == Propagate(p, r, FALSE)
        p == OverFunctions(Pass, Run(heap))
    IN  /\ Finish("constant-propagation", p.err)
        /\ heap' = p.h
        /\ UNCHANGED <<funcs, conv, binary>>

EliminateDeadCode ==
    LET p == OverFunctions(Eliminate, Run(heap))
    IN  /\ Finish("dead-code-elimination", p.err)
        /\ heap' = p.h
        /\ UNCHANGED <<funcs, conv, binary>>

Convert ==
    LET c == ConvertProg(heap, funcs, device)
    IN  /\ Finish("convert-to-spirv", c.err)
        /\ conv' = c
        /\ UNCHANGED <<heap, funcs, binary>>

Identify ==
    LET a == AssignIds(conv)
    IN  /\ Finish("assign-ids", a.err)
        /\ conv' = a.m
        /\ UNCHANGED <<heap, funcs, binary>>

AssembleModule ==
    /\ Finish("assemble", "")
    /\ binary' = Assemble(conv)
    /\ UNCHANGED <<heap, funcs, conv>>

Next ==
    \/ ParseText \/ CheckIr \/ PropagateConstants \/ EliminateDeadCode
    \/ Convert \/ Identify \/ AssembleModule

Spec == Init /\ [][Next]_vars

-----------------------------------------------------------------------------
Ran(pass) == status = "" /\ pass \notin ToSet(todo)
Assembled == status = "" /\ todo = <<>>
Words == binary.words

-----------------------------------------------------------------------------
(* Calls: a dynamic memref has three elements, every parameter that is a   *)
(* memref a buffer of its own; scalars take a few values.                  *)
TextFunctions == SelectSeq(text, LAMBDA t : t.name # "")
GlobalDefs == FoldLeft(LAMBDA d, t : IF t.name # "" THEN d ELSE Extend(d, t.def, t.val), <<>>, text)

Extent(ty) == IF Memrefs[ty].extent = Dynamic THEN 3 ELSE Memrefs[ty].extent
Buffers(params) ==
    [k \in {j \in DOMAIN params : IsMemref(params[j].ty)} |->
        [e \in 1 .. Extent(params[k].ty) |-> <<e + 1>>]]

Arguments(params, k) ==
    CASE IsMemref(params[k].ty) -> {<<k>>}
      [] IsBool(params[k].ty) -> {<<0>>, <<1>>}
      [] params[k].ty = "index" -> {<<0>>, <<2>>}
      [] OTHER -> {<<-128>>, <<3>>}
Calls(params) ==
    FoldLeft(LAMBDA as, k : {Append(a, x) : a \in as, x \in Arguments(params, k)},
             {<<>>}, [k \in DOMAIN params |-> k])

KernelArgs(params, a) ==
    FlattenSeq([k \in DOMAIN params |->
        IF ~IsMemref(params[k].ty) THEN <<a[k]>>
        ELSE IF Memrefs[params[k].ty].extent = Dynamic
        THEN << <<k, 0>>, <<Extent(params[k].ty)>> >>
        ELSE << <<k, 0>> >>])

(* What the text says a call does, and what the program in its present     *)
(* form does.                                                              *)
Meant(f, a) == Call(f.params, Resolve(f.body, GlobalDefs), a, Buffers(f.params))
Does(k, f, a) ==
    IF Assembled THEN CallKernel(Words, f.name, KernelArgs(f.params, a), Buffers(f.params))
    ELSE CallIr(heap, funcs[k].body, a, Buffers(f.params))

ForAllCalls(P(_, _, _)) ==
    \A k \in DOMAIN TextFunctions : \A a \in Calls(TextFunctions[k].params) :
        P(k, TextFunctions[k], a)

Parsed == Ran("parse")
Checked == Parsed /\ Len(todo) < Len(Pipeline(level))

-----------------------------------------------------------------------------
(* After every pass, and in the binary, a program performs the stores that *)
(* its text means, in that order, for all arguments; a text that divides   *)
(* by zero, leaves a memref or shifts too far on the way means anything.   *)
SameStores ==
    LET Same(k, f, a) == Meant(f, a).state \in {"any", "misplaced"} \/ Does(k, f, a) = Meant(f, a)
    IN  Parsed => ForAllCalls(Same)

(* The scopes of the parser are the lexical ones: an accepted text uses no *)
(* name where its definition does not reach.                               *)
NamesBound ==
    LET Bound2(k, f, a) == Meant(f, a).state # "unbound" IN Parsed => ForAllCalls(Bound2)

(* A program that check-ir accepts executes no collective instruction in a *)
(* parallel region and no SPMD instruction outside of one.                 *)
SpmdNesting ==
    LET Placed(k, f, a) == Meant(f, a).state # "misplaced" IN Checked => ForAllCalls(Placed)

(* No value is destroyed while an operand refers to it: not by a pass, and *)
(* not when a failed parse lets go of what it has built.                   *)
NothingDangling == heap.dangling = {}

RECURSIVE InstsOf(_, _)
InstsOf(h, r) ==
    ToSet(h.reg[r].insts) \cup
        UNION {InstsOf(h, s) : s \in UNION {ToSet(h.inst[i].regs) : i \in ToSet(h.reg[r].insts)}}

(* One walk of dead code elimination finds all there is: no operation      *)
(* whose results are unused, no branch on a constant and no loop without   *)
(* results over an empty constant range is left, wherever merged branches  *)
(* have put them.  A loop with results is never dead: they would have to   *)
(* be replaced by its initial values (dead_code_elimination.cpp:79).       *)
Effects == {"store", "barrier", "yield", "parallel", "for", "if"}
NoDeadCode ==
    (level >= 1 /\ Ran("dead-code-elimination")) =>
        \A k \in DOMAIN funcs : \A i \in InstsOf(heap, funcs[k].body) :
            LET inst == heap.inst[i]
                ArgValue(j) == ConstantOf(heap, inst.args[j])
            IN  CASE inst.op = "if" -> ArgValue(1) = <<>>
                  [] inst.op = "for" ->
                         inst.res = <<>> /\ Known(ArgValue(1)) /\ Known(ArgValue(2)) => ArgValue(1)[1] < ArgValue(2)[1]
                  [] OTHER -> inst.op \in Effects \/ ~Unused(heap, i)

(* What the constructors of the instructions and check-ir admit, no later  *)
(* pass refuses, but for a yield that has no region to leave, a feature    *)
(* the device lacks, and a division by a constant zero, at which folding   *)
(* faults.                                                                 *)
ChecksSuffice ==
    (status # "" /\ Len(todo) < Len(Pipeline(level)) - 1) =>
        status \in {"ir_unexpected_yield", "ir_yield_mismatch", "fault",
                    "spirv_required_feature_unavailable"}

-----------------------------------------------------------------------------
(* Blocks end with one branch, and the labels of a phi are the             *)
(* predecessors of its block, which nested regions move.                   *)
StructuredControlFlow ==
    Assembled => \A k \in Functions(Words) :
                     BlocksWellFormed(Code(Words, k)) /\ PhisMatch(Code(Words, k))

(* On every path to a use stands the definition: in the code for operands, *)
(* at the end of the block it comes from for an input of a phi.            *)
Dominance == Assembled => \A k \in Functions(Words) : DefsDominateUses(Code(Words, k))

(* Ids are unique and below the bound, and an operand is an instruction of *)
(* the module, defined before its use where SPIR-V asks for it.            *)
IdsResolve ==
    Assembled =>
        /\ \A j, k \in Ids(Words) : Words[j].id = Words[k].id => j = k
        /\ \A k \in Ids(Words) : Words[k].id < binary.bound
        /\ \A k \in DOMAIN Words : \A x \in ToSet(Words[k].args) \cup ({Words[k].ty} \ {0}) :
               \E d \in Ids(Words) :
                   /\ Words[d].id = x
                   /\ d < k \/ Words[k].op = "OpPhi" \/ Words[d].op \in MayBeAhead

(* The interface of an entry point lists the variables its function loads, *)
(* each once, and no other function's.                                     *)
InterfacesExact ==
    Assembled => \A f \in ToSet(funcs) :
        LET listed == Tail(EntryPoint(Words, f.name).args)
            code == CodeOf(Words, f.name)
            loaded == {code[k].args[1] : k \in {j \in DOMAIN code : code[j].op = "OpLoad"}}
        IN  /\ ToSet(listed) = {x \in loaded : Opcode(Words, x) = "OpVariable"}
            /\ Cardinality(ToSet(listed)) = Len(listed)

(* A module declares the capabilities its instructions need, as docs list  *)
(* them, and a device that lacks group operations gets none.               *)
Demands(w) ==
    CASE w.op \in Group -> {"Groups"}
      [] w.op = "OpTypeInt" -> CASE w.lit = <<8>> -> {"Int8"} [] w.lit = <<16>> -> {"Int16"}
                                 [] w.lit = <<64>> -> {"Int64"} [] OTHER -> {}
      [] w.op = "OpInBoundsPtrAccessChain" -> {"Addresses"}
      [] w.op = "OpExecutionMode" /\ w.lit = <<"SubgroupSize">> -> {"SubgroupDispatch"}
      [] OTHER -> {}
CapabilitiesDeclared ==
    Assembled => \A k \in DOMAIN Words :
        /\ \A cap \in Demands(Words[k]) :
               \E d \in DOMAIN Words : Words[d].op = "OpCapability" /\ Words[d].lit = <<cap>>
        /\ Words[k].op \in Group => "groups" \in device
=============================================================================
