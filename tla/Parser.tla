------------------------------- MODULE Parser -------------------------------
(***************************************************************************)
(* The actions of the parser (parser_impl.yy, parse_context.cpp): from the *)
(* text of a program, given as a tree of records, to the IR.               *)
(*                                                                         *)
(* An instruction of the text is [op, attr, names, args, tys, regs]: the   *)
(* names left of =, the names of the operands, the types it states and its *)
(* regions.  A region is [names, body]: the names its header defines and   *)
(* its instructions.  A function is [name, params, body] with params of    *)
(* [name, ty]; a program is a sequence of functions and definitions.       *)
(* A failed action ends the parse: err holds the first error.              *)
(***************************************************************************)
EXTENDS IrHeap

(* How an instruction may be executed: @inst ... { collective / spmd }.    *)
Collective == {"parallel"}
Spmd == {"subgroup_linear_id", "subgroup_broadcast", "subgroup_reduce_add", "subgroup_reduce_max"}

(* The state of the parser: the heap, the scopes of value names, those of  *)
(* definitions, the regions being filled, the instructions whose regions   *)
(* are open, the functions.                                                *)
Started == [h |-> EmptyHeap, vals |-> <<>>, defs |-> <<<<>>>>, regs |-> <<>>,
            pending |-> <<>>, funcs |-> <<>>, err |-> ""]

Fail(s, status) == [s EXCEPT !.err = status]

(* A scope is a function from the names it holds; the innermost is last.   *)
Holders(scopes, name) == {k \in DOMAIN scopes : name \in DOMAIN scopes[k]}
LookUp(scopes, name) ==
    scopes[CHOOSE k \in Holders(scopes, name) : \A j \in Holders(scopes, name) : j <= k][name]
Define(scopes, name, what) ==
    [scopes EXCEPT ![Len(scopes)] = [n \in DOMAIN @ \cup {name} |->
                                        IF n = name THEN what ELSE @[n]]]

PushScope(s) == [s EXCEPT !.vals = Append(@, <<>>), !.defs = Append(@, <<>>)]
\* Mutant: the names of a region outlive it.
PopScopeKept(s) ==
    IF Len(s.vals) < 2 THEN [s EXCEPT !.vals = Front(@), !.defs = Front(@)]
    ELSE LET n == Len(s.vals)
         IN  [s EXCEPT !.vals = Append(Front(Front(@)),
                  [x \in DOMAIN s.vals[n] \cup DOMAIN s.vals[n - 1] |->
                      IF x \in DOMAIN s.vals[n] THEN s.vals[n][x] ELSE s.vals[n - 1][x]]),
                     !.defs = Front(@)]

PopScope(s) == [s EXCEPT !.vals = Front(@), !.defs = Front(@)]

PushRegion(s, r) == [s EXCEPT !.regs = Append(@, r)]
PopRegion(s) == [s EXCEPT !.regs = Front(@)]

(* ctx.val(id, value): a name may not be in any scope that is open.        *)
NameValue(s, name, v) ==
    IF s.err # "" THEN s
    ELSE IF Holders(s.vals, name) # {} THEN Fail(s, "used_already")
    ELSE [s EXCEPT !.vals = Define(@, name, v)]

(* names[k] becomes vs[k]; a header that names fewer leaves the rest.      *)
NameValues(s, names, vs) ==
    FoldLeft(LAMBDA acc, k : NameValue(acc, names[k], vs[k]), s, [k \in DOMAIN names |-> k])

AddDef(s, name, val) ==
    IF Holders(s.defs, name) # {} THEN Fail(s, "used_already")
    ELSE [s EXCEPT !.defs = Define(@, name, val)]

-----------------------------------------------------------------------------
(* setup_and_check of the instructions: "" or the status of the error.     *)
First(conditions) ==
    LET bad == {k \in DOMAIN conditions : ~conditions[k][1]}
    IN  IF bad = {} THEN "" ELSE conditions[CHOOSE k \in bad : \A j \in bad : k <= j][2]

CheckConstant(val, ty) ==
    First(<< <<ty \in NumberTypes \cup {"boolean"}, "ir_expected_coopmatrix_number_or_boolean">>,
             <<Len(val) = (IF IsComplex(ty) THEN 2 ELSE 1), "ir_constant_mismatch">> >>)

CheckArith(op, a, b, ty) ==
    First(<< <<a = ty, "ir_operand_type_must_match_return_type">>,
             <<b = ty, "ir_operand_type_must_match_return_type">>,
             <<ArithOK(op, ty), "ir_unsupported">> >>)

CheckUnary(op, a, ty) ==
    IF IsBool(ty) THEN First(<< <<op = "not", "ir_boolean_unsupported">> >>)
    ELSE First(<< <<a \in NumberTypes, "ir_expected_coopmatrix_or_number">>,
                  <<ty = UnaryResult(op, a), "ir_operand_type_must_match_return_type">>,
                  <<UnaryOK(op, a), "ir_unsupported">> >>)

CheckCompare(op, a, b, ty) ==
    First(<< <<ty = "boolean", "ir_expected_boolean">>,
             <<a \in NumberTypes, "ir_expected_number">>,
             <<CompareOK(op, a), "ir_complex_unsupported">>,
             <<a = b, "ir_number_mismatch">> >>)

CheckLoad(tys, ty) ==
    First(<< <<IsMemref(tys[1]), "ir_expected_memref">>,
             <<IsMemref(tys[1]) => Memrefs[tys[1]].elem = ty,
               "ir_operand_type_must_match_return_type">>,
             <<Len(tys) = 2, "ir_invalid_number_of_indices">> >>)

CheckStore(tys) ==
    First(<< <<\A k \in 3 .. Len(tys) : tys[k] = "index", "ir_expected_index">>,
             <<IsMemref(tys[2]), "ir_expected_memref">>,
             <<IsMemref(tys[2]) => Memrefs[tys[2]].elem = tys[1], "ir_number_mismatch">>,
             <<Len(tys) = 3, "ir_invalid_number_of_indices">> >>)

Yieldable == NumberTypes \cup {"boolean"}

CheckIf(tys, res) ==
    First(<< <<tys[1] = "boolean", "ir_expected_boolean">>,
             <<ToSet(res) \subseteq Yieldable, "ir_expected_coopmatrix_number_or_boolean">> >>)

CheckFor(attr, tys, res) ==
    LET n == NumBounds(attr)
    IN  First(<< <<IsInt(tys[1]), "ir_expected_int">>,
                 <<\A k \in 2 .. n : tys[k] = tys[1], "ir_number_mismatch">>,
                 <<Len(tys) - n = Len(res), "ir_init_return_type_mismatch">>,
                 <<SubSeq(tys, n + 1, Len(tys)) = res, "ir_init_return_type_mismatch">>,
                 <<ToSet(res) \subseteq Yieldable, "ir_expected_coopmatrix_number_or_boolean">> >>)

CheckBroadcast(tys, ty) ==
    First(<< <<ty \in NumberTypes, "ir_expected_number">>,
             <<tys[1] = ty, "ir_operand_type_must_match_return_type">>,
             <<tys[2] = "i32", "ir_expected_i32">> >>)

CheckSubgroupOp(op, a, ty) ==
    First(<< <<a \in NumberTypes, "ir_expected_number">>,
             <<IsComplex(a) => op = "subgroup_reduce_add", "ir_complex_unsupported">>,
             <<a = ty, "ir_operand_type_must_match_return_type">> >>)

CheckInst(op, attr, tys, res) ==
    CASE op = "constant" -> CheckConstant(attr, res[1])
      [] op \in BinaryOps -> CheckArith(op, tys[1], tys[2], res[1])
      [] op \in UnaryOps -> CheckUnary(op, tys[1], res[1])
      [] op \in Comparisons -> CheckCompare(op, tys[1], tys[2], res[1])
      [] op = "cast" -> First(<< <<res[1] \in NumberTypes, "ir_expected_number">>,
                                 <<CastOK(tys[1], res[1]), "ir_forbidden_cast">> >>)
      [] op = "size" -> First(<< <<res[1] = "index", "ir_expected_index">>,
                                 <<IsMemref(tys[1]), "ir_expected_memref_or_group">> >>)
      [] op = "load" -> CheckLoad(tys, res[1])
      [] op = "store" -> CheckStore(tys)
      [] op = "if" -> CheckIf(tys, res)
      [] op = "for" -> CheckFor(attr, tys, res)
      [] op = "subgroup_linear_id" -> First(<< <<res[1] = "i32", "ir_expected_i32">> >>)
      [] op = "subgroup_broadcast" -> CheckBroadcast(tys, res[1])
      [] op \in SubgroupOps -> CheckSubgroupOp(op, tys[1], res[1])
      [] OTHER -> ""

NumRegions(op) == CASE op = "if" -> 2 [] op \in {"for", "parallel"} -> 1 [] OTHER -> 0

(* The parameters that setup_and_check gives the body of a loop.           *)
BodyParams(op, tys, res) == IF op = "for" THEN <<tys[1]>> \o res ELSE <<>>

(* X_inst::create: the new instruction waits in the semantic value of its  *)
(* grammar symbol, the last of pending, until it is put in a region.       *)
CreateInst(s, t, attr, args) ==
    LET tys == [k \in DOMAIN args |-> TypeOf(s.h, args[k])]
        err == CheckInst(t.op, attr, tys, t.tys)
        kind == IF t.op = "parallel" THEN "spmd" ELSE "mixed"
        WithBody(h) == IF NumRegions(t.op) = 0 THEN h
                       ELSE SetParams(h, h.inst[NewInst(h)].regs[1], BodyParams(t.op, tys, t.tys))
    IN  IF err # "" THEN Fail(s, err)
        ELSE [s EXCEPT !.h = WithBody(Create(@, t.op, attr, args, t.tys, NumRegions(t.op), kind)),
                       !.pending = Append(@, NewInst(s.h) + 1)]

-----------------------------------------------------------------------------
ResultsOf(s, i) == [k \in DOMAIN s.h.inst[i].res |-> <<"res", i, k>>]
ParamsOf(s, r) == [k \in DOMAIN s.h.reg[r].params |-> <<"par", r, k>>]

(* identifier_list EQUALS valued_inst, and the end of an instruction.      *)
NameResults(s, t) ==
    LET i == Last(s.pending)
    IN  IF s.err # "" THEN s
        ELSE IF t.names # <<>> /\ Len(t.names) # Len(s.h.inst[i].res)
        THEN Fail(s, "identifiers_mismatch")
        ELSE NameValues(s, t.names, ResultsOf(s, i))

Push(s) ==
    IF s.err # "" THEN s
    ELSE [s EXCEPT !.h = PushBack(@, Last(s.regs), Last(s.pending)), !.pending = Front(@)]

(* A constant may be given by the name of a definition.                    *)
AttrOf(s, t) == IF t.op = "constant" /\ t.args # <<>> THEN LookUp(s.defs, t.args[1]) ELSE t.attr
OperandNames(t) == IF t.op = "constant" THEN <<>> ELSE t.args

RECURSIVE ParseInst(_, _)

(* What follows goes on unless it has failed: a step of the parser.        *)
Leave(s) == IF s.err # "" THEN s ELSE PopScope(s)

(* LBRACE { push_scope } instructions { pop_scope } RBRACE                 *)
ParseRegion(s, body) == IF s.err # "" THEN s ELSE Leave(FoldLeft(ParseInst, PushScope(s), body))

(* A region r, and the region that was current is so again.                *)
ParseIn(s, r, body) ==
    LET Back(d) == IF d.err # "" THEN d ELSE PopRegion(d)
    IN  Back(ParseRegion(PushRegion(s, r), body))

(* The body of a loop: a scope of its own for the names of its header.     *)
ParseLoop(s, r, t) ==
    Leave(ParseIn(NameValues(PushScope(s), t.names, ParamsOf(s, r)), r, t.body))

ParseChildren(s, t) ==
    IF s.err # "" THEN s
    ELSE LET regs == s.h.inst[Last(s.pending)].regs
         IN  IF t.op = "for" THEN ParseLoop(s, regs[1], t.regs[1])
             ELSE FoldLeft(LAMBDA d, k : ParseIn(d, regs[k], t.regs[k].body), s,
                           [k \in DOMAIN t.regs |-> k])

(* The names an instruction uses are in scope.                             *)
NamesKnown(s, t) ==
    /\ \A k \in DOMAIN OperandNames(t) : Holders(s.vals, t.args[k]) # {}
    /\ t.op = "constant" /\ t.args # <<>> => Holders(s.defs, t.args[1]) # {}

ParseInst(s, t) ==
    IF s.err # "" THEN s
    ELSE IF t.op = "def" THEN AddDef(s, t.names[1], t.attr)
    ELSE IF ~NamesKnown(s, t) THEN Fail(s, "undefined_identifier")
    ELSE LET args == [k \in DOMAIN OperandNames(t) |-> LookUp(s.vals, t.args[k])]
         IN  Push(NameResults(ParseChildren(CreateInst(s, t, AttrOf(s, t), args), t), t))

(* FUNC: the parameters are named, the body becomes the current region,    *)
(* and the function is added to the program before its body is read.       *)
AddFunc(s, t, r) ==
    IF s.err # "" THEN s
    ELSE IF \E k \in DOMAIN s.funcs : s.funcs[k].name = t.name THEN Fail(s, "used_already")
    ELSE [s EXCEPT !.funcs = Append(@, [name |-> t.name, body |-> r])]
NameParams(s, t, r) ==
    NameValues(PushScope(s), [k \in DOMAIN t.params |-> t.params[k].name], ParamsOf(s, r))
ParseFunc(s, t) ==
    LET r == Len(s.h.reg) + 1
        prototype == [s EXCEPT !.h.reg = Append(@, [insts |-> <<>>,
                          params |-> [k \in DOMAIN t.params |-> t.params[k].ty],
                          def |-> 0, kind |-> "mixed"])]
    IN  Leave(ParseIn(AddFunc(NameParams(prototype, t, r), t, r), r, t.body))

ParseGlobal(s, t) ==
    IF s.err # "" THEN s
    ELSE IF t.name = "" THEN AddDef(s, t.def, t.val) ELSE ParseFunc(s, t)

(* What is left when an action has failed: the parser's stack goes from    *)
(* its top, then the program.                                              *)
Abandon(s) ==
    LET h == FoldLeft(DestroyInst, s.h, BackToFront(s.pending))
    IN  FoldLeft(DestroyRegion, h, [k \in DOMAIN s.funcs |-> s.funcs[k].body])

Settle(s) == IF s.err = "" THEN s ELSE [s EXCEPT !.h = Abandon(s)]
Parse(text) == Settle(FoldLeft(ParseGlobal, Started, text))
=============================================================================
