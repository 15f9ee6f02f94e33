----------------------------- MODULE ScalarOps -----------------------------
(***************************************************************************)
(* Operations on scalars: which types the IR accepts, what the converter   *)
(* emits for them, as terms of SPIR-V instructions, and what those compute.*)
(* A value is the sequence of its components: one integer, two for a       *)
(* complex number, 0 or 1 for a boolean, and <<>> where SPIR-V defines no  *)
(* result.  A term is a leaf that carries its value, or an instruction on  *)
(* terms.  Floating point numbers are small integers: rounding, infinities *)
(* and the sign of zero are left out, a quotient that is not an integer is *)
(* a value without a result.                                               *)
(***************************************************************************)
EXTENDS Integers, Sequences, SequencesExt

LOCAL INSTANCE Bitwise

IntegerTypes == {"i8", "i16", "i32", "index"}
FloatTypes == {"f32"}
ComplexTypes == {"c32"}
NumberTypes == IntegerTypes \cup FloatTypes \cup ComplexTypes

IsBool(ty) == ty = "boolean"
IsInt(ty) == ty \in IntegerTypes
IsFloat(ty) == ty \in FloatTypes
IsComplex(ty) == ty \in ComplexTypes

(* 30 bits stand for the wider types, whose limits no instance reaches.    *)
BitWidth(ty) == IF ty = "i8" THEN 8 ELSE IF ty = "i16" THEN 16 ELSE 30

ComponentType(ty) == IF IsComplex(ty) THEN "f32" ELSE ty

-----------------------------------------------------------------------------
(* Which types an operation accepts: setup_and_check.                      *)
Arithmetic == {"add", "sub", "mul", "div"}
Ordered == {"rem", "min", "max"}
Shifts == {"shl", "shr"}
Logical == {"and", "or", "xor"}
BinaryOps == Arithmetic \cup Ordered \cup Shifts \cup Logical
UnaryOps == {"abs", "neg", "not", "conj", "im", "re"}
Comparisons == {"equal", "not_equal", "greater_than", "greater_than_equal",
                "less_than", "less_than_equal"}

ArithOK(op, ty) ==
    \/ IsInt(ty)
    \/ IsBool(ty) /\ op \in Logical
    \/ IsFloat(ty) /\ op \in Arithmetic \cup Ordered
    \/ IsComplex(ty) /\ op \in Arithmetic

UnaryOK(op, ty) ==
    \/ IsBool(ty) /\ op = "not"
    \/ IsInt(ty) /\ op \in {"abs", "neg", "not"}
    \/ IsFloat(ty) /\ op \in {"abs", "neg"}
    \/ IsComplex(ty) /\ op \in UnaryOps \ {"not"}

UnaryResult(op, ty) == IF op \in {"abs", "im", "re"} THEN ComponentType(ty) ELSE ty

CompareOK(op, ty) ==
    IsInt(ty) \/ IsFloat(ty) \/ (IsComplex(ty) /\ op \in {"equal", "not_equal"})

CastOK(from, to) ==
    /\ {from, to} \subseteq NumberTypes
    /\ IsComplex(from) => IsComplex(to)

-----------------------------------------------------------------------------
(* Integers of a width, in two's complement.                               *)
Unsigned(ty, x) == x % 2^BitWidth(ty)
Wrap(ty, x) ==
    LET u == Unsigned(ty, x)
    IN  IF u >= 2^(BitWidth(ty) - 1) THEN u - 2^BitWidth(ty) ELSE u

Abs(x) == IF x < 0 THEN -x ELSE x
Sign(x) == IF x < 0 THEN -1 ELSE 1
Quotient(x, y) == Sign(x) * Sign(y) * (Abs(x) \div Abs(y))
Remainder(x, y) == x - y * Quotient(x, y)
Smaller(x, y) == IF x <= y THEN x ELSE y
Larger(x, y) == IF x <= y THEN y ELSE x

AsInt(b) == IF b THEN 1 ELSE 0

(* x shifted left by y bits.                                               *)
ShiftLeft(ty, x, y) == Wrap(ty, Unsigned(ty, x % 2^(BitWidth(ty) - y)) * 2^y)

BitOp(op, ty, x, y) ==
    LET u == Unsigned(ty, x)
        w == Unsigned(ty, y)
    IN  Wrap(ty, CASE op = "and" -> u & w
                   [] op = "or" -> u | w
                   [] op = "xor" -> u ^^ w)

Holds(op, x, y) ==
    CASE op = "equal" -> x = y
      [] op = "not_equal" -> x # y
      [] op = "greater_than" -> x > y
      [] op = "greater_than_equal" -> x >= y
      [] op = "less_than" -> x < y
      [] op = "less_than_equal" -> x <= y

-----------------------------------------------------------------------------
(* SPIR-V terms.                                                           *)
Leaf(val) == [op |-> "value", ty |-> "", args |-> <<>>, lit |-> val]
Constant(ty, val) == [op |-> "OpConstant", ty |-> ty, args |-> <<>>, lit |-> val]
Term(op, ty, args) == [op |-> op, ty |-> ty, args |-> args, lit |-> <<>>]
TermLit(op, ty, args, lit) == [op |-> op, ty |-> ty, args |-> args, lit |-> lit]

IntOpcodes ==
    [add |-> "OpIAdd", sub |-> "OpISub", mul |-> "OpIMul", div |-> "OpSDiv",
     rem |-> "OpSRem", shl |-> "OpShiftLeftLogical", shr |-> "OpShiftRightArithmetic",
     and |-> "OpBitwiseAnd", or |-> "OpBitwiseOr", xor |-> "OpBitwiseXor",
     min |-> "s_min", max |-> "s_max"]
FloatOpcodes ==
    [add |-> "OpFAdd", sub |-> "OpFSub", mul |-> "OpFMul", div |-> "OpFDiv",
     rem |-> "OpFRem", min |-> "fmin", max |-> "fmax"]
BoolOpcodes ==
    [and |-> "OpLogicalAnd", or |-> "OpLogicalOr", xor |-> "OpLogicalNotEqual"]
IntCompares ==
    [equal |-> "OpIEqual", not_equal |-> "OpINotEqual", greater_than |-> "OpSGreaterThan",
     greater_than_equal |-> "OpSGreaterThanEqual", less_than |-> "OpSLessThan",
     less_than_equal |-> "OpSLessThanEqual"]
FloatCompares ==
    [equal |-> "OpFOrdEqual", not_equal |-> "OpFUnordNotEqual",
     greater_than |-> "OpFOrdGreaterThan", greater_than_equal |-> "OpFOrdGreaterThanEqual",
     less_than |-> "OpFOrdLessThan", less_than_equal |-> "OpFOrdLessThanEqual"]

Shuffle(a, b, lit) == TermLit("OpVectorShuffle", "c32", <<a, b>>, lit)
Negated(a) == Term("OpFNegate", "c32", <<a>>)

ZeroPart(a, part) == a.op = "OpConstant" /\ a.ty = "c32" /\ a.lit[part] = 0
ImagZero(a) ==
    \/ ZeroPart(a, 2)
    \/ a.op = "OpCompositeInsert" /\ a.ty = "c32"
       /\ a.args[2] = Constant("c32", <<0, 0>>) /\ a.lit = <<0>>

(* The multiplication by i, for the operand whose real part is left out.   *)
TimesI(a, conj_b) ==
    IF conj_b THEN Shuffle(a, Negated(a), <<1, 2>>) ELSE Shuffle(Negated(a), a, <<1, 2>>)

(* a * b, or a * conj(b) of a division.                                    *)
ComplexMul(a, b, conj_b) ==
    IF ZeroPart(a, 1)
    THEN Term("OpFMul", "c32", <<Shuffle(a, a, <<1, 1>>), TimesI(b, conj_b)>>)
    ELSE IF ZeroPart(b, 1)
    THEN Term("OpFMul", "c32", <<Shuffle(b, b, <<1, 1>>), TimesI(a, conj_b)>>)
    ELSE IF ImagZero(a)
    THEN Term("OpFMul", "c32", <<Shuffle(a, a, <<0, 0>>), b>>)
    ELSE IF ImagZero(b)
    THEN Term("OpFMul", "c32", <<a, Shuffle(b, b, <<0, 0>>)>>)
    ELSE Term("fma", "c32",
              <<a, Shuffle(b, b, <<0, 0>>),
                Term("OpFMul", "c32", <<Shuffle(b, b, <<1, 1>>), TimesI(a, conj_b)>>)>>)

ComplexDiv(a, b) ==
    LET sq == Term("OpFMul", "c32", <<b, b>>)
        Part(n) == TermLit("OpCompositeExtract", "f32", <<sq>>, <<n>>)
        norm == Term("OpFAdd", "f32", <<Part(0), Part(1)>>)
        undef == Term("OpUndef", "c32", <<>>)
        both == TermLit("OpCompositeInsert", "c32", <<norm, undef>>, <<0>>)
    IN  Term("OpFDiv", "c32", <<ComplexMul(a, b, TRUE), Shuffle(both, undef, <<0, 0>>)>>)

\* Mutant: division and remainder of unsigned integers.
EmitBinaryUnsigned(op, ty, a, b) ==
    IF IsInt(ty) /\ op = "rem" THEN Term("OpSMod", ty, <<a, b>>)
    ELSE CASE IsBool(ty) -> Term(BoolOpcodes[op], ty, <<a, b>>)
           [] IsInt(ty) -> Term(IntOpcodes[op], ty, <<a, b>>)
           [] OTHER -> Term(FloatOpcodes[op], ty, <<a, b>>)

(* make_binary_op *)
EmitBinary(op, ty, a, b) ==
    CASE IsBool(ty) -> Term(BoolOpcodes[op], ty, <<a, b>>)
      [] IsInt(ty) -> Term(IntOpcodes[op], ty, <<a, b>>)
      [] IsFloat(ty) -> Term(FloatOpcodes[op], ty, <<a, b>>)
      [] IsComplex(ty) /\ op = "mul" -> ComplexMul(a, b, FALSE)
      [] IsComplex(ty) /\ op = "div" -> ComplexDiv(a, b)
      [] OTHER -> Term(FloatOpcodes[op], ty, <<a, b>>)

(* make_unary_op *)
EmitUnary(op, ty, a) ==
    LET sq == Term("OpFMul", ty, <<a, a>>)
        Part(x, n) == TermLit("OpCompositeExtract", "f32", <<x>>, <<n>>)
    IN  CASE IsBool(ty) -> Term("OpLogicalNot", ty, <<a>>)
          [] IsInt(ty) ->
                 Term([abs |-> "s_abs", neg |-> "OpSNegate", not |-> "OpNot"][op], ty, <<a>>)
          [] IsFloat(ty) -> Term([abs |-> "fabs", neg |-> "OpFNegate"][op], ty, <<a>>)
          [] op = "abs" ->
                 Term("sqrt", "f32", <<Term("OpFAdd", "f32", <<Part(sq, 0), Part(sq, 1)>>)>>)
          [] op = "neg" -> Negated(a)
          [] op = "conj" ->
                 TermLit("OpCompositeInsert", ty,
                         <<Term("OpFNegate", "f32", <<Part(a, 1)>>), a>>, <<1>>)
          [] op = "im" -> Part(a, 1)
          [] op = "re" -> Part(a, 0)

(* make_cast *)
EmitCast(to, from, a) ==
    LET Complex(re) == TermLit("OpCompositeInsert", to,
                               <<re, Constant("c32", <<0, 0>>)>>, <<0>>)
    IN  CASE from = to -> Term("OpCopyObject", to, <<a>>)
          [] IsInt(from) /\ IsInt(to) -> Term("OpSConvert", to, <<a>>)
          [] IsInt(from) /\ IsFloat(to) -> Term("OpConvertSToF", to, <<a>>)
          [] IsInt(from) -> Complex(Term("OpConvertSToF", ComponentType(to), <<a>>))
          [] IsFloat(from) /\ IsInt(to) -> Term("OpConvertFToS", to, <<a>>)
          [] OTHER -> Complex(a)

(* make_compare_op *)
EmitCompare(op, ty, a, b) ==
    IF IsInt(ty) THEN Term(IntCompares[op], "boolean", <<a, b>>)
    ELSE IF IsFloat(ty) THEN Term(FloatCompares[op], "boolean", <<a, b>>)
    ELSE Term("OpAll", "boolean", <<Term(FloatCompares[op], "bool2", <<a, b>>)>>)

-----------------------------------------------------------------------------
(* What a SPIR-V instruction computes, with the cases the specification of *)
(* SPIR-V leaves undefined.                                                *)
Undefined == <<>>

Exact(x, y) == IF y # 0 /\ x % Abs(y) = 0 THEN <<Quotient(x, y)>> ELSE Undefined

Defined(vals) == \A i \in DOMAIN vals : vals[i] # Undefined

Each(F(_, _), a, b) ==
    LET parts == [i \in DOMAIN a |-> F(a[i], b[i])]
    IN  IF Defined(parts) THEN FlattenSeq(parts) ELSE Undefined

Inverted(opcodes, op) == CHOOSE k \in DOMAIN opcodes : opcodes[k] = op
Images(opcodes) == {opcodes[k] : k \in DOMAIN opcodes}

IntResult(op, ty, x, y) ==
    CASE op = "add" -> <<Wrap(ty, x + y)>>
      [] op = "sub" -> <<Wrap(ty, x - y)>>
      [] op = "mul" -> <<Wrap(ty, x * y)>>
      [] op \in {"div", "rem"} /\ (y = 0 \/ Wrap(ty, Quotient(x, y)) # Quotient(x, y)) ->
             Undefined
      [] op = "div" -> <<Quotient(x, y)>>
      [] op = "rem" -> <<Remainder(x, y)>>
      [] op \in Shifts /\ y \notin 0 .. BitWidth(ty) - 1 -> Undefined
      [] op = "shl" -> <<ShiftLeft(ty, x, y)>>
      [] op = "shr" -> <<x \div 2^y>>
      [] op \in Logical -> <<BitOp(op, ty, x, y)>>
      [] op = "min" -> <<Smaller(x, y)>>
      [] op = "max" -> <<Larger(x, y)>>

FloatResult(op, x, y) ==
    CASE op = "add" -> <<x + y>>
      [] op = "sub" -> <<x - y>>
      [] op = "mul" -> <<x * y>>
      [] op = "div" -> Exact(x, y)
      [] op = "rem" -> IF y = 0 THEN Undefined ELSE <<Remainder(x, y)>>
      [] op = "min" -> <<Smaller(x, y)>>
      [] op = "max" -> <<Larger(x, y)>>

Compute(op, ty, v, lit) ==
    CASE op \in Images(IntOpcodes) ->
             IntResult(Inverted(IntOpcodes, op), ty, v[1][1], v[2][1])
      [] op \in Images(FloatOpcodes) ->
             LET F(x, y) == FloatResult(Inverted(FloatOpcodes, op), x, y)
             IN  Each(F, v[1], v[2])
      [] op \in Images(BoolOpcodes) ->
             IntResult(Inverted(BoolOpcodes, op), "i8", v[1][1], v[2][1])
      [] op \in Images(IntCompares) ->
             <<AsInt(Holds(Inverted(IntCompares, op), v[1][1], v[2][1]))>>
      [] op \in Images(FloatCompares) ->
             LET F(x, y) == <<AsInt(Holds(Inverted(FloatCompares, op), x, y))>>
             IN  Each(F, v[1], v[2])
      [] op = "OpAll" -> <<AsInt(v[1] = <<1, 1>>)>>
      [] op = "OpLogicalNot" -> <<1 - v[1][1]>>
      [] op = "s_abs" -> <<Wrap(ty, Abs(v[1][1]))>>
      [] op = "OpSNegate" -> <<Wrap(ty, -v[1][1])>>
      [] op = "OpNot" -> <<-v[1][1] - 1>>
      [] op = "fabs" -> <<Abs(v[1][1])>>
      [] op = "OpFNegate" -> [i \in DOMAIN v[1] |-> -v[1][i]]
      [] op = "sqrt" ->
             LET r == {x \in 0 .. v[1][1] : x * x = v[1][1]}
             IN  IF r = {} THEN Undefined ELSE <<CHOOSE x \in r : TRUE>>
      [] op = "fma" -> [i \in DOMAIN v[1] |-> v[1][i] * v[2][i] + v[3][i]]
      [] op \in {"OpSConvert", "OpConvertFToS"} ->
             IF op = "OpConvertFToS" /\ Wrap(ty, v[1][1]) # v[1][1]
             THEN Undefined ELSE <<Wrap(ty, v[1][1])>>
      [] op \in {"OpCopyObject", "OpConvertSToF", "OpFConvert"} -> v[1]
      [] op = "OpUndef" -> <<0, 0>>
      [] op = "OpCompositeExtract" -> <<v[1][lit[1] + 1]>>
      [] op = "OpCompositeInsert" -> [v[2] EXCEPT ![lit[1] + 1] = v[1][1]]
      [] op = "OpVectorShuffle" -> [i \in DOMAIN lit |-> (v[1] \o v[2])[lit[i] + 1]]
      [] op = "OpSMod" -> IF v[2][1] <= 0 THEN Undefined ELSE <<v[1][1] % v[2][1]>>
      [] op = "OpSelect" -> IF v[1] = <<1>> THEN v[2] ELSE v[3]

RECURSIVE Eval(_)
Eval(t) ==
    IF t.op \in {"value", "OpConstant"} THEN t.lit
    ELSE LET v == [i \in DOMAIN t.args |-> Eval(t.args[i])]
         IN  IF Defined(v) THEN Compute(t.op, t.ty, v, t.lit) ELSE Undefined
=============================================================================
