------------------------------ MODULE Folding ------------------------------
(***************************************************************************)
(* The constant folding of a single instruction (pass/constant_folding):   *)
(* what it becomes, given which of its operands are constants.  Folding    *)
(* runs on the machine of the compiler: a division that faults there stops *)
(* the compiler, "fault".                                                  *)
(***************************************************************************)
EXTENDS ScalarOps

(* What folding answers: nothing, an operand that takes the place of the   *)
(* result, a new constant, or a new instruction that negates an operand.   *)
Keep == [kind |-> "keep"]
Operand(k) == [kind |-> "operand", arg |-> k]
Const(ty, val) == [kind |-> "constant", ty |-> ty, val |-> val]
Negation(k) == [kind |-> "neg", arg |-> k]
Failed(status) == [kind |-> "error", status |-> status]
Fault == Failed("fault")

(* compute_binary_op: integers in the int of the host, then narrowed.      *)
HostInt(op, ty, x, y) ==
    CASE op \in {"div", "rem"} /\ y = 0 -> Undefined
      [] op = "div" -> <<Wrap(ty, Quotient(x, y))>>
      [] op = "shl" /\ y \in BitWidth(ty) .. 31 -> <<0>>
      [] op = "shr" /\ y \in BitWidth(ty) .. 31 -> <<IF x < 0 THEN -1 ELSE 0>>
      [] op \in Shifts /\ y \notin 0 .. 31 -> Undefined
      [] op = "rem" -> <<Remainder(x, y)>>
      [] OTHER -> IntResult(op, ty, x, y)

(* Complex numbers of the host, std::complex.                              *)
HostComplex(op, a, b) ==
    LET Times(x, y) == <<x[1] * y[1] - x[2] * y[2], x[1] * y[2] + x[2] * y[1]>>
        Norm == b[1] * b[1] + b[2] * b[2]
        Over(x) == Exact(x, Norm)
        scaled == Times(a, <<b[1], -b[2]>>)
    IN  CASE op = "add" -> <<a[1] + b[1], a[2] + b[2]>>
          [] op = "sub" -> <<a[1] - b[1], a[2] - b[2]>>
          [] op = "mul" -> Times(a, b)
          [] op = "div" -> IF Undefined \in {Over(scaled[1]), Over(scaled[2])}
                           THEN Undefined ELSE Over(scaled[1]) \o Over(scaled[2])

HostBinary(op, ty, a, b) ==
    IF IsComplex(ty) THEN HostComplex(op, a, b)
    ELSE IF IsFloat(ty) THEN FloatResult(op, a[1], b[1])
    ELSE IF IsBool(ty) THEN IntResult(op, "i8", a[1], b[1])
    ELSE HostInt(op, ty, a[1], b[1])

Known(a) == a # <<>>

ComputeBinary(op, ty, a, b) ==
    LET r == HostBinary(op, ty, a, b) IN IF Known(r) THEN Const(ty, r) ELSE Fault

(* compute_binop_identities: operand k is the unknown one, c the constant. *)
Zero(ty) == IF IsComplex(ty) THEN <<0, 0>> ELSE <<0>>
One(ty) == IF IsComplex(ty) THEN <<1, 0>> ELSE <<1>>
MinusOne(ty) == IF IsComplex(ty) THEN <<-1, 0>> ELSE <<-1>>

BoolIdentity(op, k, c) ==
    IF c # <<0>> THEN Keep
    ELSE IF op = "and" THEN Const("boolean", <<0>>) ELSE Operand(k)

\* Mutant: the order of the operands of a subtraction is forgotten.
IdentitySymmetric(op, ty, k, c, unsafe) ==
    IF op \in {"add", "sub"} /\ c = Zero(ty) THEN Operand(k)
    ELSE IF op = "mul" /\ c = MinusOne(ty) THEN Negation(k)
    ELSE Keep

Identity(op, ty, k, c, unsafe) ==
    LET zero == c = Zero(ty)
        second == k = 2
    IN  CASE op = "add" /\ zero -> Operand(k)
          [] op = "sub" /\ zero /\ ~second -> Operand(k)
          [] op = "mul" /\ zero /\ (IsInt(ty) \/ unsafe) -> Const(ty, Zero(ty))
          [] op = "mul" /\ c = One(ty) -> Operand(k)
          [] op = "mul" /\ c = MinusOne(ty) -> Negation(k)
          [] op = "div" /\ c = One(ty) /\ ~second -> Operand(k)
          [] op = "rem" /\ IsInt(ty) /\ c = <<1>> /\ ~second -> Const(ty, <<0>>)
          [] op \in Shifts /\ zero -> IF second THEN Const(ty, <<0>>) ELSE Operand(k)
          [] op = "and" /\ zero -> Const(ty, <<0>>)
          [] op \in {"or", "xor"} /\ zero -> Operand(k)
          [] OTHER -> Keep

(* a and b: the value of a constant operand, <<>> of any other.            *)
FoldArith(op, ty, a, b, unsafe) ==
    IF Known(a) /\ Known(b) THEN ComputeBinary(op, ty, a, b)
    ELSE IF ~Known(a) /\ ~Known(b) THEN Keep
    ELSE LET k == IF Known(a) THEN 2 ELSE 1
             c == IF Known(a) THEN a ELSE b
         IN  IF IsBool(ty) THEN BoolIdentity(op, k, c) ELSE Identity(op, ty, k, c, unsafe)

FoldUnary(op, ty, a) ==
    IF ~Known(a) THEN Keep
    ELSE IF IsComplex(ty)
    THEN CASE op = "neg" -> Const(ty, <<-a[1], -a[2]>>)
           [] op = "conj" -> Const(ty, <<a[1], -a[2]>>)
           [] op = "abs" ->
                  LET r == Compute("sqrt", "f32", <<<<a[1] * a[1] + a[2] * a[2]>>>>, <<>>)
                  IN  IF Known(r) THEN Const("f32", r) ELSE Keep
           [] op = "re" -> Const("f32", <<a[1]>>)
           [] op = "im" -> Const("f32", <<a[2]>>)
    ELSE LET x == a[1]
             r == CASE op = "abs" -> Abs(x)
                    [] op = "neg" -> -x
                    [] op = "not" -> IF IsBool(ty) THEN 1 - x ELSE -x - 1
         IN  Const(ty, <<IF IsInt(ty) THEN Wrap(ty, r) ELSE r>>)

(* compute_cast *)
FoldCast(to, from, a) ==
    IF ~Known(a) THEN Keep
    ELSE IF IsComplex(to) /\ ~IsComplex(from) THEN Const(to, <<a[1], 0>>)
    ELSE IF IsInt(to) THEN Const(to, <<Wrap(to, a[1])>>)
    ELSE Const(to, a)

(* compute_compare *)
FoldCompare(op, ty, a, b) ==
    IF ~Known(a) \/ ~Known(b) THEN Keep
    ELSE IF IsComplex(ty)
    THEN Const("boolean", <<AsInt(IF op = "equal" THEN a = b ELSE a # b)>>)
    ELSE Const("boolean", <<AsInt(Holds(op, a[1], b[1]))>>)

(* size: a mode with a static extent.                                      *)
Dynamic == -1
FoldSize(extent) == IF extent # Dynamic THEN Const("index", <<extent>>) ELSE Keep

(* subgroup_broadcast: a constant is the same on every work item.          *)
FoldBroadcast(a) == IF Known(a) THEN Operand(1) ELSE Keep
=============================================================================
