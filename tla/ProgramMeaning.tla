--------------------------- MODULE ProgramMeaning ---------------------------
(***************************************************************************)
(* What a program means, independent of the compiler: the stores that one  *)
(* work item performs, in order.  The program is a tree of instructions as *)
(* Parser describes it.  Names are bound lexically, so a name that is used *)
(* where its definition does not reach has no meaning.  The IR is run as   *)
(* the tree it is printed as, with its values for names.                   *)
(* Where the IR leaves the result of an operation undefined, it may take   *)
(* any value; a program that stores, branches on or addresses with such a  *)
(* value may do anything, and so may one that leaves a memref.             *)
(***************************************************************************)
EXTENDS IrPasses

(* A run: the values of the names in scope, each [ty, val], the memory of  *)
(* the memref parameters, the stores so far, what was yielded, and whether *)
(* the program has stopped to mean anything ("any"), uses a name that is   *)
(* not bound ("unbound"), or runs an instruction outside or inside of the  *)
(* parallel region where it may not be ("misplaced").                      *)
NoBindings == [n \in {} |-> 0]
Begin(memory) ==
    [env |-> NoBindings, memory |-> memory, stores |-> <<>>, yielded |-> <<>>,
     spmd |-> FALSE, state |-> "runs"]

Bind(s, names, cells) ==
    [s EXCEPT !.env = [n \in DOMAIN @ \cup ToSet(names) |->
        IF n \in ToSet(names) THEN cells[CHOOSE k \in DOMAIN names : names[k] = n] ELSE @[n]]]

Cell(ty, val) == [ty |-> ty, val |-> val]

Scalar(op, ty, a, b) ==
    IF a = Undefined \/ b = Undefined THEN Undefined
    ELSE IF IsFloat(ty) THEN FloatResult(op, a[1], b[1])
    ELSE IntResult(op, IF IsBool(ty) THEN "i8" ELSE ty, a[1], b[1])

UnaryScalar(op, ty, a) ==
    IF a = Undefined THEN Undefined
    ELSE LET x == a[1]
             r == CASE op = "abs" -> Abs(x) [] op = "neg" -> -x
                    [] op = "not" -> IF IsBool(ty) THEN 1 - x ELSE -x - 1
         IN  <<IF IsInt(ty) THEN Wrap(ty, r) ELSE r>>

CastScalar(to, from, a) ==
    IF a = Undefined THEN Undefined
    ELSE IF IsInt(to) THEN (IF IsFloat(from) /\ Wrap(to, a[1]) # a[1]
                            THEN Undefined ELSE <<Wrap(to, a[1])>>)
    ELSE a

(* The value of an operation that neither touches memory nor branches.     *)
Value(t, c, s) ==
    CASE t.op = "constant" -> t.attr
      [] t.op \in BinaryOps -> Scalar(t.op, c[1].ty, c[1].val, c[2].val)
      [] t.op \in UnaryOps -> UnaryScalar(t.op, c[1].ty, c[1].val)
      [] t.op = "cast" -> CastScalar(t.tys[1], c[1].ty, c[1].val)
      [] t.op \in Comparisons ->
             IF Undefined \in {c[1].val, c[2].val} THEN Undefined
             ELSE <<AsInt(Holds(t.op, c[1].val[1], c[2].val[1]))>>
      [] t.op = "size" -> <<Len(s.memory[c[1].val[1]])>>
      [] t.op = "subgroup_linear_id" -> <<1>>
      [] t.op \in SubgroupOps \cup {"subgroup_broadcast"} -> c[1].val

InBounds(s, mem, idx) == idx # Undefined /\ idx[1] + 1 \in DOMAIN s.memory[mem]

RunLoad(s, t, c) ==
    IF ~InBounds(s, c[1].val[1], c[2].val) THEN [s EXCEPT !.state = "any"]
    ELSE Bind(s, t.names, <<Cell(t.tys[1], s.memory[c[1].val[1]][c[2].val[1] + 1])>>)

RunStore(s, c) ==
    LET mem == c[2].val[1]
        idx == c[3].val
    IN  IF c[1].val = Undefined \/ ~InBounds(s, mem, idx) THEN [s EXCEPT !.state = "any"]
        ELSE [s EXCEPT !.memory[mem][idx[1] + 1] = c[1].val,
                       !.stores = Append(@, <<mem, idx[1], c[1].val>>)]

RECURSIVE RunInst(_, _), RunBody(_, _), RunLoop(_, _, _, _, _, _)

(* A region: its definitions end with it.                                  *)
RunBody(s, body) ==
    LET inside == FoldLeft(RunInst, [s EXCEPT !.yielded = <<>>], body)
    IN  [inside EXCEPT !.env = s.env]

(* A region that does not yield as many values as there are results leaves *)
(* them without a meaning.                                                 *)
Yielded(names, state) ==
    IF state.state # "runs" THEN state
    ELSE IF Len(state.yielded) # Len(names) THEN [state EXCEPT !.state = "any"]
    ELSE Bind(state, names, state.yielded)

(* x < to, then the body with x and the carried values.                    *)
RunLoop(s, t, x, to, step, carried) ==
    IF s.state # "runs" THEN s
    ELSE IF ~(x.val[1] < to.val[1]) THEN Bind(s, t.names, carried)
    ELSE LET inside == RunBody(Bind(s, t.regs[1].names, <<x>> \o carried), t.regs[1].body)
             next == Cell(x.ty, <<Wrap(x.ty, x.val[1] + step)>>)
         IN  RunLoop(IF Len(inside.yielded) = Len(carried) THEN [inside EXCEPT !.env = s.env]
                     ELSE IF inside.state # "runs" THEN inside ELSE [inside EXCEPT !.state = "any"],
                     t, next, to, step, inside.yielded)

RunInst(s, t) ==
    LET c == [k \in DOMAIN t.args |-> s.env[t.args[k]]]
        n == NumBounds(t.attr)
        bounds == {c[k].val : k \in 1 .. n}
    IN  IF s.state # "runs" THEN s
        ELSE IF \E k \in DOMAIN t.args : t.args[k] \notin DOMAIN s.env
        THEN [s EXCEPT !.state = "unbound"]
        ELSE IF (t.op \in Collective /\ s.spmd) \/ (t.op \in Spmd /\ ~s.spmd)
        THEN [s EXCEPT !.state = "misplaced"]
        ELSE CASE t.op = "load" -> RunLoad(s, t, c)
               [] t.op = "store" -> RunStore(s, c)
               [] t.op = "yield" -> [s EXCEPT !.yielded = c]
               [] t.op = "barrier" -> s
               [] t.op = "parallel" ->
                      [RunBody([s EXCEPT !.spmd = TRUE], t.regs[1].body) EXCEPT !.spmd = FALSE]
               [] t.op = "if" ->
                      IF c[1].val = Undefined THEN [s EXCEPT !.state = "any"]
                      ELSE IF c[1].val = <<1>> THEN Yielded(t.names, RunBody(s, t.regs[1].body))
                      ELSE IF Len(t.regs) = 1 THEN s
                      ELSE Yielded(t.names, RunBody(s, t.regs[2].body))
               [] t.op = "for" ->
                      IF Undefined \in bounds THEN [s EXCEPT !.state = "any"]
                      ELSE RunLoop(s, t, c[1], c[2], IF n = 3 THEN c[3].val[1] ELSE 1,
                                   SubSeq(c, n + 1, Len(c)))
               [] OTHER -> Bind(s, t.names, <<Cell(t.tys[1], Value(t, c, s))>>)

(* A function called with an argument for every parameter: the number of   *)
(* a buffer in memory, or a scalar.                                        *)
Call(params, body, args, memory) ==
    LET s == RunBody(Bind(Begin(memory), [k \in DOMAIN params |-> params[k].name],
                          [k \in DOMAIN params |-> Cell(params[k].ty, args[k])]), body)
    IN  [stores |-> s.stores, state |-> s.state]

-----------------------------------------------------------------------------
(* A constant that is given by a definition, in the innermost open scope,  *)
(* is replaced by it.                                                      *)
RECURSIVE Resolve(_, _)
Resolve(body, defs) ==
    LET Step(acc, t) ==
            IF t.op = "def"
            THEN [acc EXCEPT !.defs = [n \in DOMAIN @ \cup {t.names[1]} |->
                                          IF n = t.names[1] THEN t.attr ELSE @[n]]]
            ELSE [acc EXCEPT !.body = Append(@, IF t.op = "constant" /\ ToSet(t.args) \subseteq DOMAIN acc.defs
                     THEN [t EXCEPT !.attr = IF t.args = <<>> THEN @ ELSE acc.defs[t.args[1]],
                                     !.args = <<>>]
                     ELSE [t EXCEPT !.regs = [k \in DOMAIN @ |->
                              [@[k] EXCEPT !.body = Resolve(@, acc.defs)]]])]
    IN  FoldLeft(Step, [body |-> <<>>, defs |-> defs], body).body

(* The IR of a region as a tree.                                           *)
RECURSIVE Printed(_, _)
Printed(h, r) ==
    [names |-> [k \in DOMAIN h.reg[r].params |-> <<"par", r, k>>],
     body |-> [p \in DOMAIN h.reg[r].insts |->
        LET i == h.reg[r].insts[p]
        IN  [op |-> h.inst[i].op, attr |-> h.inst[i].attr, args |-> h.inst[i].args,
             names |-> [k \in DOMAIN h.inst[i].res |-> <<"res", i, k>>],
             tys |-> h.inst[i].res,
             regs |-> [k \in DOMAIN h.inst[i].regs |-> Printed(h, h.inst[i].regs[k])]]]]

CallIr(h, r, args, memory) ==
    LET t == Printed(h, r)
    IN  Call([k \in DOMAIN t.names |-> [name |-> t.names[k], ty |-> h.reg[r].params[k]]],
             t.body, args, memory)
=============================================================================
