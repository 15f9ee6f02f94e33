---------------------------- MODULE SpirvMeaning ----------------------------
(***************************************************************************)
(* What a SPIR-V binary means, and what the SPIR-V specification asks of   *)
(* one, independent of the compiler.  Only ids tie its instructions.       *)
(***************************************************************************)
EXTENDS SpirvConverter

Ids(words) == {k \in DOMAIN words : words[k].id # 0}
Defining(words, id) == words[CHOOSE k \in Ids(words) : words[k].id = id]
Opcode(words, id) == Defining(words, id).op

(* The positions of the functions, from OpFunction to OpFunctionEnd.       *)
Functions(words) == {k \in DOMAIN words : words[k].op = "OpFunction"}
EndOf(words, k) ==
    CHOOSE e \in k .. Len(words) :
        /\ words[e].op = "OpFunctionEnd"
        /\ \A j \in k .. e - 1 : words[j].op # "OpFunctionEnd"
Code(words, k) == SubSeq(words, k, EndOf(words, k))

EntryPoint(words, name) ==
    words[CHOOSE k \in DOMAIN words : words[k].op = "OpEntryPoint" /\ words[k].lit = <<name>>]
CodeOf(words, name) ==
    Code(words, CHOOSE k \in Functions(words) : words[k].id = EntryPoint(words, name).args[1])

-----------------------------------------------------------------------------
(* Blocks and the edges between them.                                      *)
Labels(code) == {k \in DOMAIN code : code[k].op = "OpLabel"}
Terminators == {"OpBranch", "OpBranchConditional", "OpReturn"}
BlockOf(code, k) == CHOOSE l \in Labels(code) : l <= k /\ \A m \in Labels(code) : m <= k => m <= l
BlockEnd(code, l) ==
    CHOOSE e \in l .. Len(code) :
        /\ code[e].op \in Terminators
        /\ \A j \in l .. e - 1 : code[j].op \notin Terminators
Targets(code, e) ==
    CASE code[e].op = "OpBranch" -> {code[e].args[1]}
      [] code[e].op = "OpBranchConditional" -> {code[e].args[2], code[e].args[3]}
      [] OTHER -> {}
LabelAt(code, id) == CHOOSE l \in Labels(code) : code[l].id = id
Successors(code, l) == {LabelAt(code, id) : id \in Targets(code, BlockEnd(code, l))}
Predecessors(code, l) == {p \in Labels(code) : l \in Successors(code, p)}

(* Every block is ended by one terminator, directly in front of the next   *)
(* label or the end of the function, and branches only to labels of its    *)
(* function; a merge instruction stands in front of a conditional branch.  *)
BlocksWellFormed(code) ==
    /\ \A k \in DOMAIN code : code[k].op \in Terminators =>
           /\ code[k + 1].op \in {"OpLabel", "OpFunctionEnd"}
           /\ \A id \in Targets(code, k) : \E l \in Labels(code) : code[l].id = id
    /\ \A l \in Labels(code) : \E e \in l .. Len(code) : code[e].op \in Terminators
    /\ \A k \in 2 .. Len(code) : code[k].op = "OpBranchConditional" <=>
           code[k - 1].op \in {"OpSelectionMerge", "OpLoopMerge"}

PhiLabels(inst) == {inst.args[2 * k] : k \in 1 .. Len(inst.args) \div 2}

(* A phi has one entry for every predecessor of its block.                 *)
PhisMatch(code) ==
    \A k \in DOMAIN code : code[k].op = "OpPhi" =>
        /\ PhiLabels(code[k]) = {code[p].id : p \in Predecessors(code, BlockOf(code, k))}
        /\ Len(code[k].args) = 2 * Cardinality(PhiLabels(code[k]))

(* Blocks that are reached from l without passing through avoid.           *)
RECURSIVE Reach(_, _, _)
Reach(code, seen, avoid) ==
    LET more == (UNION {Successors(code, l) : l \in seen} \cup seen) \ {avoid}
    IN  IF more = seen THEN seen ELSE Reach(code, more, avoid)
EntryBlock(code) == CHOOSE l \in Labels(code) : \A m \in Labels(code) : l <= m
Dominates(code, d, l) ==
    d = l \/ d = EntryBlock(code) \/ l \notin Reach(code, {EntryBlock(code)}, d)

(* What is defined at position d is available at position k.               *)
Available(code, d, k) ==
    \/ code[d].op \in {"OpFunctionParameter", "OpLabel", "OpFunction"}
    \/ BlockOf(code, d) = BlockOf(code, k) /\ d < k
    \/ BlockOf(code, d) # BlockOf(code, k) /\ Dominates(code, BlockOf(code, d), BlockOf(code, k))

DefsDominateUses(code) ==
    \A k \in DOMAIN code, d \in DOMAIN code :
        \A j \in DOMAIN code[k].args :
            (code[d].id # 0 /\ code[k].args[j] = code[d].id) =>
                IF code[k].op # "OpPhi" THEN Available(code, d, k)
                ELSE j % 2 = 1 => Available(code, d, BlockEnd(code, LabelAt(code, code[k].args[j + 1])))

-----------------------------------------------------------------------------
(* The values of a run are those of ScalarOps; a pointer is a buffer and   *)
(* an offset.                                                              *)
TypeName(words, id) ==
    LET t == Defining(words, id)
    IN  CASE t.op = "OpTypeBool" -> "boolean"
          [] t.op = "OpTypeFloat" -> "f32"
          [] t.op = "OpTypeInt" ->
                 CASE t.lit = <<8>> -> "i8" [] t.lit = <<16>> -> "i16" [] t.lit = <<32>> -> "i32"
                   [] OTHER -> "index"
          [] OTHER -> t.op

Enter(s, code, from, to) == [s EXCEPT !.from = code[from].id, !.pc = LabelAt(code, to)]

GlobalValue(words, id) ==
    LET t == Defining(words, id)
    IN  CASE t.op = "OpConstant" -> t.lit
          [] t.op = "OpConstantTrue" -> <<1>>
          [] t.op = "OpConstantFalse" -> <<0>>
          [] OTHER -> <<id>>

IsBound(words, s, id) == id \in DOMAIN s.env \/ ~\E k \in Functions(words) :
                            \E j \in k .. EndOf(words, k) : words[j].id = id
ValueOf(words, s, id) == IF id \in DOMAIN s.env THEN s.env[id] ELSE GlobalValue(words, id)

PhiInput(inst, from) ==
    inst.args[2 * (CHOOSE k \in 1 .. Len(inst.args) \div 2 : inst.args[2 * k] = from) - 1]

(* At a label all phis of the block take their values at once.             *)
TakePhis(words, code, s) ==
    LET l == s.pc
        phis == {k \in l .. BlockEnd(code, l) : code[k].op = "OpPhi"}
        inputs == [k \in phis |-> PhiInput(code[k], s.from)]
    IN  IF \E k \in phis : s.from \notin PhiLabels(code[k]) \/ ~IsBound(words, s, inputs[k])
        THEN [s EXCEPT !.state = "unbound"]
        ELSE [s EXCEPT !.pc = l + 1 + Cardinality(phis),
                       !.env = [x \in {code[k].id : k \in phis} |->
                                   ValueOf(words, s, inputs[CHOOSE k \in phis : code[k].id = x])] @@ @]

At(s, ptr) == s.memory[ptr[1]][ptr[2] + 1]
Inside(s, ptr) == ptr # Undefined /\ ptr[2] + 1 \in DOMAIN s.memory[ptr[1]]

Group == {"OpGroupBroadcast", "OpGroupIAdd", "OpGroupFAdd", "OpGroupSMax", "OpGroupFMax"}

(* The result of an instruction on values v.                               *)
Result(words, s, inst, v) ==
    CASE inst.op = "OpInBoundsPtrAccessChain" ->
             IF Defined(v) THEN <<v[1][1], v[1][2] + v[2][1]>> ELSE Undefined
      [] inst.op \in Group -> v[2]
      [] inst.op = "OpExtInst" ->
             IF Defined(Tail(v)) THEN Compute(inst.lit[1], TypeName(words, inst.ty), Tail(v), <<>>)
             ELSE Undefined
      [] OTHER -> IF Defined(v) THEN Compute(inst.op, TypeName(words, inst.ty), v, inst.lit)
                  ELSE Undefined

SetResult(s, inst, x) == [s EXCEPT !.env = (inst.id :> x) @@ @, !.pc = @ + 1]
Anything(s) == [s EXCEPT !.state = "any"]

RECURSIVE RunCode(_, _, _)
RunCode(words, code, s) ==
    LET inst == code[s.pc]
        v == [k \in DOMAIN inst.args |-> ValueOf(words, s, inst.args[k])]
        block == BlockOf(code, s.pc)
    IN  IF s.state # "runs" \/ inst.op = "OpReturn" THEN s
        ELSE IF inst.op = "OpLabel" THEN RunCode(words, code, TakePhis(words, code, s))
        ELSE IF \E k \in DOMAIN inst.args : ~IsBound(words, s, inst.args[k])
                   /\ Opcode(words, inst.args[k]) # "OpLabel"
        THEN [s EXCEPT !.state = "unbound"]
        ELSE RunCode(words, code,
            CASE inst.op = "OpBranch" -> Enter(s, code, block, inst.args[1])
              [] inst.op = "OpBranchConditional" ->
                     IF v[1] = Undefined THEN Anything(s)
                     ELSE Enter(s, code, block, inst.args[IF v[1] = <<1>> THEN 2 ELSE 3])
              [] inst.op \in {"OpSelectionMerge", "OpLoopMerge", "OpControlBarrier"} ->
                     [s EXCEPT !.pc = @ + 1]
              [] inst.op = "OpLoad" /\ Opcode(words, inst.args[1]) = "OpVariable" -> SetResult(s, inst, <<1>>)
              [] inst.op = "OpLoad" ->
                     IF Inside(s, v[1]) THEN SetResult(s, inst, At(s, v[1])) ELSE Anything(s)
              [] inst.op = "OpStore" ->
                     IF v[2] = Undefined \/ ~Inside(s, v[1]) THEN Anything(s)
                     ELSE [s EXCEPT !.memory[v[1][1]][v[1][2] + 1] = v[2],
                                    !.stores = Append(@, <<v[1][1], v[1][2], v[2]>>),
                                    !.pc = @ + 1]
              [] OTHER -> SetResult(s, inst, Result(words, s, inst, v)))

(* A kernel called with an argument for each of its parameters.            *)
CallKernel(words, name, args, memory) ==
    LET code == CodeOf(words, name)
        pars == SelectSeq(code, LAMBDA inst : inst.op = "OpFunctionParameter")
        s == RunCode(words, code,
                [pc |-> EntryBlock(code), from |-> 0, memory |-> memory, stores |-> <<>>,
                 state |-> "runs",
                 env |-> [x \in {pars[k].id : k \in DOMAIN pars} |->
                              args[CHOOSE k \in DOMAIN pars : pars[k].id = x]]])
    IN  IF Len(pars) # Len(args) THEN [stores |-> <<>>, state |-> "mismatch"]
        ELSE [stores |-> s.stores, state |-> s.state]
=============================================================================
