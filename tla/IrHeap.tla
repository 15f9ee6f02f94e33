------------------------------- MODULE IrHeap -------------------------------
(***************************************************************************)
(* The tensor IR in memory: instructions and regions in the order of their *)
(* creation, and the operations the parser and the passes build them with. *)
(* A value is <<"res", i, k>>, result k of instruction i, or               *)
(* <<"par", r, k>>, parameter k of region r.  The uses of a value are the  *)
(* operands that refer to it, which is what UseList shows of the lists.    *)
(* A type is a name; Memrefs says which names are memrefs.                 *)
(***************************************************************************)
EXTENDS Folding, FiniteSets

(* One-dimensional memrefs with unit stride, of static or dynamic extent.  *)
Memrefs ==
    [mem_i8 |-> [elem |-> "i8", extent |-> Dynamic],
     mem_i16 |-> [elem |-> "i16", extent |-> Dynamic],
     mem4_i8 |-> [elem |-> "i8", extent |-> 4]]
IsMemref(ty) == ty \in DOMAIN Memrefs

SubgroupOps == {"subgroup_reduce_add", "subgroup_reduce_max"}

(* The operands of a for: from, to, the step if there is one, then the     *)
(* initial values.                                                         *)
NumBounds(attr) == IF attr = <<1>> THEN 3 ELSE 2

EmptyHeap == [inst |-> <<>>, reg |-> <<>>, gone |-> {}, dangling |-> {}]

Live(h) == DOMAIN h.inst \ h.gone

Uses(h, v) == {u \in UNION {{i} \X DOMAIN h.inst[i].args : i \in Live(h)} :
                   h.inst[u[1]].args[u[2]] = v}
HasUses(h, v) == \E i \in Live(h) : v \in ToSet(h.inst[i].args)

Results(h, i) == {<<"res", i, k>> : k \in DOMAIN h.inst[i].res}
Params(h, r) == {<<"par", r, k>> : k \in DOMAIN h.reg[r].params}

TypeOf(h, v) == IF v[1] = "res" THEN h.inst[v[2]].res[v[3]] ELSE h.reg[v[2]].params[v[3]]

(* defining_inst: 0 for a parameter of a function.                         *)
DefiningInst(h, v) == IF v[1] = "res" THEN v[2] ELSE h.reg[v[2]].def

(* dyn_cast<constant_inst>(defining_inst()): its value, or <<>>.           *)
ConstantOf(h, v) ==
    LET d == DefiningInst(h, v)
    IN  IF d # 0 /\ h.inst[d].op = "constant" THEN h.inst[d].attr ELSE <<>>

(* tinytc_inst::create, with regions of the given kind, empty and without  *)
(* parameters.  The new instruction is not in a region yet.                *)
Create(h, op, attr, args, res, numRegs, kind) ==
    LET i == Len(h.inst) + 1
        r == Len(h.reg)
    IN  [h EXCEPT
           !.inst = Append(@, [op |-> op, attr |-> attr, args |-> args, res |-> res,
                               regs |-> [k \in 1 .. numRegs |-> r + k]]),
           !.reg = @ \o [k \in 1 .. numRegs |->
                           [insts |-> <<>>, params |-> <<>>, def |-> i, kind |-> kind]]]

NewInst(h) == Len(h.inst)

SetParams(h, r, tys) == [h EXCEPT !.reg[r].params = tys]

(* ilist: insert in front of position pos, unlink.                         *)
Insert(h, r, pos, i) == [h EXCEPT !.reg[r].insts = InsertAt(@, pos, i)]
PushBack(h, r, i) == [h EXCEPT !.reg[r].insts = Append(@, i)]
Unlink(h, r, pos) == [h EXCEPT !.reg[r].insts = RemoveAt(@, pos)]

(* As long as v has uses, the first is set to w.                           *)
ReplaceUses(h, v, w) ==
    [h EXCEPT !.inst = [i \in DOMAIN @ |->
         [@[i] EXCEPT !.args = [k \in DOMAIN @ |-> IF @[k] = v THEN w ELSE @[k]]]]]

(* The destructor of a value asserts that it has no uses.                  *)
DestroyValues(h, vs) ==
    [h EXCEPT !.dangling = @ \cup {v \in vs : HasUses(h, v)}]

\* Mutant: a list is cleared from front to back.
FrontToBack(s) == s

(* ilist::clear goes from the back to the front; then the parameters go.   *)
(* ~tinytc_inst: child regions, uses, results.                             *)
BackToFront(s) == Reverse(s)

RECURSIVE DestroyInst(_, _), DestroyRegion(_, _)
DestroyRegion(h, r) ==
    LET cleared == FoldLeft(DestroyInst, [h EXCEPT !.reg[r].insts = <<>>],
                            BackToFront(h.reg[r].insts))
    IN  DestroyValues(cleared, Params(h, r))
DestroyInst(h, i) ==
    LET inner == FoldLeft(DestroyRegion, h, h.inst[i].regs)
        unused == [inner EXCEPT !.gone = @ \cup {i}]
    IN  DestroyValues(unused, Results(h, i))

Erase(h, r, pos) == DestroyInst(Unlink(h, r, pos), h.reg[r].insts[pos])
=============================================================================
