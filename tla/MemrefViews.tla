----------------------------- MODULE MemrefViews -----------------------------
(***************************************************************************)
(* Views of memrefs: what the compiler knows of a view, what the code it   *)
(* emits computes for it, and which elements it stands for.                *)
(*                                                                         *)
(* view    ty    shape and stride of its type, Dynamic where not static    *)
(*         dope  the shape and stride the kernel holds at run time         *)
(*         ptr   the address of its first element, in bytes                *)
(*         gcd   what gcd_analysis claims: divisors of the shape, of the   *)
(*               stride, and of the address in elements                    *)
(* means   the address of every element, by its index: what the text says  *)
(* x       an index value: what it is, and the divisor claimed for it      *)
(* group   the memrefs of a group parameter, before one is loaded          *)
(*                                                                         *)
(* A program is a sequence of instructions on the latest view and x.  Its  *)
(* restrictions on operands are those of docs/manual/tensor-ir.rst.        *)
(***************************************************************************)
EXTENDS Integers, Sequences

CONSTANTS
    Dynamic,        \* the size or stride that is not known statically
    Params,         \* memref and group parameters, see Legal
    Allocas,        \* types of local memrefs, all static, with stack pointers
    DefaultAlignment,
    Arguments,      \* values of index parameters
    Constants,      \* integers of constant instructions
    Slices,         \* slices of one mode
    ExpandShapes,   \* shapes a mode is expanded to
    Strides,        \* strides a program states
    GroupOffsets,   \* offsets of groups
    MaxSteps

(* A size or a stride as a type states it. *)
Extent == {Dynamic} \cup Nat

ASSUME DynamicAssumption == Dynamic \notin Int

(* The default alignment is one of every element type. *)
ASSUME AlignmentAssumption == DefaultAlignment \in Nat \ {0} /\ DefaultAlignment % 4 = 0

(* Types and memrefs have as many strides as sizes. *)
ASSUME ParamsAssumption ==
    \A p \in Params :
        /\ p.ty.shape \in Seq(Extent) /\ p.ty.stride \in Seq(Extent)
        /\ Len(p.ty.stride) = Len(p.ty.shape)
        /\ p.alignment \in Nat /\ p.shape_gcd \in Seq(Nat) /\ p.stride_gcd \in Seq(Nat)
        /\ p.members \in Seq([ptr : Nat, shape : Seq(Nat), stride : Seq(Int)])
        /\ \A k \in DOMAIN p.members :
               /\ Len(p.members[k].shape) = Len(p.ty.shape)
               /\ Len(p.members[k].stride) = Len(p.ty.shape)

ASSUME AllocasAssumption ==
    \A a \in Allocas :
        /\ a.ty.shape \in Seq(Nat) /\ a.ty.stride \in Seq(Nat)
        /\ Len(a.ty.stride) = Len(a.ty.shape) /\ a.stack_ptr \in Nat

ASSUME OperandsAssumption ==
    /\ Arguments \subseteq Int /\ Constants \subseteq Int
    /\ Slices \subseteq [offset : Extent, size : Extent]
    /\ ExpandShapes \subseteq Seq(Extent) \ {<<>>}
    /\ Strides \subseteq Nat /\ GroupOffsets \subseteq Int

VARIABLES size, view, means, x, group, steps
vars == <<size, view, means, x, group, steps>>

IsDynamic(v) == v = Dynamic

(* A product of which a factor is not known is not known. *)
Times(a, b) == IF IsDynamic(a) \/ IsDynamic(b) THEN Dynamic ELSE a * b

(* The products of the first elements, and of all of them. *)
Products(s) ==
    LET p[k \in 0 .. Len(s)] == IF k = 0 THEN 1 ELSE Times(p[k - 1], s[k]) IN p
Product(s) == Products(s)[Len(s)]

(* The sums of the products of elements of a and b. *)
Dots(a, b) ==
    LET d[k \in 0 .. Len(a)] == IF k = 0 THEN 0 ELSE d[k - 1] + a[k] * b[k] IN d
Dot(a, b) == Dots(a, b)[Len(a)]

Abs(n) == IF n < 0 THEN -n ELSE n
Divides(d, n) == IF d = 0 THEN n = 0 ELSE n % d = 0
Gcd(a, b) ==
    LET common == {d \in 1 .. Abs(a) + Abs(b) : a % d = 0 /\ b % d = 0}
    IN  IF common = {} THEN 0 ELSE CHOOSE d \in common : \A e \in common : e <= d

(* The elements from .. to are replaced by those of new. *)
Replaced(s, from, to, new) == SubSeq(s, 1, from - 1) \o new \o SubSeq(s, to + 1, Len(s))

(* Strides of a shape whose modes follow each other without gaps. *)
Canonical(first, shape) == [j \in DOMAIN shape |-> Times(first, Products(shape)[j - 1])]

-----------------------------------------------------------------------------
(* What the text says.  The index tuples of a shape count from zero, the   *)
(* first mode the fastest.                                                 *)
Tuple(p, shape) == [k \in DOMAIN shape |-> (p \div Products(shape)[k - 1]) % shape[k]]
Tuples(shape) == {Tuple(p, shape) : p \in 0 .. Product(shape) - 1}
Position(t, shape) == Dot(t, Canonical(1, shape))
Elements(ptr, sz, dope) == [t \in Tuples(dope.shape) |-> ptr + sz * Dot(t, dope.stride)]

-----------------------------------------------------------------------------
(* set_from_attributes: attributes may name fewer modes or more than there *)
(* are.  A member of a group has the attributes of the group.              *)
Claims(attr, static) ==
    [k \in DOMAIN static |-> IF k <= Len(attr) THEN attr[k]
                             ELSE IF IsDynamic(static[k]) THEN 1 ELSE static[k]]
KnownMemrefInfo(p, sz) ==
    [offset |-> (IF p.alignment = 0 THEN DefaultAlignment ELSE p.alignment) \div sz,
     shape |-> Claims(p.shape_gcd, p.ty.shape), stride |-> Claims(p.stride_gcd, p.ty.stride)]

(* What a caller owes: members of the type, and attributes that are true.  *)
Fits(static, run) == \A k \in DOMAIN run : IsDynamic(static[k]) \/ static[k] = run[k]
Legal(p, sz) ==
    LET claimed == KnownMemrefInfo(p, sz)
    IN  /\ p.alignment % sz = 0
        /\ \A k \in DOMAIN p.members :
               LET m == p.members[k]
               IN  /\ m.ptr % (claimed.offset * sz) = 0
                   /\ Fits(p.ty.shape, m.shape) /\ Fits(p.ty.stride, m.stride)
                   /\ \A d \in DOMAIN m.shape : /\ Divides(claimed.shape[d], m.shape[d])
                                                /\ Divides(claimed.stride[d], m.stride[d])

(* A parameter brings along what is dynamic in its type, the rest are      *)
(* constants; so it is for a member of a group, see LoadGroup.             *)
DopeOf(ty, m) ==
    LET Par(static, run) == [k \in DOMAIN static |-> IF IsDynamic(static[k]) THEN run[k] ELSE static[k]]
    IN  [shape |-> Par(ty.shape, m.shape), stride |-> Par(ty.stride, m.stride)]

ViewOf(p, m, sz) ==
    [ty |-> p.ty, dope |-> DopeOf(p.ty, m), ptr |-> m.ptr, gcd |-> KnownMemrefInfo(p, sz)]

(* alloca: the alignment doubles as long as the stack pointer has it and   *)
(* it is below the default.                                                *)
StackAlignment(ptr, sz) ==
    LET a[k \in 0 .. DefaultAlignment] ==
            IF k = 0 THEN sz
            ELSE IF a[k - 1] < DefaultAlignment /\ ptr % (2 * a[k - 1]) = 0 THEN 2 * a[k - 1]
            ELSE a[k - 1]
    IN  a[DefaultAlignment]
AllocaView(a, sz) ==
    [ty |-> a.ty, dope |-> a.ty, ptr |-> a.stack_ptr,
     gcd |-> [offset |-> StackAlignment(a.stack_ptr, sz) \div sz,
              shape |-> a.ty.shape, stride |-> a.ty.stride]]

NoView == [ptr |-> -1]
Unclaimed(v) == [run |-> v, gcd |-> 1]

Show(v) == view' = v /\ steps' = steps + 1 /\ UNCHANGED <<size, x, group>>

Init ==
    /\ size \in {2, 4}
    /\ x \in {Unclaimed(v) : v \in Arguments}
    /\ steps = 0
    /\ \/ \E p \in {q \in Params : Legal(q, size)} :
              IF Len(p.members) = 1
              THEN /\ view = ViewOf(p, p.members[1], size)
                   /\ means = Elements(p.members[1].ptr, size, p.members[1])
                   /\ group = <<>>
              ELSE view = NoView /\ means = <<>> /\ group = <<p>>
       \/ \E a \in {b \in Allocas : b.stack_ptr % size = 0} :
              /\ view = AllocaView(a, size)
              /\ means = Elements(a.stack_ptr, size, a.ty)
              /\ group = <<>>

-----------------------------------------------------------------------------
(* Index values: constants, the size of a mode, arithmetic, and the        *)
(* variable of a loop with a step.  The type and the claims of a view say  *)
(* what is known of its size.                                              *)
Constant(c) == [run |-> c, gcd |-> Abs(c)]
SizeOf(v, k) ==
    [run |-> v.dope.shape[k],
     gcd |-> IF IsDynamic(v.ty.shape[k]) THEN v.gcd.shape[k] ELSE v.ty.shape[k]]
Operands ==
    {Constant(c) : c \in Constants} \cup {Unclaimed(v) : v \in Arguments}
        \cup (IF view = NoView THEN {} ELSE {SizeOf(view, k) : k \in DOMAIN view.ty.shape})

Quotient(a, b) == LET q == Abs(a) \div Abs(b) IN IF (a < 0) = (b < 0) THEN q ELSE -q
Arith(op, a, b) ==
    CASE op = "add" -> [run |-> a.run + b.run, gcd |-> Gcd(a.gcd, b.gcd)]
      [] op = "sub" -> [run |-> a.run - b.run, gcd |-> Gcd(a.gcd, b.gcd)]
      [] op = "mul" -> [run |-> a.run * b.run, gcd |-> a.gcd * b.gcd]
      [] op = "div" -> [run |-> Quotient(a.run, b.run),
                        gcd |-> IF a.gcd % b.gcd = 0 THEN a.gcd \div b.gcd ELSE 1]

Assign(v) == x' = v /\ steps' = steps + 1 /\ UNCHANGED <<size, view, means, group>>

Take == steps < MaxSteps /\ \E o \in Operands : Assign(o)
Combine ==
    /\ steps < MaxSteps
    /\ \/ \E op \in {"add", "sub", "mul"}, o \in Operands : Assign(Arith(op, x, o))
       \/ \E c \in Constants \ {0} : Assign(Arith("div", x, Constant(c)))
TakeAbs == steps < MaxSteps /\ Assign([x EXCEPT !.run = Abs(@)])
Loop ==
    /\ steps < MaxSteps
    /\ \E step \in {o \in Operands : o.run > 0}, n \in 1 .. 2 :
           Assign([run |-> x.run + n * step.run, gcd |-> Gcd(x.gcd, step.gcd)])

-----------------------------------------------------------------------------
\* Mutant: a stride that is not known statically matches any.
CheckStrideLoose(stated, stride) == IsDynamic(stated) \/ IsDynamic(stride) \/ stated = stride

(* check_memref_stride, and the types setup_and_check accepts: the strides *)
(* may be given up for Dynamic.                                            *)
CheckStride(stated, stride) == IsDynamic(stated) \/ stated = stride
Accepted(strides) ==
    {s \in [DOMAIN strides -> Strides \cup {Dynamic}] :
        \A k \in DOMAIN strides : CheckStride(s[k], strides[k])}

(* A static operand as it is, the dynamic ones are x.                      *)
Run(v) == IF IsDynamic(v) THEN x.run ELSE v
GcdOf(v) == IF IsDynamic(v) THEN x.gcd ELSE v

(* The modes that are kept of the first ones, and of all. *)
KeptUpto(slices) ==
    LET kept[k \in 0 .. Len(slices)] ==
            IF k = 0 THEN <<>>
            ELSE IF slices[k].size = 0 THEN kept[k - 1]
            ELSE Append(kept[k - 1], k)
    IN  kept
Kept(slices) == KeptUpto(slices)[Len(slices)]
Pick(s, ks) == [j \in DOMAIN ks |-> s[ks[j]]]

\* Mutant: only the modes that are kept move the base.
SubviewOffsetKept(slices, stride) ==
    Dot([k \in DOMAIN slices |-> IF slices[k].size = 0 THEN 0 ELSE Run(slices[k].offset)], stride)
SubviewOffset(slices, stride) == Dot([k \in DOMAIN slices |-> Run(slices[k].offset)], stride)

(* The element of the viewed memref that an element of the subview is. *)
Whole(slices, t) ==
    [k \in DOMAIN slices |-> Run(slices[k].offset)
        + IF slices[k].size = 0 THEN 0 ELSE t[Len(KeptUpto(slices)[k])]]

\* Mutant: the offset of the view is not accounted for.
SubviewGcdBase(g, slices) == g.offset
SubviewGcd(g, slices) ==
    LET d[k \in 0 .. Len(slices)] ==
            IF k = 0 THEN g.offset ELSE Gcd(d[k - 1], GcdOf(slices[k].offset) * g.stride[k])
    IN  d[Len(slices)]

(* A slice lies in its mode.                                               *)
InBounds(slices) ==
    \A k \in DOMAIN slices :
        /\ Run(slices[k].offset) >= 0
        /\ IsDynamic(slices[k].size) => x.run > 0
        /\ Run(slices[k].offset) + (IF slices[k].size = 0 THEN 1 ELSE Run(slices[k].size))
               <= view.dope.shape[k]

Subview ==
    /\ steps < MaxSteps
    /\ view # NoView
    /\ \E slices \in [DOMAIN view.ty.shape -> Slices] :
           LET kept == Kept(slices)
               sizes == [j \in DOMAIN kept |-> slices[kept[j]].size]
           IN  /\ InBounds(slices)
               /\ \E stride \in Accepted(Pick(view.ty.stride, kept)) :
                      Show([ty |-> [shape |-> sizes, stride |-> stride],
                            dope |-> [shape |-> [j \in DOMAIN sizes |-> Run(sizes[j])],
                                      stride |-> Pick(view.dope.stride, kept)],
                            ptr |-> view.ptr + size * SubviewOffset(slices, view.dope.stride),
                            gcd |-> [offset |-> SubviewGcd(view.gcd, slices),
                                     shape |-> [j \in DOMAIN sizes |-> GcdOf(sizes[j])],
                                     stride |-> Pick(view.gcd.stride, kept)]])
               /\ means' = [t \in Tuples([j \in DOMAIN sizes |-> Run(sizes[j])]) |-> means[Whole(slices, t)]]

(* Mode m becomes the modes of shape: strides multiply up from its own.    *)
Expand ==
    /\ steps < MaxSteps
    /\ view # NoView
    /\ \E m \in DOMAIN view.ty.shape, shape \in ExpandShapes :
           LET run == [j \in DOMAIN shape |-> Run(shape[j])]
               claimed == [j \in DOMAIN shape |-> GcdOf(shape[j])]
               Split(d, new) == [shape |-> Replaced(d.shape, m, m, new),
                                 stride |-> Replaced(d.stride, m, m, Canonical(d.stride[m], new))]
           IN  /\ \A j \in DOMAIN run : run[j] > 0
               /\ Product(run) = view.dope.shape[m]
               /\ \E stride \in Accepted(Split(view.ty, shape).stride) :
                      Show([ty |-> [shape |-> Split(view.ty, shape).shape, stride |-> stride],
                            dope |-> Split(view.dope, run),
                            ptr |-> view.ptr,
                            gcd |-> [offset |-> view.gcd.offset,
                                     shape |-> Split(view.gcd, claimed).shape,
                                     stride |-> Split(view.gcd, claimed).stride]])
               /\ means' = [t \in Tuples(Split(view.dope, run).shape) |->
                               means[Replaced(t, m, m + Len(run) - 1,
                                   <<Position(SubSeq(t, m, m + Len(run) - 1), run)>>)]]

(* Modes from .. to become one, which is legal if they are contiguous.     *)
Contiguous(dope, from, to) ==
    \A k \in from .. to - 1 : dope.stride[k] * dope.shape[k] = dope.stride[k + 1]

Fuse ==
    /\ steps < MaxSteps
    /\ view # NoView
    /\ \E from, to \in DOMAIN view.ty.shape :
           LET Modes(s) == SubSeq(s, from, to)
               Join(d) == [shape |-> Replaced(d.shape, from, to, <<Product(Modes(d.shape))>>),
                           stride |-> Replaced(d.stride, from, to, <<d.stride[from]>>)]
           IN  /\ from < to
               /\ Contiguous(view.dope, from, to)
               /\ \E stride \in Accepted(Join(view.ty).stride) :
                      Show([ty |-> [shape |-> Join(view.ty).shape, stride |-> stride],
                            dope |-> Join(view.dope),
                            ptr |-> view.ptr,
                            gcd |-> [offset |-> view.gcd.offset,
                                     shape |-> Join(view.gcd).shape,
                                     stride |-> Join(view.gcd).stride]])
               /\ means' = [t \in Tuples(Join(view.dope).shape) |->
                               means[Replaced(t, from, from, Tuple(t[from], Modes(view.dope.shape)))]]

(* load of a group: pointer, dynamic shape and stride are read at the same *)
(* place of as many arrays, the offset of the group plus the index. What   *)
(* the text means is the memref at the index, its pointer moved by as many *)
(* elements as the offset says (docs/manual/tensor-ir.rst:416-418).        *)
LoadGroup ==
    /\ steps < MaxSteps
    /\ group # <<>>
    /\ view = NoView
    /\ \E offset \in GroupOffsets :
           LET members == group[1].members
               loaded == x.run + offset + 1
               meant == x.run + 1
           IN  /\ loaded \in DOMAIN members
               /\ meant \in DOMAIN members
               /\ Show(ViewOf(group[1], members[loaded], size))
               /\ means' = Elements(members[meant].ptr + size * offset, size, members[meant])

Next == Take \/ Combine \/ TakeAbs \/ Loop \/ Subview \/ Expand \/ Fuse \/ LoadGroup

Spec == Init /\ [][Next]_vars

-----------------------------------------------------------------------------
(* get_pointer_helper: nothing is multiplied by a first stride of one.     *)
Pointer(idx) ==
    view.ptr + size * Dot(idx, [k \in DOMAIN idx |->
        IF k = 1 /\ view.ty.stride[1] = 1 THEN 1 ELSE view.dope.stride[k]])

\* Mutant: the first row is not looked at.
IsAlignedAnywhere(alignment, pos0) ==
    /\ view.ty.stride[1] = 1
    /\ size >= alignment \/ ((view.gcd.offset * size) % alignment = 0
                             /\ (view.gcd.stride[2] * size) % alignment = 0)

(* coopmatrix_impl_block::is_aligned, coopmatrix_impl_dpas::check_2d_block_io *)
IsAligned(alignment, pos0) ==
    /\ view.ty.stride[1] = 1
    /\ size >= alignment \/ ((view.gcd.offset * size) % alignment = 0
                             /\ (pos0.gcd * size) % alignment = 0
                             /\ (view.gcd.stride[2] * size) % alignment = 0)
BlockIo2d(pos0) ==
    /\ (view.gcd.offset * size) % 64 = 0
    /\ (pos0.gcd * size) % 4 = 0
    /\ view.ty.stride[1] = 1
    /\ (view.gcd.stride[2] * size) % 8 = 0
    /\ (view.gcd.shape[1] * size) % 4 = 0

-----------------------------------------------------------------------------
(* The address the code computes for an index is the element the text      *)
(* means, whatever views led there.                                        *)
ElementsExact ==
    view # NoView =>
        /\ DOMAIN means = Tuples(view.dope.shape)
        /\ \A idx \in DOMAIN means : Pointer(idx) = means[idx]

(* What a type states of a view is so at run time: code that uses the      *)
(* static stride or extent may do so.                                      *)
TypesTellTheTruth ==
    view # NoView => Fits(view.ty.shape, view.dope.shape) /\ Fits(view.ty.stride, view.dope.stride)

(* What gcd_analysis claims to divide, it divides.                         *)
DivisorsHold ==
    /\ Divides(x.gcd, x.run)
    /\ view # NoView =>
           /\ Divides(view.gcd.offset * size, view.ptr)
           /\ \A k \in DOMAIN view.dope.shape :
                  /\ Divides(view.gcd.shape[k], view.dope.shape[k])
                  /\ Divides(view.gcd.stride[k], view.dope.stride[k])

(* Where a matrix is read or written in blocks, the address of the first   *)
(* row of every column is a multiple of what block access asks for, and    *)
(* for 2d block access so are base, pitch, width and position.             *)
BlockAccessesAligned ==
    view # NoView /\ Len(view.dope.shape) = 2 =>
        /\ \A alignment \in {4, 16} : IsAligned(alignment, x) =>
               \A col \in 0 .. view.dope.shape[2] - 1 :
                   (view.ptr + size * (x.run + col * view.dope.stride[2])) % alignment = 0
        /\ BlockIo2d(x) =>
               /\ view.ptr % 64 = 0
               /\ (view.dope.stride[2] * size) % 8 = 0
               /\ (view.dope.shape[1] * size) % 4 = 0 /\ (x.run * size) % 4 = 0
=============================================================================
