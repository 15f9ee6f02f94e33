----------------------------- MODULE CoopMatrix -----------------------------
(***************************************************************************)
(* One subgroup executes the code emitted for cooperative matrices: by     *)
(* every work item for itself (coopmatrix_impl), with block reads and      *)
(* writes of the subgroup (coopmatrix_impl_block), or with 2d block        *)
(* messages and matrix instructions (coopmatrix_impl_dpas).                *)
(*                                                                         *)
(* prog   the program: the code generator impl, the size sgs of the        *)
(*        subgroup, its memrefs, and its straight-line code                *)
(* at     the instruction it is at                                         *)
(* mats   the matrices so far: their type ty, the vectors w of the work    *)
(*        items, and the matrix a that the text defines                    *)
(* mem    the contents of every memref, by address                         *)
(* ref    what the text says they are                                      *)
(*                                                                         *)
(* Numbers are integers of their type's width; a float is a small integer. *)
(* Undef is a component nobody has given a value.                          *)
(***************************************************************************)
EXTENDS CoopLayout, FiniteSets

CONSTANTS
    Undef,
    Programs,
    MaxVectorStore,             \* columns one transposed store takes at most
    RequiredSgs, MatTypes       \* what the matrix extension supports

VARIABLES prog, at, mats, mem, ref
vars == <<prog, at, mats, mem, ref>>

LOCAL SO == INSTANCE ScalarOps

Num(sty, x) == IF x # Undef /\ SO!IsInt(sty) THEN SO!Wrap(sty, x) ELSE x
Apply2(op, x, y) ==
    IF Undef \in {x, y} THEN Undef
    ELSE CASE op = "add" -> x + y
           [] op = "sub" -> x - y
           [] op = "mul" -> x * y
           [] op = "max" -> IF x < y THEN y ELSE x
           [] op = "min" -> IF y < x THEN y ELSE x
Sum(f, n) ==
    LET sum[k \in 0 .. n] == IF k = 0 THEN 0 ELSE Apply2("add", sum[k - 1], f[k - 1])
    IN  sum[n]
Fold(sty, op, s) ==
    LET fold[k \in 1 .. Len(s)] ==
          IF k = 1 THEN s[1] ELSE Num(sty, Apply2(op, fold[k - 1], s[k]))
    IN  fold[Len(s)]

S == prog.sgs
Items == 0 .. S - 1
LayoutOf(ty) == Layout(S, ty)
Cells(ty) == (0 .. ty.rows - 1) \X (0 .. ty.cols - 1)
Instr == prog.code[at]
Runs(ops) == at <= Len(prog.code) /\ Instr.op \in ops
Mat(k) == mats[k]
At(m, x) == IF x \in DOMAIN m THEN m[x] ELSE Undef

(* What the work items hold if insert puts value[p, w, u] into the         *)
(* component of block w and column u.                                      *)
Vectors(l, value(_, _, _)) ==
    [p \in Items |-> [v \in Slots(l) |->
        LET from == {x \in Blocks(l) \X Turns(l) : ComponentNo(l, x[2], x[1]) = v}
        IN  IF from = {} THEN Undef
            ELSE LET x == CHOOSE y \in from : TRUE IN value(p, x[1], x[2])]]
Componentwise(l, value(_, _)) == [p \in Items |-> [v \in Slots(l) |-> value(p, v)]]
Extract(mat, p, v) == IF v \in DOMAIN mat.w[p] THEN mat.w[p][v] ELSE Undef

Produce(ty, w, a) ==
    /\ mats' = Append(mats, [ty |-> ty, w |-> w, a |-> a])
    /\ at' = at + 1
    /\ UNCHANGED <<prog, mem, ref>>

-----------------------------------------------------------------------------
(* The text: tensor-ir.rst.  The element of the memref for component       *)
(* <<i, j>>, and whether the program may access it.                        *)
RefIndex(in, c) ==
    IF in.t THEN <<in.pos[1] + c[2], in.pos[2] + c[1]>>
    ELSE <<in.pos[1] + c[1], in.pos[2] + c[2]>>
RefAddress(m, in, c) ==
    LET x == RefIndex(in, c) IN m.ptr + x[1] * m.stride[1] + x[2] * m.stride[2]
Inside(m, in, c, k) == RefIndex(in, c)[k] \in 0 .. m.shape[k] - 1
RowMode(in) == IF in.t THEN 2 ELSE 1
Guarded(m, in, c) ==
    /\ in.checked \in {"rows", "both"} => Inside(m, in, c, RowMode(in))
    /\ in.checked \in {"cols", "both"} => Inside(m, in, c, 3 - RowMode(in))
Legal(m, in, ty) ==
    \A c \in Cells(ty) : Guarded(m, in, c) => Inside(m, in, c, 1) /\ Inside(m, in, c, 2)

RefRead(m, x, in, ty) ==
    [c \in Cells(ty) |-> IF Guarded(m, in, c) THEN x[RefAddress(m, in, c)] ELSE 0]
RefWrite(m, x, in, ty, new(_, _)) ==
    LET cells == {c \in Cells(ty) : Guarded(m, in, c)}
        changed == {RefAddress(m, in, c) : c \in cells}
    IN  [d \in DOMAIN x |->
            IF d \in changed
            THEN new(x[d], CHOOSE c \in cells : RefAddress(m, in, c) = d) ELSE x[d]]

-----------------------------------------------------------------------------
(* check_2d_block_io, and what the matrix extension supports.              *)
Supports(t, ty) ==
    CASE ty.use = "a" -> ty.sty = t.a /\ \E s \in t.mnk : s[1] = ty.rows /\ s[3] = ty.cols
      [] ty.use = "b" -> ty.sty = t.b /\ \E s \in t.mnk : s[3] = ty.rows /\ s[2] = ty.cols
      [] OTHER -> ty.sty \in t.acc /\ \E s \in t.mnk : s[1] = ty.rows /\ s[2] = ty.cols
HaveType(ty) == \E t \in MatTypes : Supports(t, ty)
HaveGemm(a, b, c, r) == \E t \in MatTypes : \A ty \in {a, b, c, r} : Supports(t, ty)
Block2d(m, in, ty) ==
    /\ prog.impl = "dpas"
    /\ S = RequiredSgs
    /\ HaveType(ty)
    /\ m.global
    /\ m.stride[1] = 1
    /\ (m.ptr * SizeOf(m.sty)) % BlockBytes = 0
    /\ \A x \in {in.pos[1], m.shape[1]} : (x * SizeOf(m.sty)) % LoadBytes = 0
    /\ (m.stride[2] * SizeOf(m.sty)) % LoadBytes = 0

InSurface(m, in, c) == Inside(m, in, c, 1) /\ Inside(m, in, c, 2)

Read(m, x, in, ty) ==
    LET l == LayoutOf(ty)
        a == Oriented(m, in)
    IN  Vectors(l, LAMBDA p, w, u :
            IF Accesses(S, l, a, p, w, u) THEN At(x, a.ptr + Offset(S, l, a, p, w, u)) ELSE 0)
ReadBlocks(m, x, in, ty) ==
    LET l == LayoutOf(ty)
        a == Oriented(m, in)
    IN  Vectors(l, LAMBDA p, w, u :
            IF BlockAccesses(S, l, m, ty, a, u)
            THEN At(x, a.ptr + BlockOffset(S, l, m, ty, a, p, w, u)) ELSE 0)
ReadBlocks2d(m, x, in, ty) ==
    LET l == LayoutOf(ty)
        cfg == LoadConfig(ty, in.t)
        value(e) ==
            LET c == IF in.t THEN ElementT(cfg, l.ops, e) ELSE Element(cfg, l.ops, e)
            IN  IF InSurface(m, in, c) THEN At(x, RefAddress(m, in, c)) ELSE 0
    IN  Componentwise(l, LAMBDA p, v : value(Register(S, l, p, v)))

(* load.                                                                   *)
Load ==
    /\ Runs({"load"})
    /\ LET in == Instr
           m == prog.memrefs[in.mem]
           x == mem[in.mem]
       IN  /\ Legal(m, in, in.ty)
           /\ Produce(in.ty,
                IF Block2d(m, in, in.ty) /\ (~in.t \/ in.ty.use = "a")
                THEN ReadBlocks2d(m, x, in, in.ty)
                ELSE IF /\ prog.impl # "base"
                        /\ BlockIo(S, m, in, LayoutOf(in.ty),
                                   IF m.global THEN LoadBytes ELSE BlockBytes)
                THEN ReadBlocks(m, x, in, in.ty)
                ELSE Read(m, x, in, in.ty),
                RefRead(m, ref[in.mem], in, in.ty))

(* Every code generator loads and stores atomically item by item.          *)
AtomicLoad ==
    /\ Runs({"atomic_load"})
    /\ LET in == Instr
           m == prog.memrefs[in.mem]
       IN  /\ Legal(m, in, in.ty)
           /\ Produce(in.ty, Read(m, mem[in.mem], in, in.ty), RefRead(m, ref[in.mem], in, in.ty))

-----------------------------------------------------------------------------
(* The places a store goes to, each with its value.                        *)
Writes(m, in, mat, max) ==
    LET l == LayoutOf(mat.ty)
        a == Oriented(m, in)
        n == ColsPerStore(S, l, in, max)
    IN  {<<a.ptr + Offset(S, l, a, x[1], x[2], Start(x[3], n)) + (x[3] % n),
           Extract(mat, x[1], ComponentNo(l, x[3], x[2]))>> :
            x \in {y \in Items \X Blocks(l) \X Turns(l) :
                    Accesses(S, l, a, y[1], y[2], Start(y[3], n))}}
WriteBlocks(m, in, mat) ==
    LET l == LayoutOf(mat.ty)
        a == Oriented(m, in)
    IN  {<<a.ptr + BlockOffset(S, l, m, mat.ty, a, x[1], x[2], x[3]),
           Extract(mat, x[1], ComponentNo(l, x[3], x[2]))>> :
            x \in {y \in Items \X Blocks(l) \X Turns(l) :
                    BlockAccesses(S, l, m, mat.ty, a, y[3])}}
WriteBlocks2d(m, in, mat) ==
    LET l == LayoutOf(mat.ty)
        cfg == StoreConfig(mat.ty)
    IN  {<<RefAddress(m, in, Element(cfg, 1, e)), Extract(mat, Lane(S, l, e), Component(S, l, e))>> :
            e \in {d \in 0 .. l.length * S - 1 : InSurface(m, in, Element(cfg, 1, d))}}

(* Memory after the writes: a race of work items has no result, and what   *)
(* is outside the memref's memory does not stay unnoticed.                 *)
Written(x, writes) ==
    [d \in DOMAIN x \cup {y[1] : y \in writes} |->
        LET new == {y[2] : y \in {z \in writes : z[1] = d}}
        IN  IF new = {} THEN x[d] ELSE IF Cardinality(new) = 1 THEN CHOOSE v \in new : TRUE
            ELSE Undef]

PutBack(k, x, y) ==
    /\ mem' = [mem EXCEPT ![k] = x]
    /\ ref' = [ref EXCEPT ![k] = y]

(* store, atomic_store.                                                    *)
Store ==
    /\ Runs({"store", "atomic_store"})
    /\ LET in == Instr
           m == prog.memrefs[in.mem]
           mat == Mat(in.v)
       IN  /\ Legal(m, in, mat.ty)
           /\ PutBack(in.mem,
                Written(mem[in.mem],
                    IF in.op = "atomic_store" THEN Writes(m, in, mat, 1)
                    ELSE IF ~in.t /\ Block2d(m, in, mat.ty) THEN WriteBlocks2d(m, in, mat)
                    ELSE IF prog.impl # "base" /\ BlockIo(S, m, in, LayoutOf(mat.ty), BlockBytes)
                    THEN WriteBlocks(m, in, mat)
                    ELSE Writes(m, in, mat, MaxVectorStore)),
                RefWrite(m, ref[in.mem], in, mat.ty, LAMBDA old, c : mat.a[c]))
    /\ at' = at + 1
    /\ UNCHANGED <<prog, mats>>

(* atomic_update: the result holds what was there before.                  *)
AtomicUpdate ==
    /\ Runs({"atomic_update"})
    /\ LET in == Instr
           m == prog.memrefs[in.mem]
           mat == Mat(in.v)
           x == mem[in.mem]
           update(old, new) == Num(m.sty, Apply2(in.f, old, new))
       IN  /\ Legal(m, in, mat.ty)
           /\ PutBack(in.mem,
                Written(x, {<<y[1], update(At(x, y[1]), y[2])>> : y \in Writes(m, in, mat, 1)}),
                RefWrite(m, ref[in.mem], in, mat.ty, LAMBDA old, c : update(old, mat.a[c])))
           /\ mats' = Append(mats,
                [ty |-> mat.ty,
                 w |-> LET l == LayoutOf(mat.ty)
                           a == Oriented(m, in)
                       IN  Vectors(l, LAMBDA p, w, u :
                               IF Accesses(S, l, a, p, w, u)
                               THEN At(x, a.ptr + Offset(S, l, a, p, w, u)) ELSE Undef),
                 a |-> RefRead(m, ref[in.mem], in, mat.ty)])
    /\ at' = at + 1
    /\ UNCHANGED prog

-----------------------------------------------------------------------------
(* mul_add.  Item by item: component k of a row times the component of b   *)
(* that item p of the subgroup broadcasts.                                 *)
Times(a, b, c, k_row, p, w, n) ==
    LET al == LayoutOf(a.ty)
        bl == LayoutOf(b.ty)
        run == bl.rows * bl.blocks1
        place == (k_row % run) + n * run + (k_row \div run) * run * bl.cols
    IN  Apply2("mul", Extract(a, p, ComponentNo(al, k_row, w)),
                      Extract(b, place % S, place \div S))
MulAddItems(a, b, c, rty) ==
    LET bl == LayoutOf(b.ty)
        cl == LayoutOf(c.ty)
        rl == LayoutOf(rty)
        depth == bl.rows * bl.blocks
        value(p, x) ==
            LET n == x % rl.cols
                w == x \div rl.cols
            IN  IF w >= rl.blocks THEN Undef
                ELSE Num(c.ty.sty, Apply2("add", Extract(c, p, ComponentNo(cl, n, w)),
                         Sum([k \in 0 .. depth - 1 |-> Times(a, b, c, k, p, w, n)], depth)))
    IN  Componentwise(rl, LAMBDA p, v : Num(rty.sty, value(p, v)))

(* With matrix instructions, on the registers: mul_add_fun.                *)
InRegisters(mat, e) ==
    LET l == LayoutOf(mat.ty) IN Extract(mat, Lane(S, l, e), Component(S, l, e))
MulAddTiles(a, b, c, rty) ==
    LET ops == 1 + (ChannelSize - 1) \div SizeOf(a.ty.sty)
        depth == ops * SDepth
        tile == ExecSize * RCount
        rl == LayoutOf(rty)
        (* element e of the result: column n of lane m in tile (m0, n0)    *)
        value(e) ==
            LET m0 == (e \div (ExecSize * rty.cols)) * ExecSize
                column == (e % (ExecSize * rty.cols)) \div ExecSize
                n0 == column - (column % RCount)
                m == e % ExecSize
                n == column % RCount
                aoffset(k) == (k - (k % depth)) * ExecSize + m0 * a.ty.cols
                boffset(k) == (k - (k % depth)) * b.ty.cols + n0 * depth
                term == [k \in 0 .. a.ty.cols - 1 |->
                    Apply2("mul",
                        InRegisters(a, aoffset(k) + (((k % depth) \div ops) * ExecSize + m) * ops + (k % ops)),
                        InRegisters(b, boffset(k) + (k % depth) + n * depth))]
            IN  Num(c.ty.sty, Apply2("add",
                    InRegisters(c, m0 * c.ty.cols + (n0 + n) * ExecSize + m), Sum(term, a.ty.cols)))
    IN  Componentwise(rl, LAMBDA p, v : Num(rty.sty, value(Register(S, rl, p, v))))

MulAdd ==
    /\ Runs({"mul_add"})
    /\ LET a == Mat(Instr.a)
           b == Mat(Instr.b)
           c == Mat(Instr.c)
           rty == Instr.ty
           sum(x) == Sum([k \in 0 .. a.ty.cols - 1 |->
                             a.a[<<x[1], k>>] * b.a[<<k, x[2]>>]], a.ty.cols)
       IN  /\ \A ty \in {a.ty, c.ty, rty} : ty.rows % S = 0
           /\ Produce(rty,
                IF prog.impl = "dpas" /\ S = RequiredSgs /\ HaveGemm(a.ty, b.ty, c.ty, rty)
                THEN MulAddTiles(a, b, c, rty) ELSE MulAddItems(a, b, c, rty),
                [x \in Cells(rty) |-> Num(rty.sty, Num(c.ty.sty, c.a[x] + sum(x)))])

-----------------------------------------------------------------------------
(* reduce.  Over columns, S columns at a time: the blocks of a column are  *)
(* added up, then pairs of columns are merged, each shifted by v items     *)
(* against the other, until item p holds column p.  In inline assembly a   *)
(* matrix of one block is read where it is.                                *)
Merge(sty, op, x, v) ==
    [i \in 0 .. S \div (2 * v) - 1 |-> [p \in Items |->
        Num(sty, IF (p \div v) % 2 = 0 THEN Apply2(op, x[2 * i][p], x[2 * i][p + v])
                 ELSE Apply2(op, x[2 * i + 1][p - v], x[2 * i + 1][p]))]]
ReduceColumn(mat, op, first, assembly) ==
    LET l == LayoutOf(mat.ty)
        column(p, j) == Fold(mat.ty.sty, op,
            [b \in 1 .. l.blocks |-> Extract(mat, p, ComponentNo(l, j, b - 1))])
        x == [i \in 0 .. S - 1 |-> [p \in Items |->
                IF assembly /\ l.blocks = 1 THEN Extract(mat, p, i)
                ELSE IF first + i < l.shape1 THEN column(p, first + i)
                ELSE IF assembly THEN Undef ELSE 0]]
        steps == CHOOSE n \in 0 .. S : 2^n = S
        merged[n \in 0 .. steps] ==
            IF n = 0 THEN x ELSE Merge(mat.ty.sty, op, merged[n - 1], 2^(n - 1))
    IN  merged[steps][0]
ReduceColumns(mat, op, rty, assembly) ==
    LET columns == [u \in Slots(LayoutOf(rty)) |-> ReduceColumn(mat, op, u * S, assembly)]
    IN  Componentwise(LayoutOf(rty), LAMBDA p, v : columns[v][p])
ReduceRows(mat, op, rty) ==
    LET l == LayoutOf(mat.ty)
    IN  Vectors(LayoutOf(rty), LAMBDA p, w, u :
            Fold(mat.ty.sty, op, [j \in 1 .. l.length \div l.blocks |->
                Extract(mat, p, ComponentNo(l, j - 1, w))]))

Reduce ==
    /\ Runs({"reduce"})
    /\ LET mat == Mat(Instr.a)
           column == Instr.mode = "column"
           rty == [mat.ty EXCEPT !.rows = IF column THEN 1 ELSE @, !.cols = IF column THEN @ ELSE 1]
           line(x) == IF column THEN [k \in 1 .. mat.ty.rows |-> mat.a[<<k - 1, x[2]>>]]
                      ELSE [k \in 1 .. mat.ty.cols |-> mat.a[<<x[1], k - 1>>]]
       IN  /\ mat.ty.rows % S = 0
           /\ Produce(rty,
                IF ~column THEN ReduceRows(mat, Instr.f, rty)
                ELSE ReduceColumns(mat, Instr.f, rty, prog.impl = "dpas" /\ mat.ty.use # "a"),
                [x \in Cells(rty) |-> Fold(rty.sty, Instr.f, line(x))])

-----------------------------------------------------------------------------
(* cast.  An accumulator that becomes a matrix b changes its places.       *)
SourceInPlace(al, rl, from, to, v) == v    \* mutant: K_1 is one everywhere
Source(al, rl, from, to, v) ==
    IF from.use = "acc" /\ to.use = "b"
    THEN LET k == (v % rl.blocks1) + (v \div (rl.blocks1 * rl.cols)) * rl.blocks1
             j == (v \div rl.blocks1) % rl.cols
         IN  (k % al.blocks1) + j * al.blocks1 + (k \div al.blocks1) * al.blocks1 * al.cols
    ELSE v
Cast ==
    /\ Runs({"cast"})
    /\ LET mat == Mat(Instr.a)
           to == Instr.ty
           al == LayoutOf(mat.ty)
           rl == LayoutOf(to)
       IN  Produce(to,
            Componentwise(rl, LAMBDA p, v :
                Num(to.sty, Extract(mat, p, Source(al, rl, mat.ty, to, v)))),
            [x \in Cells(to) |-> Num(to.sty, mat.a[x])])

Scale ==
    /\ Runs({"scale"})
    /\ LET mat == Mat(Instr.b)
           value(y) == Num(mat.ty.sty, Apply2("mul", Instr.x, y))
       IN  Produce(mat.ty,
            Componentwise(LayoutOf(mat.ty), LAMBDA p, v : value(Extract(mat, p, v))),
            [x \in Cells(mat.ty) |-> value(mat.a[x])])

Arith ==
    /\ Runs({"arith"})
    /\ LET a == Mat(Instr.a)
           b == Mat(Instr.b)
           value(x, y) == Num(a.ty.sty, Apply2(Instr.f, x, y))
       IN  Produce(a.ty,
            Componentwise(LayoutOf(a.ty), LAMBDA p, v : value(Extract(a, p, v), Extract(b, p, v))),
            [x \in Cells(a.ty) |-> value(a.a[x], b.a[x])])

ArithUnary ==
    /\ Runs({"neg"})
    /\ LET mat == Mat(Instr.a)
           value(x) == Num(mat.ty.sty, Apply2("mul", -1, x))
       IN  Produce(mat.ty,
            Componentwise(LayoutOf(mat.ty), LAMBDA p, v : value(Extract(mat, p, v))),
            [x \in Cells(mat.ty) |-> value(mat.a[x])])

(* constant, construct: a composite has as many parts as its type, which   *)
(* the constant of a packed matrix has not.                                *)
Fill ==
    /\ Runs({"constant", "construct"})
    /\ LET ty == Instr.ty
           l == LayoutOf(ty)
           fits == Instr.op = "construct" \/ Instr.x = 0 \/ l.length = 1 \/ l.ops = 1
       IN  Produce(ty, Componentwise(l, LAMBDA p, v : IF fits THEN Instr.x ELSE Undef),
                   [x \in Cells(ty) |-> Instr.x])

(* cooperative_matrix_apply, lowered to one extract, body and insert for   *)
(* each component.  Body stands for a function of row, column and value.   *)
Body(sty, row, col, x) ==
    IF x = Undef THEN Undef ELSE Num(sty, x + 2 * row + 5 * col)
ApplyItems(mat) ==
    LET l == LayoutOf(mat.ty)
    IN  Componentwise(l, LAMBDA p, v :
            LET k1 == v % l.blocks1
                u == (v \div l.blocks1) % l.cols
                k2 == v \div (l.blocks1 * l.cols)
                i == IF l.rows < S THEN p % l.rows ELSE p
                j0 == IF l.rows < S THEN p \div l.rows ELSE 0
                col == j0 + u * ColInc(S, l)
            IN  IF NeedsMask(S, l, u) /\ col >= l.shape1 THEN 0
                ELSE Body(mat.ty.sty, i + k1 * l.rows + k2 * l.rows * l.blocks1, col,
                          Extract(mat, p, v)))
Apply ==
    /\ Runs({"apply"})
    /\ LET mat == Mat(Instr.a)
       IN  Produce(mat.ty, ApplyItems(mat),
                   [x \in Cells(mat.ty) |-> Body(mat.ty.sty, x[1], x[2], mat.a[x])])

-----------------------------------------------------------------------------
(* Every element of a memref differs, and from those of the next memref.   *)
Contents(k) ==
    [x \in 0 .. prog.memrefs[k].size - 1 |-> IF k % 2 = 1 THEN -x - 1 ELSE x]

Init ==
    /\ prog \in Programs
    /\ at = 1
    /\ mats = <<>>
    /\ mem = [k \in DOMAIN prog.memrefs |-> Contents(k)]
    /\ ref = mem

Next ==
    \/ Load
    \/ AtomicLoad
    \/ Store
    \/ AtomicUpdate
    \/ MulAdd
    \/ Reduce
    \/ Cast
    \/ Scale
    \/ Arith
    \/ ArithUnary
    \/ Fill
    \/ Apply

Spec == Init /\ [][Next]_vars

-----------------------------------------------------------------------------
(* Where docs/dev/coopmatrix_layout.rst puts component <<i, j>>: element L *)
(* of the subgroup's vectors.                                              *)
Place(ty, c) ==
    LET I == IF ty.rows < S THEN ty.rows ELSE S
        J == CHOOSE n \in ty.cols .. ty.cols + S :
                /\ (I * n) % S = 0
                /\ \A k \in ty.cols .. n - 1 : (I * k) % S # 0
        K1 == IF ty.use = "b" /\ ty.rows > S /\ SizeOf(ty.sty) = 1 THEN 2 ELSE 1
        k == c[1] \div I
    IN  (c[1] % I) + (k % K1) * I + c[2] * I * K1 + (k \div K1) * I * K1 * J

ValuesExact ==
    \A k \in DOMAIN mats : \A c \in Cells(mats[k].ty) :
        LET L == Place(mats[k].ty, c)
        IN  Extract(mats[k], L % S, L \div S) = mats[k].a[c]
MemoryExact == mem = ref

(* Every component of every matrix is where the documented layout puts it  *)
(* and has the value the manual defines, whichever code generator emitted  *)
(* the code and whatever has become of the matrix before; and memory holds *)
(* what the manual says: every store has written its components, each to   *)
(* its element, and nothing else.                                          *)
ExecutesText == ValuesExact /\ MemoryExact
=============================================================================
