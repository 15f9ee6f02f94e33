---------------------------- MODULE MCCoopMatrix ----------------------------
(* A quarter of the real sizes: subgroups of 4, 2d blocks and matrix         *)
(* instructions of 4 by 2.  Matrices smaller than a subgroup, padded, packed *)
(* and of several blocks; memrefs that are contiguous, aligned, strided and  *)
(* smaller than the matrix.                                                  *)
EXTENDS CoopMatrix

Ty(sty, rows, cols, use) == [sty |-> sty, rows |-> rows, cols |-> cols, use |-> use]
Memref(sty, ptr, shape, stride, static, global, size) ==
    [sty |-> sty, ptr |-> ptr, shape |-> shape, stride |-> stride, static |-> static,
     global |-> global, size |-> size]
Program(impl, sgs, memrefs, code) ==
    [impl |-> impl, sgs |-> sgs, memrefs |-> memrefs, code |-> code]
Load_(ty, k, in) ==
    [op |-> "load", ty |-> ty, mem |-> k, pos |-> in.pos, t |-> in.t, checked |-> in.checked]
Store_(v, k, in) ==
    [op |-> "store", v |-> v, mem |-> k, pos |-> in.pos, t |-> in.t, checked |-> in.checked]
Atomic(how, in) ==
    IF how = "plain" THEN in
    ELSE [in EXCEPT !.op = IF in.op = "load" THEN "atomic_load" ELSE "atomic_store"]
Simply(t) == [pos |-> <<0, 0>>, t |-> t, checked |-> "none"]

MCMatTypes ==
    {[a |-> "f16", b |-> "f16", acc |-> {"f16", "f32"},
      mnk |-> {4, 8} \X {2, 4, 6, 8} \X {4, 8}],
     [a |-> "i8", b |-> "i8", acc |-> {"i32"}, mnk |-> {4, 8, 16} \X {2, 4, 8} \X {8, 16}]}

(* A memref for the components of a matrix: dense, with columns of 16        *)
(* elements, in local memory, unaligned, strided.                            *)
Memrefs(ty, t) ==
    LET r == IF t THEN ty.cols ELSE ty.rows
        c == IF t THEN ty.rows ELSE ty.cols
    IN  {Memref(ty.sty, 0, <<r, c>>, <<1, r>>, static, TRUE, r * c) : static \in BOOLEAN}
        \cup {Memref(ty.sty, 0, <<r, c>>, <<1, 16>>, FALSE, global, 16 * c) : global \in BOOLEAN}
        \cup {Memref(ty.sty, 1, <<r, c>>, <<1, 16>>, FALSE, TRUE, 1 + 16 * c),
              Memref(ty.sty, 1, <<r, c>>, <<2, 2 * r + 1>>, TRUE, TRUE, 1 + (2 * r + 1) * c)}

(* What the code generators do not get right, see the README: a packed       *)
(* matrix whose channels are not full, padding with columns of the memref    *)
(* behind it, a transposed store of several columns into a memref whose      *)
(* first stride is not one, matrix a in 2d blocks side by side, or stored.   *)
FullChannels(s, ty) ==
    LET l == Layout(s, ty) IN l.length = 1 \/ l.length % l.ops = 0
Blocked(s, impl, ty) == impl = "dpas" /\ s = RequiredSgs /\ ty.use = "a"
TiledAside(ty) == LoadConfig(ty, FALSE).col_blocks > 1 /\ LoadConfig(ty, FALSE).array_length > 1
Loads(s, impl, ty) == FullChannels(s, ty) /\ ~(Blocked(s, impl, ty) /\ TiledAside(ty))
Stores(s, impl, ty, m, in) ==
    /\ FullChannels(s, ty) /\ ~Blocked(s, impl, ty)
    /\ in.t => m.stride[1] = 1
    /\ \/ (AtMost(ty.rows, s) * ty.cols) % s = 0
       \/ in.pos[IF in.t THEN 1 ELSE 2] + ty.cols >= m.shape[IF in.t THEN 1 ELSE 2]

-----------------------------------------------------------------------------
(* A matrix is loaded and stored elsewhere.                                  *)
Types ==
    {Ty("f32", x[1], x[2], "acc") : x \in {<<1, 1>>, <<1, 5>>, <<2, 1>>, <<2, 3>>, <<4, 4>>, <<4, 6>>, <<8, 3>>}}
    \cup {Ty("f16", x[1], x[2], u) : x \in {<<4, 4>>, <<8, 2>>, <<8, 8>>}, u \in {"a", "b", "acc"}}
    \cup {Ty("i8", x[1], x[2], u) : x \in {<<4, 8>>, <<16, 4>>}, u \in {"a", "b"}}
Checks == {<< <<0, 0>>, "none" >>, << <<0, 1>>, "cols" >>, << <<0, -1>>, "cols" >>,
           << <<2, 0>>, "rows" >>, << <<-1, 1>>, "both" >>}
Turn(t, pos) == IF t THEN <<pos[2], pos[1]>> ELSE pos
Ways == {[pos |-> Turn(t, x[1]), t |-> t, checked |-> x[2]] : x \in Checks, t \in BOOLEAN}
How == {<<"base", 2, "plain">>, <<"base", 4, "plain">>, <<"base", 4, "atomic">>,
        <<"block", 2, "plain">>, <<"block", 4, "plain">>, <<"dpas", 4, "plain">>}

CopiesOf(ty, m, way) ==
    {Program(h[1], h[2], <<m, m>>, <<Atomic(h[3], Load_(ty, 1, way)), Atomic(h[3], Store_(1, 2, way))>>) :
        h \in {x \in How : Loads(x[2], x[1], ty) /\ Stores(x[2], x[1], ty, m, way)}}
Copies ==
    UNION {UNION {CopiesOf(ty, m, way) : m \in Memrefs(ty, way.t)} : ty \in Types, way \in Ways}

(* Matrices are multiplied, with all code generators.  The elements of a     *)
(* memref are numbered: every product differs.                               *)
Dense(ty) == Memref(ty.sty, 0, <<ty.rows, ty.cols>>, <<1, ty.rows>>, TRUE, TRUE, ty.rows * ty.cols)
Products ==
    UNION {
        LET a == Ty(x[1], x[3][1], x[3][3], "a")
            b == Ty(x[1], x[3][3], x[3][2], "b")
            c == Ty(x[2], x[3][1], x[3][2], "acc")
        IN  {Program(h[1], h[2], <<Dense(a), Dense(b), Dense(c)>>,
                <<Load_(a, 1, Simply(FALSE)), Load_(b, 2, Simply(FALSE)), Load_(c, 3, Simply(FALSE)),
                  [op |-> "mul_add", a |-> 1, b |-> 2, c |-> 3, ty |-> c],
                  Store_(4, 3, Simply(FALSE))>>) :
                h \in {y \in How : y[3] = "plain" /\ Loads(y[2], y[1], a)}} :
        x \in ({"f16"} \X {"f16", "f32"} \X {<<4, 2, 4>>, <<8, 6, 8>>, <<8, 4, 4>>, <<4, 3, 2>>})
              \cup ({"i8"} \X {"i32"} \X {<<4, 2, 8>>, <<16, 4, 8>>, <<8, 4, 16>>, <<4, 4, 16>>})}

(* A matrix is loaded, changed, and stored.                                  *)
Unary(ty) ==
    {[op |-> "neg", a |-> 1], [op |-> "scale", x |-> 3, b |-> 1], [op |-> "apply", a |-> 1],
     [op |-> "arith", f |-> "sub", a |-> 1, b |-> 1]}
    \cup {[op |-> "reduce", f |-> f, mode |-> mode, a |-> 1] :
            f \in {"add", "max", "min"}, mode \in {"row", "column"}}
    \cup {[op |-> "cast", a |-> 1, ty |-> to] :
            to \in {[ty EXCEPT !.sty = sty, !.use = u] :
                    sty \in {"i8", "i32", "f16", "f32"}, u \in {ty.use, "b"}}}
Result(ty, in) ==
    CASE in.op = "cast" -> in.ty
      [] in.op = "reduce" /\ in.mode = "row" -> [ty EXCEPT !.cols = 1]
      [] in.op = "reduce" /\ in.mode = "column" -> [ty EXCEPT !.rows = 1]
      [] OTHER -> ty
Changed(s, impl, ty, in) ==
    /\ FullChannels(s, Result(ty, in))
    /\ in.op = "cast" =>
        \/ in.ty.use = "b" /\ ty.use = "acc"
        \/ in.ty.use = ty.use /\ Layout(s, in.ty).blocks1 = Layout(s, ty).blocks1
    /\ in.op = "reduce" /\ impl = "dpas" /\ ty.use # "a" => ty.rows > s \/ ty.cols <= s
Changes ==
    UNION {{Program(h[1], h[2], <<Dense(ty)>>,
                <<Load_(ty, 1, Simply(FALSE)), in>>) :
            in \in {x \in Unary(ty) : Loads(h[2], h[1], ty) /\ Changed(h[2], h[1], ty, x)}} :
        ty \in Types, h \in {y \in How : y[3] = "plain"}}

(* The accumulator of one product is an operand of the next.                 *)
Chained(sty, acc) ==
    LET n == IF sty = "i8" THEN 8 ELSE 4
        a == Ty(sty, 4, n, "a")
        b == Ty(sty, n, 4, "b")
        c == Ty(acc, n, 4, "acc")
        d == Ty(acc, 4, 4, "acc")
        m == Ty(acc, 4, 1, "acc")
    IN  {Program(h[1], h[2], <<Dense(a), Dense(c), Dense(m)>>,
            <<Load_(c, 2, Simply(FALSE)), [op |-> "cast", a |-> 1, ty |-> b],
              Load_(a, 1, Simply(FALSE)), [op |-> "construct", ty |-> d, x |-> 7],
              [op |-> "mul_add", a |-> 3, b |-> 2, c |-> 4, ty |-> d],
              [op |-> "reduce", f |-> "max", mode |-> "row", a |-> 5],
              Store_(6, 3, Simply(FALSE))>>) : h \in {y \in How : y[3] = "plain"}}

(* Matrices made from numbers, and added to what another one has left.       *)
Updates ==
    {Program("base", sgs, <<Dense(ty), Dense(ty)>>,
        <<[op |-> how[1], ty |-> ty, x |-> how[2]], Load_(ty, 1, Simply(FALSE)),
          [op |-> "arith", f |-> "sub", a |-> 2, b |-> 1],
          [op |-> "atomic_update", f |-> f, v |-> 3, mem |-> 2, pos |-> <<0, 0>>, t |-> FALSE,
           checked |-> "none"],
          Store_(4, 1, Simply(FALSE))>>) :
        sgs \in {2, 4}, f \in {"add", "max", "min"},
        how \in {<<"constant", 0>>, <<"constant", 3>>, <<"construct", 2>>},
        ty \in {Ty("i8", 4, 4, "acc"), Ty("i8", 8, 4, "b"), Ty("f32", 2, 4, "a")}}

MCPrograms == Copies \cup Products \cup Changes \cup Updates
              \cup Chained("f16", "f32") \cup Chained("i8", "i32")
=============================================================================
