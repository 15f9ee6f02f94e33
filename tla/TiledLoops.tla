----------------------------- MODULE TiledLoops -----------------------------
(***************************************************************************)
(* The loop nests that lower-foreach (src/src/pass/lower_foreach.cpp) and  *)
(* lower-linalg (src/src/pass/lower_linalg.cpp) emit, run by the subgroups *)
(* of a work-group, each at its own pace.  The cumsum and the sum of a     *)
(* vector, which cross subgroups, are in WorkGroupScan and WorkGroupReduce.*)
(*                                                                         *)
(* A nest is a record: op, from and to (the bounds of every mode), tiles   *)
(* (subgroups in the two modes of the work-group), sgs (the subgroup size) *)
(* and shape (the tile shape of foreach_tile); limit is the largest        *)
(* work-group of the device.  A point of a linear algebra instruction is   *)
(* one of its scalar updates: the element of the result and, for gemv,     *)
(* gemm and the sum of rows, the index summed over.  A cumsum is along     *)
(* mode; its points are the elements of the result.                        *)
(* For gemm, ext says whether the device has a matrix extension for the    *)
(* types, shape is then its block shape; ks are the block sizes in mode K; *)
(* bytes are the sizes of the types of A, B and the accumulator, max is    *)
(* the largest block of C that fits into this space of registers, and      *)
(* static says whether an extent is a constant.                            *)
(***************************************************************************)
EXTENDS Tiling, SequencesExt, Bags

CONSTANT Nests

(* Ranges of equally many modes, at least one except for a scalar axpby,   *)
(* and a work-group the device allows; the ranges of linear algebra are    *)
(* the sizes of tensors.  Register blocks have whole subgroups of rows.    *)
WellFormed(n) ==
    LET modes == Len(n.from) IN
    /\ n.from \in Seq(Int) /\ n.to \in Seq(Int) /\ Len(n.to) = modes
    /\ n.tiles \in (Nat \ {0}) \X (Nat \ {0}) /\ n.sgs \in Nat \ {0} /\ n.limit \in Nat
    /\ n.sgs * (n.tiles[1] * n.tiles[2]) <= n.limit
    /\ n.op \in {"foreach", "foreach_tile", "axpby", "ger", "hadamard", "gemv", "sum",
                 "cumsum", "gemm"}
    /\ n.op # "axpby" => modes > 0
    /\ n.op \notin {"foreach", "foreach_tile"} => \A i \in 1 .. modes : n.from[i] = 0 /\ n.to[i] >= 0
    /\ n.op = "foreach_tile" => modes <= 3 /\ n.shape \in Seq(Nat \ {0}) /\ Len(n.shape) = modes
    /\ n.op = "cumsum" => modes > 1 /\ n.mode \in 0 .. modes - 1
    /\ n.op = "gemm" =>
           /\ modes = 3 /\ n.ks \in Seq(Nat \ {0}) /\ n.ks # <<>>
           /\ n.ext => n.shape \in (Nat \ {0}) \X (Nat \ {0})
           /\ n.max \in (Nat \ {0}) \X (Nat \ {0}) /\ n.sgs <= n.max[1]
           /\ n.bytes \in (Nat \ {0}) \X (Nat \ {0}) \X (Nat \ {0}) /\ n.space \in Nat
           /\ n.ext \in BOOLEAN /\ n.static \in BOOLEAN \X BOOLEAN \X BOOLEAN

ASSUME NestsAssumption == \A n \in Nests : WellFormed(n)

VARIABLES
    nest,   \* the loop nest, fixed from the start
    todo,   \* the tiles each subgroup still has to run, in order
    ran     \* the bag of the points executed

loopVars == <<nest, todo, ran>>

Subgroup == 0 .. nest.tiles[1] * nest.tiles[2] - 1

(* subgroup_id x and y, and the linear id. *)
SgX(g) == g % nest.tiles[1]
SgY(g) == g \div nest.tiles[1]

Dim == Len(nest.from)
Mode(i) == nest.from[i] .. nest.to[i] - 1
Size(i) == nest.to[i] - nest.from[i]

(* The points whose coordinate in each mode is in that mode's set. *)
Box(sets) ==
    {p \in [DOMAIN sets -> UNION {sets[i] : i \in DOMAIN sets}] :
        \A i \in DOMAIN sets : p[i] \in sets[i]}

Space == Box([i \in 1 .. Dim |-> Mode(i)])

(* A tile: the boxes of points it runs one after the other, each given by  *)
(* the coordinates in every mode, and the sizes it hands to the body.      *)
Tile(boxes, size) == [boxes |-> boxes, size |-> size]

Run(first, size) == first .. first + size - 1

(* The calls of two nested loops, the second the inner one. *)
Nested(outer, inner) ==
    [n \in 1 .. Len(outer) * Len(inner) |->
        <<outer[1 + ((n - 1) \div Len(inner))], inner[1 + ((n - 1) % Len(inner))]>>]

-----------------------------------------------------------------------------
(* Mutant of Lanes: all work items run the remainder. *)
LanesUnchecked(c) ==
    {nest.from[1] + lid + c.block : lid \in 0 .. nest.sgs - 1}

(* make_loop0: the work items that pass the check of the remainder. *)
Lanes(c) ==
    {nest.from[1] + lid + c.block : lid \in {x \in 0 .. nest.sgs - 1 : c.rem => x < c.size}}

(* operator()(foreach_inst) over these modes: those behind the second are  *)
(* plain for loops, as are the loops of linear algebra bodies over others. *)
ForeachTiles(g, modes) ==
    LET box(c0, cols) ==
            <<[i \in 1 .. Dim |-> CASE i = modes[1] -> Lanes(c0)
                                   [] Len(modes) > 1 /\ i = modes[2] -> cols
                                   [] OTHER -> Mode(i)]>>
        tile(c1, c0) ==
            Tile(box(c0, Run(nest.from[modes[2]] + c1.block, c1.size)), <<c0.size, c1.size>>)
    IN  IF Len(modes) = 1
        THEN LET calls == TileBySgs(Size(1), nest.sgs, nest.tiles[1] * nest.tiles[2], g)
             IN  [i \in DOMAIN calls |-> Tile(box(calls[i], {}), <<calls[i].size>>)]
        ELSE LET calls == Nested(TileUniformly(Size(modes[2]), nest.sgs, nest.tiles[2], SgY(g)),
                                 TileBySgs(Size(1), nest.sgs, nest.tiles[1], SgX(g)))
             IN  [i \in DOMAIN calls |-> tile(calls[i][1], calls[i][2])]

(* operator()(foreach_tile_inst): the loop variable of the second mode is  *)
(* the block, that of the first is offset by the start of the range.       *)
ForeachTileTiles(g) ==
    LET inner == IF Dim < 3 THEN <<Call(0, 0, FALSE)>>
                 ELSE LET vars3 == Iterate(nest.from[3], nest.to[3], nest.shape[3])
                      IN  [i \in DOMAIN vars3 |->
                              Call(vars3[i], IF nest.to[3] - vars3[i] < nest.shape[3]
                                             THEN nest.to[3] - vars3[i] ELSE nest.shape[3], FALSE)]
        tile(var, size) == Tile(<<[i \in 1 .. Dim |-> Run(var[i], size[i])]>>, size)
        column(c1, c0, c2) ==
            tile(SubSeq(<<nest.from[1] + c0.block, c1.block, c2.block>>, 1, Dim),
                 SubSeq(<<c0.size, c1.size, c2.size>>, 1, Dim))
    IN  IF Dim = 1
        THEN LET calls == TileBySgs(Size(1), nest.shape[1], nest.tiles[1] * nest.tiles[2], g)
             IN  [i \in DOMAIN calls |->
                     tile(<<nest.from[1] + calls[i].block>>, <<calls[i].size>>)]
        ELSE LET calls == Nested(Nested(TileBySgs(Size(2), nest.shape[2], nest.tiles[2], SgY(g)),
                                        TileBySgs(Size(1), nest.shape[1], nest.tiles[1], SgX(g))),
                                 inner)
             IN  [i \in DOMAIN calls |-> column(calls[i][1][1], calls[i][1][2], calls[i][2])]

(* operator()(axpby_inst) for scalars: one work item of one subgroup.      *)
ScalarTiles(g) == IF g = 0 THEN <<Tile(<<<<>>>>, <<>>)>> ELSE <<>>

(* operator()(cumsum_inst) along the first of several modes: subgroups     *)
(* take columns in turn and scan each in steps of their size.              *)
ColumnTiles(g) ==
    LET columns == Iterate(g, Size(2), nest.tiles[1] * nest.tiles[2])
        rows == Iterate(0, (CDiv(Size(1) - 1, nest.sgs) + 1) * nest.sgs, nest.sgs)
        box(r, c) == [i \in 1 .. Dim |-> CASE i = 1 -> Run(r, nest.sgs) \cap Mode(1)
                                            [] i = 2 -> {c}
                                            [] OTHER -> Mode(i)]
    IN  [j \in DOMAIN columns |->
            Tile([i \in DOMAIN rows |-> box(rows[i], columns[j])], <<>>)]

-----------------------------------------------------------------------------
(* What a block of the microkernel touches in a mode: a check leaves out   *)
(* what is not in the matrices.                                            *)
Covered(i, start, length, check) ==
    IF check THEN Run(start, length) \cap Mode(i) ELSE Run(start, length)

(* The lambda in operator()(gemm_inst) that chooses the block sizes. *)
BlockSize == IF nest.ext THEN nest.shape ELSE <<nest.sgs, nest.max[2]>>

NumBlocks(i) ==
    IF i = 2 /\ ~nest.ext THEN 1
    ELSE ChooseBlockSizeMultiple(BlockSize[i], nest.max[i], nest.tiles[i],
                                 IF nest.static[i] THEN Size(i) ELSE nest.max[i])

DoTileUniformly == ~nest.ext /\ nest.static[2]

(* compute_c: the loop over full blocks, and the one over the remainder,   *)
(* in the smallest blocks, with a check if those are larger than one.      *)
KBlocks ==
    LET size == IF nest.static[3] THEN ChooseKBlockSize(nest.ks, Size(3)) ELSE Last(nest.ks)
        full == Iterate(0, CDiv(Size(3), size) * size, size)
        rest == Iterate(CDiv(Size(3), size) * size, Size(3), Head(nest.ks))
    IN  [i \in DOMAIN full |-> Covered(3, full[i], size, FALSE)]
        \o [i \in DOMAIN rest |-> Covered(3, rest[i], Head(nest.ks), Head(nest.ks) > 1)]

(* gemm_microkernel: in every step of the loops over K each block of C     *)
(* gets the product of a block of A and one of B.                          *)
Microkernel(c0, c1, width) ==
    LET block(k, n, m) ==
            <<Covered(1, c0.block + m * BlockSize[1], BlockSize[1], c0.rem),
              Covered(2, c1.block + n * width, width, c1.rem /\ ~DoTileUniformly), k>>
        blocks == Nested(KBlocks, Nested([n \in 1 .. NumBlocks(2) |-> n - 1],
                                         [m \in 1 .. NumBlocks(1) |-> m - 1]))
    IN  Tile([i \in DOMAIN blocks |-> block(blocks[i][1], blocks[i][2][1], blocks[i][2][2])],
             <<BlockSize[1] * NumBlocks(1), width * NumBlocks(2)>>)

(* operator()(gemm_inst): the tile loops around the microkernel. *)
GemmTiles(g) ==
    LET cols == BlockSize[2] * NumBlocks(2)
        calls ==
            IF DoTileUniformly
            THEN Nested(TileUniformly(Size(2), cols, nest.tiles[2], SgY(g)),
                        TileBySgs(Size(1), BlockSize[1], nest.tiles[1], SgX(g)))
            ELSE Nested(TileBySgs(Size(2), cols, nest.tiles[2], SgY(g)),
                        TileBySgs(Size(1), BlockSize[1] * NumBlocks(1), nest.tiles[1], SgX(g)))
    IN  [i \in DOMAIN calls |->
            Microkernel(calls[i][2], calls[i][1],
                        IF DoTileUniformly THEN calls[i][1].size ELSE BlockSize[2])]

(* The modes that are distributed by a foreach over the result. *)
ForeachModes ==
    CASE nest.op \in {"foreach", "axpby", "ger", "hadamard"} -> [i \in 1 .. Dim |-> i]
      [] nest.op \in {"gemv", "sum"} -> <<1>>
      [] nest.op = "cumsum" -> [i \in 1 .. Dim - 1 |-> IF i <= nest.mode THEN i ELSE i + 1]

Tiles(g) == CASE nest.op = "foreach_tile" -> ForeachTileTiles(g)
              [] nest.op = "gemm" -> GemmTiles(g)
              [] nest.op = "axpby" /\ Dim = 0 -> ScalarTiles(g)
              [] nest.op = "cumsum" /\ nest.mode = 0 -> ColumnTiles(g)
              [] OTHER -> ForeachTiles(g, ForeachModes)

UsesForeach ==
    /\ nest.op \in {"foreach", "axpby", "ger", "hadamard", "gemv", "sum", "cumsum"}
    /\ Dim > 0
    /\ nest.op = "cumsum" => nest.mode # 0

(* tile_loop_uniformly divides by the number of blocks.  Where that is     *)
(* zero the outcome is undefined, of the code as of the constant folding   *)
(* that may evaluate it; the model then runs nothing.                      *)
DividesByZero ==
    \/ /\ UsesForeach /\ Len(ForeachModes) > 1
       /\ UniformBlocks(Size(ForeachModes[2]), nest.sgs, nest.tiles[2]) = 0
    \/ /\ nest.op = "gemm" /\ DoTileUniformly
       /\ UniformBlocks(Size(2), BlockSize[2] * NumBlocks(2), nest.tiles[2]) = 0

-----------------------------------------------------------------------------
LoopInit == /\ nest \in Nests
        /\ todo = [g \in Subgroup |-> IF DividesByZero THEN <<>> ELSE Tiles(g)]
        /\ ran = EmptyBag

(* Every box of a tile runs each of its points once more. *)
RunTile(g) ==
    /\ todo[g] # <<>>
    /\ LET boxes == Head(todo[g]).boxes
           points == UNION {Box(boxes[b]) : b \in DOMAIN boxes}
       IN  ran' = [p \in DOMAIN ran \cup points |->
                      (IF BagIn(p, ran) THEN ran[p] ELSE 0)
                          + Cardinality({b \in DOMAIN boxes : p \in Box(boxes[b])})]
    /\ todo' = [todo EXCEPT ![g] = Tail(@)]
    /\ UNCHANGED nest

LoopNext == \E g \in Subgroup : RunTile(g)

LoopSpec == LoopInit /\ [][LoopNext]_loopVars /\ WF_loopVars(LoopNext)

-----------------------------------------------------------------------------
EO == INSTANCE EachOnce WITH space <- Space

(* The subgroups execute no point of the loop nest twice and none outside  *)
(* of it, in whatever order they come to run, for the trip counts that are *)
(* not a multiple of anything and for empty ranges too.                    *)
RunsEachOnce == EO!Safe

(* In the end no point is left, whatever the trip count leaves over for    *)
(* the last subgroup or the second round.                                  *)
RunsAll == EO!Live

(* The work-group is no larger than the device allows.  No tile is larger  *)
(* than the block the code for it was laid out for, and none is empty; the *)
(* blocks of A, B and C that a subgroup keeps of a gemm fill at most half  *)
(* of its registers.                                                       *)
FitsDevice ==
    /\ nest.sgs * Cardinality(Subgroup) <= nest.limit
    /\ \A g \in Subgroup : \A n \in DOMAIN todo[g] : \A i \in 1 .. Len(todo[g][n].size) :
           todo[g][n].size[i] \in
               1 .. CASE nest.op = "gemm" -> BlockSize[i] * NumBlocks(i)
                      [] nest.op = "foreach_tile" -> nest.shape[i]
                      [] OTHER -> nest.sgs
    /\ nest.op = "gemm" =>
           2 * RegisterBytes(BlockSize[1] * NumBlocks(1), BlockSize[2] * NumBlocks(2), nest.bytes)
               <= nest.space

=============================================================================
