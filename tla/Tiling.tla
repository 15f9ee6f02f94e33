------------------------------- MODULE Tiling -------------------------------
(***************************************************************************)
(* How loops are split over the subgroups of a work-group:                 *)
(* tile_loop_by_sgs and tile_loop_uniformly of src/src/codegen_tools.cpp,  *)
(* as the sequence of loop bodies that subgroup sg runs.                   *)
(***************************************************************************)
EXTENDS Integers, Sequences, FiniteSetsExt

Abs(x) == IF x < 0 THEN -x ELSE x

(* Integer division and remainder truncate towards zero. *)
CDiv(x, y) == IF (x < 0) = (y < 0) THEN Abs(x) \div Abs(y) ELSE -(Abs(x) \div Abs(y))
CRem(x, y) == x - y * CDiv(x, y)

(* The values of the loop variable of a for instruction. *)
Iterate(from, to, step) ==
    IF from < to THEN [i \in 1 .. 1 + (to - 1 - from) \div step |-> from + (i - 1) * step]
    ELSE <<>>

(* A body call: where its block starts, how long it is, and whether the    *)
(* body is told that it is the remainder.                                  *)
Call(block, size, rem) == [block |-> block, size |-> size, rem |-> rem]

(* Mutant of TileBySgs: no subgroup gets the remainder. *)
TileBySgsLastLost(trip, sgs, tiles, sg) ==
    LET blocks == CDiv(trip, sgs)
        starts == IF blocks > 0 THEN Iterate(sgs * sg, sgs * blocks, sgs * tiles) ELSE <<>>
    IN  [i \in DOMAIN starts |-> Call(starts[i], sgs, FALSE)]

(* Full blocks in turn, and the remainder to the last subgroup. *)
TileBySgs(trip, sgs, tiles, sg) ==
    LET blocks == CDiv(trip, sgs)
        rem == CRem(trip, sgs)
        starts == IF blocks > 0 THEN Iterate(sgs * sg, sgs * blocks, sgs * tiles) ELSE <<>>
    IN  [i \in DOMAIN starts |-> Call(starts[i], sgs, FALSE)]
        \o (IF rem > 0 /\ sg = tiles - 1 THEN <<Call(blocks * sgs, rem, TRUE)>> ELSE <<>>)

(* Mutant of UniformBlocks: not multiplied by the number of subgroups. *)
UniformBlocksTooFew(trip, blockSize, tiles) ==
    1 + CDiv(CDiv(trip - 1, blockSize), tiles)

(* The number of blocks, a multiple of the number of subgroups. *)
UniformBlocks(trip, blockSize, tiles) ==
    (1 + CDiv(CDiv(trip - 1, blockSize), tiles)) * tiles

(* The turn a subgroup has in the second round. *)
Turn(sg, rem, tiles) == CRem(sg + CRem(rem, tiles), tiles)

(* First rem blocks of one index more than the others, then the others.    *)
(* In the second round the subgroups take turns in another order.          *)
TileUniformly(trip, blockSize, tiles, sg) ==
    LET blocks == UniformBlocks(trip, blockSize, tiles)
        bs == CDiv(trip, blocks)
        rem == CRem(trip, blocks)
        sg1 == Turn(sg, rem, tiles)
        long == IF rem > 0 THEN Iterate((bs + 1) * sg, (bs + 1) * rem, (bs + 1) * tiles)
                ELSE <<>>
        short == Iterate((bs + 1) * rem + bs * sg1, trip, bs * tiles)
    IN  [i \in DOMAIN long |-> Call(long[i], bs + 1, FALSE)]
        \o [i \in DOMAIN short |-> Call(short[i], bs, FALSE)]

(* The powers of two. *)
Doublings(n) == LET power[e \in 0 .. n] == IF e = 0 THEN 1 ELSE 2 * power[e - 1] IN power

(* choose_block_size_multiple (src/src/gemm_tools.cpp): the largest power  *)
(* of two below the register limit such that k blocks are dealt out evenly *)
(* to the subgroups and do not exceed the size by a whole block.           *)
ChooseBlockSizeMultiple(minSize, maxSize, tiles, size) ==
    LET powers == {Doublings(maxSize)[e] : e \in 0 .. maxSize}
        start == CHOOSE k \in powers :
                    2 * k * minSize >= maxSize
                    /\ \A j \in powers : j < k => 2 * j * minSize < maxSize
        even(k) == /\ CRem(1 + CDiv(size - 1, k * minSize), tiles) = 0
                   /\ k * minSize - size < minSize
        fitting == {k \in powers : k <= start /\ (k = 1 \/ even(k))}
    IN  CHOOSE k \in fitting : \A j \in fitting : j <= k

(* choose_k_block_size: the largest block size that is not larger than K.  *)
ChooseKBlockSize(sizes, k) ==
    sizes[Max({1} \cup {j \in DOMAIN sizes : sizes[j] <= k})]

(* The registers that a block of C takes with the widest blocks of A and B *)
(* (eight in mode K), where bytes are the sizes of their types.            *)
RegisterBytes(rows, cols, bytes) ==
    rows * cols * bytes[3] + 8 * (rows * bytes[1] + cols * bytes[2])

(* max_register_block_gemm: of the blocks that fill at most half of the    *)
(* registers the first with the best ratio of products to loads.  Rows are *)
(* multiples of the subgroup size.                                         *)
MaxRegisterBlock(bytes, sgs, space) ==
    LET fits(b) == RegisterBytes(b[1], b[2], bytes) <= space \div 2
        upTo(i) == 1 .. space \div (16 * bytes[i])
        blocks == {b \in {r \in upTo(1) : r % sgs = 0} \X upTo(2) : fits(b)}
        better(a, b) == a[1] * a[2] * (b[1] + b[2]) > b[1] * b[2] * (a[1] + a[2])
        first(a, b) == a[1] < b[1] \/ (a[1] = b[1] /\ a[2] < b[2])
    IN  IF blocks = {} THEN <<sgs, 1>>
        ELSE CHOOSE b \in blocks :
                 \A a \in blocks \ {b} : better(b, a) \/ (~better(a, b) /\ first(b, a))
=============================================================================
