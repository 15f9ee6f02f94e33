----------------------------- MODULE CoopLayout -----------------------------
(***************************************************************************)
(* How the work items of a subgroup share a cooperative matrix, and the    *)
(* places of memory the emitted code goes to for their components.         *)
(*                                                                         *)
(* A type is [sty, rows, cols, use].  A work item p holds one vector; its  *)
(* component v is element p + v*S of the registers that hold the matrix,   *)
(* where S is the size of the subgroup.                                    *)
(***************************************************************************)
EXTENDS Integers, Sequences

CONSTANTS
    ExecSize, SDepth, RCount,   \* shape of one dpas instruction
    ChannelSize,                \* bytes of a channel
    MaxCols, StoreCols,         \* columns of a 2d block
    RowBytes,                   \* bytes in one row of an array of 2d blocks
    NarrowIo, WideIo,           \* elements of a block read per work item
    LoadBytes, BlockBytes       \* alignment of a block read, of other block messages

SizeOf(sty) == IF sty = "i8" THEN 1 ELSE IF sty \in {"i16", "f16"} THEN 2 ELSE 4
AtLeastOne(n) == IF n < 1 THEN 1 ELSE n
AtMost(n, max) == IF n > max THEN max ELSE n

(* get_layout.  S is a power of two, as are the rows of every type.        *)
Layout(S, ty) ==
    LET rows == AtMost(ty.rows, S)
        cols == ((1 + (rows * ty.cols - 1) \div S) * S) \div rows
        blocks == ty.rows \div rows
    IN  [sty |-> ty.sty, rows |-> rows, cols |-> cols, blocks |-> blocks,
         length |-> (rows * cols * blocks) \div S, shape1 |-> ty.cols,
         blocks1 |-> IF ty.use = "b" /\ blocks > 1
                     THEN AtLeastOne(2 \div SizeOf(ty.sty)) ELSE 1,
         ops |-> IF ty.use = "a" THEN AtLeastOne(ChannelSize \div SizeOf(ty.sty)) ELSE 1]

(* component_no, and the columns of a work item in one block.              *)
ComponentNo(l, u, w) ==
    (w % l.blocks1) + u * l.blocks1 + (w \div l.blocks1) * l.blocks1 * (l.length \div l.blocks)
Turns(l) == 0 .. (l.length \div l.blocks) - 1
Blocks(l) == 0 .. l.blocks - 1

(* spv_ty: several components of a narrow type share a channel of 32 bits; *)
(* what does not fill one has no place.                                    *)
Slots(l) ==
    IF l.length = 1 THEN {0} ELSE 0 .. (l.length \div l.ops) * l.ops - 1

-----------------------------------------------------------------------------
(* An access [t, checked, pos] of the memref m = [ptr, shape, stride, ...].*)
(* Transposition swaps the modes before the walk starts.                   *)
Oriented(m, in) ==
    LET k == IF in.t THEN <<2, 1>> ELSE <<1, 2>>
        turn(s) == <<s[k[1]], s[k[2]]>>
    IN  [ptr |-> m.ptr, pos |-> turn(in.pos), shape |-> turn(m.shape),
         stride |-> turn(m.stride), checked |-> in.checked]

RowsChecked(a) == a.checked \in {"rows", "both"}
ColsChecked(a) == a.checked \in {"cols", "both"}

(* matrix_walker: work item p in block w and column u.                     *)
ColInc(S, l) == S \div l.rows
Row(S, l, a, p, w) ==
    ((IF l.rows < S THEN p % l.rows ELSE p) + a.pos[1] + w * l.rows) * a.stride[1]
Col(S, l, a, p, u) ==
    ((IF l.rows < S THEN p \div l.rows ELSE 0) + a.pos[2] + u * ColInc(S, l)) * a.stride[2]
Offset(S, l, a, p, w, u) == Row(S, l, a, p, w) + Col(S, l, a, p, u)

RowOk(S, l, a, p, w) == Row(S, l, a, p, w) \in 0 .. a.shape[1] * a.stride[1] - 1
ColOk(S, l, a, p, u) == Col(S, l, a, p, u) \in 0 .. a.shape[2] * a.stride[2] - 1

NeedsMaskNever(S, l, u) == FALSE    \* mutant: whole subgroups only
NeedsMask(S, l, u) == (u + 1) * ColInc(S, l) > l.shape1

Accesses(S, l, a, p, w, u) ==
    /\ RowsChecked(a) => RowOk(S, l, a, p, w)
    /\ NeedsMask(S, l, u) \/ ColsChecked(a) => ColOk(S, l, a, p, u)

(* The largest power of two that divides n and is not above max.           *)
Doublings(n, max) ==
    CHOOSE c \in 1 .. max :
        /\ \E k \in 0 .. max : c = 2^k
        /\ n % c = 0
        /\ 2 * c > max \/ n % (2 * c) # 0

(* memory_write stores several columns at once if it is transposed.        *)
ColsPerStore(S, l, in, max) ==
    IF in.t /\ in.checked \notin {"cols", "both"} /\ l.blocks1 = 1 /\ l.rows >= S
    THEN Doublings(l.length \div l.blocks, max) ELSE 1

-----------------------------------------------------------------------------
(* Reads and writes of the whole subgroup: coopmatrix_impl_block.          *)
Aligned(m, in, bytes) ==
    /\ m.stride[1] = 1
    /\ \/ SizeOf(m.sty) >= bytes
       \/ \A x \in {m.ptr, in.pos[1], m.stride[2]} : (x * SizeOf(m.sty)) % bytes = 0
BlockIo(S, m, in, l, bytes) ==
    /\ l.rows >= S
    /\ ~in.t
    /\ Aligned(m, in, bytes)
    /\ in.checked \in {"none", "cols"}

MaxBlockIo(sty) == IF SizeOf(sty) <= 2 THEN NarrowIo ELSE WideIo
BlocksPerIo(l) == AtMost(l.blocks, MaxBlockIo(l.sty))

IsContiguous(m, ty) == m.static /\ m.shape[1] = ty.rows /\ m.stride = <<1, m.shape[1]>>
ColsPerIo(l, m, ty, a) ==
    IF IsContiguous(m, ty) /\ ~ColsChecked(a)
    THEN Doublings(l.length \div l.blocks, MaxBlockIo(l.sty) \div BlocksPerIo(l)) ELSE 1

(* One message takes a run of S elements for each block and column of it.  *)
Start(i, n) == i - (i % n)
BlockOffset(S, l, m, ty, a, p, w, u) ==
    LET b == BlocksPerIo(l)
        c == ColsPerIo(l, m, ty, a)
    IN  Offset(S, l, a, 0, Start(w, b), Start(u, c)) + ((w % b) + (u % c) * b) * S + p
BlockAccesses(S, l, m, ty, a, u) ==
    LET first == Start(u, ColsPerIo(l, m, ty, a))
    IN  NeedsMask(S, l, first) \/ ColsChecked(a) => ColOk(S, l, a, 0, first)

-----------------------------------------------------------------------------
(* 2d block messages of coopmatrix_impl_dpas: the blocks one message moves *)
(* and the order of the messages.  A transposed load of a matrix A swaps   *)
(* rows and columns and moves whole channels.                              *)
OpsPerChannel(ty) == IF ty.use = "a" THEN AtLeastOne(ChannelSize \div SizeOf(ty.sty)) ELSE 1
MaxRowsInBlock(ty) ==
    IF ty.use = "b" THEN (ChannelSize \div SizeOf(ty.sty)) * SDepth ELSE ExecSize

Split(rows, cols, max_rows, max_cols, max_array) ==
    LET r == AtMost(rows, max_rows)
        array == AtMost(rows \div r, max_array)
    IN  [rows |-> r, cols |-> AtMost(cols, max_cols), array_length |-> array,
         row_blocks |-> rows \div (r * array), col_blocks |-> AtLeastOne(cols \div max_cols)]

LoadConfig(ty, t) ==
    LET max_rows == MaxRowsInBlock(ty)
    IN  IF t THEN Split(ty.cols \div OpsPerChannel(ty), ty.rows, ExecSize \div 2, ExecSize, 1)
        ELSE Split(ty.rows, ty.cols, max_rows, MaxCols, RowBytes \div (max_rows * SizeOf(ty.sty)))
StoreConfig(ty) == Split(ty.rows, ty.cols, MaxRowsInBlock(ty), StoreCols, 1)

(* Which element of the matrix a message puts into element e of the        *)
(* registers: byte_offset, read backwards.                                 *)
Element(cfg, ops, e) ==
    LET size == cfg.rows * cfg.cols
        inner == e % size
        array == (e \div size) % cfg.array_length
        tile == e \div (size * cfg.array_length)
    IN  <<((tile \div cfg.col_blocks) * cfg.array_length + array) * cfg.rows
              + ((inner \div ops) % cfg.rows),
          (tile % cfg.col_blocks) * cfg.cols
              + (inner \div (ops * cfg.rows)) * ops + (inner % ops)>>
ElementT(cfg, ops, e) ==
    LET size == cfg.rows * cfg.cols
        inner == (e \div ops) % size
        tile == (e \div ops) \div size
    IN  <<(tile \div cfg.row_blocks) * cfg.cols + (inner % cfg.cols),
          ((tile % cfg.row_blocks) * cfg.rows + inner \div cfg.cols) * ops + (e % ops)>>

(* Component v of work item p in registers that pack ops components.       *)
Register(S, l, p, v) == ((v \div l.ops) * S + p) * l.ops + (v % l.ops)
Lane(S, l, e) == (e \div l.ops) % S
Component(S, l, e) == (e \div (l.ops * S)) * l.ops + (e % l.ops)
=============================================================================
