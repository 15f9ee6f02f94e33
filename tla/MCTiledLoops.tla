---------------------------- MODULE MCTiledLoops ----------------------------
(* Loop nests over ranges of every size around the block sizes, and those  *)
(* of functions whose sizes are suggested for a device.                    *)
EXTENDS TiledLoops

WGS == INSTANCE WorkGroupSize

Foreach(from, to, tiles, sgs) ==
    [op |-> "foreach", limit |-> 8, from |-> from, to |-> to, tiles |-> tiles, sgs |-> sgs]

ForeachTile(from, to, tiles, shape) ==
    [op |-> "foreach_tile", limit |-> 8, from |-> from, to |-> to, tiles |-> tiles, sgs |-> 1,
     shape |-> shape]

Gemm(m, n, k, tiles, sgs, ext, shape, ks, bytes, space, static) ==
    [op |-> "gemm", limit |-> 8, from |-> <<0, 0, 0>>, to |-> <<m, n, k>>,
     tiles |-> tiles, sgs |-> sgs,
     ext |-> ext, shape |-> shape, ks |-> ks, bytes |-> bytes, space |-> space,
     max |-> MaxRegisterBlock(bytes, sgs, space), static |-> static]

Linalg(op, to, tiles, sgs) ==
    [op |-> op, limit |-> 8, from |-> [i \in DOMAIN to |-> 0], to |-> to,
     tiles |-> tiles, sgs |-> sgs]

Cumsum(mode, to, tiles, sgs) == Linalg("cumsum", to, tiles, sgs) @@ [mode |-> mode]

ForeachNests ==
    {Foreach(<<1>>, <<n>>, <<2, 2>>, 2) : n \in -1 .. 12}
    \cup {Foreach(<<0>>, <<n>>, <<1, 1>>, s) : n \in 0 .. 4, s \in {1, 3}}
    \cup {Foreach(<<0, -1>>, <<2, n>>, <<1, t>>, s) :
             n \in -1 .. 9, t \in 1 .. 2, s \in 2 .. 3}
    \cup {Foreach(<<0, 5>>, <<2, 2>>, <<2, 2>>, 2)}
    \cup {Foreach(<<-1, 0>>, <<m, n>>, <<2, 2>>, 2) : m \in 0 .. 3, n \in 1 .. 3}
    \cup {Foreach(<<0, 0, 1>>, <<3, n, k>>, <<1, 2>>, 2) : n \in 2 .. 3, k \in 0 .. 3}

(* Ranges of the second mode that start at zero. *)
ForeachTileNests ==
    {ForeachTile(<<1>>, <<n>>, <<2, 1>>, <<s>>) : n \in 0 .. 9, s \in 1 .. 3}
    \cup {ForeachTile(<<-1, 0>>, <<m, n>>, <<1, 2>>, <<2, 2>>) : m \in 0 .. 4, n \in 0 .. 5}
    \cup {ForeachTile(<<-1, 0, 1>>, <<m, n, k>>, <<1, 2>>, <<2, 2, 2>>) :
             m \in 1 .. 2, n \in 2 .. 3, k \in 0 .. 4}

(* Register blocks of 5 by 5 with an extension and of 2 by 3 or 4 by 3    *)
(* without; only there whenever the columns are not tiled uniformly, or    *)
(* one block of rows fits.                                                 *)
GemmNests ==
    {Gemm(m, n, k, <<2, 1>>, 1, TRUE, <<1, 2>>, <<2, 4>>, <<1, 1, 4>>, 360, <<s, TRUE, s>>) :
        m \in {1, 5, 8}, n \in {1, 4, 7}, k \in 0 .. 5, s \in BOOLEAN}
    \cup {Gemm(m, n, k, <<1, t>>, 2, FALSE, <<>>, <<1, 2, 4, 8>>, b, 220, <<TRUE, s, k # 3>>) :
             m \in {1, 4, 5}, n \in 1 .. 7, k \in {1, 3, 11}, t \in 1 .. 2,
             b \in {<<4, 1, 2>>, <<1, 1, 4>>}, s \in BOOLEAN}

LinalgNests ==
    {Linalg("axpby", to, <<2, 2>>, 2) : to \in {<<>>, <<3>>, <<9>>, <<3, 2>>, <<0, 2>>}}
    \cup {Linalg(op, <<m, n>>, <<1, 2>>, 2) :
             op \in {"ger", "hadamard", "gemv", "sum"}, m \in {1, 3, 4}, n \in 1 .. 5}
    \cup {Linalg("hadamard", <<3, 2, 2>>, <<2, 1>>, 2)}
    \cup {Cumsum(d, <<m, n>>, <<2, 1>>, 2) : d \in 0 .. 1, m \in 0 .. 4, n \in {1, 3, 4}}
    \cup {Cumsum(d, <<3, 3, 2>>, <<2, 1>>, 2) : d \in 0 .. 2}

(* Devices, the second and third the same with fewer and more registers.   *)
Devices ==
    {[sizes |-> <<2, 4>>, generic |-> TRUE, limit |-> 7, registers |-> 200]}
    \cup {[sizes |-> <<2, 4>>, required |-> 4, generic |-> FALSE, eus |-> 2, threads |-> t,
            registers |-> 180, large |-> l] : t \in {2, 4}, l \in BOOLEAN}

Shape(ops, dst, acc, m, n, ext) ==
    [ops |-> ops, dst |-> dst, acc |-> acc, shape |-> <<m, n>>, ext |-> ext]

(* What a function states: nothing, a subgroup size, a work-group size, or *)
(* both (within the limits of all devices: that is not checked).           *)
Stated == {<<0, <<>>>>, <<4, <<>>>>, <<3, <<>>>>, <<0, <<4, 1>>>>, <<0, <<2, 2>>>>,
           <<0, <<8, 2>>>>, <<2, <<2, 2>>>>}

(* A gemm with a dynamic number of columns, of which there are five, next  *)
(* to a larger ger of another type.                                        *)
Suggested(m, r) ==
    LET gemm == Shape(<<1, 1>>, 2, 4, m, WGS!Dynamic, FALSE)
        ger == Shape(<<2, 1>>, 2, 4, r, 3, FALSE)
        fn(stated) == [sgs |-> stated[1], wgs |-> stated[2], shapes |-> {gemm, ger}]
    IN  UNION {UNION {
            {[Gemm(m, 5, 3, c.tiles, c.sgs, FALSE, <<>>, <<1, 2, 4, 8>>, <<1, 1, 4>>,
                   WGS!RegisterSpace(d), <<TRUE, FALSE, TRUE>>)
              EXCEPT !.limit = WGS!MaxWorkGroupSize(d, c.sgs)],
             [Linalg("ger", <<r, 3>>, c.tiles, c.sgs)
              EXCEPT !.limit = WGS!MaxWorkGroupSize(d, c.sgs)]} :
            c \in WGS!CoreConfigAndTiling(fn(s), d)} : s \in Stated, d \in Devices}

(* A gemm in blocks of four by two of the extension, whose size the device *)
(* requires, and a function with nothing but loops.                        *)
SuggestedForExtension ==
    UNION {UNION {
        {[Gemm(8, 4, 4, c.tiles, c.sgs, TRUE, <<4, 2>>, <<4>>, <<1, 1, 4>>,
               WGS!RegisterSpace(d), <<TRUE, TRUE, TRUE>>)
          EXCEPT !.limit = WGS!MaxWorkGroupSize(d, c.sgs)] :
        c \in WGS!CoreConfigAndTiling(
                 [sgs |-> 0, wgs |-> <<>>, shapes |-> {Shape(<<1, 1>>, 4, 4, 8, 4, TRUE)}], d)}
        \cup
        {[Foreach(<<0>>, <<9>>, c.tiles, c.sgs)
          EXCEPT !.limit = WGS!MaxWorkGroupSize(d, c.sgs)] :
        c \in WGS!CoreConfigAndTiling([sgs |-> 0, wgs |-> <<>>, shapes |-> {}], d)}} :
        d \in {x \in Devices : ~x.generic}}

SuggestedNests ==
    SuggestedForExtension \cup UNION {Suggested(m, r) : m \in {3, 8}, r \in {2, 5, 8}}

AllNests ==
    ForeachNests \cup ForeachTileNests \cup GemmNests \cup LinalgNests \cup SuggestedNests

(* Two blocks of rows fit into the registers, the columns are static. *)
TwoRowBlocks ==
    {Gemm(4, 2, 1, <<1, 1>>, 2, FALSE, <<>>, <<1, 2, 4, 8>>, <<1, 1, 4>>, 420,
          <<TRUE, TRUE, TRUE>>)}

(* The second range ends before it starts, by more than two rounds of      *)
(* blocks.                                                                 *)
ReversedNests == {Foreach(<<0, 11>>, <<2, 0>>, <<1, 3>>, 2)}

(* The second range does not start at zero. *)
OffsetTileNests == {ForeachTile(<<0, 1>>, <<2, 3>>, <<1, 2>>, <<2, 2>>)}
=============================================================================
