---------------------------- MODULE MCMemrefViews ----------------------------
(* Matrices with static, partly and fully dynamic types, aligned and not,    *)
(* contiguous and not, and groups of them.                                   *)
EXTENDS MemrefViews

D == Dynamic
Ty(shape, stride) == [shape |-> shape, stride |-> stride]
At(ptr, shape, stride) == [ptr |-> ptr, shape |-> shape, stride |-> stride]
Param(ty, alignment, shape_gcd, stride_gcd, members) ==
    [ty |-> ty, alignment |-> alignment, shape_gcd |-> shape_gcd, stride_gcd |-> stride_gcd,
     members |-> members]

MCParams ==
    {Param(ty, at[1], gcds[1], gcds[2], <<At(at[2], <<4, 2>>, <<1, ld>>)>>) :
        ty \in {Ty(<<4, 2>>, <<1, 4>>), Ty(<<4, D>>, <<1, D>>), Ty(<<D, D>>, <<D, D>>)},
        at \in {<<0, 8>>, <<64, 64>>}, gcds \in {<< <<>>, <<>> >>, << <<4>>, <<1, 8>> >>},
        ld \in {4, 8}}
    \cup {Param(Ty(<<D, 2>>, <<1, D>>), 0, <<>>, <<1, 2>>,
                <<At(8, <<2, 2>>, <<1, 2>>), At(48, <<4, 2>>, <<1, 4>>), At(64, <<3, 2>>, <<1, 6>>)>>)}
MCAllocas == {[ty |-> Ty(<<4, 3>>, <<1, 4>>), stack_ptr |-> p] : p \in {0, 12, 16}}
MCSlices ==
    {[offset |-> os[1], size |-> os[2]] :
        os \in {<<1, 0>>, <<D, 0>>, <<0, 2>>, <<D, 2>>, <<0, D>>, <<1, D>>}}
MCConstants == {-4, 0, 2}
MCExpandShapes == {<<2, 2>>, <<D, 2>>, <<2, D>>}
=============================================================================
