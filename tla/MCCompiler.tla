----------------------------- MODULE MCCompiler -----------------------------
(* Programs from templates: arithmetic with constants, branches and loops    *)
(* in each other, names and definitions in scopes, SPMD regions, yields that *)
(* are missing or too many, several functions, ill-typed instructions.       *)
EXTENDS Compiler

I(op, names, args, tys) == [op |-> op, attr |-> <<>>, names |-> names, args |-> args,
                            tys |-> tys, regs |-> <<>>]
K(name, val, ty) == [I("constant", <<name>>, <<>>, <<ty>>) EXCEPT !.attr = <<val>>]
KDef(name, def, ty) == I("constant", <<name>>, <<def>>, <<ty>>)
LocalDef(def, val) == [I("def", <<def>>, <<>>, <<>>) EXCEPT !.attr = <<val>>]
Op(op, name, a, b) == I(op, <<name>>, <<a, b>>, <<"i8">>)
Less(name, a, b, ty) == I("less_than", <<name>>, <<a, b>>, <<"boolean">>)
Store(v, idx) == I("store", <<>>, <<v, "p", idx>>, <<>>)
Load(name, idx) == I("load", <<name>>, <<"p", idx>>, <<"i8">>)
Yield(vs) == I("yield", <<>>, vs, <<>>)
Region(names, body) == [names |-> names, body |-> body]
If(names, cond, tys, then, otherwise) ==
    [I("if", names, <<cond>>, tys) EXCEPT !.regs = <<Region(<<>>, then), Region(<<>>, otherwise)>>]
For(names, var, bounds, params, init, tys, body) ==
    [I("for", names, bounds \o init, tys) EXCEPT
        !.attr = IF Len(bounds) = 3 THEN <<1>> ELSE <<>>, !.regs = <<Region(<<var>> \o params, body)>>]
Parallel(body) == [I("parallel", <<>>, <<>>, <<>>) EXCEPT !.regs = <<Region(<<>>, body)>>]

Param(name, ty) == [name |-> name, ty |-> ty]
Func(name, params, body) == [name |-> name, params |-> params, body |-> body]
Global1(def, val) == [name |-> "", def |-> def, val |-> <<val>>]
P == Param("p", "mem_i8")
X == Param("x", "i8")
C == Param("c", "boolean")
N == Param("n", "index")
One1(params, body) == <<Func("f", params, body)>>
Zero1 == K("z", 0, "index")

(* x op k, k op x and k op 2, with the constants that folding knows.         *)
ArithTexts ==
    {One1(<<P, X>>, <<Zero1, K("k", k, "i8"), K("two", 2, "i8"),
                     Op(op, "r", ab[1], ab[2]), Store("r", "z")>>) :
        op \in BinaryOps, k \in {-1, 0, 1},
        ab \in {<<"x", "k">>, <<"k", "x">>, <<"k", "two">>}}
UnaryTexts ==
    {One1(<<P, X>>, <<Zero1, K("k", -128, "i8"), I(op, <<"r">>, <<a>>, <<"i8">>), Store("r", "z")>>) :
        op \in {"abs", "neg", "not"}, a \in {"x", "k"}}
CastTexts ==
    {One1(<<P, X>>, <<Zero1, K("k", k, "i16"), I("cast", <<"y">>, <<"k">>, <<"i8">>),
                     I("cast", <<"w">>, <<"x">>, <<"i32">>), I("cast", <<"v">>, <<"w">>, <<"i8">>),
                     Op("add", "r", "y", "v"), Store("r", "z")>>) : k \in {130, 7}}

(* Branches: what is tested, and what is in the branches.                    *)
Tests == {<<"c", <<>>>>, <<"b", <<K("b", 0, "boolean")>>>>, <<"b", <<K("b", 1, "boolean")>>>>,
          <<"b", <<Less("b", "x", "two", "i8")>>>>, <<"b", <<Less("b", "z", "z", "index")>>>>}
Branches == {<<Yield(<<"x">>)>>,
             <<Op("add", "t", "x", "two"), Store("t", "z"), Yield(<<"t">>)>>,
             <<If(<<"t">>, "c", <<"i8">>, <<Op("mul", "u", "x", "x"), Yield(<<"u">>)>>,
                  <<Yield(<<"two">>)>>), Yield(<<"t">>)>>}
IfTexts ==
    {One1(<<P, X, C>>, <<Zero1, K("two", 2, "i8")>> \o test[2] \o
          <<If(<<"r">>, test[1], <<"i8">>, then, otherwise), Store("r", "z")>>) :
        test \in Tests, then \in Branches, otherwise \in Branches}
EmptyIfTexts ==
    {One1(<<P, X, C>>, <<Zero1, K("two", 2, "i8")>> \o test[2] \o
          <<If(<<>>, test[1], <<>>, then, otherwise), Store("two", "z")>>) :
        test \in Tests, then \in {<<>>, <<Store("x", "z")>>},
        otherwise \in {<<>>, <<Load("l", "z"), Store("l", "z")>>}}

(* Loops: their bounds, the values they carry and their bodies.              *)
Bounds == {<<"z", "n">>, <<"z", "n", "one">>, <<"z", "three", "two">>, <<"one", "z">>, <<"z", "one">>}
LoopConsts == <<Zero1, K("one", 1, "index"), K("two", 2, "index"), K("three", 3, "index"),
                K("a0", 1, "i8"), K("b0", 2, "i8")>>
Bodies == {<<Yield(<<"b", "a">>)>>,
           <<Op("add", "s", "a", "b"), Store("s", "i"), Yield(<<"b", "s">>)>>,
           <<If(<<"s">>, "c", <<"i8">>, <<Yield(<<"a">>)>>, <<Load("l", "i"), Yield(<<"l">>)>>),
             Yield(<<"s", "a">>)>>,
           <<For(<<"s">>, "j", <<"z", "i">>, <<"t">>, <<"a">>, <<"i8">>,
                 <<Op("add", "u", "t", "b0"), Yield(<<"u">>)>>), Yield(<<"s", "b0">>)>>}
ForTexts ==
    {One1(<<P, N, C>>, LoopConsts \o
          <<For(<<"r", "q">>, "i", bounds, <<"a", "b">>, <<"a0", "b0">>, <<"i8", "i8">>, body),
            Store("r", "z"), Store("q", "z")>>) : bounds \in Bounds, body \in Bodies}
PlainForTexts ==
    {One1(<<P, N, C>>, LoopConsts \o <<For(<<>>, "i", bounds, <<>>, <<>>, <<>>, body)>>) :
        bounds \in Bounds,
        body \in {<<>>, <<Store("a0", "i")>>,
                  <<If(<<>>, "c", <<>>, <<Store("b0", "i")>>, <<>>), Store("a0", "z")>>}}

(* Names: shadowing, names of inner and sibling regions, of other functions. *)
InIf(body) == One1(<<P, X, C>>, <<Zero1, If(<<>>, "c", <<>>, body, <<>>)>>)
ScopeTexts ==
    {InIf(<<K("y", 1, "i8"), Store("y", "z")>>),
     InIf(<<K("x", 1, "i8"), Store("x", "z")>>),
     InIf(<<Store("y", "z"), K("y", 1, "i8")>>),
     One1(<<P, X, C>>, <<Zero1, If(<<>>, "c", <<>>, <<K("y", 1, "i8")>>, <<>>), Store("y", "z")>>),
     One1(<<P, X, C>>, <<Zero1, If(<<>>, "c", <<>>, <<K("y", 1, "i8")>>, <<Store("y", "z")>>)>>),
     One1(<<P, X, C>>, <<Zero1, If(<<>>, "c", <<>>, <<K("y", 1, "i8")>>, <<K("y", 2, "i8"), Store("y", "z")>>)>>),
     One1(<<P, N>>, <<Zero1, K("y", 1, "i8"), For(<<>>, "y", <<"z", "n">>, <<>>, <<>>, <<>>, <<>>)>>),
     One1(<<P, N>>, <<Zero1, K("y", 1, "i8"), For(<<>>, "i", <<"z", "n">>, <<>>, <<>>, <<>>, <<Store("y", "i")>>),
                     Store("y", "i")>>),
     <<Func("f", <<P>>, <<Zero1, K("y", 1, "i8"), Store("y", "z")>>), Func("g", <<P, X>>, <<Store("y", "z")>>)>>,
     <<Func("f", <<P>>, <<Zero1>>), Func("f", <<P>>, <<Zero1>>)>>,
     One1(<<P, P>>, <<>>),
     <<Global1("d", 1)>> \o InIf(<<LocalDef("e", 2), KDef("y", "e", "i8"), KDef("w", "d", "i8"),
                                   Op("add", "v", "y", "w"), Store("v", "z")>>),
     <<Global1("d", 1)>> \o InIf(<<LocalDef("d", 2), KDef("y", "d", "i8"), Store("y", "z")>>),
     One1(<<P, X, C>>, <<Zero1, If(<<>>, "c", <<>>, <<LocalDef("e", 2)>>, <<>>), KDef("y", "e", "i8"),
                         Store("y", "z")>>),
     One1(<<P, X>>, <<I("add", <<"r", "s">>, <<"x", "x">>, <<"i8">>)>>)}

(* SPMD regions, and what may not be in or outside of one.                   *)
Id == I("subgroup_linear_id", <<"id">>, <<>>, <<"i32">>)
Narrow == I("cast", <<"w">>, <<"id">>, <<"i8">>)
SpmdTexts ==
    {One1(<<P, X, C>>, <<Zero1, Parallel(<<Id, Narrow, Store("w", "z")>>)>>),
     One1(<<P, X, C>>, <<Zero1, Id>>),
     One1(<<P, X, C>>, <<Zero1, Parallel(<<If(<<>>, "c", <<>>, <<Parallel(<<>>)>>, <<>>)>>)>>),
     One1(<<P, X, C>>, <<Zero1, If(<<>>, "c", <<>>, <<Parallel(<<Store("x", "z")>>), Id>>, <<>>)>>),
     One1(<<P, X, C>>, <<Zero1, Parallel(<<If(<<>>, "c", <<>>, <<Id>>, <<Id>>), I("barrier", <<>>, <<>>, <<>>)>>)>>),
     One1(<<P, X, C>>, <<Zero1, If(<<>>, "c", <<>>, <<Parallel(<<>>), Id>>, <<>>)>>),
     One1(<<P, X>>, <<Zero1, Parallel(<<>>), Parallel(<<Id, Parallel(<<>>)>>)>>)}
GroupText(op, args) ==
    One1(<<P, X>>, <<Zero1, Parallel(<<K("k", 0, "i32"), I(op, <<"r">>, args, <<"i8">>), Store("r", "z")>>)>>)
GroupTexts == {GroupText("subgroup_broadcast", <<"x", "k">>), GroupText("subgroup_reduce_add", <<"x">>)}
GroupMaxTexts == {GroupText("subgroup_reduce_max", <<"x">>)}

(* Yields that are missing, mismatched, at the wrong place or doubled.       *)
YieldTexts ==
    {One1(<<P, X, C>>, <<Zero1, If(<<"r">>, "c", <<"i8">>, then, otherwise), Store("r", "z")>>) :
        then \in {<<>>, <<Yield(<<"x">>)>>, <<Yield(<<"z">>)>>, <<Yield(<<"x", "x">>)>>,
                  <<Yield(<<"x">>), Id>>, <<Yield(<<>>), Yield(<<"x">>)>>},
        otherwise \in {<<>>, <<Yield(<<"x">>)>>}}
    \cup {One1(<<P, X, C>>, <<Zero1, Yield(<<>>)>>),
          One1(<<P, X, C>>, <<Zero1, If(<<>>, "c", <<>>, <<Yield(<<"x">>)>>, <<>>)>>),
          One1(<<P, N>>, <<Zero1, For(<<"r">>, "i", <<"z", "n">>, <<"a">>, <<"z">>, <<"index">>, <<>>)>>)}

(* Two functions in a module, with and without a built-in variable.          *)
Builtin(name) == Func(name, <<P, X>>, <<Zero1, Parallel(<<Id, Narrow, Id, Store("w", "z")>>)>>)
BuiltinOnce(name) == Func(name, <<P, X>>, <<Zero1, Parallel(<<Id, Narrow, Store("w", "z")>>)>>)
Plain(name) == Func(name, <<P, X>>, <<Zero1, Store("x", "z")>>)
FunctionTexts == {<<BuiltinOnce("f"), Plain("g")>>, <<Plain("f"), BuiltinOnce("g")>>,
                  <<BuiltinOnce("f"), BuiltinOnce("g")>>}

(* Extents, static and dynamic; memrefs of two element types.                *)
SizeTexts ==
    {One1(<<Param("p", "mem_i8"), Param("q", m)>>,
          <<Zero1, I("size", <<"s">>, <<"q">>, <<"index">>), I("cast", <<"t">>, <<"s">>, <<"i8">>),
            Store("t", "z"), For(<<>>, "i", <<"z", "s">>, <<>>, <<>>, <<>>, <<Store("t", "i")>>)>>) :
        m \in {"mem_i8", "mem_i16", "mem4_i8"}}

(* Instructions whose types do not fit, after something worth destroying.    *)
Before == <<Zero1, K("k", 1, "i16"), K("o", 1, "i8"), Op("add", "s", "o", "x")>>
TypeTexts ==
    {One1(<<P, X, C>>, Before \o <<inst>>) :
        inst \in {Op("add", "r", "x", "k"), Store("k", "z"), Store("x", "x"), Less("r", "x", "k", "i8"),
                  I("if", <<"r">>, <<"x">>, <<"i8">>), I("neg", <<"r">>, <<"c">>, <<"boolean">>),
                  I("load", <<"r">>, <<"x", "z">>, <<"i8">>), I("cast", <<"r">>, <<"c">>, <<"i8">>)}}
    \cup {One1(<<P, X, C>>, Before \o <<If(<<>>, "c", <<>>, <<Op("add", "r", "s", "o"), Store("r", "x")>>, <<>>)>>),
          One1(<<P, N>>, <<Zero1, For(<<>>, "i", <<"z", "n">>, <<>>, <<>>, <<>>,
                                      <<K("o", 1, "i8"), Op("add", "r", "o", "o"), Store("r", "o")>>)>>)}

MCTexts == ArithTexts \cup UnaryTexts \cup CastTexts \cup IfTexts \cup EmptyIfTexts \cup ForTexts
               \cup PlainForTexts \cup ScopeTexts \cup SpmdTexts \cup GroupTexts \cup YieldTexts
               \cup FunctionTexts \cup SizeTexts \cup TypeTexts
MCGroupMaxTexts == GroupMaxTexts \cup GroupTexts
MCDevices == {{"subgroup_dispatch", "groups"}, {"subgroup_dispatch"}}
=============================================================================
