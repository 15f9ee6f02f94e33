----------------------- MODULE WorkDistributionProofs -----------------------
(***************************************************************************)
(* Proofs that work is handed out completely, and every piece of it to one *)
(* alone: the rows of C to the work-groups of a recipe's launch, and the   *)
(* iterations of a loop nest to the subgroups of a work-group.             *)
(*                                                                         *)
(* The launches are those behind any requests, with any recipes and        *)
(* runtimes.  The loop nests are those of a foreach, a foreach_tile or a   *)
(* linear algebra instruction other than gemm, over ranges of any number   *)
(* of modes, with any subgroup size, tile shape and number of subgroups.   *)
(***************************************************************************)
EXTENDS RecipeHandler, TiledLoops, Lemmas, FiniteSetTheorems, SequenceTheorems

-----------------------------------------------------------------------------
(* Launches.                                                               *)

Names == {"alpha", "beta", "A", "B", "C"}
Params ==
    {<<x>> : x \in Names} \cup
    {<<x, f, k>> : x \in {"A", "B", "C"}, f \in {"shape", "stride"}, k \in 1 .. 3}

LeadingDim(q, x) == CASE x = "A" -> q.ldA [] x = "B" -> q.ldB [] x = "C" -> q.ldC

(* What a request says about a parameter.                                  *)
Says(q, p) ==
    IF Len(p) = 1 THEN q[p[1]] ELSE IF p[2] = "shape" THEN q.M ELSE LeadingDim(q, p[1])

(* Arguments that say what q says, for parameters among which are ps.      *)
Delivers(q, sig, vals, ps) ==
    /\ sig \in Seq(Params)
    /\ vals \in Seq({Says(q, p) : p \in Params})
    /\ Len(vals) = Len(sig)
    /\ \A i \in 1 .. Len(sig) : vals[i] = Says(q, sig[i])
    /\ \A p \in ps : \E i \in 1 .. Len(sig) : sig[i] = p

(* Nothing, one parameter, and one that only a dynamic extent or stride    *)
(* has.                                                                    *)
LEMMA DeliversNone == \A q : Delivers(q, <<>>, <<>>, {})
  BY DEF Delivers

LEMMA DeliversOne ==
    ASSUME NEW q, NEW p \in Params, NEW v, v = Says(q, p)
    PROVE  Delivers(q, <<p>>, <<v>>, {p})
<1>1. <<p>> \in Seq(Params) /\ Len(<<p>>) = 1 /\ <<p>>[1] = p
  OBVIOUS
<1>2. v \in {Says(q, x) : x \in Params}
  OBVIOUS
<1>3. /\ <<v>> \in Seq({Says(q, x) : x \in Params})
      /\ Len(<<v>>) = 1 /\ <<v>>[1] = v
  BY <1>2
<1> QED
  BY <1>1, <1>3 DEF Delivers

LEMMA DeliversOptional ==
    ASSUME NEW q, NEW b \in BOOLEAN, NEW p \in Params, NEW v, v = Says(q, p)
    PROVE  Delivers(q, Optional(b, p), Optional(b, v), IF b THEN {p} ELSE {})
<1>1. CASE b
  BY <1>1, DeliversOne DEF Optional
<1>2. CASE ~b
  BY <1>2, DeliversNone DEF Optional
<1> QED
  BY <1>1, <1>2

(* What follows what.                                                      *)
LEMMA DeliversBoth ==
    ASSUME NEW q, NEW s1, NEW v1, NEW P1, NEW s2, NEW v2, NEW P2,
           Delivers(q, s1, v1, P1), Delivers(q, s2, v2, P2)
    PROVE  Delivers(q, s1 \o s2, v1 \o v2, P1 \cup P2)
<1> DEFINE V == {Says(q, p) : p \in Params}
           s == s1 \o s2
           v == v1 \o v2
<1>1. /\ s1 \in Seq(Params) /\ s2 \in Seq(Params)
      /\ v1 \in Seq(V) /\ v2 \in Seq(V)
      /\ Len(v1) = Len(s1) /\ Len(v2) = Len(s2)
      /\ \A i \in 1 .. Len(s1) : v1[i] = Says(q, s1[i])
      /\ \A i \in 1 .. Len(s2) : v2[i] = Says(q, s2[i])
      /\ \A p \in P1 : \E i \in 1 .. Len(s1) : s1[i] = p
      /\ \A p \in P2 : \E i \in 1 .. Len(s2) : s2[i] = p
  BY DEF Delivers
<1> HIDE DEF V
<1>2. /\ s \in Seq(Params) /\ Len(s) = Len(s1) + Len(s2)
      /\ \A i \in 1 .. Len(s1) + Len(s2) :
             s[i] = IF i <= Len(s1) THEN s1[i] ELSE s2[i - Len(s1)]
  BY <1>1, ConcatProperties
<1>3. /\ v \in Seq(V) /\ Len(v) = Len(v1) + Len(v2)
      /\ \A i \in 1 .. Len(v1) + Len(v2) :
             v[i] = IF i <= Len(v1) THEN v1[i] ELSE v2[i - Len(v1)]
  BY <1>1, ConcatProperties, ZenonT(60)
<1> HIDE DEF s, v
<1>4. Len(s1) \in Nat /\ Len(s2) \in Nat
  BY <1>1, LenProperties
<1>5. ASSUME NEW i \in 1 .. Len(s) PROVE v[i] = Says(q, s[i])
  <2>1. CASE i <= Len(s1)
    BY <1>1, <1>2, <1>3, <1>4, <2>1
  <2>2. CASE i > Len(s1)
    <3>1. i - Len(s1) \in 1 .. Len(s2)
      BY <1>2, <1>4, <2>2
    <3>2. s[i] = s2[i - Len(s1)]
      BY <1>2, <1>4, <2>2
    <3>3. v[i] = v2[i - Len(s1)]
      BY <1>1, <1>2, <1>3, <1>4, <2>2
    <3> QED
      BY <1>1, <3>1, <3>2, <3>3
  <2> QED
    BY <1>2, <1>4, <2>1, <2>2
<1>6. ASSUME NEW p \in P1 \cup P2 PROVE \E i \in 1 .. Len(s) : s[i] = p
  <2>1. CASE p \in P1
    <3>1. PICK i \in 1 .. Len(s1) : s1[i] = p
      BY <1>1, <2>1
    <3> QED
      BY <1>2, <1>4, <3>1
  <2>2. CASE p \in P2
    <3>1. PICK i \in 1 .. Len(s2) : s2[i] = p
      BY <1>1, <2>2
    <3>2. i + Len(s1) \in 1 .. Len(s) /\ ~(i + Len(s1) <= Len(s1)) /\ i + Len(s1) - Len(s1) = i
      BY <1>2, <1>4
    <3>3. s[i + Len(s1)] = p
      BY <1>2, <3>1, <3>2
    <3> QED
      BY <3>2, <3>3
  <2> QED
    BY <2>1, <2>2
<1>7. Delivers(q, s, v, P1 \cup P2)
  BY <1>1, <1>2, <1>3, <1>5, <1>6 DEF Delivers, V
<1> QED
  BY <1>7 DEF s, v

-----------------------------------------------------------------------------
(* A sequence of two or three sequences, one after the other.              *)
LEMMA FlattenTwo ==
    ASSUME NEW s, Len(s) = 2 PROVE FlattenSeq(s) = s[1] \o s[2]
<1> DEFINE Unrolls(f) == f = [i \in 1 .. 2 |-> IF i = 1 THEN s[i] ELSE f[i - 1] \o s[i]]
<1>1. \E f : Unrolls(f)
  <2> DEFINE f == [i \in 1 .. 2 |-> IF i = 1 THEN s[1] ELSE s[1] \o s[2]]
  <2>1. \A i \in 1 .. 2 : f[i] = IF i = 1 THEN s[i] ELSE f[i - 1] \o s[i]
    OBVIOUS
  <2>2. f = [i \in 1 .. 2 |-> f[i]]
    OBVIOUS
  <2> HIDE DEF f
  <2>3. Unrolls(f)
    BY <2>1, <2>2
  <2> QED
    BY <2>3
<1> DEFINE F == CHOOSE f : Unrolls(f)
<1>2. Unrolls(F)
  BY <1>1, Zenon
<1>3. FlattenSeq(s) = F[2]
  BY DEF FlattenSeq
<1> HIDE DEF F
<1>4. F[1] = s[1] /\ F[2] = F[1] \o s[2]
  BY <1>2
<1> QED
  BY <1>3, <1>4

LEMMA FlattenThree ==
    ASSUME NEW s, Len(s) = 3 PROVE FlattenSeq(s) = (s[1] \o s[2]) \o s[3]
<1> DEFINE Unrolls(f) == f = [i \in 1 .. 3 |-> IF i = 1 THEN s[i] ELSE f[i - 1] \o s[i]]
<1>1. \E f : Unrolls(f)
  <2> DEFINE f == [i \in 1 .. 3 |-> IF i = 1 THEN s[1] ELSE IF i = 2 THEN s[1] \o s[2]
                                    ELSE (s[1] \o s[2]) \o s[3]]
  <2>1. \A i \in 1 .. 3 : f[i] = IF i = 1 THEN s[i] ELSE f[i - 1] \o s[i]
    OBVIOUS
  <2>2. f = [i \in 1 .. 3 |-> f[i]]
    OBVIOUS
  <2> HIDE DEF f
  <2>3. Unrolls(f)
    BY <2>1, <2>2
  <2> QED
    BY <2>3
<1> DEFINE F == CHOOSE f : Unrolls(f)
<1>2. Unrolls(F)
  BY <1>1, Zenon
<1>3. FlattenSeq(s) = F[3]
  BY DEF FlattenSeq
<1> HIDE DEF F
<1>4. \A i \in 1 .. 3 : F[i] = IF i = 1 THEN s[i] ELSE F[i - 1] \o s[i]
  BY <1>2
<1>5. F[1] = s[1] /\ F[2] = F[1] \o s[2]
  BY <1>4
<1>6. F[3] = F[2] \o s[3]
  BY <1>4
<1> QED
  BY <1>3, <1>5, <1>6
-----------------------------------------------------------------------------
(* The dynamic ones of the extents or strides of a memref x.               *)
DynamicDims(x, field, static) ==
    {<<x, field, k>> : k \in {j \in DOMAIN static : IsDynamic(static[j])}}

(* Extents and strides of which only the first, the second or the third    *)
(* may be dynamic.                                                         *)
LEMMA DopeFirst ==
    ASSUME NEW q, NEW x \in {"A", "B", "C"}, NEW f \in {"shape", "stride"}, NEW a, NEW v,
           v = Says(q, <<x, f, 1>>)
    PROVE  Delivers(q, DopeParams(x, f, <<a, 1>>), Optional(IsDynamic(a), v),
                    DynamicDims(x, f, <<a, 1>>))
<1> DEFINE O == Optional(IsDynamic(a), <<x, f, 1>>)
           s == [k \in DOMAIN <<a, 1>> |-> Optional(IsDynamic(<<a, 1>>[k]), <<x, f, k>>)]
<1>1. ~IsDynamic(1) /\ IsDynamic(a) \in BOOLEAN
  BY DynamicAssumption DEF IsDynamic
<1>2. <<x, f, 1>> \in Params
  BY DEF Params
<1>3. Delivers(q, O, Optional(IsDynamic(a), v), IF IsDynamic(a) THEN {<<x, f, 1>>} ELSE {})
  BY <1>1, <1>2, DeliversOptional
<1>4. DopeParams(x, f, <<a, 1>>) = O
  <2>1. Len(s) = 2 /\ s[1] = O /\ s[2] = <<>>
    BY <1>1 DEF Optional
  <2>2. FlattenSeq(s) = O \o <<>>
    <3> HIDE DEF s, O
    <3> QED BY <2>1, FlattenTwo
  <2>3. O \in Seq(Params)
    BY <1>3 DEF Delivers
  <2>4. O \o <<>> = O
    <3> HIDE DEF O
    <3> QED BY <2>3, ConcatEmptySeq
  <2> QED
    BY <2>2, <2>4 DEF DopeParams
<1>5. DynamicDims(x, f, <<a, 1>>) = IF IsDynamic(a) THEN {<<x, f, 1>>} ELSE {}
  BY <1>1 DEF DynamicDims
<1> QED
  BY <1>3, <1>4, <1>5

LEMMA DopeSecond ==
    ASSUME NEW q, NEW x \in {"A", "B", "C"}, NEW f \in {"shape", "stride"}, NEW a, NEW v,
           v = Says(q, <<x, f, 2>>)
    PROVE  Delivers(q, DopeParams(x, f, <<1, a>>), Optional(IsDynamic(a), v),
                    DynamicDims(x, f, <<1, a>>))
<1> DEFINE O == Optional(IsDynamic(a), <<x, f, 2>>)
           s == [k \in DOMAIN <<1, a>> |-> Optional(IsDynamic(<<1, a>>[k]), <<x, f, k>>)]
<1>1. ~IsDynamic(1) /\ IsDynamic(a) \in BOOLEAN
  BY DynamicAssumption DEF IsDynamic
<1>2. <<x, f, 2>> \in Params
  BY DEF Params
<1>3. Delivers(q, O, Optional(IsDynamic(a), v), IF IsDynamic(a) THEN {<<x, f, 2>>} ELSE {})
  BY <1>1, <1>2, DeliversOptional
<1>4. DopeParams(x, f, <<1, a>>) = O
  <2>1. Len(s) = 2 /\ s[1] = <<>> /\ s[2] = O
    BY <1>1 DEF Optional
  <2>2. FlattenSeq(s) = <<>> \o O
    <3> HIDE DEF s, O
    <3> QED BY <2>1, FlattenTwo
  <2>3. O \in Seq(Params)
    BY <1>3 DEF Delivers
  <2>4. <<>> \o O = O
    <3> HIDE DEF O
    <3> QED BY <2>3, ConcatEmptySeq
  <2> QED
    BY <2>2, <2>4 DEF DopeParams
<1>5. DynamicDims(x, f, <<1, a>>) = IF IsDynamic(a) THEN {<<x, f, 2>>} ELSE {}
  BY <1>1 DEF DynamicDims
<1> QED
  BY <1>3, <1>4, <1>5

LEMMA DopeThird ==
    ASSUME NEW q, NEW x \in {"A", "B", "C"}, NEW f \in {"shape", "stride"}, NEW a, NEW v,
           v = Says(q, <<x, f, 3>>)
    PROVE  Delivers(q, DopeParams(x, f, <<1, 1, a>>), Optional(IsDynamic(a), v),
                    DynamicDims(x, f, <<1, 1, a>>))
<1> DEFINE O == Optional(IsDynamic(a), <<x, f, 3>>)
           s == [k \in DOMAIN <<1, 1, a>> |-> Optional(IsDynamic(<<1, 1, a>>[k]), <<x, f, k>>)]
<1>1. ~IsDynamic(1) /\ IsDynamic(a) \in BOOLEAN
  BY DynamicAssumption DEF IsDynamic
<1>2. <<x, f, 3>> \in Params
  BY DEF Params
<1>3. Delivers(q, O, Optional(IsDynamic(a), v), IF IsDynamic(a) THEN {<<x, f, 3>>} ELSE {})
  BY <1>1, <1>2, DeliversOptional
<1>4. DopeParams(x, f, <<1, 1, a>>) = O
  <2>1. Len(s) = 3 /\ s[1] = <<>> /\ s[2] = <<>> /\ s[3] = O
    BY <1>1 DEF Optional
  <2>2. FlattenSeq(s) = (<<>> \o <<>>) \o O
    <3> HIDE DEF s, O
    <3> QED BY <2>1, FlattenThree
  <2>3. O \in Seq(Params) /\ <<>> \in Seq(Params)
    BY <1>3 DEF Delivers
  <2>4. (<<>> \o <<>>) \o O = O
    <3> HIDE DEF O
    <3> QED BY <2>3, ConcatEmptySeq
  <2> QED
    BY <2>2, <2>4 DEF DopeParams
<1>5. DynamicDims(x, f, <<1, 1, a>>) = IF IsDynamic(a) THEN {<<x, f, 3>>} ELSE {}
  BY <1>1 DEF DynamicDims
<1> QED
  BY <1>3, <1>4, <1>5

-----------------------------------------------------------------------------
(* What a memref of a kernel needs: its pointer and what is dynamic.       *)
Needs(x, ty) ==
    ({<<x>>} \cup DynamicDims(x, "shape", ty.shape)) \cup DynamicDims(x, "stride", ty.stride)

LEMMA MemrefDelivers ==
    ASSUME NEW q, NEW x \in {"A", "B", "C"}, NEW shape, NEW stride, NEW v1, NEW v2,
           Delivers(q, DopeParams(x, "shape", shape), v1, DynamicDims(x, "shape", shape)),
           Delivers(q, DopeParams(x, "stride", stride), v2, DynamicDims(x, "stride", stride))
    PROVE  LET ty == [shape |-> shape, stride |-> stride]
           IN  Delivers(q, MemrefParams(x, ty), (<<q[x]>> \o v1) \o v2, Needs(x, ty))
<1> DEFINE S1 == DopeParams(x, "shape", shape)
           S2 == DopeParams(x, "stride", stride)
           P1 == DynamicDims(x, "shape", shape)
           P2 == DynamicDims(x, "stride", stride)
           ty == [shape |-> shape, stride |-> stride]
<1>1. <<x>> \in Params /\ q[x] = Says(q, <<x>>)
  BY DEF Params, Names, Says
<1>2. Delivers(q, <<<<x>>>>, <<q[x]>>, {<<x>>})
  BY <1>1, DeliversOne
<1>3. /\ MemrefParams(x, ty) = (<<<<x>>>> \o S1) \o S2
      /\ Needs(x, ty) = ({<<x>>} \cup P1) \cup P2
  BY DEF MemrefParams, Needs
<1> HIDE DEF S1, S2, P1, P2, ty
<1>4. Delivers(q, <<<<x>>>> \o S1, <<q[x]>> \o v1, {<<x>>} \cup P1)
  BY <1>2, DeliversBoth DEF S1, P1
<1>5. Delivers(q, (<<<<x>>>> \o S1) \o S2, (<<q[x]>> \o v1) \o v2, ({<<x>>} \cup P1) \cup P2)
  BY <1>4, DeliversBoth DEF S2, P2
<1> QED
  BY <1>3, <1>5 DEF ty

(* The parameters and arguments of a memref, for either recipe.            *)
LEMMA ArgumentsDeliver ==
    ASSUME NEW r \in Recipes, NEW q, NEW x \in {"A", "B", "C"}
    PROVE  Delivers(q, MemrefParams(x, Memrefs(r)[x]), MemrefArguments(r, q, x),
                    Needs(x, Memrefs(r)[x]))
<1> DEFINE tyOf(a, b) == [shape |-> a, stride |-> b]
<1>1. ~IsDynamic(1)
  BY DynamicAssumption DEF IsDynamic
<1>2. \A v : /\ <<v>> \o <<>> = <<v>>
             /\ \A w : <<v>> \o <<w>> = <<v, w>>
  <2> TAKE v
  <2>1. <<v>> \in Seq({v})
    OBVIOUS
  <2>2. <<v>> \o <<>> = <<v>>
    BY <2>1, ConcatEmptySeq
  <2>3. ASSUME NEW w PROVE <<v>> \o <<w>> = <<v, w>>
    <3> DEFINE a == <<v>>
               b == <<w>>
               c == <<v, w>>
               h == a \o b
    <3>1. /\ a \in Seq({v, w}) /\ Len(a) = 1 /\ a[1] = v
          /\ b \in Seq({v, w}) /\ Len(b) = 1 /\ b[1] = w
          /\ c \in Seq({v, w}) /\ Len(c) = 2 /\ c[1] = v /\ c[2] = w
      OBVIOUS
    <3> HIDE DEF a, b, c
    <3>2. /\ h \in Seq({v, w}) /\ Len(h) = Len(a) + Len(b)
          /\ \A i \in 1 .. Len(a) + Len(b) :
                 h[i] = IF i <= Len(a) THEN a[i] ELSE b[i - Len(a)]
      BY <3>1, ConcatProperties
    <3> HIDE DEF h
    <3>3. h[1] = v /\ h[2] = w /\ Len(h) = Len(c)
      BY <3>1, <3>2
    <3>4. \A i \in 1 .. Len(h) : h[i] = c[i]
      BY <3>1, <3>2, <3>3
    <3>5. h = c
      BY <3>1, <3>2, <3>3, <3>4, SeqEqual
    <3> QED BY <3>5 DEF h, a, b, c
  <2> QED BY <2>2, <2>3
<1>3. CASE r.kind = "small_gemm_batched"
  <2>1. Memrefs(r)[x] = [shape |-> <<1, 1, Dynamic>>, stride |-> <<1, 1, 1>>]
    BY <1>3 DEF Memrefs
  <2>2. /\ q.M = Says(q, <<x, "shape", 3>>)
        /\ Says(q, <<x, "stride", 3>>) = Says(q, <<x, "stride", 3>>)
    BY DEF Says
  <2>3. Delivers(q, DopeParams(x, "shape", <<1, 1, Dynamic>>), <<q.M>>,
                 DynamicDims(x, "shape", <<1, 1, Dynamic>>))
    BY <2>2, DopeThird DEF Optional, IsDynamic
  <2>4. Delivers(q, DopeParams(x, "stride", <<1, 1, 1>>), <<>>,
                 DynamicDims(x, "stride", <<1, 1, 1>>))
    BY <1>1, <2>2, DopeThird DEF Optional
  <2>5. (<<q[x]>> \o <<q.M>>) \o <<>> = MemrefArguments(r, q, x)
    <3>1. <<q[x], q.M>> \in Seq({q[x], q.M})
      OBVIOUS
    <3>2. <<q[x], q.M>> \o <<>> = <<q[x], q.M>>
      BY <3>1, ConcatEmptySeq
    <3> QED
      BY <1>2, <1>3, <3>2 DEF MemrefArguments
  <2> QED
    BY <2>1, <2>3, <2>4, <2>5, MemrefDelivers
<1>4. CASE r.kind = "tall_and_skinny"
  <2>1. /\ q.M = Says(q, <<x, "shape", 1>>)
        /\ LeadingDim(q, x) = Says(q, <<x, "stride", 2>>)
    BY DEF Says
  <2>2. CASE x = "A"
    <3>1. Memrefs(r)[x] = [shape |-> <<r.M, 1>>, stride |-> <<1, r.ldA>>]
      BY <1>4, <2>2 DEF Memrefs
    <3>2. Delivers(q, DopeParams(x, "shape", <<r.M, 1>>), Optional(IsDynamic(r.M), q.M),
                   DynamicDims(x, "shape", <<r.M, 1>>))
      BY <2>1, DopeFirst
    <3>3. LeadingDim(q, x) = q.ldA
      BY <2>2 DEF LeadingDim
    <3>4. Delivers(q, DopeParams(x, "stride", <<1, r.ldA>>), Optional(IsDynamic(r.ldA), q.ldA),
                   DynamicDims(x, "stride", <<1, r.ldA>>))
      BY <2>1, <3>3, DopeSecond
    <3>5. MemrefArguments(r, q, x)
              = (<<q[x]>> \o Optional(IsDynamic(r.M), q.M)) \o Optional(IsDynamic(r.ldA), q.ldA)
      BY <1>4, <2>2 DEF MemrefArguments
    <3> QED
      BY <3>1, <3>2, <3>4, <3>5, MemrefDelivers
  <2>3. CASE x = "B"
    <3>1. Memrefs(r)[x] = [shape |-> <<1, 1>>, stride |-> <<1, r.ldB>>]
      BY <1>4, <2>3 DEF Memrefs
    <3>2. Delivers(q, DopeParams(x, "shape", <<1, 1>>), <<>>, DynamicDims(x, "shape", <<1, 1>>))
      BY <1>1, <2>1, DopeFirst DEF Optional
    <3>3. LeadingDim(q, x) = q.ldB
      BY <2>3 DEF LeadingDim
    <3>4. Delivers(q, DopeParams(x, "stride", <<1, r.ldB>>), Optional(IsDynamic(r.ldB), q.ldB),
                   DynamicDims(x, "stride", <<1, r.ldB>>))
      BY <2>1, <3>3, DopeSecond
    <3>5. MemrefArguments(r, q, x) = (<<q[x]>> \o <<>>) \o Optional(IsDynamic(r.ldB), q.ldB)
      BY <1>2, <1>4, <2>3 DEF MemrefArguments
    <3> QED
      BY <3>1, <3>2, <3>4, <3>5, MemrefDelivers
  <2>4. CASE x = "C"
    <3>1. Memrefs(r)[x] = [shape |-> <<r.M, 1>>, stride |-> <<1, r.ldC>>]
      BY <1>4, <2>4 DEF Memrefs
    <3>2. Delivers(q, DopeParams(x, "shape", <<r.M, 1>>), Optional(IsDynamic(r.M), q.M),
                   DynamicDims(x, "shape", <<r.M, 1>>))
      BY <2>1, DopeFirst
    <3>3. LeadingDim(q, x) = q.ldC
      BY <2>4 DEF LeadingDim
    <3>4. Delivers(q, DopeParams(x, "stride", <<1, r.ldC>>), Optional(IsDynamic(r.ldC), q.ldC),
                   DynamicDims(x, "stride", <<1, r.ldC>>))
      BY <2>1, <3>3, DopeSecond
    <3>5. MemrefArguments(r, q, x)
              = (<<q[x]>> \o Optional(IsDynamic(r.M), q.M)) \o Optional(IsDynamic(r.ldC), q.ldC)
      BY <1>4, <2>4 DEF MemrefArguments
    <3> QED
      BY <3>1, <3>2, <3>4, <3>5, MemrefDelivers
  <2> QED
    BY <2>2, <2>3, <2>4
<1> QED
  BY <1>3, <1>4, RecipesAssumption

(* All parameters and arguments.                                           *)
AllNeeds(r) ==
    ((({<<"alpha">>} \cup Needs("A", Memrefs(r)["A"])) \cup Needs("B", Memrefs(r)["B"]))
        \cup {<<"beta">>}) \cup Needs("C", Memrefs(r)["C"])

LEMMA SignatureDelivers ==
    ASSUME NEW r \in Recipes, NEW q
    PROVE  Delivers(q, Signature(r), Arguments(r, q), AllNeeds(r))
<1> DEFINE s(x) == MemrefParams(x, Memrefs(r)[x])
           v(x) == MemrefArguments(r, q, x)
           n(x) == Needs(x, Memrefs(r)[x])
           s1 == s("A")
           v1 == v("A")
           n1 == n("A")
           s2 == s("B")
           v2 == v("B")
           n2 == n("B")
           s3 == s("C")
           v3 == v("C")
           n3 == n("C")
<1>1. /\ Delivers(q, s1, v1, n1)
      /\ Delivers(q, s2, v2, n2)
      /\ Delivers(q, s3, v3, n3)
  BY ArgumentsDeliver
<1>2. /\ <<"alpha">> \in Params /\ q.alpha = Says(q, <<"alpha">>)
      /\ <<"beta">> \in Params /\ q.beta = Says(q, <<"beta">>)
  BY DEF Params, Names, Says
<1>3. /\ Delivers(q, <<<<"alpha">>>>, <<q.alpha>>, {<<"alpha">>})
      /\ Delivers(q, <<<<"beta">>>>, <<q.beta>>, {<<"beta">>})
  BY <1>2, DeliversOne
<1>4. /\ Signature(r) = (((<<<<"alpha">>>> \o s1) \o s2) \o <<<<"beta">>>>) \o s3
      /\ Arguments(r, q) = (((<<q.alpha>> \o v1) \o v2) \o <<q.beta>>) \o v3
      /\ AllNeeds(r) = ((({<<"alpha">>} \cup n1) \cup n2) \cup {<<"beta">>}) \cup n3
  BY DEF Signature, Arguments, AllNeeds
<1> HIDE DEF s1, s2, s3, v1, v2, v3, n1, n2, n3
<1>5. Delivers(q, <<<<"alpha">>>> \o s1, <<q.alpha>> \o v1, {<<"alpha">>} \cup n1)
  BY <1>1, <1>3, DeliversBoth
<1>6. Delivers(q, (<<<<"alpha">>>> \o s1) \o s2, (<<q.alpha>> \o v1) \o v2,
               ({<<"alpha">>} \cup n1) \cup n2)
  BY <1>1, <1>5, DeliversBoth
<1>7. Delivers(q, ((<<<<"alpha">>>> \o s1) \o s2) \o <<<<"beta">>>>,
               ((<<q.alpha>> \o v1) \o v2) \o <<q.beta>>,
               (({<<"alpha">>} \cup n1) \cup n2) \cup {<<"beta">>})
  BY <1>3, <1>6, DeliversBoth
<1>8. Delivers(q, (((<<<<"alpha">>>> \o s1) \o s2) \o <<<<"beta">>>>) \o s3,
               (((<<q.alpha>> \o v1) \o v2) \o <<q.beta>>) \o v3,
               ((({<<"alpha">>} \cup n1) \cup n2) \cup {<<"beta">>}) \cup n3)
  BY <1>1, <1>7, DeliversBoth
<1> QED
  BY <1>4, <1>8

-----------------------------------------------------------------------------
(* The kernel reads what was asked for.                                    *)
LEMMA ParamFacts ==
    ASSUME NEW q, recipe \in Recipes, args[active_kernel] = Arguments(recipe, q)
    PROVE  \A p \in AllNeeds(recipe) : Param(p) = Says(q, p)
<1> TAKE p \in AllNeeds(recipe)
<1> DEFINE sig == Signature(recipe)
           vals == Arguments(recipe, q)
           i == CHOOSE n \in DOMAIN sig : sig[n] = p
<1>1. Delivers(q, sig, vals, AllNeeds(recipe))
  BY SignatureDelivers
<1>2. /\ sig \in Seq(Params)
      /\ \A n \in 1 .. Len(sig) : vals[n] = Says(q, sig[n])
      /\ \E n \in 1 .. Len(sig) : sig[n] = p
  BY <1>1 DEF Delivers
<1>3. Param(p) = vals[i]
  BY DEF Param
<1>4. DOMAIN sig = 1 .. Len(sig)
  BY <1>2, LenProperties
<1> HIDE DEF sig, vals
<1>5. i \in 1 .. Len(sig) /\ sig[i] = p
  BY <1>2, <1>4
<1> HIDE DEF i
<1> QED
  BY <1>2, <1>3, <1>5

LEMMA DopeFacts ==
    ASSUME NEW q, recipe \in Recipes, args[active_kernel] = Arguments(recipe, q),
           NEW x \in {"A", "B", "C"}, NEW f \in {"shape", "stride"},
           NEW k \in DOMAIN Memrefs(recipe)[x][f]
    PROVE  Dope(x, f, k) = IF IsDynamic(Memrefs(recipe)[x][f][k]) THEN Says(q, <<x, f, k>>)
                           ELSE Memrefs(recipe)[x][f][k]
<1>1. CASE IsDynamic(Memrefs(recipe)[x][f][k])
  <2>1. <<x, f, k>> \in DynamicDims(x, f, Memrefs(recipe)[x][f])
    BY <1>1 DEF DynamicDims
  <2>2. <<x, f, k>> \in Needs(x, Memrefs(recipe)[x])
    BY <2>1 DEF Needs
  <2>3. <<x, f, k>> \in AllNeeds(recipe)
    BY <2>2 DEF AllNeeds
  <2> QED
    BY <1>1, <2>3, ParamFacts DEF Dope
<1> QED
  BY <1>1 DEF Dope

LEMMA ReadsWhatIsAsked ==
    ASSUME NEW q, recipe \in Recipes, active_kernel = Select(q),
           args[active_kernel] = Arguments(recipe, q)
    PROVE  Reads = Asks(recipe, q)
<1> DEFINE mem == Memrefs(recipe)
           view(x) == [ptr |-> Param(<<x>>),
                       shape |-> [k \in DOMAIN mem[x].shape |-> Dope(x, "shape", k)],
                       stride |-> [k \in DOMAIN mem[x].stride |-> Dope(x, "stride", k)]]
           asks == Asks(recipe, q)
<1>1. /\ \A x \in {"A", "B", "C"} : Param(<<x>>) = q[x]
      /\ Param(<<"alpha">>) = q.alpha
      /\ Param(<<"beta">>) = q.beta
  <2>1. \A x \in {"alpha", "beta", "A", "B", "C"} : <<x>> \in AllNeeds(recipe)
    BY DEF AllNeeds, Needs
  <2>2. \A x \in {"alpha", "beta", "A", "B", "C"} : Says(q, <<x>>) = q[x]
    BY DEF Says
  <2> QED
    BY <2>1, <2>2, ParamFacts
<1>2. ~IsDynamic(1)
  BY DynamicAssumption DEF IsDynamic
<1>3. DOMAIN mem = {"A", "B", "C"}
  BY RecipesAssumption DEF Memrefs
<1>4. ASSUME recipe.kind = "small_gemm_batched", NEW x \in {"A", "B", "C"}
      PROVE  view(x) = asks.memrefs[x]
  <2>1. mem[x] = [shape |-> <<1, 1, Dynamic>>, stride |-> <<1, 1, 1>>]
    BY <1>4 DEF Memrefs
  <2>2. /\ Dope(x, "shape", 1) = 1 /\ Dope(x, "shape", 2) = 1 /\ Dope(x, "shape", 3) = q.M
        /\ \A k \in 1 .. 3 : Dope(x, "stride", k) = 1
    BY <1>2, <2>1, DopeFacts DEF IsDynamic, Says
  <2>3. [k \in DOMAIN mem[x].shape |-> Dope(x, "shape", k)] = <<1, 1, q.M>>
    BY <2>1, <2>2
  <2>4. [k \in DOMAIN mem[x].stride |-> Dope(x, "stride", k)] = <<1, 1, 1>>
    BY <2>1, <2>2
  <2>5. asks.memrefs[x] = [ptr |-> q[x], shape |-> <<1, 1, q.M>>, stride |-> <<1, 1, 1>>]
    BY <1>4 DEF Asks
  <2> QED
    BY <1>1, <2>3, <2>4, <2>5
<1>5. ASSUME recipe.kind = "tall_and_skinny", NEW x \in {"A", "B", "C"}
      PROVE  view(x) = asks.memrefs[x]
  <2> DEFINE ld == CASE x = "A" -> recipe.ldA [] x = "B" -> recipe.ldB [] x = "C" -> recipe.ldC
             m == IF x = "B" THEN 1 ELSE Fixed(recipe.M, q.M)
             l == Fixed(ld, LeadingDim(q, x))
  <2>1. mem[x] = [shape |-> <<IF x = "B" THEN 1 ELSE recipe.M, 1>>, stride |-> <<1, ld>>]
    BY <1>5 DEF Memrefs
  <2>2. Dope(x, "shape", 1) = m /\ Dope(x, "shape", 2) = 1
    BY <1>2, <2>1, DopeFacts DEF IsDynamic, Says, Fixed
  <2>3. Dope(x, "stride", 1) = 1 /\ Dope(x, "stride", 2) = l
    BY <1>2, <2>1, DopeFacts DEF IsDynamic, Says, Fixed
  <2>4. [k \in DOMAIN mem[x].shape |-> Dope(x, "shape", k)] = <<m, 1>>
    BY <2>1, <2>2
  <2>5. [k \in DOMAIN mem[x].stride |-> Dope(x, "stride", k)] = <<1, l>>
    BY <2>1, <2>3
  <2>6. asks.memrefs[x] = [ptr |-> q[x], shape |-> <<m, 1>>, stride |-> <<1, l>>]
    BY <1>5 DEF Asks, LeadingDim
  <2> QED
    BY <1>1, <2>4, <2>5, <2>6
<1>6. \A x \in {"A", "B", "C"} : view(x) = asks.memrefs[x]
  BY <1>4, <1>5, RecipesAssumption
<1>7. [x \in DOMAIN mem |-> view(x)] = asks.memrefs
  <2>1. asks.memrefs = [x \in {"A", "B", "C"} |-> asks.memrefs[x]]
    BY DEF Asks
  <2> QED
    BY <1>3, <1>6, <2>1
<1>8. Reads.memrefs = asks.memrefs
  BY <1>7 DEF Reads
<1>9. Reads.alpha = asks.alpha /\ Reads.beta = asks.beta
  BY <1>1 DEF Reads, Asks, Select
<1> QED
  BY <1>8, <1>9 DEF Reads, Asks

-----------------------------------------------------------------------------
(* What groups update. *)

(* Every row is updated once, and nothing else is.                         *)
EveryRowOnce(updates, rows) ==
    /\ \A row \in rows : Cardinality({g \in DOMAIN updates : row \in updates[g]}) = 1
    /\ \A g \in DOMAIN updates : updates[g] \subseteq rows

(* A multiple of b is at least b away from the next.                       *)
LEMMA MultiplesApart ==
    ASSUME NEW b \in Nat \ {0}, NEW x \in Nat, NEW y \in Nat, x < y
    PROVE  x * b + b <= y * b
<1>1. /\ y = (x + 1) + (y - x - 1) /\ y - x - 1 \in Nat
      /\ ((x + 1) + (y - x - 1)) * b = (x + 1) * b + (y - x - 1) * b
      /\ (y - x - 1) * b >= 0
  OBVIOUS
<1>2. (x + 1) * b = x * b + b
  OBVIOUS
<1>3. y * b = (x * b + b) + (y - x - 1) * b
  BY <1>1, <1>2
<1>4. x * b \in Nat /\ y * b \in Nat /\ (y - x - 1) * b \in Nat
  BY <1>1
<1> QED
  BY <1>1, <1>3, <1>4

(* Blocks of b rows: the groups are one more than the last row is in       *)
(* blocks, and the last block ends with the rows.                          *)
BlockLength(M, b, g) == IF M - g * b >= b THEN b ELSE M - g * b

Covers(M, b, num) ==
    /\ num \in Nat
    /\ \A g \in 0 .. num - 1 :
           /\ g * b \in Nat /\ BlockLength(M, b, g) \in Nat
           /\ g * b + BlockLength(M, b, g) <= M
    /\ \A row \in 0 .. M - 1 : \E g \in 0 .. num - 1 : \A h \in 0 .. num - 1 :
           (row >= h * b /\ row < h * b + BlockLength(M, b, h)) <=> h = g
    /\ M > 0 /\ M % b = 0 => \A g \in 0 .. num - 1 : BlockLength(M, b, g) = b

LEMMA BlocksCover ==
    ASSUME NEW M \in Nat, NEW b \in Nat \ {0}, NEW num, num = 1 + Quotient(M - 1, b)
    PROVE  Covers(M, b, num)
<1> DEFINE L(g) == BlockLength(M, b, g)
<1>1. CASE M = 0
  <2>1. 1 \div b \in {0, 1}
    <3>1. CASE b = 1
      BY <3>1
    <3>2. CASE b > 1
      BY <3>2
    <3> QED
      BY <3>1, <3>2
  <2>2. num \in {0, 1}
    BY <1>1, <2>1 DEF Quotient
  <2>3. 0 .. M - 1 = {}
    BY <1>1
  <2>4. ASSUME NEW g \in 0 .. num - 1 PROVE g * b = 0 /\ L(g) = 0
    <3>1. g = 0
      BY <2>2
    <3>2. g * b = 0
      BY <3>1
    <3> QED
      BY <1>1, <3>2 DEF BlockLength
  <2> QED
    BY <1>1, <2>2, <2>3, <2>4 DEF Covers
<1>2. CASE M > 0
  <2> DEFINE q == (M - 1) \div b
             r == (M - 1) % b
  <2>1. q \in Nat /\ r \in 0 .. b - 1 /\ M - 1 = q * b + r
    BY <1>2
  <2>2. num = q + 1
    BY <1>2 DEF Quotient
  <2> HIDE DEF q, r
  <2>3. ASSUME NEW g \in 0 .. q PROVE g * b \in Nat /\ g * b <= M - 1
    <3>1. g * b \in Nat /\ q * b \in Nat
      BY <2>1
    <3>2. CASE g = q
      BY <2>1, <3>1, <3>2
    <3>3. CASE g < q
      <4>1. g * b + b <= q * b
        BY <2>1, <3>3, MultiplesApart
      <4> QED
        BY <2>1, <3>1, <4>1
    <3> QED
      BY <2>1, <3>2, <3>3
  <2>4. ASSUME M % b = 0, NEW g \in 0 .. q PROVE L(g) = b
    <3> DEFINE m == M \div b
    <3>1. m \in Nat /\ M = m * b
      BY <2>4
    <3> HIDE DEF m
    <3>2. g < m
      <4>1. CASE g = m
        BY <2>3, <3>1, <4>1
      <4>2. CASE m < g
        <5>1. m * b + b <= g * b
          BY <2>1, <3>1, <4>2, MultiplesApart
        <5> QED
          BY <2>3, <3>1, <5>1
      <4> QED
        BY <2>1, <3>1, <4>1, <4>2
    <3>3. g * b + b <= m * b
      BY <2>1, <3>1, <3>2, MultiplesApart
    <3> QED
      BY <2>3, <3>1, <3>3 DEF BlockLength
  <2>5. ASSUME NEW g \in 0 .. q
        PROVE  L(g) \in Nat /\ g * b + L(g) <= M
    BY <2>3 DEF BlockLength
  <2>6. ASSUME NEW row \in 0 .. M - 1
        PROVE  \E g \in 0 .. q : \A h \in 0 .. q :
                   (row >= h * b /\ row < h * b + L(h)) <=> h = g
    <3> DEFINE g == row \div b
               s == row % b
    <3>1. g \in Nat /\ s \in 0 .. b - 1 /\ row = g * b + s
      OBVIOUS
    <3> HIDE DEF g, s
    <3>2. g * b \in Nat
      BY <3>1
    <3>3. g \in 0 .. q
      <4>1. ASSUME q < g PROVE FALSE
        <5>1. q * b + b <= g * b
          BY <2>1, <3>1, <4>1, MultiplesApart
        <5>2. q * b \in Nat
          BY <2>1
        <5> QED
          BY <2>1, <3>1, <3>2, <5>1, <5>2
      <4> QED
        BY <2>1, <3>1, <4>1
    <3>4. row >= g * b /\ row < g * b + L(g)
      BY <2>3, <3>1, <3>2, <3>3 DEF BlockLength
    <3>5. ASSUME NEW h \in 0 .. q, row >= h * b, row < h * b + L(h) PROVE h = g
      <4>1. h * b \in Nat /\ L(h) <= b /\ L(h) \in Nat
        BY <2>3, <2>5 DEF BlockLength
      <4>2. CASE h < g
        <5>1. h * b + b <= g * b
          BY <2>1, <3>1, <4>2, MultiplesApart
        <5> QED
          BY <3>1, <3>2, <3>5, <4>1, <5>1
      <4>3. CASE g < h
        <5>1. g * b + b <= h * b
          BY <2>1, <3>1, <4>3, MultiplesApart
        <5> QED
          BY <3>1, <3>2, <3>5, <4>1, <5>1
      <4> QED
        BY <2>1, <3>1, <4>2, <4>3
    <3> QED
      BY <3>3, <3>4, <3>5
  <2>7. num \in Nat /\ 0 .. num - 1 = 0 .. q
    BY <2>1, <2>2
  <2>8. \A g \in 0 .. q : g * b \in Nat /\ L(g) \in Nat /\ g * b + L(g) <= M
    BY <2>3, <2>5
  <2> HIDE DEF L
  <2>9. \A g \in 0 .. num - 1 : g * b \in Nat /\ L(g) \in Nat /\ g * b + L(g) <= M
    BY <2>7, <2>8
  <2>10. ASSUME NEW row \in 0 .. M - 1
         PROVE  \E g \in 0 .. num - 1 : \A h \in 0 .. num - 1 :
                    (row >= h * b /\ row < h * b + L(h)) <=> h = g
    <3>1. PICK g \in 0 .. q : \A h \in 0 .. q :
              (row >= h * b /\ row < h * b + L(h)) <=> h = g
      BY <2>6
    <3>2. g \in 0 .. num - 1 /\ \A h \in 0 .. num - 1 : h \in 0 .. q
      BY <2>7
    <3> QED
      BY <3>1, <3>2
  <2> QED
    BY <2>4, <2>7, <2>9, <2>10 DEF L, Covers
<1> QED
  BY <1>1, <1>2

(* However the runtime states the range, it launches as many groups.       *)
LEMMA GroupsFacts ==
    ASSUME NEW num \in Nat, runtime \in Runtimes, local_size \in LocalSizes,
           active_kernel \in Kernels, range = RangeOf(active_kernel, num)
    PROVE  Groups = num
<1> DEFINE size == local_size[active_kernel]
<1>1. size \in Nat \ {0}
  BY LocalSizesAssumption DEF Kernels
<1>2. runtime \in {"cl", "ze", "sycl"}
  BY RuntimesAssumption
<1>3. (num * size) \div size = num
  <2> HIDE DEF size
  <2> DEFINE n == num * size
             d == n \div size
             e == n % size
  <2>1. n \in Nat
    BY <1>1
  <2>2. d \in Nat /\ e \in 0 .. size - 1 /\ n = d * size + e
    <3> HIDE DEF n
    <3> QED BY <1>1, <2>1
  <2> HIDE DEF d, e
  <2>3. d * size \in Nat
    BY <1>1, <2>2
  <2>4. ~(d < num)
    <3>1. ASSUME d < num PROVE d * size + size <= num * size
      BY <1>1, <2>2, <3>1, MultiplesApart
    <3> HIDE DEF n
    <3>2. num * size = n
      BY DEF n
    <3> QED BY <1>1, <2>1, <2>2, <2>3, <3>1, <3>2
  <2>5. ~(num < d)
    <3>1. ASSUME num < d PROVE num * size + size <= d * size
      BY <1>1, <2>2, <3>1, MultiplesApart
    <3>2. num * size = n
      BY DEF n
    <3> HIDE DEF n
    <3> QED BY <1>1, <2>1, <2>2, <2>3, <3>1, <3>2
  <2>6. d = num
    BY <2>2, <2>4, <2>5
  <2> QED
    BY <2>6 DEF d, n
<1>4. CASE runtime = "cl"
  BY <1>3, <1>4 DEF Groups, RangeOf
<1>5. CASE runtime = "ze"
  BY <1>5 DEF Groups, RangeOf
<1>6. CASE runtime = "sycl"
  BY <1>3, <1>6 DEF Groups, RangeOf
<1> QED
  BY <1>2, <1>4, <1>5, <1>6

LEMMA UpdatesCover ==
    ASSUME CallersRepeatM, runtime \in Runtimes, recipe \in Recipes, local_size \in LocalSizes,
           active_kernel \in Kernels, NEW q \in Requests, Legal(recipe, q),
           args[active_kernel] = Arguments(recipe, q),
           range = RangeOf(active_kernel, HowMany(recipe, q))
    PROVE  EveryRowOnce([gid \in 0 .. Groups - 1 |-> Rows(gid)], RowsAsked(recipe, q))
<1> DEFINE updates == [gid \in 0 .. Groups - 1 |-> Rows(gid)]
           rows == RowsAsked(recipe, q)
           num == HowMany(recipe, q)
<1>1. q.M \in Nat
  BY RequestsAssumption
<1>2. ASSUME NEW row, NEW I, NEW g \in I, \A h \in I : row \in Rows(h) <=> h = g
      PROVE  Cardinality({h \in I : row \in Rows(h)}) = 1
  <2>1. {h \in I : row \in Rows(h)} = {g}
    BY <1>2
  <2> QED
    BY <2>1, FS_Singleton
<1>3. ASSUME \A row \in rows : Cardinality({g \in 0 .. Groups - 1 : row \in Rows(g)}) = 1,
             \A g \in 0 .. Groups - 1 : Rows(g) \subseteq rows
      PROVE  EveryRowOnce(updates, rows)
  <2>1. DOMAIN updates = 0 .. Groups - 1 /\ \A g \in 0 .. Groups - 1 : updates[g] = Rows(g)
    OBVIOUS
  <2> HIDE DEF updates, rows
  <2>2. ASSUME NEW row \in rows
        PROVE  Cardinality({g \in DOMAIN updates : row \in updates[g]}) = 1
    <3>1. {g \in DOMAIN updates : row \in updates[g]}
              = {g \in 0 .. Groups - 1 : row \in Rows(g)}
      BY <2>1
    <3> QED
      BY <1>3, <3>1
  <2>3. \A g \in DOMAIN updates : updates[g] \subseteq rows
    BY <1>3, <2>1
  <2> QED
    BY <2>2, <2>3 DEF EveryRowOnce
<1>4. CASE recipe.kind = "small_gemm_batched"
  <2>1. num = q.M /\ rows = 0 .. q.M - 1 /\ \A g : Rows(g) = {g}
    BY <1>4 DEF HowMany, RowsAsked, Rows
  <2>2. Groups = q.M
    BY <1>1, <2>1, GroupsFacts
  <2>3. \A row \in rows : Cardinality({g \in 0 .. Groups - 1 : row \in Rows(g)}) = 1
    <3> TAKE row \in rows
    <3>1. row \in 0 .. Groups - 1 /\ \A h \in 0 .. Groups - 1 : row \in Rows(h) <=> h = row
      BY <2>1, <2>2
    <3> QED
      BY <1>2, <3>1
  <2>4. \A g \in 0 .. Groups - 1 : Rows(g) \subseteq rows
    BY <2>1, <2>2
  <2> QED
    BY <1>3, <2>3, <2>4
<1>5. CASE recipe.kind = "tall_and_skinny"
  <2> DEFINE b == recipe.M_block_size
             whole == ~IsDynamic(recipe.M) /\ recipe.M % b = 0
             L(g) == BlockLength(q.M, b, g)
  <2>1. /\ b \in Nat \ {0}
        /\ recipe.M = Dynamic \/ (recipe.M \in Nat \ {0} /\ recipe.M = q.M)
    BY <1>5, RecipesAssumption DEF Legal, IsDynamic
  <2>2. whole => q.M > 0 /\ q.M % b = 0
    BY <2>1 DEF IsDynamic
  <2>3. Fixed(recipe.M, q.M) = q.M
    BY <2>1 DEF Fixed, IsDynamic
  <2>4. Dope("C", "shape", 1) = q.M
    <3>1. Memrefs(recipe)["C"]["shape"] = <<recipe.M, 1>>
      BY <1>5 DEF Memrefs
    <3>2. Says(q, <<"C", "shape", 1>>) = q.M
      BY DEF Says
    <3>3. Dope("C", "shape", 1) = IF IsDynamic(recipe.M) THEN q.M ELSE recipe.M
      BY <3>1, <3>2, DopeFacts
    <3> QED
      BY <2>1, <3>3 DEF IsDynamic
  <2>5. num = 1 + Quotient(q.M - 1, b) /\ rows = 0 .. q.M - 1
    BY <1>5, <2>3 DEF HowMany, RowsAsked
  <2>6. /\ num \in Nat
        /\ \A g \in 0 .. num - 1 : g * b \in Nat /\ L(g) \in Nat /\ g * b + L(g) <= q.M
        /\ \A row \in 0 .. q.M - 1 : \E g \in 0 .. num - 1 : \A h \in 0 .. num - 1 :
               (row >= h * b /\ row < h * b + L(h)) <=> h = g
        /\ q.M > 0 /\ q.M % b = 0 => \A g \in 0 .. num - 1 : L(g) = b
    <3>1. b \in Nat \ {0} /\ num = 1 + Quotient(q.M - 1, b)
      BY <2>1, <2>5
    <3> HIDE DEF num, b
    <3>2. Covers(q.M, b, num)
      BY <1>1, <3>1, BlocksCover
    <3> QED
      BY <3>2 DEF Covers
  <2>7. ASSUME NEW g \in 0 .. num - 1 PROVE Rows(g) = {g * b + i : i \in 0 .. L(g) - 1}
    <3>1. whole => L(g) = b
      BY <2>2, <2>6
    <3>2. Rows(g) = {g * b + i :
                        i \in 0 .. (IF whole \/ q.M - g * b >= b THEN b ELSE q.M - g * b) - 1}
      BY <1>5, <2>4 DEF Rows
    <3> QED
      BY <3>1, <3>2 DEF BlockLength
  <2> HIDE DEF num, rows, b, whole
  <2> HIDE DEF L
  <2>8. Groups = num
    BY <2>6, GroupsFacts DEF num
  <2>9. ASSUME NEW h \in 0 .. num - 1
        PROVE  \A row \in Int : row \in Rows(h) <=> (row >= h * b /\ row < h * b + L(h))
    <3>1. h * b \in Nat /\ L(h) \in Nat
      BY <2>6
    <3> DEFINE m == h * b
    <3>2. Rows(h) = {m + i : i \in 0 .. L(h) - 1}
      BY <2>7
    <3> HIDE DEF m
    <3>3. ASSUME NEW row \in Int, row >= m, row < m + L(h) PROVE row \in Rows(h)
      <4>1. row - m \in 0 .. L(h) - 1 /\ row = m + (row - m)
        BY <3>1, <3>3 DEF m
      <4> QED
        BY <3>2, <4>1
    <3>4. ASSUME NEW row \in Int, row \in Rows(h) PROVE row >= m /\ row < m + L(h)
      BY <3>1, <3>2, <3>4 DEF m
    <3> QED
      BY <3>3, <3>4 DEF m
  <2>10. \A row \in rows : Cardinality({g \in 0 .. num - 1 : row \in Rows(g)}) = 1
    <3> TAKE row \in rows
    <3>1. row \in 0 .. q.M - 1 /\ row \in Int
      BY <2>5
    <3>2. PICK g \in 0 .. num - 1 : \A h \in 0 .. num - 1 :
              (row >= h * b /\ row < h * b + L(h)) <=> h = g
      BY <2>6, <3>1
    <3>3. \A h \in 0 .. num - 1 : row \in Rows(h) <=> h = g
      BY <2>9, <3>1, <3>2
    <3> QED
      BY <1>2, <3>3
  <2>11. ASSUME NEW g \in 0 .. num - 1 PROVE Rows(g) \subseteq rows
    <3>1. g * b \in Nat /\ L(g) \in Nat /\ g * b + L(g) <= q.M
      BY <2>6
    <3> DEFINE m == g * b
    <3>2. Rows(g) = {m + i : i \in 0 .. L(g) - 1} /\ m \in Nat /\ m + L(g) <= q.M
      BY <2>7, <3>1
    <3> HIDE DEF m
    <3> QED
      BY <1>1, <2>5, <3>1, <3>2
  <2> QED
    BY <1>3, <2>8, <2>10, <2>11 DEF rows
<1> QED
  BY <1>4, <1>5, RecipesAssumption

-----------------------------------------------------------------------------
(* The invariant: while the handler remembers a request, it holds the      *)
(* kernel, the arguments and the range of that request.                    *)
ArgsOK ==
    args = [k \in Kernels |-> [i \in DOMAIN Signature(recipe) |-> args[k][i]]]

HoldsTheRequest ==
    asked # Unset =>
        /\ asked \in Requests
        /\ Legal(recipe, asked)
        /\ active_kernel = Select(asked)
        /\ args[active_kernel] = Arguments(recipe, asked)
        /\ range = RangeOf(active_kernel, HowMany(recipe, asked))

IInv ==
    /\ runtime \in Runtimes /\ recipe \in Recipes /\ local_size \in LocalSizes
    /\ active_kernel \in Kernels
    /\ ArgsOK
    /\ HoldsTheRequest
    /\ RunsTheRequest

LEMMA InitHolds == Init => IInv
<1> SUFFICES ASSUME Init PROVE IInv
  OBVIOUS
<1>1. "gemm" \in Kernels
  BY DEF Kernels
<1>2. ArgsOK
  BY DEF Init, ArgsOK
<1> QED
  BY <1>1, <1>2 DEF Init, IInv, HoldsTheRequest, RunsTheRequest

(* Arguments up to the n-th replace those of one kernel.                   *)
LEMMA GivenFacts ==
    ASSUME recipe \in Recipes, ArgsOK, NEW kernel \in Kernels, NEW values, NEW n,
           args' = Given(kernel, values, n), UNCHANGED recipe
    PROVE  /\ ArgsOK'
           /\ args'[kernel] = [i \in DOMAIN Signature(recipe) |->
                                  IF i <= n THEN values[i] ELSE args[kernel][i]]
<1>1. DOMAIN args = Kernels /\ \A k \in Kernels : DOMAIN args[k] = DOMAIN Signature(recipe)
  BY DEF ArgsOK
<1>2. args' = [args EXCEPT ![kernel] = [i \in DOMAIN Signature(recipe) |->
                                  IF i <= n THEN values[i] ELSE args[kernel][i]]]
  BY <1>1 DEF Given
<1>3. args'[kernel] = [i \in DOMAIN Signature(recipe) |->
                                  IF i <= n THEN values[i] ELSE args[kernel][i]]
  BY <1>1, <1>2
<1>4. ASSUME NEW k \in Kernels
      PROVE  args'[k] = [i \in DOMAIN Signature(recipe) |-> args'[k][i]]
  <2>1. CASE k = kernel
    BY <1>3, <2>1
  <2>2. CASE k # kernel
    <3>1. args'[k] = args[k]
      BY <1>1, <1>2, <2>2
    <3>2. args[k] = [i \in DOMAIN Signature(recipe) |-> args[k][i]]
      BY DEF ArgsOK
    <3> QED
      BY <3>1, <3>2
  <2> QED
    BY <2>1, <2>2
<1>5. args' = [k \in Kernels |-> args'[k]]
  BY <1>1, <1>2
<1>6. ArgsOK'
  BY <1>4, <1>5 DEF ArgsOK
<1> QED
  BY <1>3, <1>6

LEMMA StepHolds ==
    ASSUME CallersRepeatM, IInv, [Next]_vars
    PROVE  IInv'
<1>1. CASE UNCHANGED vars
  BY <1>1 DEF vars, IInv, ArgsOK, HoldsTheRequest, RunsTheRequest, RangeOf, Legal
<1>2. CASE Refuse
  BY <1>2 DEF Refuse, IInv, ArgsOK, HoldsTheRequest, RunsTheRequest, RangeOf, Legal
<1>3. ASSUME NEW q \in Requests, SetArgs(q) PROVE IInv'
  <2> DEFINE kernel == Select(q)
             sig == Signature(recipe)
             vals == Arguments(recipe, q)
  <2>1. kernel \in Kernels
    BY DEF Select, Kernels
  <2>2. /\ args' = Given(kernel, vals, Len(sig))
        /\ active_kernel' = kernel /\ asked' = q
        /\ range' = RangeOf(kernel, HowMany(recipe, q))
        /\ Legal(recipe, q)
        /\ UNCHANGED <<runtime, recipe, local_size, launch>>
    BY <1>3 DEF SetArgs
  <2>3. /\ ArgsOK'
        /\ args'[kernel] = [i \in DOMAIN sig |->
                               IF i <= Len(sig) THEN vals[i] ELSE args[kernel][i]]
    BY <2>1, <2>2, GivenFacts DEF IInv
  <2>4. args'[kernel] = vals
    <3>1. Delivers(q, sig, vals, AllNeeds(recipe))
      BY SignatureDelivers DEF IInv
    <3>2. /\ sig \in Seq(Params) /\ vals \in Seq({Says(q, p) : p \in Params})
          /\ Len(vals) = Len(sig)
      BY <3>1 DEF Delivers
    <3> HIDE DEF sig, vals
    <3>3. DOMAIN sig = 1 .. Len(sig) /\ DOMAIN vals = 1 .. Len(sig) /\ Len(sig) \in Nat
      BY <3>2, LenProperties
    <3>4. vals = [i \in 1 .. Len(sig) |-> vals[i]]
      BY <3>2, <3>3, LenProperties
    <3> QED
      BY <2>3, <3>3, <3>4
  <2>5. HoldsTheRequest'
    BY <2>2, <2>4 DEF HoldsTheRequest, Legal, RangeOf
  <2>6. RunsTheRequest'
    BY <2>2 DEF IInv, RunsTheRequest
  <2> QED
    BY <2>1, <2>2, <2>3, <2>5, <2>6 DEF IInv
<1>4. ASSUME NEW q \in Requests, NEW n \in DOMAIN Signature(recipe), SetArgsFails(q, n)
      PROVE  IInv'
  <2>1. Select(q) \in Kernels
    BY DEF Select, Kernels
  <2>2. /\ args' = Given(Select(q), Arguments(recipe, q), n - 1)
        /\ active_kernel' = Select(q) /\ asked' = Unset
        /\ UNCHANGED <<runtime, recipe, local_size, range, launch>>
    BY <1>4 DEF SetArgsFails
  <2>3. ArgsOK'
    BY <2>1, <2>2, GivenFacts DEF IInv
  <2> QED
    BY <2>1, <2>2, <2>3 DEF IInv, HoldsTheRequest, RunsTheRequest
<1>5. CASE Submit
  <2>1. /\ launch' = [updates |-> [gid \in 0 .. Groups - 1 |-> Rows(gid)],
                      reads |-> Reads, asked |-> asked]
        /\ UNCHANGED <<runtime, recipe, local_size, active_kernel, args, range, asked>>
    BY <1>5 DEF Submit
  <2>2. ArgsOK' /\ HoldsTheRequest'
    BY <2>1 DEF IInv, ArgsOK, HoldsTheRequest, Legal, RangeOf
  <2>3. ASSUME asked # Unset
        PROVE  /\ Reads = Asks(recipe, asked)
               /\ EveryRowOnce([gid \in 0 .. Groups - 1 |-> Rows(gid)],
                               RowsAsked(recipe, asked))
    <3>1. /\ asked \in Requests /\ Legal(recipe, asked) /\ active_kernel = Select(asked)
          /\ args[active_kernel] = Arguments(recipe, asked)
          /\ range = RangeOf(active_kernel, HowMany(recipe, asked))
          /\ runtime \in Runtimes /\ recipe \in Recipes /\ local_size \in LocalSizes
          /\ active_kernel \in Kernels
      BY <2>3 DEF IInv, HoldsTheRequest
    <3> QED
      BY <3>1, ReadsWhatIsAsked, UpdatesCover
  <2>4. RunsTheRequest'
    BY <2>1, <2>3 DEF RunsTheRequest, EveryRowOnce
  <2> QED
    BY <2>1, <2>2, <2>4 DEF IInv
<1> QED
  BY <1>1, <1>2, <1>3, <1>4, <1>5 DEF Next

(* Whatever was requested before, whatever was refused and wherever a      *)
(* request failed: behind a request that succeeded, the groups that the    *)
(* handler launches read what was asked for, and update every row of C (or *)
(* matrix of the batch) once, if a fixed M is given again.                 *)
THEOREM LaunchesTheRequest == CallersRepeatM => (Spec => []RunsTheRequest)
<1> SUFFICES ASSUME CallersRepeatM PROVE Spec => []RunsTheRequest
  OBVIOUS
<1>1. IInv /\ [Next]_vars => IInv'
  BY StepHolds
<1>2. IInv => RunsTheRequest
  BY DEF IInv
<1> QED
  BY <1>1, <1>2, InitHolds, PTL DEF Spec

-----------------------------------------------------------------------------
(* Products and quotients.                                                 *)
LEMMA Scaled ==
    ASSUME NEW w \in Nat \ {0}, NEW a \in Int, NEW b \in Int
    PROVE  /\ w * a \in Int
           /\ a < b <=> w * a < w * b
           /\ a <= b <=> w * a <= w * b
<1>1. \A d \in Nat : w * d \in Nat /\ (d > 0 => w * d > 0)
  BY SMT
<1>2. CASE a <= b
  <2>1. b - a \in Nat /\ w * (b - a) = w * b - w * a
    BY <1>2
  <2> QED BY <1>1, <2>1
<1>3. CASE b <= a
  <2>1. a - b \in Nat /\ w * (a - b) = w * a - w * b
    BY <1>3
  <2> QED BY <1>1, <2>1
<1> QED BY <1>2, <1>3

LEMMA ProductIsNat ==
    ASSUME NEW a \in Nat, NEW b \in Nat
    PROVE  a * b \in Nat
BY SMT

LEMMA QuotientFacts ==
    ASSUME NEW x \in Nat, NEW y \in Nat \ {0}
    PROVE  /\ x \div y \in Nat /\ x % y \in 0 .. y - 1
           /\ x = y * (x \div y) + (x % y)
           /\ CDiv(x, y) = x \div y /\ CRem(x, y) = x % y
<1>1. x \div y \in Nat /\ x % y \in 0 .. y - 1 /\ x = y * (x \div y) + (x % y)
  <2>1. /\ x \div y \in Int /\ x % y \in Nat /\ x % y < y
        /\ x = y * (x \div y) + (x % y)
    BY Division
  <2>2. x \div y >= 0
    OBVIOUS
  <2> QED BY <2>1, <2>2
<1>2. CDiv(x, y) = x \div y
  BY DEF CDiv, Abs
<1> QED BY <1>1, <1>2 DEF CRem

(* A quotient and a remainder are unique.                                  *)
LEMMA OneQuotient ==
    ASSUME NEW y \in Nat \ {0}, NEW a \in Int, NEW b \in Int,
           NEW r \in 0 .. y - 1, NEW s \in 0 .. y - 1, y * a + r = y * b + s
    PROVE  a = b /\ r = s
<1>1. CASE a < b
  <2>1. y * (a + 1) <= y * b
    BY <1>1, Scaled
  <2> QED BY <2>1
<1>2. CASE b < a
  <2>1. y * (b + 1) <= y * a
    BY <1>2, Scaled
  <2> QED BY <2>1
<1> QED BY <1>1, <1>2

-----------------------------------------------------------------------------
(* The values of a loop variable.                                          *)
Values(s, from, to, step) ==
    /\ s \in Seq(Int)
    /\ \A i \in Nat \ {0} : i \in DOMAIN s <=> from + step * (i - 1) < to
    /\ \A i \in DOMAIN s : i \in Nat \ {0} /\ s[i] = from + step * (i - 1)

LEMMA IterateFacts ==
    ASSUME NEW from \in Int, NEW to \in Int, NEW step \in Nat \ {0}
    PROVE  Values(Iterate(from, to, step), from, to, step)
<1>1. CASE from < to
  <2> DEFINE d == to - 1 - from
             q == d \div step
  <2>1. d \in Nat /\ q \in Nat /\ step * q <= d /\ d < step * (q + 1)
    <3>1. d \in Nat
      BY <1>1
    <3>2. q \in Nat /\ d % step \in 0 .. step - 1 /\ d = step * q + (d % step)
      BY <3>1, QuotientFacts
    <3>3. step * (q + 1) = step * q + step
      BY <3>2
    <3> DEFINE r == d % step
               p == step * q
    <3>4. d = p + r /\ r \in 0 .. step - 1 /\ step * (q + 1) = p + step /\ p \in Nat
      BY <3>1, <3>2, <3>3
    <3>5. p <= d /\ d < p + step
      <4> HIDE DEF p, r, d, q
      <4> QED BY <3>4
    <3> HIDE DEF r, d, q
    <3> QED BY <3>1, <3>2, <3>4, <3>5
  <2>2. Iterate(from, to, step) = [i \in 1 .. 1 + q |-> from + (i - 1) * step]
    BY <1>1 DEF Iterate
  <2>3. \A i \in Nat \ {0} : i \in 1 .. 1 + q <=> from + step * (i - 1) < to
    <3> TAKE i \in Nat \ {0}
    <3>1. d = to - 1 - from
      OBVIOUS
    <3> HIDE DEF d, q
    <3>2. CASE i - 1 <= q
      <4>1. step * (i - 1) <= step * q
        BY <2>1, <3>2, Scaled
      <4> QED BY <2>1, <3>1, <3>2, <4>1
    <3>3. CASE q + 1 <= i - 1
      <4>1. step * (q + 1) <= step * (i - 1)
        BY <2>1, <3>3, Scaled
      <4> QED BY <2>1, <3>1, <3>3, <4>1
    <3> QED BY <2>1, <3>2, <3>3
  <2>4. \A i \in 1 .. 1 + q : from + (i - 1) * step = from + step * (i - 1) /\ from + (i - 1) * step \in Int
    BY <2>1
  <2> HIDE DEF d, q
  <2>5. Iterate(from, to, step) \in Seq(Int)
    BY <2>1, <2>2, <2>4
  <2> QED BY <2>1, <2>2, <2>3, <2>4, <2>5 DEF Values
<1>2. CASE from >= to
  <2>1. Iterate(from, to, step) = <<>>
    BY <1>2 DEF Iterate
  <2>2. \A i \in Nat \ {0} : step * (i - 1) >= 0
    BY Scaled
  <2> QED BY <1>2, <2>1, <2>2 DEF Values
<1> QED BY <1>1, <1>2

-----------------------------------------------------------------------------
(* The bodies of a loop by the members of G are from C.  They have parts in *)
(* S, given by H, and each element of S has a part in exactly one call.    *)
NoneShared(F, G, H) ==
    \A g \in G, h \in G : \A i \in DOMAIN F[g], j \in DOMAIN F[h] :
        (\E x : <<F[g][i], x>> \in H /\ <<F[h][j], x>> \in H) => g = h /\ i = j
Parts(F, G, C, H, S) ==
    /\ F \in [G -> Seq(C)]
    /\ \A g \in G : \A i \in DOMAIN F[g] : \A x : <<F[g][i], x>> \in H => x \in S
    /\ \A x \in S : \E g \in G : \E i \in DOMAIN F[g] : <<F[g][i], x>> \in H
    /\ NoneShared(F, G, H)

LEMMA OneCall ==
    ASSUME NEW F, NEW G, NEW C, NEW H, NEW S, Parts(F, G, C, H, S)
    PROVE  \A g, h \in G : \A i \in DOMAIN F[g], j \in DOMAIN F[h] : \A x :
               <<F[g][i], x>> \in H /\ <<F[h][j], x>> \in H => g = h /\ i = j
<1>1. NoneShared(F, G, H)
  BY DEF Parts
<1> QED BY <1>1 DEF NoneShared

(* The bodies that have no parts outside of S.                              *)
Within(C, H, S) == {c \in C : \A x : <<c, x>> \in H => x \in S}

LEMMA PartsWithin ==
    ASSUME NEW F, NEW G, NEW C, NEW H, NEW S, Parts(F, G, C, H, S)
    PROVE  Parts(F, G, Within(C, H, S), H, S)
<1> DEFINE D == Within(C, H, S)
<1>1. /\ F \in [G -> Seq(C)]
      /\ \A g \in G : \A i \in DOMAIN F[g] : \A x : <<F[g][i], x>> \in H => x \in S
      /\ \A x \in S : \E g \in G : \E i \in DOMAIN F[g] : <<F[g][i], x>> \in H
      /\ NoneShared(F, G, H)
  BY DEF Parts
<1>2. ASSUME NEW g \in G
      PROVE  F[g] \in Seq(D)
  <2> DEFINE s == F[g]
             m == Len(s)
  <2>1. s \in Seq(C) /\ \A i \in DOMAIN s : \A x : <<s[i], x>> \in H => x \in S
    BY <1>1
  <2>2. m \in Nat /\ s = [i \in 1 .. m |-> s[i]] /\ \A i \in 1 .. m : i \in DOMAIN s /\ s[i] \in C
    <3> HIDE DEF s
    <3> QED BY <2>1, LenProperties, ElementOfSeq
  <2> HIDE DEF s, m
  <2>3. \A i \in 1 .. m : s[i] \in D
    BY <2>1, <2>2 DEF Within
  <2> HIDE DEF D
  <2>4. s \in Seq(D)
    BY <2>2, <2>3, SeqDef
  <2> QED BY <2>4 DEF s
<1> HIDE DEF D
<1>3. F \in [G -> Seq(D)]
  BY <1>1, <1>2
<1> QED BY <1>1, <1>3 DEF Parts, D

LEMMA Concatenation ==
    ASSUME NEW C, NEW s \in Seq(C), NEW t \in Seq(C)
    PROVE  /\ s \o t \in Seq(C) /\ Len(s) \in Nat
           /\ \A i \in DOMAIN s : i \in DOMAIN (s \o t) /\ (s \o t)[i] = s[i]
           /\ \A i \in DOMAIN t : Len(s) + i \in DOMAIN (s \o t) /\ (s \o t)[Len(s) + i] = t[i]
           /\ \A i \in DOMAIN (s \o t) :
                  /\ i \in Nat
                  /\ \/ i \in DOMAIN s /\ (s \o t)[i] = s[i]
                     \/ i - Len(s) \in DOMAIN t /\ (s \o t)[i] = t[i - Len(s)]
<1> DEFINE m == Len(s)
           n == Len(t)
           u == s \o t
<1>1. m \in Nat /\ n \in Nat /\ DOMAIN s = 1 .. m /\ DOMAIN t = 1 .. n
  BY LenProperties
<1>2. /\ u \in Seq(C) /\ Len(u) = m + n
      /\ \A i \in 1 .. m + n : u[i] = IF i <= m THEN s[i] ELSE t[i - m]
  BY ConcatProperties
<1>3. DOMAIN u = 1 .. m + n
  BY <1>2, LenProperties
<1> HIDE DEF m, n, u
<1>4. \A i \in 1 .. m : i \in DOMAIN u /\ u[i] = s[i]
  BY <1>1, <1>2, <1>3
<1>5. \A i \in 1 .. n : m + i \in DOMAIN u /\ u[m + i] = t[i]
  <2> TAKE i \in 1 .. n
  <2>1. m + i \in 1 .. m + n /\ ~(m + i <= m) /\ (m + i) - m = i
    BY <1>1
  <2> QED BY <1>2, <1>3, <2>1
<1>6. ASSUME NEW i \in DOMAIN u
      PROVE  /\ i \in Nat
             /\ \/ i \in 1 .. m /\ u[i] = s[i]
                \/ i - m \in 1 .. n /\ u[i] = t[i - m]
  BY <1>1, <1>2, <1>3
<1> QED BY <1>1, <1>2, <1>4, <1>5, <1>6 DEF m, u

(* Two loops one after the other, over different parts.                    *)
Joined(F1, F2, G) == [g \in G |-> F1[g] \o F2[g]]

LEMMA PartsOfBoth ==
    ASSUME NEW G, NEW C, NEW H, NEW F1, NEW F2, NEW S1, NEW S2,
           Parts(F1, G, C, H, S1), Parts(F2, G, C, H, S2), S1 \cap S2 = {}
    PROVE  Parts(Joined(F1, F2, G), G, C, H, S1 \cup S2)
<1> DEFINE F == Joined(F1, F2, G)
<1>1. ASSUME NEW g \in G
      PROVE  /\ F[g] \in Seq(C) /\ Len(F1[g]) \in Nat
             /\ \A i \in DOMAIN F1[g] : i \in DOMAIN F[g] /\ F[g][i] = F1[g][i]
             /\ \A i \in DOMAIN F2[g] :
                    Len(F1[g]) + i \in DOMAIN F[g] /\ F[g][Len(F1[g]) + i] = F2[g][i]
             /\ \A i \in DOMAIN F[g] :
                    /\ i \in Nat
                    /\ \/ i \in DOMAIN F1[g] /\ F[g][i] = F1[g][i]
                       \/ i - Len(F1[g]) \in DOMAIN F2[g] /\ F[g][i] = F2[g][i - Len(F1[g])]
  <2>1. F1[g] \in Seq(C) /\ F2[g] \in Seq(C) /\ F[g] = F1[g] \o F2[g]
    BY DEF Parts, Joined
  <2> HIDE DEF F
  <2> DEFINE s == F1[g]
             t == F2[g]
             u == F[g]
  <2>2. s \in Seq(C) /\ t \in Seq(C) /\ u = s \o t
    BY <2>1
  <2> HIDE DEF s, t, u
  <2>3. /\ u \in Seq(C) /\ Len(s) \in Nat
        /\ \A i \in DOMAIN s : i \in DOMAIN u /\ u[i] = s[i]
        /\ \A i \in DOMAIN t : Len(s) + i \in DOMAIN u /\ u[Len(s) + i] = t[i]
        /\ \A i \in DOMAIN u :
               /\ i \in Nat
               /\ \/ i \in DOMAIN s /\ u[i] = s[i]
                  \/ i - Len(s) \in DOMAIN t /\ u[i] = t[i - Len(s)]
    BY <2>2, Concatenation
  <2> QED BY <2>3, Zenon DEF s, t, u
<1>2. F \in [G -> Seq(C)]
  BY <1>1 DEF Joined
<1> HIDE DEF F
<1>8. NoneShared(F1, G, H) /\ NoneShared(F2, G, H)
  BY DEF Parts
(* Which of the two an index belongs to.                                   *)
<1>3. ASSUME NEW g \in G, NEW i \in DOMAIN F[g], NEW x, <<F[g][i], x>> \in H
      PROVE  \/ x \in S1 /\ i \in DOMAIN F1[g] /\ <<F1[g][i], x>> \in H
             \/ x \in S2 /\ i - Len(F1[g]) \in DOMAIN F2[g] /\ <<F2[g][i - Len(F1[g])], x>> \in H
  <2>1. CASE i \in DOMAIN F1[g] /\ F[g][i] = F1[g][i]
    BY <1>3, <2>1, Zenon DEF Parts
  <2>2. CASE i - Len(F1[g]) \in DOMAIN F2[g] /\ F[g][i] = F2[g][i - Len(F1[g])]
    <3>1. \A j \in DOMAIN F2[g] : <<F2[g][j], x>> \in H => x \in S2
      BY DEF Parts
    <3> QED BY <1>3, <2>2, <3>1
  <2> QED BY <1>1, <2>1, <2>2
<1>4. ASSUME NEW x \in S1 \cup S2
      PROVE  \E g \in G : \E i \in DOMAIN F[g] : <<F[g][i], x>> \in H
  <2>1. CASE x \in S1
    BY <1>1, <2>1, Zenon DEF Parts
  <2>2. CASE x \in S2
    <3>1. PICK g \in G : \E i \in DOMAIN F2[g] : <<F2[g][i], x>> \in H
      BY <2>2 DEF Parts
    <3>2. PICK i \in DOMAIN F2[g] : <<F2[g][i], x>> \in H
      BY <3>1
    <3>3. Len(F1[g]) + i \in DOMAIN F[g] /\ F[g][Len(F1[g]) + i] = F2[g][i]
      BY <1>1
    <3> QED BY <3>2, <3>3
  <2> QED BY <2>1, <2>2
<1>5. ASSUME NEW g \in G, NEW h \in G, NEW i \in DOMAIN F[g], NEW j \in DOMAIN F[h], NEW x,
             <<F[g][i], x>> \in H, <<F[h][j], x>> \in H
      PROVE  g = h /\ i = j
  <2>1. i \in Nat /\ j \in Nat /\ Len(F1[g]) \in Nat
    BY <1>1
  <2>2. CASE x \in S1
    <3>1. /\ i \in DOMAIN F1[g] /\ <<F1[g][i], x>> \in H
          /\ j \in DOMAIN F1[h] /\ <<F1[h][j], x>> \in H
      BY <1>3, <1>5, <2>2
    <3> QED BY <1>8, <3>1, ZenonT(60) DEF NoneShared
  <2>3. CASE x \in S2
    <3>1. /\ i - Len(F1[g]) \in DOMAIN F2[g] /\ <<F2[g][i - Len(F1[g])], x>> \in H
          /\ j - Len(F1[h]) \in DOMAIN F2[h] /\ <<F2[h][j - Len(F1[h])], x>> \in H
      BY <1>3, <1>5, <2>3
    <3>2. g = h /\ i - Len(F1[g]) = j - Len(F1[h])
      <4> DEFINE a == i - Len(F1[g])
                 b == j - Len(F1[h])
      <4>1. a \in DOMAIN F2[g] /\ <<F2[g][a], x>> \in H /\ b \in DOMAIN F2[h] /\ <<F2[h][b], x>> \in H
        BY <3>1
      <4> HIDE DEF a, b
      <4>2. g = h /\ a = b
        BY <1>8, <4>1 DEF NoneShared
      <4> QED BY <4>2 DEF a, b
    <3> QED BY <2>1, <3>2
  <2> QED BY <1>3, <1>5, <2>2, <2>3
<1>6. NoneShared(F, G, H)
  BY <1>5 DEF NoneShared
<1>7. \A g \in G : \A i \in DOMAIN F[g] : \A x : <<F[g][i], x>> \in H => x \in S1 \cup S2
  BY <1>3
<1> QED BY <1>2, <1>4, <1>6, <1>7 DEF Parts, F

-----------------------------------------------------------------------------
(* Tile loops. *)

Calls(most) == [block : Int, size : 1 .. most, rem : BOOLEAN]

(* Blocks and what they hold.                                              *)
Holds == {h \in [block : Int, size : Nat, rem : BOOLEAN] \X Int :
             h[2] \in Run(h[1].block, h[1].size)}

Below(n) == 0 .. n - 1

LEMMA HoldsMeans ==
    ASSUME NEW most \in Nat, NEW c \in Calls(most), NEW x
    PROVE  <<c, x>> \in Holds <=> x \in Int /\ c.block <= x /\ x < c.block + c.size
<1>1. c \in [block : Int, size : Nat, rem : BOOLEAN] /\ c.block \in Int /\ c.size \in Nat
  BY DEF Calls
<1> QED BY <1>1 DEF Holds, Run

(* n units of size w from u0 on, dealt to the subgroups in turn.  A        *)
(* subgroup has the turn that "turn" gives it.                             *)
Dealt(u0, n, w, tiles, turn) ==
    [g \in Below(tiles) |->
        LET starts == Iterate(u0 + w * turn[g], u0 + w * n, w * tiles)
        IN  [i \in DOMAIN starts |-> Call(starts[i], w, FALSE)]]

LEMMA DealtParts ==
    ASSUME NEW u0 \in Nat, NEW n \in Nat, NEW w \in Nat \ {0}, NEW tiles \in Nat \ {0},
           NEW C, \A b \in Nat : Call(b, w, FALSE) \in C,
           NEW turn \in [Below(tiles) -> Below(tiles)],
           \A t \in Below(tiles) : \E g \in Below(tiles) : turn[g] = t,
           \A g, h \in Below(tiles) : turn[g] = turn[h] => g = h
    PROVE  Parts(Dealt(u0, n, w, tiles, turn), Below(tiles), C, Holds,
                 u0 .. u0 + w * n - 1)
<1> DEFINE F == Dealt(u0, n, w, tiles, turn)
           Unit(g, i) == turn[g] + tiles * (i - 1)
<1>1. w * tiles \in Nat \ {0} /\ w * n \in Nat
  BY Scaled
<1>2. ASSUME NEW g \in Below(tiles)
      PROVE  /\ F[g] \in Seq(C) /\ turn[g] \in Nat
             /\ \A i \in DOMAIN F[g] :
                    /\ i \in Nat \ {0} /\ Unit(g, i) \in Below(n)
                    /\ F[g][i] = Call(u0 + w * Unit(g, i), w, FALSE)
             /\ \A i \in Nat \ {0} : Unit(g, i) < n => i \in DOMAIN F[g]
  <2> DEFINE starts == Iterate(u0 + w * turn[g], u0 + w * n, w * tiles)
  <2>1. turn[g] \in Below(tiles) /\ turn[g] \in Nat /\ w * turn[g] \in Nat
    <3>1. turn[g] \in Below(tiles)
      OBVIOUS
    <3>2. turn[g] \in Nat
      BY <3>1 DEF Below
    <3> QED BY <3>1, <3>2, ProductIsNat
  <2>2. /\ starts \in Seq(Int)
        /\ \A i \in Nat \ {0} :
               i \in DOMAIN starts <=> u0 + w * turn[g] + (w * tiles) * (i - 1) < u0 + w * n
        /\ \A i \in DOMAIN starts : starts[i] = u0 + w * turn[g] + (w * tiles) * (i - 1)
    <3> DEFINE a == u0 + w * turn[g]
               b == u0 + w * n
               c == w * tiles
    <3>1. a \in Int /\ b \in Int /\ c \in Nat \ {0}
      BY <1>1, <2>1
    <3>2. starts = Iterate(a, b, c)
      OBVIOUS
    <3> HIDE DEF a, b, c, starts
    <3>3. Values(starts, a, b, c)
      BY <3>1, <3>2, IterateFacts
    <3> QED BY <3>3 DEF Values, a, b, c
  <2>3. Len(starts) \in Nat /\ DOMAIN starts = 1 .. Len(starts)
    BY <2>2, LenProperties
  <2>4. F[g] = [i \in DOMAIN starts |-> Call(starts[i], w, FALSE)]
    BY DEF Dealt
  <2> HIDE DEF starts, F
  <2>5. ASSUME NEW i \in Nat \ {0}
        PROVE  /\ Unit(g, i) \in Nat
               /\ u0 + w * turn[g] + (w * tiles) * (i - 1) = u0 + w * Unit(g, i)
               /\ w * Unit(g, i) \in Nat
               /\ Unit(g, i) < n <=> u0 + w * Unit(g, i) < u0 + w * n
    <3>1. tiles * (i - 1) \in Nat /\ (w * tiles) * (i - 1) = w * (tiles * (i - 1))
      BY ProductIsNat
    <3>2. w * (turn[g] + tiles * (i - 1)) = w * turn[g] + w * (tiles * (i - 1))
      <4> DEFINE a == turn[g]
                 b == tiles * (i - 1)
      <4>1. a \in Nat /\ b \in Nat
        BY <2>1, <3>1
      <4> HIDE DEF a, b
      <4>2. w * (a + b) = w * a + w * b
        BY <4>1
      <4> QED BY <4>2 DEF a, b
    <3>3. w * (tiles * (i - 1)) \in Nat
      BY <3>1, ProductIsNat
    <3>4. Unit(g, i) \in Nat /\ w * Unit(g, i) \in Nat
      <4>1. Unit(g, i) \in Nat
        BY <2>1, <3>1
      <4> HIDE DEF Unit
      <4> QED BY <4>1, ProductIsNat
    <3>5. Unit(g, i) < n <=> w * Unit(g, i) < w * n
      BY <3>4, Scaled
    <3> HIDE DEF Unit
    <3>6. u0 + w * turn[g] + (w * tiles) * (i - 1) = u0 + w * Unit(g, i)
      BY <1>1, <2>1, <3>1, <3>2, <3>3 DEF Unit
    <3> QED BY <1>1, <3>4, <3>5, <3>6
  <2> HIDE DEF Unit
  <2>6. ASSUME NEW i \in DOMAIN starts
        PROVE  /\ i \in Nat \ {0} /\ Unit(g, i) \in Below(n)
               /\ starts[i] = u0 + w * Unit(g, i) /\ starts[i] \in Nat
    <3>1. i \in Nat \ {0}
      BY <2>3
    <3> DEFINE v == Unit(g, i)
               a == u0 + w * turn[g] + (w * tiles) * (i - 1)
               b == u0 + w * n
               c == u0 + w * v
    <3>2. a < b /\ starts[i] = a
      BY <2>2, <3>1
    <3>3. v \in Nat /\ a = c /\ w * v \in Nat /\ (v < n <=> c < b)
      BY <2>5, <3>1
    <3> HIDE DEF v, a, b
    <3>4. v < n /\ starts[i] = c /\ c \in Nat
      BY <3>2, <3>3
    <3>5. v \in Below(n)
      BY <3>3, <3>4 DEF Below
    <3> QED BY <3>1, <3>4, <3>5 DEF v
  <2>7. F[g] \in Seq(C)
    <3> DEFINE m == Len(starts)
               f(i) == Call(starts[i], w, FALSE)
    <3>1. \A i \in 1 .. m : f(i) \in C
      BY <2>3, <2>6
    <3>2. m \in Nat /\ F[g] = [i \in 1 .. m |-> f(i)]
      BY <2>3, <2>4
    <3> HIDE DEF m, f
    <3> QED BY <3>1, <3>2
  <2>8. \A i \in Nat \ {0} : Unit(g, i) < n => i \in DOMAIN F[g]
    BY <2>2, <2>4, <2>5
  <2>9. ASSUME NEW i \in DOMAIN F[g]
        PROVE  /\ i \in Nat \ {0} /\ Unit(g, i) \in Below(n)
               /\ F[g][i] = Call(u0 + w * Unit(g, i), w, FALSE)
    <3>1. i \in DOMAIN starts /\ F[g][i] = Call(starts[i], w, FALSE)
      BY <2>4
    <3> QED BY <2>6, <3>1
  <2>10. F[g] \in Seq(C) /\ turn[g] \in Nat
    BY <2>1, <2>7
  <2> QED BY <2>8, <2>9, <2>10
<1>3. F \in [Below(tiles) -> Seq(C)]
  BY <1>2 DEF Dealt
<1> HIDE DEF F
(* What a call holds of a unit.                                            *)
<1>4. ASSUME NEW g \in Below(tiles), NEW i \in DOMAIN F[g], NEW x
      PROVE  <<F[g][i], x>> \in Holds
                 <=> \E r \in 0 .. w - 1 : x = u0 + (w * Unit(g, i) + r)
  <2> DEFINE u == Unit(g, i)
  <2>1. F[g][i] = Call(u0 + w * u, w, FALSE) /\ u \in Nat
    <3>1. F[g][i] = Call(u0 + w * u, w, FALSE) /\ u \in Below(n)
      BY <1>2
    <3> HIDE DEF u
    <3> QED BY <3>1 DEF Below
  <2> HIDE DEF u
  <2>2. w * u \in Nat
    BY <2>1, Scaled
  <2>3. /\ F[g][i] \in Calls(w)
        /\ F[g][i].block = u0 + w * u /\ F[g][i].size = w
    BY <2>1, <2>2 DEF Call, Calls
  <2>4. <<F[g][i], x>> \in Holds <=> x \in Int /\ u0 + w * u <= x /\ x < u0 + w * u + w
    BY <2>3, HoldsMeans
  <2>5. ASSUME x \in Int, u0 + w * u <= x, x < u0 + w * u + w
        PROVE  \E r \in 0 .. w - 1 : x = u0 + (w * u + r)
    <3>1. x - u0 - w * u \in 0 .. w - 1 /\ x = u0 + (w * u + (x - u0 - w * u))
      BY <2>2, <2>5
    <3> QED BY <3>1
  <2>6. ASSUME NEW r \in 0 .. w - 1, x = u0 + (w * u + r)
        PROVE  x \in Int /\ u0 + w * u <= x /\ x < u0 + w * u + w
    BY <2>2, <2>6
  <2> QED BY <2>4, <2>5, <2>6 DEF u
<1>5. ASSUME NEW g \in Below(tiles), NEW i \in DOMAIN F[g], NEW x, <<F[g][i], x>> \in Holds
      PROVE  x \in u0 .. u0 + w * n - 1
  <2> DEFINE u == Unit(g, i)
  <2>1. PICK r \in 0 .. w - 1 : x = u0 + (w * u + r)
    BY <1>4, <1>5
  <2>2. u \in Nat /\ u + 1 <= n
    <3>1. u \in Below(n)
      BY <1>2
    <3> HIDE DEF u
    <3> QED BY <3>1 DEF Below
  <2> HIDE DEF u
  <2>3. w * u \in Nat /\ w * (u + 1) <= w * n /\ w * (u + 1) = w * u + w
    BY <2>2, Scaled
  <2> QED BY <1>1, <2>1, <2>3
<1>6. ASSUME NEW x \in u0 .. u0 + w * n - 1
      PROVE  \E g \in Below(tiles) : \E i \in DOMAIN F[g] : <<F[g][i], x>> \in Holds
  <2> DEFINE y == x - u0
             u == y \div w
             r == y % w
             t == u % tiles
             q == u \div tiles
  <2>1. y \in Nat /\ y < w * n /\ x = u0 + y
    BY <1>1
  <2>2. u \in Nat /\ r \in 0 .. w - 1 /\ y = w * u + r
    <3> HIDE DEF y
    <3> QED BY <2>1, QuotientFacts
  <2>3. q \in Nat /\ t \in 0 .. tiles - 1 /\ u = tiles * q + t
    <3> HIDE DEF u
    <3> QED BY <2>2, QuotientFacts
  <2> HIDE DEF y, u, r, t, q
  <2>4. u < n
    <3>1. w * u < w * n
      BY <1>1, <2>1, <2>2, Scaled
    <3> QED BY <2>2, <3>1, Scaled
  <2>5. PICK g \in Below(tiles) : turn[g] = t
    BY <2>3 DEF Below
  <2>6. (q + 1) - 1 = q /\ q + 1 \in Nat \ {0} /\ Unit(g, q + 1) = u
    <3>1. (q + 1) - 1 = q /\ q + 1 \in Nat \ {0} /\ tiles * q \in Nat
      BY <2>3, Scaled
    <3> QED BY <2>3, <2>5, <3>1
  <2> HIDE DEF Unit
  <2>7. q + 1 \in DOMAIN F[g]
    BY <1>2, <2>4, <2>6
  <2> QED BY <1>4, <2>1, <2>2, <2>6, <2>7
<1>7. ASSUME NEW g \in Below(tiles), NEW h \in Below(tiles),
             NEW i \in DOMAIN F[g], NEW j \in DOMAIN F[h], NEW x,
             <<F[g][i], x>> \in Holds, <<F[h][j], x>> \in Holds
      PROVE  g = h /\ i = j
  <2>1. PICK r \in 0 .. w - 1 : x = u0 + (w * Unit(g, i) + r)
    BY <1>4, <1>7
  <2>2. PICK s \in 0 .. w - 1 : x = u0 + (w * Unit(h, j) + s)
    BY <1>4, <1>7
  <2>3. /\ Unit(g, i) \in Nat /\ Unit(h, j) \in Nat /\ i \in Nat \ {0} /\ j \in Nat \ {0}
        /\ w * Unit(g, i) \in Nat /\ w * Unit(h, j) \in Nat
    <3>1. /\ Unit(g, i) \in Below(n) /\ Unit(h, j) \in Below(n)
          /\ i \in Nat \ {0} /\ j \in Nat \ {0}
      BY <1>2
    <3> HIDE DEF Unit
    <3>2. Unit(g, i) \in Nat /\ Unit(h, j) \in Nat
      BY <3>1 DEF Below
    <3> QED BY <3>1, <3>2, ProductIsNat
  <2>4. Unit(g, i) = Unit(h, j)
    <3> HIDE DEF Unit
    <3>1. w * Unit(g, i) + r = w * Unit(h, j) + s
      BY <2>1, <2>2, <2>3
    <3> DEFINE a == Unit(g, i)
               b == Unit(h, j)
    <3>2. a \in Int /\ b \in Int /\ w * a + r = w * b + s
      BY <2>3, <3>1
    <3> HIDE DEF a, b
    <3>3. a = b
      BY <3>2, OneQuotient
    <3> QED BY <3>3 DEF a, b
  <2>5. /\ turn[g] \in 0 .. tiles - 1 /\ turn[h] \in 0 .. tiles - 1
        /\ tiles * (i - 1) \in Nat /\ tiles * (j - 1) \in Nat
    <3>1. turn[g] \in Below(tiles) /\ turn[h] \in Below(tiles)
      OBVIOUS
    <3>2. i - 1 \in Nat /\ j - 1 \in Nat
      BY <2>3
    <3> QED BY <3>1, <3>2, ProductIsNat DEF Below
  <2>6. tiles * (i - 1) + turn[g] = tiles * (j - 1) + turn[h]
    BY <2>4, <2>5
  <2>7. i - 1 = j - 1 /\ turn[g] = turn[h]
    BY <2>3, <2>5, <2>6, OneQuotient
  <2> QED BY <2>3, <2>7
<1>8. NoneShared(F, Below(tiles), Holds)
  BY <1>7 DEF NoneShared
<1> QED BY <1>3, <1>5, <1>6, <1>8 DEF Parts, F

LEMMA PartsOfNone ==
    ASSUME NEW G, NEW C, NEW H
    PROVE  Parts([g \in G |-> <<>>], G, C, H, {})
<1> DEFINE F == [g \in G |-> <<>>]
<1>1. \A g \in G : F[g] = <<>>
  OBVIOUS
<1>2. F \in [G -> Seq(C)]
  OBVIOUS
<1> HIDE DEF F
<1>3. \A g \in G : DOMAIN F[g] = {}
  BY <1>1
<1>4. NoneShared(F, G, H)
  BY <1>3 DEF NoneShared
<1> QED BY <1>2, <1>3, <1>4 DEF Parts, F

(* One call by one of the subgroups.                                       *)
LEMMA PartsOfOne ==
    ASSUME NEW G, NEW C, NEW H, NEW S, NEW last \in G, NEW c \in C,
           \A x : <<c, x>> \in H <=> x \in S
    PROVE  Parts([g \in G |-> IF g = last THEN <<c>> ELSE <<>>], G, C, H, S)
<1> DEFINE F == [g \in G |-> IF g = last THEN <<c>> ELSE <<>>]
<1>1. \A g \in G : F[g] \in Seq(C) /\ (g = last => F[g] = <<c>>) /\ (g # last => F[g] = <<>>)
  OBVIOUS
<1>2. F \in [G -> Seq(C)]
  BY <1>1
<1> HIDE DEF F
<1>3. \A g \in G : \A i \in DOMAIN F[g] : g = last /\ i = 1 /\ F[g][i] = c
  BY <1>1
<1>4. 1 \in DOMAIN F[last] /\ F[last][1] = c
  BY <1>1
<1>5. NoneShared(F, G, H)
  BY <1>3 DEF NoneShared
<1>6. \A g \in G : \A i \in DOMAIN F[g] : \A x : <<F[g][i], x>> \in H => x \in S
  BY <1>3
<1>7. \A x \in S : \E g \in G : \E i \in DOMAIN F[g] : <<F[g][i], x>> \in H
  BY <1>4
<1> QED BY <1>2, <1>5, <1>6, <1>7 DEF Parts, F

(* What tile_loop_by_sgs tells its body: the work items of a full block    *)
(* all run.                                                                *)
LaneCalls(sgs) == {c \in Calls(sgs) : ~c.rem => c.size = sgs}

(* tile_loop_by_sgs hands out every index below the trip count once.       *)
LEMMA BySgsParts ==
    ASSUME NEW trip \in Int, NEW sgs \in Nat \ {0}, NEW tiles \in Nat \ {0}
    PROVE  Parts([g \in Below(tiles) |-> TileBySgs(trip, sgs, tiles, g)], Below(tiles),
                 LaneCalls(sgs), Holds, Below(trip))
<1> DEFINE G == Below(tiles)
           F == [g \in G |-> TileBySgs(trip, sgs, tiles, g)]
           q == CDiv(trip, sgs)
           r == CRem(trip, sgs)
<1>1. CASE trip < 0
  <2>1. q <= 0 /\ r <= 0 /\ q \in Int /\ r \in Int
    <3> DEFINE a == -trip
    <3>1. a \in Nat
      BY <1>1
    <3>2. q = -(a \div sgs)
      BY <1>1 DEF CDiv, Abs
    <3>3. a \div sgs \in Nat /\ a % sgs \in 0 .. sgs - 1 /\ a = sgs * (a \div sgs) + (a % sgs)
      <4> HIDE DEF a
      <4> QED BY <3>1, QuotientFacts
    <3>4. r = trip - sgs * q
      BY DEF CRem
    <3> DEFINE b == a \div sgs
               m == a % sgs
    <3>5. b \in Nat /\ m \in 0 .. sgs - 1 /\ a = sgs * b + m /\ q = -b
      BY <3>2, <3>3
    <3>6. trip = -a
      OBVIOUS
    <3> HIDE DEF a, b, m, q, r
    <3>7. sgs * q = -(sgs * b) /\ sgs * b \in Nat
      BY <3>5, ProductIsNat
    <3>8. r = -m
      BY <3>1, <3>4, <3>5, <3>6, <3>7
    <3> QED BY <3>5, <3>8
  <2>2. \A g \in G : TileBySgs(trip, sgs, tiles, g) = <<>>
    <3>1. \A g \in G : TileBySgs(trip, sgs, tiles, g) = [i \in DOMAIN <<>> |-> Call(<<>>[i], sgs, FALSE)] \o <<>>
      <4> HIDE DEF q, r
      <4>1. ~(q > 0) /\ ~(r > 0)
        BY <2>1
      <4> QED BY <4>1 DEF TileBySgs, q, r
    <3>2. [i \in DOMAIN <<>> |-> Call(<<>>[i], sgs, FALSE)] = <<>>
      OBVIOUS
    <3> QED BY <3>1, <3>2
  <2>3. F = [g \in G |-> <<>>]
    BY <2>2
  <2>4. Below(trip) = {}
    BY <1>1 DEF Below
  <2> QED BY <2>3, <2>4, PartsOfNone
<1>2. CASE trip >= 0
  <2>1. q \in Nat /\ r \in 0 .. sgs - 1 /\ trip = sgs * q + r
    <3>1. trip \in Nat
      BY <1>2
    <3>2. q = trip \div sgs /\ r = trip % sgs
      BY <3>1, QuotientFacts
    <3>3. /\ trip \div sgs \in Nat /\ trip % sgs \in 0 .. sgs - 1
          /\ trip = sgs * (trip \div sgs) + (trip % sgs)
      BY <3>1, QuotientFacts
    <3> HIDE DEF q, r
    <3> QED BY <3>2, <3>3
  <2> DEFINE turn == [g \in G |-> g]
             F1 == Dealt(0, q, sgs, tiles, turn)
             F2 == [g \in G |-> IF r > 0 /\ g = tiles - 1 THEN <<Call(q * sgs, r, TRUE)>>
                                ELSE <<>>]
             p == sgs * q
  <2>2. p \in Nat /\ p = q * sgs /\ trip = p + r
    <3>1. q * sgs = sgs * q
      <4> HIDE DEF q
      <4> QED BY <2>1
    <3>2. p \in Nat
      <4> HIDE DEF q
      <4> QED BY <2>1, ProductIsNat
    <3> QED BY <2>1, <3>1, <3>2
  <2> HIDE DEF q, r, p
  <2>3. Parts(F1, G, LaneCalls(sgs), Holds, 0 .. p - 1)
    <3>1. \A b \in Nat : Call(b, sgs, FALSE) \in LaneCalls(sgs)
      BY DEF Call, Calls, LaneCalls
    <3>2. turn \in [G -> G] /\ (\A t \in G : \E g \in G : turn[g] = t)
          /\ \A g, h \in G : turn[g] = turn[h] => g = h
      OBVIOUS
    <3>3. 0 .. 0 + sgs * q - 1 = 0 .. p - 1
      BY <2>2 DEF p
    <3> HIDE DEF turn
    <3>4. Parts(F1, G, LaneCalls(sgs), Holds, 0 .. 0 + sgs * q - 1)
      BY <2>1, <3>1, <3>2, DealtParts, 0 \in Nat
    <3> QED BY <3>3, <3>4
  <2>4. Parts(F2, G, LaneCalls(sgs), Holds, p .. trip - 1)
    <3>1. CASE r > 0
      <4> DEFINE c == Call(q * sgs, r, TRUE)
      <4>1. c \in LaneCalls(sgs) /\ c \in Calls(sgs) /\ c.block = p /\ c.size = r
        BY <2>1, <2>2, <3>1 DEF Call, Calls, LaneCalls
      <4>2. F2 = [g \in G |-> IF g = tiles - 1 THEN <<c>> ELSE <<>>]
        BY <3>1
      <4>3. tiles - 1 \in G
        BY DEF Below
      <4> HIDE DEF c, F2
      <4>4. \A x : <<c, x>> \in Holds <=> x \in p .. trip - 1
        BY <2>1, <2>2, <4>1, HoldsMeans
      <4> DEFINE last == tiles - 1
      <4>5. last \in G /\ F2 = [g \in G |-> IF g = last THEN <<c>> ELSE <<>>]
        BY <4>2, <4>3
      <4> DEFINE C == LaneCalls(sgs)
                 S == p .. trip - 1
      <4> HIDE DEF last, G, C, S
      <4>6. c \in C /\ \A x : <<c, x>> \in Holds <=> x \in S
        BY <4>1, <4>4 DEF C, S
      <4>7. Parts([g \in G |-> IF g = last THEN <<c>> ELSE <<>>], G, C, Holds, S)
        BY <4>5, <4>6, PartsOfOne
      <4> QED BY <4>5, <4>7 DEF C, S
    <3>2. CASE ~(r > 0)
      <4>1. F2 = [g \in G |-> <<>>] /\ p .. trip - 1 = {}
        BY <2>1, <2>2, <3>2
      <4> HIDE DEF F2
      <4> QED BY <4>1, PartsOfNone
    <3> QED BY <3>1, <3>2
  <2>5. ASSUME NEW g \in G
        PROVE  F[g] = F1[g] \o F2[g]
    <3> DEFINE starts == IF q > 0 THEN Iterate(sgs * g, sgs * q, sgs * tiles) ELSE <<>>
               others == Iterate(0 + sgs * turn[g], 0 + sgs * q, sgs * tiles)
    <3>1. g \in Nat /\ sgs * g \in Nat
      BY ProductIsNat DEF Below
    <3>2. 0 + sgs * turn[g] = sgs * g /\ 0 + sgs * q = sgs * q
      BY <2>2, <3>1 DEF p
    <3>3. starts = others
      <4>1. CASE q > 0
        BY <3>2, <4>1
      <4>2. CASE ~(q > 0)
        <5>1. q = 0 /\ sgs * q = 0
          BY <2>1, <4>2
        <5>2. others = <<>>
          BY <3>1, <3>2, <5>1 DEF Iterate
        <5> QED BY <4>2, <5>2
      <4> QED BY <4>1, <4>2
    <3>4. F1[g] = [i \in DOMAIN others |-> Call(others[i], sgs, FALSE)]
      BY DEF Dealt
    <3>5. F[g] = [i \in DOMAIN starts |-> Call(starts[i], sgs, FALSE)] \o F2[g]
      BY DEF TileBySgs, q, r
    <3> HIDE DEF starts, others, F1, F2, F
    <3> QED BY <3>3, <3>4, <3>5
  <2>6. F = Joined(F1, F2, G)
    <3> HIDE DEF F1, F2
    <3> QED BY <2>5 DEF Joined
  <2>7. (0 .. p - 1) \cap (p .. trip - 1) = {} /\ (0 .. p - 1) \cup (p .. trip - 1) = Below(trip)
    BY <2>1, <2>2 DEF Below
  <2> HIDE DEF F, F1, F2, G
  <2>8. Parts(Joined(F1, F2, G), G, LaneCalls(sgs), Holds, (0 .. p - 1) \cup (p .. trip - 1))
    BY <2>3, <2>4, <2>7, PartsOfBoth
  <2> QED BY <2>6, <2>7, <2>8 DEF F, G
<1> QED BY <1>1, <1>2

(* In the second round every subgroup has a turn of its own.               *)
LEMMA Turns ==
    ASSUME NEW tiles \in Nat \ {0}, NEW rem \in Nat
    PROVE  /\ \A g \in Below(tiles) : Turn(g, rem, tiles) \in Below(tiles)
           /\ \A t \in Below(tiles) : \E g \in Below(tiles) : Turn(g, rem, tiles) = t
           /\ \A g, h \in Below(tiles) : Turn(g, rem, tiles) = Turn(h, rem, tiles) => g = h
<1> DEFINE a == CRem(rem, tiles)
           T(g) == IF g + a < tiles THEN g + a ELSE g + a - tiles
<1>1. a \in Nat /\ a < tiles
  <2>1. CRem(rem, tiles) = rem % tiles /\ rem % tiles \in 0 .. tiles - 1
    BY QuotientFacts
  <2> QED BY <2>1
<1>2. ASSUME NEW g \in Below(tiles)
      PROVE  Turn(g, rem, tiles) = T(g)
  <2> DEFINE x == g + a
             m == x % tiles
             d == x \div tiles
  <2>1. x \in Nat /\ g \in Nat /\ g < tiles
    BY <1>1 DEF Below
  <2>2. Turn(g, rem, tiles) = CRem(x, tiles)
    BY DEF Turn
  <2> HIDE DEF a, x, T
  <2>3. /\ CRem(x, tiles) = m /\ d \in Nat /\ m \in 0 .. tiles - 1 /\ x = tiles * d + m
    BY <2>1, QuotientFacts
  <2>4. CASE x < tiles
    <3>1. x \in 0 .. tiles - 1 /\ tiles * d + m = tiles * 0 + x
      BY <2>1, <2>3, <2>4
    <3> HIDE DEF m, d
    <3>2. m = x
      BY <2>3, <3>1, OneQuotient, 0 \in Int
    <3> QED BY <2>2, <2>3, <2>4, <3>2 DEF T, x
  <2>5. CASE ~(x < tiles)
    <3> DEFINE y == x - tiles
    <3>1. y \in 0 .. tiles - 1 /\ tiles * d + m = tiles * 1 + y
      BY <1>1, <2>1, <2>3, <2>5 DEF x
    <3> HIDE DEF m, d, y
    <3>2. m = y
      BY <2>3, <3>1, OneQuotient, 1 \in Int
    <3>3. T(g) = y
      BY <1>1, <2>1, <2>5 DEF T, x, y
    <3> QED BY <2>2, <2>3, <3>2, <3>3
  <2> QED BY <2>4, <2>5
<1> HIDE DEF a
<1>3. \A g \in Below(tiles) : T(g) \in Below(tiles)
  BY <1>1 DEF Below
<1>4. ASSUME NEW t \in Below(tiles)
      PROVE  \E g \in Below(tiles) : T(g) = t
  <2> DEFINE g == IF t >= a THEN t - a ELSE t - a + tiles
  <2>1. g \in Below(tiles) /\ T(g) = t
    BY <1>1 DEF Below
  <2> QED BY <2>1
<1>5. \A g, h \in Below(tiles) : T(g) = T(h) => g = h
  BY <1>1 DEF Below
<1> HIDE DEF T
<1> QED BY <1>2, <1>3, <1>4, <1>5

(* The blocks of tile_loop_uniformly are as many as it takes.  Only where  *)
(* there is nothing to loop over, there may be none.                       *)
LEMMA EnoughBlocks ==
    ASSUME NEW trip \in Nat, NEW blockSize \in Nat \ {0}, NEW tiles \in Nat \ {0}
    PROVE  /\ UniformBlocks(trip, blockSize, tiles) \in Nat
           /\ UniformBlocks(trip, blockSize, tiles) = 0 => trip = 0
           /\ trip <= blockSize * UniformBlocks(trip, blockSize, tiles)
<1> DEFINE x == trip - 1
           q == CDiv(x, blockSize)
           b == CDiv(q, tiles)
           n == (1 + b) * tiles
<1>1. UniformBlocks(trip, blockSize, tiles) = n
  BY DEF UniformBlocks
<1>2. CASE trip = 0
  <2>1. 1 \div blockSize \in {0, 1} /\ 1 \div tiles \in {0, 1}
    <3>1. \A y \in Nat \ {0} : 1 \div y \in {0, 1}
      <4> TAKE y \in Nat \ {0}
      <4> DEFINE k == 1 \div y
                 m == 1 % y
      <4>1. k \in Nat /\ m \in 0 .. y - 1 /\ 1 = y * k + m
        BY QuotientFacts, 1 \in Nat
      <4> HIDE DEF k, m
      <4>2. CASE k >= 2
        <5>1. y * 1 < y * k
          BY <4>1, <4>2, Scaled
        <5> QED BY <4>1, <5>1
      <4>3. k \in {0, 1}
        BY <4>1, <4>2
      <4> QED BY <4>3 DEF k
    <3> QED BY <3>1
  <2>2. q \in {0, -1}
    <3>1. q = -(1 \div blockSize)
      BY <1>2 DEF CDiv, Abs
    <3> QED BY <2>1, <3>1
  <2>3. CDiv(0, tiles) = 0 /\ CDiv(-1, tiles) = -(1 \div tiles)
    <3>1. CDiv(0, tiles) = 0 \div tiles
      BY QuotientFacts, 0 \in Nat
    <3>2. 0 \div tiles = 0
      OBVIOUS
    <3> QED BY <3>1, <3>2 DEF CDiv, Abs
  <2> HIDE DEF q
  <2>4. b \in {0, -1}
    BY <2>1, <2>2, <2>3
  <2> HIDE DEF b
  <2>5. n \in Nat
    BY <2>4
  <2>6. blockSize * n \in Nat
    <3> HIDE DEF n
    <3> QED BY <2>5, ProductIsNat
  <2> HIDE DEF n
  <2> QED BY <1>1, <1>2, <2>5, <2>6
<1>3. CASE trip # 0
  <2>1. x \in Nat /\ trip = x + 1
    BY <1>3
  <2> DEFINE r == x % blockSize
             s == q % tiles
  <2>2. q \in Nat /\ r \in 0 .. blockSize - 1 /\ x = blockSize * q + r
    <3> HIDE DEF x
    <3>1. /\ x \div blockSize \in Nat /\ r \in 0 .. blockSize - 1
          /\ x = blockSize * (x \div blockSize) + r /\ q = x \div blockSize
      BY <2>1, QuotientFacts
    <3> QED BY <3>1
  <2> HIDE DEF x, q, r
  <2>3. b \in Nat /\ s \in 0 .. tiles - 1 /\ q = tiles * b + s
    <3>1. /\ q \div tiles \in Nat /\ s \in 0 .. tiles - 1
          /\ q = tiles * (q \div tiles) + s /\ b = q \div tiles
      BY <2>2, QuotientFacts
    <3> QED BY <3>1
  <2> HIDE DEF b, s
  <2>4. n = tiles * b + tiles /\ tiles * b \in Nat
    BY <2>3, ProductIsNat
  <2> HIDE DEF n
  <2>5. q + 1 <= n /\ n \in Nat \ {0}
    BY <2>3, <2>4
  <2>6. blockSize * (q + 1) <= blockSize * n
    BY <2>2, <2>5, Scaled
  <2>7. blockSize * (q + 1) = blockSize * q + blockSize /\ blockSize * q \in Nat
    BY <2>2, ProductIsNat
  <2>8. trip <= blockSize * n
    <3> DEFINE c == blockSize * (q + 1)
               d == blockSize * n
               e == blockSize * q
    <3>1. c \in Int /\ d \in Int /\ e \in Int
      BY <2>2, <2>5, Scaled
    <3>2. c <= d /\ c = e + blockSize /\ x = e + r
      BY <2>2, <2>6, <2>7
    <3> HIDE DEF c, d, e
    <3>3. trip <= d
      BY <2>1, <2>2, <3>1, <3>2
    <3> QED BY <3>3 DEF d
  <2> QED BY <1>1, <2>5, <2>8
<1> QED BY <1>2, <1>3

(* So does tile_loop_uniformly, in blocks no larger than asked for.        *)
LEMMA UniformParts ==
    ASSUME NEW trip \in Nat, NEW blockSize \in Nat \ {0}, NEW tiles \in Nat \ {0},
           UniformBlocks(trip, blockSize, tiles) # 0
    PROVE  Parts([g \in Below(tiles) |-> TileUniformly(trip, blockSize, tiles, g)], Below(tiles),
                 Calls(blockSize), Holds, Below(trip))
<1> DEFINE G == Below(tiles)
           C == Calls(blockSize)
           F == [g \in G |-> TileUniformly(trip, blockSize, tiles, g)]
           n == UniformBlocks(trip, blockSize, tiles)
           b == CDiv(trip, n)
           r == CRem(trip, n)
           l == b + 1
           u == l * r
           v == b * (n - r)
           own == [g \in G |-> g]
           turn == [g \in G |-> Turn(g, r, tiles)]
           first(g) == IF r > 0 THEN Iterate(l * g, l * r, l * tiles) ELSE <<>>
           second(g) == Iterate(u + b * turn[g], trip, b * tiles)
           F1 == [g \in G |-> [i \in DOMAIN first(g) |-> Call(first(g)[i], l, FALSE)]]
           F2 == [g \in G |-> [i \in DOMAIN second(g) |-> Call(second(g)[i], b, FALSE)]]
<1>1. n \in Nat \ {0} /\ trip <= blockSize * n
  BY EnoughBlocks
<1>2. b \in Nat /\ r \in 0 .. n - 1 /\ trip = n * b + r
  <2> HIDE DEF n
  <2>1. b = trip \div n /\ r = trip % n
    BY <1>1, QuotientFacts
  <2>2. trip \div n \in Nat /\ trip % n \in 0 .. n - 1 /\ trip = n * (trip \div n) + (trip % n)
    BY <1>1, QuotientFacts
  <2> HIDE DEF b, r
  <2> QED BY <2>1, <2>2
<1>3. F = Joined(F1, F2, G)
  <2>1. ASSUME NEW g \in G
        PROVE  F[g] = F1[g] \o F2[g]
    <3>1. turn[g] = Turn(g, r, tiles)
      OBVIOUS
    <3>2. F[g] = [i \in DOMAIN first(g) |-> Call(first(g)[i], l, FALSE)]
                 \o [i \in DOMAIN second(g) |-> Call(second(g)[i], b, FALSE)]
      BY DEF TileUniformly
    <3> HIDE DEF F, first, second
    <3> QED BY <3>2
  <2> HIDE DEF F, F1, F2
  <2> QED BY <2>1 DEF Joined, F
<1> HIDE DEF n, b, r
<1>4. u \in Nat /\ v \in Nat /\ trip = u + v /\ l \in Nat \ {0}
  <2>1. l \in Nat \ {0} /\ n - r \in Nat
    BY <1>1, <1>2
  <2>2. u \in Nat /\ v \in Nat
    BY <1>2, <2>1, ProductIsNat
  <2>3. b * (n - r) = n * b - b * r /\ l * r = b * r + r
    BY <1>1, <1>2
  <2>4. b * r \in Nat /\ n * b \in Nat
    BY <1>1, <1>2, ProductIsNat
  <2> QED BY <1>2, <2>1, <2>2, <2>3, <2>4
<1> HIDE DEF l, u, v
(* The long blocks.                                                        *)
<1>5. Parts(F1, G, C, Holds, 0 .. u - 1)
  <2>1. CASE r > 0
    <3>1. l <= blockSize
      <4>1. n * b < n * blockSize
        <5> DEFINE c == n * b
                   d == n * blockSize
        <5>1. c \in Int /\ d \in Int /\ blockSize * n = d
          BY <1>1, <1>2
        <5>2. trip = c + r /\ trip <= d
          BY <1>1, <1>2, <5>1
        <5> HIDE DEF c, d
        <5>3. c < d
          BY <1>2, <2>1, <5>1, <5>2
        <5> QED BY <5>3 DEF c, d
      <4>2. b < blockSize
        BY <1>1, <1>2, <4>1, Scaled
      <4> QED BY <1>2, <4>2 DEF l
    <3>2. \A x \in Nat : Call(x, l, FALSE) \in C
      BY <1>4, <3>1 DEF Call, Calls
    <3>3. own \in [G -> G] /\ (\A t \in G : \E g \in G : own[g] = t)
          /\ \A g, h \in G : own[g] = own[h] => g = h
      OBVIOUS
    <3>4. 0 .. 0 + l * r - 1 = 0 .. u - 1
      BY <1>4 DEF u
    <3>5. F1 = Dealt(0, r, l, tiles, own)
      <4>1. ASSUME NEW g \in G
            PROVE  Iterate(0 + l * own[g], 0 + l * r, l * tiles) = first(g)
        <5>1. l * own[g] = l * g /\ l * g \in Nat /\ l * r \in Nat
          BY <1>2, <1>4, ProductIsNat DEF Below
        <5>2. 0 + l * own[g] = l * g /\ 0 + l * r = l * r
          BY <5>1
        <5> HIDE DEF own
        <5> QED BY <2>1, <5>2
      <4>2. Dealt(0, r, l, tiles, own) =
                [g \in G |-> [i \in DOMAIN Iterate(0 + l * own[g], 0 + l * r, l * tiles) |->
                                Call(Iterate(0 + l * own[g], 0 + l * r, l * tiles)[i], l, FALSE)]]
        BY DEF Dealt
      <4> HIDE DEF first, own
      <4> QED BY <4>1, <4>2
    <3> DEFINE z == 0
    <3>6. z \in Nat /\ r \in Nat
      BY <1>1, <1>2
    <3>7. \A x \in Nat : Call(x, l, FALSE) \in C
      BY <3>2
    <3> HIDE DEF G, C, own, F1, z
    <3>8. Parts(Dealt(z, r, l, tiles, own), G, C, Holds, z .. z + l * r - 1)
      BY <1>4, <3>3, <3>6, <3>7, DealtParts DEF G
    <3> QED BY <3>4, <3>5, <3>8 DEF z
  <2>2. CASE ~(r > 0)
    <3>1. 0 .. u - 1 = {}
      <4>1. r = 0 /\ l * 0 = 0
        BY <1>2, <1>4, <2>2
      <4> QED BY <4>1 DEF u
    <3>2. \A g \in G : [i \in DOMAIN <<>> |-> Call(<<>>[i], l, FALSE)] = <<>>
      OBVIOUS
    <3>3. F1 = [g \in G |-> <<>>]
      BY <2>2, <3>2
    <3> HIDE DEF F1
    <3> QED BY <3>1, <3>3, PartsOfNone
  <2> QED BY <2>1, <2>2
(* The short ones.                                                         *)
<1>6. Parts(F2, G, C, Holds, u .. trip - 1)
  <2> DEFINE T(g) == Turn(g, r, tiles)
  <2>1. /\ \A g \in G : T(g) \in G
        /\ \A t \in G : \E g \in G : T(g) = t
        /\ \A g, h \in G : T(g) = T(h) => g = h
    BY <1>2, Turns
  <2> HIDE DEF T
  <2>2. turn = [g \in G |-> T(g)]
    BY DEF T
  <2> HIDE DEF turn, G
  <2>3. turn \in [G -> G] /\ (\A t \in G : \E g \in G : turn[g] = t)
        /\ \A g, h \in G : turn[g] = turn[h] => g = h
    BY <2>1, <2>2
  <2>4. CASE b = 0
    <3>1. u = trip
      <4>1. v = 0
        BY <1>1, <1>2, <2>4 DEF v
      <4> QED BY <1>4, <4>1
    <3>2. ASSUME NEW g \in G
          PROVE  second(g) = <<>>
      <4>1. turn[g] \in Nat
        <5>1. turn[g] \in G
          BY <2>3
        <5> HIDE DEF second
        <5> QED BY <5>1 DEF G, Below
      <4>2. b * turn[g] = 0
        BY <2>4, <4>1
      <4>3. ~(u + b * turn[g] < trip)
        BY <1>4, <3>1, <4>2
      <4> QED BY <4>3 DEF Iterate
    <3>3. [i \in DOMAIN <<>> |-> Call(<<>>[i], b, FALSE)] = <<>>
      OBVIOUS
    <3> HIDE DEF second
    <3>4. F2 = [g \in G |-> <<>>]
      BY <3>2, <3>3
    <3>5. u .. trip - 1 = {}
      BY <1>4, <3>1
    <3> HIDE DEF F2
    <3> QED BY <3>4, <3>5, PartsOfNone
  <2>5. CASE b # 0
    <3>1. b \in Nat \ {0} /\ b <= blockSize
      <4>1. n * b <= n * blockSize
        <5> DEFINE c == n * b
                   d == n * blockSize
        <5>1. c \in Int /\ d \in Int /\ blockSize * n = d
          BY <1>1, <1>2
        <5>2. trip = c + r /\ trip <= d
          BY <1>1, <1>2, <5>1
        <5> HIDE DEF c, d
        <5>3. c <= d
          BY <1>2, <5>1, <5>2
        <5> QED BY <5>3 DEF c, d
      <4> QED BY <1>1, <1>2, <2>5, <4>1, Scaled
    <3>2. \A x \in Nat : Call(x, b, FALSE) \in C
      BY <3>1 DEF Call, Calls
    <3>3. u + v = trip /\ u .. u + b * (n - r) - 1 = u .. trip - 1 /\ n - r \in Nat
          /\ u + b * (n - r) = trip
      BY <1>1, <1>2, <1>4 DEF v
    <3>4. F2 = Dealt(u, n - r, b, tiles, turn)
      <4>1. Dealt(u, n - r, b, tiles, turn) =
                [g \in G |-> [i \in DOMAIN Iterate(u + b * turn[g], u + b * (n - r), b * tiles) |->
                                Call(Iterate(u + b * turn[g], u + b * (n - r), b * tiles)[i],
                                     b, FALSE)]]
        BY DEF Dealt, G
      <4>2. \A g \in G : Iterate(u + b * turn[g], u + b * (n - r), b * tiles) = second(g)
        BY <3>3
      <4> HIDE DEF second
      <4> QED BY <4>1, <4>2
    <3> DEFINE m == n - r
    <3>5. m \in Nat
      BY <3>3
    <3> HIDE DEF C, F2, m
    <3>6. Parts(Dealt(u, m, b, tiles, turn), G, C, Holds, u .. u + b * m - 1)
      BY <1>4, <2>3, <3>1, <3>2, <3>5, DealtParts DEF G
    <3> QED BY <3>3, <3>4, <3>6 DEF m
  <2> QED BY <2>4, <2>5
<1>7. (0 .. u - 1) \cap (u .. trip - 1) = {} /\ (0 .. u - 1) \cup (u .. trip - 1) = Below(trip)
  BY <1>4 DEF Below
<1> HIDE DEF F, F1, F2, G, C
<1>8. Parts(Joined(F1, F2, G), G, C, Holds, (0 .. u - 1) \cup (u .. trip - 1))
  BY <1>5, <1>6, <1>7, PartsOfBoth
<1> QED BY <1>3, <1>7, <1>8 DEF F, G, C

-----------------------------------------------------------------------------
(* Two nested loops.                                                       *)
Row(n, t) == 1 + ((n - 1) \div Len(t))
Col(n, t) == 1 + ((n - 1) % Len(t))

NestedMeans(N, s, t, A, B) ==
    /\ N \in Seq(A \X B)
    /\ \A n \in DOMAIN N :
           /\ Row(n, t) \in DOMAIN s /\ Col(n, t) \in DOMAIN t
           /\ N[n] = <<s[Row(n, t)], t[Col(n, t)]>>
    /\ \A i \in DOMAIN s, j \in DOMAIN t :
           \E n \in DOMAIN N : Row(n, t) = i /\ Col(n, t) = j
    /\ \A m, n \in DOMAIN N : Row(m, t) = Row(n, t) /\ Col(m, t) = Col(n, t) => m = n

LEMMA NestedFacts ==
    ASSUME NEW A, NEW B, NEW s \in Seq(A), NEW t \in Seq(B)
    PROVE  NestedMeans(Nested(s, t), s, t, A, B)
<1> DEFINE k == Len(s)
           l == Len(t)
           N == Nested(s, t)
<1>1. k \in Nat /\ l \in Nat /\ DOMAIN s = 1 .. k /\ DOMAIN t = 1 .. l
  BY LenProperties
<1>2. k * l \in Nat
  <2> HIDE DEF k, l
  <2> QED BY <1>1, ProductIsNat
<1>3. /\ DOMAIN N = 1 .. k * l
      /\ \A n \in 1 .. k * l : N[n] = <<s[Row(n, t)], t[Col(n, t)]>>
  BY DEF Nested, Row, Col
<1>4. ASSUME NEW n \in 1 .. k * l
      PROVE  /\ Row(n, t) \in 1 .. k /\ Col(n, t) \in 1 .. l
             /\ n - 1 = l * (Row(n, t) - 1) + (Col(n, t) - 1)
  <2> DEFINE x == n - 1
             i == x \div l
             j == x % l
  <2>1. Row(n, t) = 1 + i /\ Col(n, t) = 1 + j
    BY DEF Row, Col
  <2> HIDE DEF k, l
  <2>2. l # 0
    <3> SUFFICES ASSUME l = 0 PROVE FALSE
      OBVIOUS
    <3>1. k * l = 0
      BY <1>1
    <3> QED BY <3>1
  <2>3. x \in Nat /\ x < k * l /\ k * l = l * k
    BY <1>1, <1>2
  <2> HIDE DEF x
  <2>4. i \in Nat /\ j \in 0 .. l - 1 /\ x = l * i + j
    BY <1>1, <2>2, <2>3, QuotientFacts
  <2> HIDE DEF i, j
  <2>5. l * i < l * k
    <3> DEFINE c == l * i
               d == l * k
    <3>1. c \in Nat /\ d \in Nat
      BY <1>1, <2>4, ProductIsNat
    <3>2. x = c + j /\ x < d
      BY <2>3, <2>4
    <3> HIDE DEF c, d
    <3>3. c < d
      BY <1>1, <2>4, <3>1, <3>2
    <3> QED BY <3>3 DEF c, d
  <2>6. i < k
    BY <1>1, <2>2, <2>4, <2>5, Scaled
  <2>7. (1 + i) - 1 = i /\ (1 + j) - 1 = j
    BY <1>1, <2>4
  <2> QED BY <1>1, <2>1, <2>4, <2>6, <2>7 DEF x
<1>5. ASSUME NEW i \in 1 .. k, NEW j \in 1 .. l
      PROVE  \E n \in 1 .. k * l : Row(n, t) = i /\ Col(n, t) = j
  <2> DEFINE c == l * (i - 1)
             n == c + j
  <2> HIDE DEF k, l
  <2>1. l \in Nat \ {0} /\ i - 1 \in Nat /\ j - 1 \in 0 .. l - 1 /\ i - 1 < k
    BY <1>1
  <2>2. c \in Nat
    BY <2>1, ProductIsNat
  <2>3. c + l <= k * l
    <3>1. l * i <= l * k
      BY <1>1, <2>1, Scaled
    <3>2. l * i = c + l /\ l * k = k * l
      BY <1>1
    <3> QED BY <3>1, <3>2
  <2> HIDE DEF c
  <2>4. n \in 1 .. k * l
    BY <1>1, <1>2, <2>1, <2>2, <2>3
  <2>5. /\ Row(n, t) - 1 \in Int /\ Col(n, t) - 1 \in 0 .. l - 1 /\ Row(n, t) \in Int /\ Col(n, t) \in Int
        /\ n - 1 = l * (Row(n, t) - 1) + (Col(n, t) - 1)
    <3> HIDE DEF n
    <3>1. /\ Row(n, t) \in 1 .. k /\ Col(n, t) \in 1 .. l
          /\ n - 1 = l * (Row(n, t) - 1) + (Col(n, t) - 1)
      BY <1>4, <2>4
    <3> QED BY <1>1, <3>1
  <2>6. n - 1 = l * (i - 1) + (j - 1)
    BY <2>1, <2>2 DEF c
  <2> HIDE DEF n
  <2> DEFINE p == Row(n, t) - 1
             q == Col(n, t) - 1
             y == i - 1
             z == j - 1
  <2>7. p \in Int /\ q \in 0 .. l - 1 /\ y \in Int /\ z \in 0 .. l - 1 /\ l * p + q = l * y + z
    BY <2>1, <2>5, <2>6
  <2> HIDE DEF p, q, y, z
  <2>8. p = y /\ q = z
    BY <2>1, <2>7, OneQuotient
  <2> QED BY <2>4, <2>5, <2>8 DEF p, q, y, z
<1>6. ASSUME NEW m \in 1 .. k * l, NEW n \in 1 .. k * l,
             Row(m, t) = Row(n, t), Col(m, t) = Col(n, t)
      PROVE  m = n
  <2>1. m - 1 = n - 1
    BY <1>4, <1>6
  <2> QED BY <1>2, <2>1
<1> HIDE DEF N, k, l
<1>7. \A n \in 1 .. k * l : N[n] \in A \X B
  <2> SUFFICES ASSUME NEW n \in 1 .. k * l PROVE N[n] \in A \X B
    OBVIOUS
  <2> DEFINE a == s[Row(n, t)]
             b == t[Col(n, t)]
  <2>1. a \in A /\ b \in B
    BY <1>1, <1>4, ElementOfSeq DEF k, l
  <2>2. N[n] = <<a, b>>
    BY <1>3
  <2> HIDE DEF a, b
  <2> QED BY <2>1, <2>2
<1>8. N \in Seq(A \X B)
  <2>1. N = [n \in 1 .. k * l |-> N[n]]
    BY <1>3 DEF N, Nested
  <2> QED BY <1>2, <1>7, <2>1, SeqDef, SMTT(60)
<1> QED BY <1>1, <1>3, <1>4, <1>5, <1>6, <1>8 DEF N, NestedMeans

(* A pair of bodies has the pairs of their parts.                           *)
Paired(A, B, HA, HB, SA, SB) ==
    {h \in (A \X B) \X (SA \X SB) : <<h[1][1], h[2][1]>> \in HA /\ <<h[1][2], h[2][2]>> \in HB}

(* Each g runs the nest of one loop of FA and one of FB.                   *)
NestedBy(FA, FB, a, b, G) == [g \in G |-> Nested(FA[a[g]], FB[b[g]])]

LEMMA PartsOfPairs ==
    ASSUME NEW G, NEW A, NEW B, NEW HA, NEW HB, NEW SA, NEW SB, NEW GA, NEW GB, NEW FA, NEW FB,
           Parts(FA, GA, A, HA, SA), Parts(FB, GB, B, HB, SB),
           NEW a \in [G -> GA], NEW b \in [G -> GB],
           \A i \in GA, j \in GB : \E g \in G : a[g] = i /\ b[g] = j,
           \A g, h \in G : a[g] = a[h] /\ b[g] = b[h] => g = h
    PROVE  Parts(NestedBy(FA, FB, a, b, G), G, A \X B,
                 Paired(A, B, HA, HB, SA, SB), SA \X SB)
<1> DEFINE F == NestedBy(FA, FB, a, b, G)
           H == Paired(A, B, HA, HB, SA, SB)
           r(g, n) == Row(n, FB[b[g]])
           c(g, n) == Col(n, FB[b[g]])
<1>1. ASSUME NEW g \in G
      PROVE  /\ F[g] \in Seq(A \X B) /\ a[g] \in GA /\ b[g] \in GB
             /\ \A n \in DOMAIN F[g] :
                    /\ r(g, n) \in DOMAIN FA[a[g]] /\ c(g, n) \in DOMAIN FB[b[g]]
                    /\ F[g][n] = <<FA[a[g]][r(g, n)], FB[b[g]][c(g, n)]>>
             /\ \A i \in DOMAIN FA[a[g]], j \in DOMAIN FB[b[g]] :
                    \E n \in DOMAIN F[g] : r(g, n) = i /\ c(g, n) = j
             /\ \A m, n \in DOMAIN F[g] : r(g, m) = r(g, n) /\ c(g, m) = c(g, n) => m = n
  <2>1. a[g] \in GA /\ b[g] \in GB
    OBVIOUS
  <2>2. FA[a[g]] \in Seq(A) /\ FB[b[g]] \in Seq(B)
    BY <2>1 DEF Parts
  <2>3. F[g] = Nested(FA[a[g]], FB[b[g]])
    BY DEF NestedBy
  <2> HIDE DEF F
  <2> DEFINE s == FA[a[g]]
             t == FB[b[g]]
             N == F[g]
  <2>4. s \in Seq(A) /\ t \in Seq(B) /\ N = Nested(s, t)
    BY <2>2, <2>3
  <2> HIDE DEF s, t, N
  <2>5. NestedMeans(N, s, t, A, B)
    BY <2>4, NestedFacts
  <2> QED BY <2>1, <2>5, Zenon DEF NestedMeans, s, t, N
<1>2. F \in [G -> Seq(A \X B)]
  BY <1>1 DEF NestedBy
<1> HIDE DEF F, r, c
<1>3. \A g \in GA : \A i \in DOMAIN FA[g] : FA[g][i] \in A
  BY ElementOfSeq DEF Parts
<1>4. \A g \in GB : \A i \in DOMAIN FB[g] : FB[g][i] \in B
  BY ElementOfSeq DEF Parts
<1>5. \A u \in A, v \in B, x \in SA, y \in SB :
          <<<<u, v>>, <<x, y>>>> \in H <=> <<u, x>> \in HA /\ <<v, y>> \in HB
  BY DEF Paired
<1>6. \A u, p : <<u, p>> \in H => p \in SA \X SB
  BY DEF Paired
<1> HIDE DEF H
<1>7. ASSUME NEW g \in G, NEW n \in DOMAIN F[g], NEW x \in SA, NEW y \in SB
      PROVE  <<F[g][n], <<x, y>>>> \in H
                 <=> /\ <<FA[a[g]][r(g, n)], x>> \in HA
                     /\ <<FB[b[g]][c(g, n)], y>> \in HB
  <2> DEFINE u == FA[a[g]][r(g, n)]
             v == FB[b[g]][c(g, n)]
  <2>1. u \in A /\ v \in B /\ F[g][n] = <<u, v>>
    BY <1>1, <1>3, <1>4
  <2> HIDE DEF u, v
  <2>2. <<F[g][n], <<x, y>>>> \in H <=> <<u, x>> \in HA /\ <<v, y>> \in HB
    BY <1>5, <2>1
  <2> QED BY <2>2 DEF u, v
<1>8. ASSUME NEW p \in SA \X SB
      PROVE  \E g \in G : \E n \in DOMAIN F[g] : <<F[g][n], p>> \in H
  <2>1. PICK x \in SA, y \in SB : p = <<x, y>>
    OBVIOUS
  <2>2. PICK i \in GA : \E m \in DOMAIN FA[i] : <<FA[i][m], x>> \in HA
    BY DEF Parts
  <2>3. PICK m \in DOMAIN FA[i] : <<FA[i][m], x>> \in HA
    BY <2>2
  <2>4. PICK j \in GB : \E k \in DOMAIN FB[j] : <<FB[j][k], y>> \in HB
    BY DEF Parts
  <2>5. PICK k \in DOMAIN FB[j] : <<FB[j][k], y>> \in HB
    BY <2>4
  <2>6. PICK g \in G : a[g] = i /\ b[g] = j
    OBVIOUS
  <2>7. PICK n \in DOMAIN F[g] : r(g, n) = m /\ c(g, n) = k
    BY <1>1, <2>6
  <2> QED BY <1>7, <2>1, <2>3, <2>5, <2>6, <2>7
<1>11. \A i, j \in GA : \A k \in DOMAIN FA[i], l \in DOMAIN FA[j] : \A x :
          <<FA[i][k], x>> \in HA /\ <<FA[j][l], x>> \in HA => i = j /\ k = l
  BY OneCall
<1>12. \A i, j \in GB : \A k \in DOMAIN FB[i], l \in DOMAIN FB[j] : \A x :
          <<FB[i][k], x>> \in HB /\ <<FB[j][l], x>> \in HB => i = j /\ k = l
  BY OneCall
<1>9. ASSUME NEW g \in G, NEW h \in G, NEW m \in DOMAIN F[g], NEW n \in DOMAIN F[h], NEW p,
             <<F[g][m], p>> \in H, <<F[h][n], p>> \in H
      PROVE  g = h /\ m = n
  <2>1. PICK x \in SA, y \in SB : p = <<x, y>>
    <3>1. p \in SA \X SB
      BY <1>6, <1>9
    <3> QED BY <3>1
  <2>2. /\ <<FA[a[g]][r(g, m)], x>> \in HA /\ <<FB[b[g]][c(g, m)], y>> \in HB
        /\ <<FA[a[h]][r(h, n)], x>> \in HA /\ <<FB[b[h]][c(h, n)], y>> \in HB
    BY <1>7, <1>9, <2>1
  <2>3. /\ a[g] \in GA /\ b[g] \in GB /\ a[h] \in GA /\ b[h] \in GB
        /\ r(g, m) \in DOMAIN FA[a[g]] /\ c(g, m) \in DOMAIN FB[b[g]]
        /\ r(h, n) \in DOMAIN FA[a[h]] /\ c(h, n) \in DOMAIN FB[b[h]]
    BY <1>1
  <2>4. a[g] = a[h] /\ r(g, m) = r(h, n)
    BY <1>11, <2>2, <2>3, ZenonT(60)
  <2>5. b[g] = b[h] /\ c(g, m) = c(h, n)
    BY <1>12, <2>2, <2>3, ZenonT(60)
  <2>6. g = h
    BY <2>4, <2>5
  <2> QED BY <1>1, <2>4, <2>5, <2>6
<1>10. NoneShared(F, G, H)
  BY <1>9 DEF NoneShared
<1> QED BY <1>2, <1>6, <1>8, <1>10 DEF Parts, F, H

(* Other bodies and other parts, which those there are stand for.           *)
LEMMA PartsRenamed ==
    ASSUME NEW F, NEW G, NEW C, NEW H, NEW S, Parts(F, G, C, H, S),
           NEW C2, NEW F2 \in [G -> Seq(C2)], NEW H2, NEW S2, NEW P \in [S2 -> S],
           \A g \in G : DOMAIN F2[g] = DOMAIN F[g],
           \A g \in G : \A i \in DOMAIN F[g] : \A p :
               <<F2[g][i], p>> \in H2 <=> p \in S2 /\ <<F[g][i], P[p]>> \in H
    PROVE  Parts(F2, G, C2, H2, S2)
<1>1. NoneShared(F2, G, H2)
  <2>1. NoneShared(F, G, H)
    BY DEF Parts
  <2> SUFFICES ASSUME NEW g \in G, NEW h \in G, NEW i \in DOMAIN F2[g], NEW j \in DOMAIN F2[h], NEW p,
                      <<F2[g][i], p>> \in H2, <<F2[h][j], p>> \in H2
               PROVE  g = h /\ i = j
    BY DEF NoneShared
  <2>2. i \in DOMAIN F[g] /\ j \in DOMAIN F[h]
    OBVIOUS
  <2> DEFINE x == P[p]
  <2>3. <<F[g][i], x>> \in H /\ <<F[h][j], x>> \in H
    BY <2>2
  <2> HIDE DEF x
  <2> QED BY <2>1, <2>2, <2>3, ZenonT(60) DEF NoneShared
<1>2. \A g \in G : \A i \in DOMAIN F2[g] : \A p : <<F2[g][i], p>> \in H2 => p \in S2
  OBVIOUS
<1>3. ASSUME NEW p \in S2
      PROVE  \E g \in G : \E i \in DOMAIN F2[g] : <<F2[g][i], p>> \in H2
  <2>1. P[p] \in S
    OBVIOUS
  <2>2. PICK g \in G : \E i \in DOMAIN F[g] : <<F[g][i], P[p]>> \in H
    BY <2>1 DEF Parts
  <2>3. PICK i \in DOMAIN F[g] : <<F[g][i], P[p]>> \in H
    BY <2>2
  <2> QED BY <2>3
<1> QED BY <1>1, <1>2, <1>3 DEF Parts

-----------------------------------------------------------------------------
(* Points and tiles of a nest.                                             *)
Points == [1 .. Dim -> Int]
Boxes == [1 .. Dim -> SUBSET Int]

(* The largest size of a tile in a mode.                                   *)
Largest(i) == IF nest.op = "gemm" THEN BlockSize[i] * NumBlocks(i) ELSE
              IF nest.op = "foreach_tile" THEN nest.shape[i] ELSE nest.sgs

(* No tile runs a point in two of its boxes.                               *)
BoxesApart(t) ==
    \A a, b \in DOMAIN t.boxes : \A p : p \in Box(t.boxes[a]) /\ p \in Box(t.boxes[b]) => a = b

TileSet ==
    {t \in [boxes : Seq(Boxes), size : Seq(Nat)] :
        BoxesApart(t) /\ \A i \in 1 .. Len(t.size) : t.size[i] \in 1 .. Largest(i)}

(* What tiles run.                                                         *)
Runs == {h \in TileSet \X Points : \E b \in DOMAIN h[1].boxes : h[2] \in Box(h[1].boxes[b])}

LEMMA BoxMeans ==
    ASSUME NEW s \in Boxes, NEW p
    PROVE  p \in Box(s) <=> p \in Points /\ \A i \in 1 .. Dim : p[i] \in s[i]
<1>1. DOMAIN s = 1 .. Dim /\ \A i \in 1 .. Dim : s[i] \subseteq Int
  BY DEF Boxes
<1>2. ASSUME p \in Box(s)
      PROVE  p \in Points /\ \A i \in 1 .. Dim : p[i] \in s[i]
  <2>1. /\ p \in [1 .. Dim -> UNION {s[i] : i \in 1 .. Dim}]
        /\ \A i \in 1 .. Dim : p[i] \in s[i]
    BY <1>1, <1>2 DEF Box
  <2>2. p = [i \in 1 .. Dim |-> p[i]] /\ \A i \in 1 .. Dim : p[i] \in Int
    BY <1>1, <2>1
  <2> QED BY <2>1, <2>2 DEF Points
<1>3. ASSUME p \in Points, \A i \in 1 .. Dim : p[i] \in s[i]
      PROVE  p \in Box(s)
  <2>1. p = [i \in 1 .. Dim |-> p[i]]
    BY <1>3 DEF Points
  <2>2. \A i \in 1 .. Dim : p[i] \in UNION {s[j] : j \in 1 .. Dim}
    BY <1>3
  <2>3. p \in [1 .. Dim -> UNION {s[i] : i \in 1 .. Dim}]
    BY <2>1, <2>2
  <2> QED BY <1>1, <1>3, <2>3 DEF Box
<1> QED BY <1>2, <1>3

LEMMA SpaceMeans ==
    ASSUME NEW p
    PROVE  p \in Space <=> p \in Points /\ \A i \in 1 .. Dim : p[i] \in Mode(i)
<1> DEFINE s == [i \in 1 .. Dim |-> Mode(i)]
<1>1. s \in Boxes /\ \A i \in 1 .. Dim : s[i] = Mode(i)
  BY DEF Boxes, Mode
<1>2. Space = Box(s)
  BY DEF Space
<1> HIDE DEF s
<1> QED BY <1>1, <1>2, BoxMeans

(* A tile of one box.                                                      *)
LEMMA OneBox ==
    ASSUME NEW s \in Boxes, NEW z \in Seq(Nat), \A i \in 1 .. Len(z) : z[i] \in 1 .. Largest(i)
    PROVE  /\ Tile(<<s>>, z) \in TileSet
           /\ \A p : <<Tile(<<s>>, z), p>> \in Runs
                       <=> p \in Points /\ \A i \in 1 .. Dim : p[i] \in s[i]
<1> DEFINE t == Tile(<<s>>, z)
           bs == <<s>>
<1>1. t.boxes = bs /\ t.size = z /\ t \in [boxes : Seq(Boxes), size : Seq(Nat)]
  BY DEF Tile
<1>2. DOMAIN bs = {1} /\ bs[1] = s
  OBVIOUS
<1> HIDE DEF t, bs
<1>3. BoxesApart(t)
  BY <1>1, <1>2 DEF BoxesApart
<1>4. t \in TileSet
  BY <1>1, <1>3 DEF TileSet
<1>5. \A p : <<t, p>> \in Runs <=> p \in Points /\ p \in Box(s)
  BY <1>1, <1>2, <1>4 DEF Runs
<1> QED BY <1>4, <1>5, BoxMeans DEF t, bs

-----------------------------------------------------------------------------
(* The nests the proofs are about: those that the model checker finds      *)
(* executed wrongly are left out, which are a second range of a foreach    *)
(* that ends before it starts, one of a foreach_tile that does not start   *)
(* at zero, and a gemm that distributes its columns uniformly and its rows *)
(* in several blocks at a time.                                            *)
Ordinary(n) ==
    /\ n.op = "gemm" /\ ~n.ext /\ n.static[2] =>
           ChooseBlockSizeMultiple(n.sgs, n.max[1], n.tiles[1],
                                   IF n.static[1] THEN n.to[1] - n.from[1] ELSE n.max[1]) = 1
    /\ n.op = "foreach" /\ Len(n.from) > 1 => n.from[2] <= n.to[2]
    /\ n.op = "foreach_tile" /\ Len(n.from) > 1 => n.from[2] = 0

LEMMA NestFacts ==
    ASSUME nest \in Nests
    PROVE  /\ Dim \in Nat
           /\ \A i \in 1 .. Dim : nest.from[i] \in Int /\ nest.to[i] \in Int /\ Size(i) \in Int
           /\ nest.tiles[1] \in Nat \ {0} /\ nest.tiles[2] \in Nat \ {0}
           /\ nest.tiles[1] * nest.tiles[2] \in Nat \ {0}
           /\ nest.sgs \in Nat \ {0}
           /\ Subgroup = Below(nest.tiles[1] * nest.tiles[2])
<1>1. WellFormed(nest)
  BY NestsAssumption
<1>2. /\ nest.from \in Seq(Int) /\ nest.to \in Seq(Int) /\ Len(nest.to) = Len(nest.from)
      /\ nest.tiles \in (Nat \ {0}) \X (Nat \ {0}) /\ nest.sgs \in Nat \ {0}
  BY <1>1 DEF WellFormed
<1>3. Dim \in Nat /\ \A i \in 1 .. Dim : nest.from[i] \in Int /\ nest.to[i] \in Int
  BY <1>2, ElementOfSeq, LenProperties DEF Dim
<1>4. \A i \in 1 .. Dim : Size(i) \in Int
  BY <1>3 DEF Size
<1>5. nest.tiles[1] \in Nat \ {0} /\ nest.tiles[2] \in Nat \ {0}
  BY <1>2
<1>6. nest.tiles[1] * nest.tiles[2] \in Nat \ {0}
  BY <1>5, Scaled
<1> QED BY <1>2, <1>3, <1>4, <1>5, <1>6 DEF Subgroup, Below

(* A pair of subgroup ids identifies a subgroup.                           *)
LEMMA SubgroupIds ==
    ASSUME nest \in Nests
    PROVE  /\ \A g \in Subgroup : SgY(g) \in Below(nest.tiles[2]) /\ SgX(g) \in Below(nest.tiles[1])
           /\ \A y \in Below(nest.tiles[2]), x \in Below(nest.tiles[1]) :
                  \E g \in Subgroup : SgY(g) = y /\ SgX(g) = x
           /\ \A g, h \in Subgroup : SgY(g) = SgY(h) /\ SgX(g) = SgX(h) => g = h
<1> DEFINE a == nest.tiles[1]
           b == nest.tiles[2]
<1>1. a \in Nat \ {0} /\ b \in Nat \ {0} /\ a * b \in Nat /\ Subgroup = Below(a * b)
  BY NestFacts
<1>2. \A g : SgX(g) = g % a /\ SgY(g) = g \div a
  BY DEF SgX, SgY
<1> HIDE DEF a, b
<1>3. ASSUME NEW g \in Subgroup
      PROVE  /\ SgY(g) \in Nat /\ SgY(g) < b /\ SgX(g) \in 0 .. a - 1
             /\ g \in Nat /\ g = a * SgY(g) + SgX(g)
  <2> DEFINE q == SgY(g)
             r == SgX(g)
  <2>1. g \in Nat /\ g < a * b
    BY <1>1 DEF Below
  <2>2. q \in Nat /\ r \in 0 .. a - 1 /\ g = a * q + r
    BY <1>1, <1>2, <2>1, QuotientFacts
  <2> HIDE DEF q, r
  <2>3. a * q < a * b
    <3>1. a * q \in Nat
      BY <1>1, <2>2, ProductIsNat
    <3> QED BY <1>1, <2>1, <2>2, <3>1
  <2>4. q < b
    BY <1>1, <2>2, <2>3, Scaled
  <2> QED BY <2>1, <2>2, <2>4 DEF q, r
<1>4. ASSUME NEW y \in Below(b), NEW x \in Below(a)
      PROVE  \E g \in Subgroup : SgY(g) = y /\ SgX(g) = x
  <2> DEFINE p == a * y
             g == p + x
  <2>1. y \in Nat /\ y + 1 <= b /\ x \in 0 .. a - 1
    BY <1>1 DEF Below
  <2>2. p \in Nat /\ p + a <= a * b
    <3>1. p \in Nat
      BY <1>1, <2>1, ProductIsNat
    <3>2. a * (y + 1) <= a * b /\ a * (y + 1) = a * y + a
      BY <1>1, <2>1, Scaled
    <3> QED BY <3>1, <3>2
  <2> HIDE DEF p
  <2>3. g \in Subgroup
    BY <1>1, <2>1, <2>2 DEF Below
  <2>4. g = a * y + x
    BY DEF p
  <2> HIDE DEF g
  <2>5. a * SgY(g) + SgX(g) = a * y + x /\ SgY(g) \in Int /\ SgX(g) \in 0 .. a - 1
    BY <1>3, <2>3, <2>4
  <2> DEFINE q == SgY(g)
             r == SgX(g)
  <2>6. a * q + r = a * y + x /\ q \in Int /\ r \in 0 .. a - 1
    BY <2>5
  <2> HIDE DEF q, r
  <2>7. q = y /\ r = x
    BY <1>1, <2>1, <2>6, OneQuotient
  <2> QED BY <2>3, <2>7 DEF q, r
<1>5. \A g, h \in Subgroup : SgY(g) = SgY(h) /\ SgX(g) = SgX(h) => g = h
  BY <1>3
<1>6. \A g \in Subgroup : SgY(g) \in Below(b) /\ SgX(g) \in Below(a)
  BY <1>1, <1>3 DEF Below
<1> QED BY <1>4, <1>5, <1>6 DEF a, b

-----------------------------------------------------------------------------
(* The tiles of a foreach.                                                 *)
LEMMA LanesMean ==
    ASSUME nest \in Nests, Dim > 0, NEW c \in LaneCalls(nest.sgs), NEW x
    PROVE  /\ Lanes(c) \subseteq Int
           /\ x \in Int => (x \in Lanes(c) <=> <<c, x - nest.from[1]>> \in Holds)
<1> DEFINE f == nest.from[1]
           w == nest.sgs
<1>1. f \in Int /\ w \in Nat \ {0}
  BY NestFacts
<1>2. c \in Calls(w) /\ c.block \in Int /\ c.size \in 1 .. w /\ c.rem \in BOOLEAN
      /\ (~c.rem => c.size = w)
  BY DEF LaneCalls, Calls
<1>3. Lanes(c) = {f + lid + c.block : lid \in {y \in 0 .. w - 1 : c.rem => y < c.size}}
  BY DEF Lanes
<1> HIDE DEF f, w
<1>4. {y \in 0 .. w - 1 : c.rem => y < c.size} = 0 .. c.size - 1
  BY <1>1, <1>2
<1>5. Lanes(c) = {f + lid + c.block : lid \in 0 .. c.size - 1}
  BY <1>3, <1>4
<1>6. Lanes(c) \subseteq Int
  BY <1>1, <1>2, <1>5
<1>7. ASSUME x \in Int
      PROVE  x \in Lanes(c) <=> <<c, x - f>> \in Holds
  <2> DEFINE d == x - f
  <2>1. d \in Int /\ x = f + d
    BY <1>1, <1>7
  <2> HIDE DEF d
  <2>2. <<c, d>> \in Holds <=> c.block <= d /\ d < c.block + c.size
    BY <1>1, <1>2, <2>1, HoldsMeans
  <2>3. ASSUME c.block <= d, d < c.block + c.size
        PROVE  x \in Lanes(c)
    <3>1. d - c.block \in 0 .. c.size - 1 /\ f + (d - c.block) + c.block = x
      BY <1>1, <1>2, <2>1, <2>3
    <3> QED BY <1>5, <3>1
  <2>4. ASSUME x \in Lanes(c)
        PROVE  c.block <= d /\ d < c.block + c.size
    <3>1. PICK lid \in 0 .. c.size - 1 : x = f + lid + c.block
      BY <1>5, <2>4
    <3> QED BY <1>1, <1>2, <2>1, <3>1
  <2> QED BY <2>2, <2>3, <2>4 DEF d
<1> QED BY <1>6, <1>7 DEF f

LEMMA RunMeans ==
    ASSUME NEW most \in Nat, NEW c \in Calls(most), NEW f \in Int, NEW x \in Int
    PROVE  /\ Run(f + c.block, c.size) \subseteq Int
           /\ x \in Run(f + c.block, c.size) <=> <<c, x - f>> \in Holds
<1>1. c.block \in Int /\ c.size \in Nat /\ x - f \in Int
  BY DEF Calls
<1>2. <<c, x - f>> \in Holds <=> c.block <= x - f /\ x - f < c.block + c.size
  BY <1>1, HoldsMeans
<1> QED BY <1>1, <1>2 DEF Run

LEMMA InMode ==
    ASSUME nest \in Nests, NEW i \in 1 .. Dim, NEW x \in Int
    PROVE  x \in Mode(i) <=> x - nest.from[i] \in Below(Size(i))
<1>1. nest.from[i] \in Int /\ nest.to[i] \in Int
  BY NestFacts
<1> QED BY <1>1 DEF Mode, Below, Size

(* One mode is distributed.                                                *)
LEMMA ForeachOfOne ==
    ASSUME nest \in Nests, nest.op \notin {"foreach_tile", "gemm"}, Dim > 0
    PROVE  Parts([g \in Subgroup |-> ForeachTiles(g, <<1>>)], Subgroup, TileSet, Runs, Space)
<1> DEFINE n == nest.tiles[1] * nest.tiles[2]
           w == nest.sgs
           f == nest.from[1]
           G == Subgroup
           C == LaneCalls(w)
           S == Below(Size(1))
           bodies == [g \in G |-> TileBySgs(Size(1), w, n, g)]
           sets(c) == [i \in 1 .. Dim |-> IF i = 1 THEN Lanes(c) ELSE Mode(i)]
           tile(c) == Tile(<<sets(c)>>, <<c.size>>)
           F == [g \in G |-> ForeachTiles(g, <<1>>)]
           P == [p \in Space |-> p[1] - f]
<1>1. /\ n \in Nat \ {0} /\ G = Below(n) /\ w \in Nat \ {0} /\ f \in Int /\ Size(1) \in Int
      /\ 1 \in 1 .. Dim /\ Dim \in Nat
  BY NestFacts
<1>2. Parts(bodies, G, C, Holds, S)
  <2> HIDE DEF n, w
  <2>1. Parts([g \in Below(n) |-> TileBySgs(Size(1), w, n, g)], Below(n), C, Holds, S)
    BY <1>1, BySgsParts
  <2> QED BY <1>1, <2>1
<1>3. ASSUME NEW g \in G
      PROVE  F[g] = [i \in DOMAIN bodies[g] |-> tile(bodies[g][i])]
  <2>1. Len(<<1>>) = 1 /\ <<1>>[1] = 1 /\ ~(Len(<<1>>) > 1)
    OBVIOUS
  <2>2. ForeachTiles(g, <<1>>) = [i \in DOMAIN bodies[g] |-> tile(bodies[g][i])]
    BY <2>1 DEF ForeachTiles
  <2> QED BY <2>2
<1>4. ASSUME NEW c \in C
      PROVE  /\ tile(c) \in TileSet
             /\ \A p : <<tile(c), p>> \in Runs
                         <=> p \in Points /\ p[1] \in Lanes(c) /\ \A i \in 1 .. Dim : i # 1 => p[i] \in Mode(i)
  <2>1. Lanes(c) \subseteq Int
    BY <1>1, LanesMean
  <2>2. sets(c) \in Boxes /\ \A i \in 1 .. Dim : sets(c)[i] = IF i = 1 THEN Lanes(c) ELSE Mode(i)
    BY <2>1 DEF Boxes, Mode
  <2> DEFINE z == <<c.size>>
  <2>3. z \in Seq(Nat) /\ \A i \in 1 .. Len(z) : z[i] \in 1 .. Largest(i)
    BY <1>1 DEF Largest, LaneCalls, Calls
  <2> HIDE DEF sets, z
  <2>4. /\ Tile(<<sets(c)>>, z) \in TileSet
        /\ \A p : <<Tile(<<sets(c)>>, z), p>> \in Runs
                    <=> p \in Points /\ \A i \in 1 .. Dim : p[i] \in sets(c)[i]
    BY <2>2, <2>3, OneBox
  <2>5. \A p : (\A i \in 1 .. Dim : p[i] \in sets(c)[i])
                <=> p[1] \in Lanes(c) /\ \A i \in 1 .. Dim : i # 1 => p[i] \in Mode(i)
    BY <1>1, <2>2
  <2> QED BY <2>4, <2>5 DEF z
<1>5. ASSUME NEW g \in G
      PROVE  /\ bodies[g] \in Seq(C) /\ DOMAIN F[g] = DOMAIN bodies[g] /\ F[g] \in Seq(TileSet)
             /\ \A i \in DOMAIN bodies[g] : bodies[g][i] \in C /\ F[g][i] = tile(bodies[g][i])
  <2>1. bodies[g] \in Seq(C)
    BY <1>2 DEF Parts
  <2> HIDE DEF bodies, F, tile, C
  <2> DEFINE m == Len(bodies[g])
  <2>2. m \in Nat /\ DOMAIN bodies[g] = 1 .. m /\ \A i \in 1 .. m : bodies[g][i] \in C
    BY <2>1, LenProperties, ElementOfSeq
  <2> HIDE DEF m
  <2>3. F[g] = [i \in 1 .. m |-> tile(bodies[g][i])]
    BY <1>3, <2>2
  <2>4. \A i \in 1 .. m : tile(bodies[g][i]) \in TileSet
    BY <1>4, <2>2
  <2>5. F[g] \in Seq(TileSet)
    BY <2>2, <2>3, <2>4, SeqDef
  <2> QED BY <2>1, <2>2, <2>3, <2>5
<1>6. P \in [Space -> S]
  <2>1. \A p \in Space : p[1] - f \in S
    <3> SUFFICES ASSUME NEW p \in Space PROVE p[1] - f \in S
      OBVIOUS
    <3>1. p[1] \in Mode(1) /\ p[1] \in Int
      BY <1>1, SpaceMeans DEF Points
    <3> QED BY <1>1, <3>1, InMode
  <2> QED BY <2>1
<1>7. ASSUME NEW g \in G, NEW i \in DOMAIN bodies[g], NEW p
      PROVE  <<F[g][i], p>> \in Runs <=> p \in Space /\ <<bodies[g][i], P[p]>> \in Holds
  <2> DEFINE c == bodies[g][i]
  <2>1. c \in C /\ F[g][i] = tile(c)
    BY <1>5
  <2>2. \A x : <<c, x>> \in Holds => x \in S
    BY <1>2 DEF Parts
  <2> HIDE DEF c, tile, F, C, S, bodies
  <2>3. <<F[g][i], p>> \in Runs
            <=> p \in Points /\ p[1] \in Lanes(c) /\ \A j \in 1 .. Dim : j # 1 => p[j] \in Mode(j)
    BY <1>4, <2>1
  <2>4. ASSUME p \in Points
        PROVE  /\ p[1] \in Lanes(c) <=> <<c, p[1] - f>> \in Holds
               /\ p[1] \in Mode(1) <=> p[1] - f \in S
    <3>1. p[1] \in Int
      BY <1>1, <2>4 DEF Points
    <3> QED BY <1>1, <2>1, <3>1, LanesMean, InMode DEF C, S
  <2>5. p \in Space => P[p] = p[1] - f
    OBVIOUS
  <2> HIDE DEF P, f
  <2>6. p \in Space <=> p \in Points /\ p[1] \in Mode(1) /\ \A j \in 1 .. Dim : j # 1 => p[j] \in Mode(j)
    BY <1>1, SpaceMeans
  <2> QED BY <2>2, <2>3, <2>4, <2>5, <2>6 DEF c
<1>8. F \in [G -> Seq(TileSet)]
  BY <1>5
<1> HIDE DEF F, G, C, S, bodies, P
<1>9. Parts(F, G, TileSet, Runs, Space)
  BY <1>2, <1>5, <1>6, <1>7, <1>8, PartsRenamed
<1> QED BY <1>9 DEF F, G

(* Two modes are, the second uniformly.                                    *)
LEMMA ForeachOfSeveral ==
    ASSUME nest \in Nests, nest.op \notin {"foreach_tile", "gemm"},
           NEW modes, Len(modes) > 1, Len(modes) # 1,
           modes[1] = 1, modes[2] \in 2 .. Dim, Size(modes[2]) >= 0,
           UniformBlocks(Size(modes[2]), nest.sgs, nest.tiles[2]) # 0
    PROVE  Parts([g \in Subgroup |-> ForeachTiles(g, modes)], Subgroup, TileSet, Runs, Space)
<1> DEFINE tx == nest.tiles[1]
           ty == nest.tiles[2]
           w == nest.sgs
           m == modes[2]
           f == nest.from[1]
           e == nest.from[m]
           G == Subgroup
           SA == Below(Size(m))
           SB == Below(Size(1))
           A == Within(Calls(w), Holds, SA)
           B == Within(LaneCalls(w), Holds, SB)
           FA == [g \in Below(ty) |-> TileUniformly(Size(m), w, ty, g)]
           FB == [g \in Below(tx) |-> TileBySgs(Size(1), w, tx, g)]
           a == [g \in G |-> SgY(g)]
           b == [g \in G |-> SgX(g)]
           bodies == NestedBy(FA, FB, a, b, G)
           C == A \X B
           S == SA \X SB
           H == Paired(A, B, Holds, Holds, SA, SB)
           sets(c) == [i \in 1 .. Dim |-> IF i = 1 THEN Lanes(c[2]) ELSE
                                         IF i = m THEN Run(e + c[1].block, c[1].size) ELSE Mode(i)]
           tile(c) == Tile(<<sets(c)>>, <<c[2].size, c[1].size>>)
           F == [g \in G |-> ForeachTiles(g, modes)]
           P == [p \in Space |-> <<p[m] - e, p[1] - f>>]
<1>1. /\ tx \in Nat \ {0} /\ ty \in Nat \ {0} /\ w \in Nat \ {0} /\ f \in Int /\ e \in Int
      /\ Size(1) \in Int /\ Size(m) \in Nat /\ Dim \in Nat
      /\ 1 \in 1 .. Dim /\ m \in 1 .. Dim /\ m # 1 /\ Dim > 0
  <2>1. Dim \in Nat
    BY NestFacts
  <2>2. 1 \in 1 .. Dim /\ m \in 1 .. Dim /\ m # 1 /\ Dim > 0
    BY <2>1
  <2> HIDE DEF m
  <2> QED BY <2>1, <2>2, NestFacts DEF m
<1>2. Parts(bodies, G, C, H, S)
  <2>1. Parts(FA, Below(ty), A, Holds, SA)
    <3> HIDE DEF m, w, ty
    <3>1. UniformBlocks(Size(m), w, ty) # 0
      BY DEF m, w, ty
    <3>2. Parts(FA, Below(ty), Calls(w), Holds, SA)
      BY <1>1, <3>1, UniformParts
    <3> HIDE DEF FA, SA
    <3> QED BY <3>2, PartsWithin
  <2>2. Parts(FB, Below(tx), B, Holds, SB)
    <3> HIDE DEF w, tx
    <3>1. Parts(FB, Below(tx), LaneCalls(w), Holds, SB)
      BY <1>1, BySgsParts
    <3> HIDE DEF FB, SB
    <3> QED BY <3>1, PartsWithin
  <2>3. a \in [G -> Below(ty)] /\ b \in [G -> Below(tx)]
    BY SubgroupIds
  <2>4. /\ \A i \in Below(ty), j \in Below(tx) : \E g \in G : a[g] = i /\ b[g] = j
        /\ \A g, h \in G : a[g] = a[h] /\ b[g] = b[h] => g = h
    BY SubgroupIds
  <2> HIDE DEF FA, FB, G, A, B, SA, SB, a, b, tx, ty
  <2> DEFINE K == Below(ty)
             L == Below(tx)
  <2>5. /\ Parts(FA, K, A, Holds, SA) /\ Parts(FB, L, B, Holds, SB)
        /\ a \in [G -> K] /\ b \in [G -> L]
        /\ \A i \in K, j \in L : \E g \in G : a[g] = i /\ b[g] = j
        /\ \A g, h \in G : a[g] = a[h] /\ b[g] = b[h] => g = h
    BY <2>1, <2>2, <2>3, <2>4
  <2> HIDE DEF K, L
  <2> QED BY <2>5, PartsOfPairs
<1>3. ASSUME NEW g \in G
      PROVE  F[g] = [i \in DOMAIN bodies[g] |-> tile(bodies[g][i])]
  <2>1. bodies[g] = Nested(TileUniformly(Size(m), w, ty, SgY(g)), TileBySgs(Size(1), w, tx, SgX(g)))
    BY SubgroupIds DEF NestedBy
  <2>2. ForeachTiles(g, modes) =
            [i \in DOMAIN bodies[g] |->
                Tile(<<[j \in 1 .. Dim |-> CASE j = modes[1] -> Lanes(bodies[g][i][2])
                                            [] Len(modes) > 1 /\ j = modes[2] ->
                                                   Run(e + bodies[g][i][1].block, bodies[g][i][1].size)
                                            [] OTHER -> Mode(j)]>>,
                     <<bodies[g][i][2].size, bodies[g][i][1].size>>)]
    <3> HIDE DEF bodies
    <3> QED BY <2>1 DEF ForeachTiles
  <2> HIDE DEF bodies
  <2>3. \A c : [j \in 1 .. Dim |-> CASE j = modes[1] -> Lanes(c[2])
                                     [] Len(modes) > 1 /\ j = modes[2] ->
                                            Run(e + c[1].block, c[1].size)
                                     [] OTHER -> Mode(j)] = sets(c)
    <3> TAKE c
    <3> DEFINE x == Lanes(c[2])
               y == Run(e + c[1].block, c[1].size)
    <3>1. m # 1
      BY <1>1
    <3> HIDE DEF x, y
    <3>2. \A j \in 1 .. Dim : (CASE j = modes[1] -> x
                                 [] Len(modes) > 1 /\ j = modes[2] -> y
                                 [] OTHER -> Mode(j))
                             = (IF j = 1 THEN x ELSE IF j = m THEN y ELSE Mode(j))
      BY <3>1
    <3> QED BY <3>2 DEF x, y
  <2> HIDE DEF sets
  <2>4. ForeachTiles(g, modes) = [i \in DOMAIN bodies[g] |-> tile(bodies[g][i])]
    BY <2>2, <2>3
  <2> QED BY <2>4
<1>4. ASSUME NEW c \in C
      PROVE  /\ tile(c) \in TileSet
             /\ \A p : <<tile(c), p>> \in Runs
                         <=> /\ p \in Points /\ p[1] \in Lanes(c[2])
                             /\ p[m] \in Run(e + c[1].block, c[1].size)
                             /\ \A i \in 1 .. Dim : i # 1 /\ i # m => p[i] \in Mode(i)
  <2>1. c[1] \in Calls(w) /\ c[2] \in LaneCalls(w)
    <3>1. A \subseteq Calls(w) /\ B \subseteq LaneCalls(w)
      BY DEF Within
    <3>2. c[1] \in A /\ c[2] \in B
      <4> HIDE DEF A, B
      <4> QED OBVIOUS
    <3> QED BY <3>1, <3>2
  <2>2. Lanes(c[2]) \subseteq Int /\ Run(e + c[1].block, c[1].size) \subseteq Int
    <3> DEFINE d == c[1]
    <3>1. d.block \in Int /\ d.size \in Nat
      BY <1>1, <2>1 DEF Calls
    <3>2. Run(e + d.block, d.size) \subseteq Int
      <4> HIDE DEF d
      <4> QED BY <1>1, <3>1 DEF Run
    <3>3. Lanes(c[2]) \subseteq Int
      BY <1>1, <2>1, LanesMean
    <3> QED BY <3>2, <3>3
  <2> DEFINE x == Lanes(c[2])
             y == Run(e + c[1].block, c[1].size)
             z == <<c[2].size, c[1].size>>
  <2>3. z \in Seq(Nat) /\ \A i \in 1 .. Len(z) : z[i] \in 1 .. Largest(i)
    <3>1. c[1].size \in 1 .. w /\ c[2].size \in 1 .. w
      BY <2>1 DEF LaneCalls, Calls
    <3> QED BY <1>1, <3>1 DEF Largest
  <2>4. sets(c) = [i \in 1 .. Dim |-> IF i = 1 THEN x ELSE IF i = m THEN y ELSE Mode(i)]
    OBVIOUS
  <2>5. tile(c) = Tile(<<sets(c)>>, z)
    OBVIOUS
  <2> HIDE DEF sets, z, tile, x, y, m
  <2>6. sets(c) \in Boxes
    BY <2>2, <2>4 DEF Boxes, Mode, x, y
  <2>7. /\ Tile(<<sets(c)>>, z) \in TileSet
        /\ \A p : <<Tile(<<sets(c)>>, z), p>> \in Runs
                    <=> p \in Points /\ \A i \in 1 .. Dim : p[i] \in sets(c)[i]
    BY <2>3, <2>6, OneBox
  <2>8. \A p : (\A i \in 1 .. Dim : p[i] \in sets(c)[i])
                <=> p[1] \in x /\ p[m] \in y /\ \A i \in 1 .. Dim : i # 1 /\ i # m => p[i] \in Mode(i)
    BY <1>1, <2>4
  <2> QED BY <2>5, <2>7, <2>8 DEF x, y
<1>5. ASSUME NEW g \in G
      PROVE  /\ bodies[g] \in Seq(C) /\ DOMAIN F[g] = DOMAIN bodies[g] /\ F[g] \in Seq(TileSet)
             /\ \A i \in DOMAIN bodies[g] : bodies[g][i] \in C /\ F[g][i] = tile(bodies[g][i])
  <2>1. bodies[g] \in Seq(C)
    <3> HIDE DEF bodies, C, H, S
    <3> QED BY <1>2 DEF Parts
  <2> HIDE DEF bodies, F, tile, C
  <2> DEFINE k == Len(bodies[g])
  <2>2. k \in Nat /\ DOMAIN bodies[g] = 1 .. k /\ \A i \in 1 .. k : bodies[g][i] \in C
    BY <2>1, LenProperties, ElementOfSeq
  <2> HIDE DEF k
  <2>3. F[g] = [i \in 1 .. k |-> tile(bodies[g][i])]
    BY <1>3, <2>2
  <2>4. \A i \in 1 .. k : tile(bodies[g][i]) \in TileSet
    BY <1>4, <2>2
  <2>5. F[g] \in Seq(TileSet)
    BY <2>2, <2>3, <2>4, SeqDef
  <2> QED BY <2>1, <2>2, <2>3, <2>5
<1>6. ASSUME NEW p \in Points
      PROVE  /\ p[1] \in Int /\ p[m] \in Int
             /\ p[m] \in Mode(m) <=> p[m] - e \in SA
             /\ p[1] \in Mode(1) <=> p[1] - f \in SB
  <2>1. p[m] \in Int /\ p[1] \in Int
    BY <1>1 DEF Points
  <2> HIDE DEF m
  <2> QED BY <1>1, <2>1, InMode
<1>7. \A p : p \in Space <=> /\ p \in Points /\ p[1] \in Mode(1) /\ p[m] \in Mode(m)
                             /\ \A j \in 1 .. Dim : j # 1 /\ j # m => p[j] \in Mode(j)
  <2> HIDE DEF m
  <2> QED BY <1>1, SpaceMeans
<1>8. P \in [Space -> S]
  <2>1. \A p \in Space : <<p[m] - e, p[1] - f>> \in S
    <3> SUFFICES ASSUME NEW p \in Space PROVE <<p[m] - e, p[1] - f>> \in S
      OBVIOUS
    <3>1. p[m] - e \in SA /\ p[1] - f \in SB
      BY <1>6, <1>7
    <3> HIDE DEF SA, SB
    <3> QED BY <3>1
  <2> QED BY <2>1
<1>9. ASSUME NEW g \in G, NEW i \in DOMAIN bodies[g], NEW p
      PROVE  <<F[g][i], p>> \in Runs <=> p \in Space /\ <<bodies[g][i], P[p]>> \in H
  <2> DEFINE c == bodies[g][i]
             x == p[m] - e
             y == p[1] - f
  <2>1. c \in C /\ F[g][i] = tile(c)
    BY <1>5
  <2>2. PICK u \in A, v \in B : c = <<u, v>>
    <3> HIDE DEF c, A, B
    <3> QED BY <2>1
  <2>3. c[1] = u /\ c[2] = v
    <3> HIDE DEF c, x, y, tile, F, bodies, A, B, SA, SB
    <3> QED BY <2>2
  <2>4. \A k \in SA, l \in SB : <<c, <<k, l>>>> \in H <=> <<u, k>> \in Holds /\ <<v, l>> \in Holds
    <3> HIDE DEF A, B, SA, SB, c
    <3> QED BY <2>2 DEF Paired
  <2> HIDE DEF c, tile, F, bodies
  <2>5. <<F[g][i], p>> \in Runs
            <=> /\ p \in Points /\ p[1] \in Lanes(v) /\ p[m] \in Run(e + u.block, u.size)
                /\ \A j \in 1 .. Dim : j # 1 /\ j # m => p[j] \in Mode(j)
    BY <1>4, <2>1, <2>3
  <2>6. ASSUME p \in Points
        PROVE  /\ p[1] \in Lanes(v) <=> <<v, y>> \in Holds
               /\ p[m] \in Run(e + u.block, u.size) <=> <<u, x>> \in Holds
    <3>1. p[1] \in Int /\ p[m] \in Int
      BY <1>6, <2>6
    <3> DEFINE k == p[m]
    <3>2. k \in Int
      BY <3>1
    <3>3. p[1] \in Lanes(v) <=> <<v, y>> \in Holds
      <4>1. v \in LaneCalls(w)
        BY DEF Within
      <4> QED BY <1>1, <3>1, <4>1, LanesMean
    <3>5. u \in Calls(w)
      BY DEF Within
    <3> HIDE DEF k, w, e
    <3>4. k \in Run(e + u.block, u.size) <=> <<u, k - e>> \in Holds
      BY <1>1, <3>2, <3>5, RunMeans
    <3> QED BY <3>3, <3>4 DEF k
  <2>7. (<<u, x>> \in Holds => x \in SA) /\ (<<v, y>> \in Holds => y \in SB)
    BY DEF Within
  <2>8. p \in Space => P[p] = <<x, y>>
    OBVIOUS
  <2> HIDE DEF x, y, A, B, SA, SB, P, m, H, f, e
  <2>9. p \in Points => (p[m] \in Mode(m) <=> x \in SA) /\ (p[1] \in Mode(1) <=> y \in SB)
    BY <1>6 DEF x, y
  <2>10. ASSUME p \in Space
         PROVE  <<c, P[p]>> \in H <=> <<u, x>> \in Holds /\ <<v, y>> \in Holds
    <3>1. p \in Points /\ p[m] \in Mode(m) /\ p[1] \in Mode(1)
      BY <1>7, <2>10
    <3>2. x \in SA /\ y \in SB
      BY <2>9, <3>1
    <3> QED BY <2>4, <2>8, <2>10, <3>2
  <2>11. <<F[g][i], p>> \in Runs <=> p \in Space /\ <<u, x>> \in Holds /\ <<v, y>> \in Holds
    BY <1>7, <2>5, <2>6, <2>7, <2>9
  <2> QED BY <2>10, <2>11 DEF c
<1>10. F \in [G -> Seq(TileSet)]
  BY <1>5
<1>12. \A g \in G : DOMAIN F[g] = DOMAIN bodies[g]
  BY <1>5
<1> HIDE DEF F, G, C, S, H, bodies, P
<1>11. Parts(F, G, TileSet, Runs, Space)
  BY <1>2, <1>8, <1>9, <1>10, <1>12, PartsRenamed
<1> QED BY <1>11 DEF F, G

-----------------------------------------------------------------------------
(* The tiles of a foreach_tile.  A subgroup iterates over all tiles of the *)
(* third mode, the last of which may be smaller.                           *)
Clipped(from, to, w) ==
    LET starts == Iterate(from, to, w)
    IN  [i \in DOMAIN starts |-> Call(starts[i], IF to - starts[i] < w THEN to - starts[i] ELSE w, FALSE)]

LEMMA ClippedParts ==
    ASSUME NEW from \in Int, NEW to \in Int, NEW w \in Nat \ {0}
    PROVE  Parts([g \in {0} |-> Clipped(from, to, w)], {0}, Calls(w), Holds, from .. to - 1)
<1> DEFINE v == Iterate(from, to, w)
           s == Clipped(from, to, w)
           F == [g \in {0} |-> s]
<1>1. Values(v, from, to, w)
  BY IterateFacts
<1>2. DOMAIN s = DOMAIN v /\ \A i \in DOMAIN v :
          s[i] = Call(v[i], IF to - v[i] < w THEN to - v[i] ELSE w, FALSE)
  BY DEF Clipped
<1>3. Len(v) \in Nat /\ DOMAIN v = 1 .. Len(v) /\ s = [i \in 1 .. Len(v) |-> s[i]]
  <2>1. v \in Seq(Int)
    BY <1>1 DEF Values
  <2> HIDE DEF v
  <2>2. Len(v) \in Nat /\ DOMAIN v = 1 .. Len(v)
    BY <2>1, LenProperties
  <2>3. s = [i \in DOMAIN v |-> s[i]]
    BY DEF Clipped, v
  <2> QED BY <2>2, <2>3
<1> HIDE DEF v, s
<1>4. ASSUME NEW i \in DOMAIN v
      PROVE  /\ i - 1 \in Nat /\ v[i] = from + w * (i - 1) /\ w * (i - 1) \in Nat /\ v[i] < to
             /\ s[i] \in Calls(w)
             /\ \A x : <<s[i], x>> \in Holds <=> x \in Int /\ v[i] <= x /\ x < v[i] + w /\ x < to
  <2>1. i \in Nat \ {0} /\ v[i] = from + w * (i - 1) /\ from + w * (i - 1) < to
    BY <1>1 DEF Values
  <2>2. w * (i - 1) \in Nat
    BY <2>1, ProductIsNat
  <2>3. v[i] \in Int /\ v[i] < to
    BY <2>1, <2>2
  <2> DEFINE z == IF to - v[i] < w THEN to - v[i] ELSE w
  <2>4. s[i] = Call(v[i], z, FALSE) /\ z \in 1 .. w
    <3>1. z \in 1 .. w
      BY <2>3
    <3>2. s[i] = Call(v[i], z, FALSE)
      BY <1>2, Zenon
    <3> QED BY <3>1, <3>2
  <2>5. s[i] \in Calls(w) /\ s[i].block = v[i] /\ s[i].size = z
    <3> HIDE DEF z
    <3> QED BY <2>3, <2>4 DEF Call, Calls
  <2>6. \A x : <<s[i], x>> \in Holds <=> x \in Int /\ v[i] <= x /\ x < v[i] + z
    <3> HIDE DEF z
    <3> QED BY <2>5, HoldsMeans
  <2>7. \A x \in Int : x < v[i] + z <=> x < v[i] + w /\ x < to
    BY <2>3
  <2> QED BY <2>1, <2>2, <2>3, <2>5, <2>6, <2>7
<1>5. s \in Seq(Calls(w))
  BY <1>3, <1>4, SeqDef
<1>6. F \in [{0} -> Seq(Calls(w))] /\ F[0] = s
  BY <1>5
<1> HIDE DEF F
<1>7. ASSUME NEW i \in DOMAIN s, NEW x, <<s[i], x>> \in Holds
      PROVE  x \in from .. to - 1
  BY <1>2, <1>4, <1>7
<1>8. ASSUME NEW x \in from .. to - 1
      PROVE  \E i \in DOMAIN s : <<s[i], x>> \in Holds
  <2> DEFINE d == x - from
             q == d \div w
             r == d % w
             i == q + 1
  <2>1. d \in Nat /\ x = from + d
    OBVIOUS
  <2> HIDE DEF d
  <2>2. q \in Nat /\ r \in 0 .. w - 1 /\ d = w * q + r
    BY <2>1, QuotientFacts
  <2> HIDE DEF q, r
  <2>3. i \in Nat \ {0} /\ i - 1 = q /\ w * q \in Nat
    BY <2>2, ProductIsNat
  <2>4. from + w * (i - 1) < to
    BY <2>1, <2>2, <2>3
  <2> HIDE DEF i
  <2>5. i \in DOMAIN v
    BY <1>1, <2>3, <2>4 DEF Values
  <2>6. v[i] = from + w * q
    BY <1>4, <2>3, <2>5
  <2>7. v[i] <= x /\ x < v[i] + w /\ x < to
    BY <2>1, <2>2, <2>3, <2>6
  <2> QED BY <1>2, <1>4, <2>5, <2>7
<1>9. ASSUME NEW i \in DOMAIN s, NEW j \in DOMAIN s, NEW x,
             <<s[i], x>> \in Holds, <<s[j], x>> \in Holds
      PROVE  i = j
  <2> DEFINE a == i - 1
             b == j - 1
             p == w * a
             q == w * b
             k == x - from - p
             l == x - from - q
  <2>1. /\ a \in Nat /\ b \in Nat /\ x \in Int /\ p \in Nat /\ q \in Nat
        /\ v[i] = from + p /\ v[i] <= x /\ x < v[i] + w
        /\ v[j] = from + q /\ v[j] <= x /\ x < v[j] + w
    BY <1>2, <1>4, <1>9
  <2> HIDE DEF p, q
  <2>2. k \in 0 .. w - 1 /\ l \in 0 .. w - 1 /\ p + k = q + l
    BY <2>1
  <2> HIDE DEF a, b, k, l
  <2>3. w * a + k = w * b + l
    BY <2>2 DEF p, q
  <2>4. a = b
    BY <2>1, <2>2, <2>3, OneQuotient
  <2>5. i \in Nat /\ j \in Nat
    BY <1>2, <1>3
  <2> QED BY <2>4, <2>5 DEF a, b
<1>10. NoneShared(F, {0}, Holds)
  BY <1>6, <1>9 DEF NoneShared
<1> QED BY <1>6, <1>7, <1>8, <1>10 DEF Parts, F, s

(* What is known of the nest of a foreach_tile.                            *)
LEMMA ForeachTileFacts ==
    ASSUME nest \in Nests, nest.op = "foreach_tile"
    PROVE  Dim \in 1 .. 3 /\ \A i \in 1 .. Dim : nest.shape[i] \in Nat \ {0}
<1>1. WellFormed(nest)
  BY NestsAssumption
<1>2. nest.shape \in Seq(Nat \ {0}) /\ Len(nest.shape) = Dim /\ Dim <= 3
  BY <1>1 DEF WellFormed, Dim
<1>3. Dim > 0
  BY <1>1 DEF WellFormed, Dim
<1>4. Dim \in Nat
  BY NestFacts
<1> QED BY <1>2, <1>3, <1>4, ElementOfSeq

LEMMA ForeachTileOfOne ==
    ASSUME nest \in Nests, nest.op = "foreach_tile", Dim = 1
    PROVE  Parts([g \in Subgroup |-> ForeachTileTiles(g)], Subgroup, TileSet, Runs, Space)
<1> DEFINE n == nest.tiles[1] * nest.tiles[2]
           w == nest.shape[1]
           f == nest.from[1]
           G == Subgroup
           S == Below(Size(1))
           C == Within(LaneCalls(w), Holds, S)
           bodies == [g \in G |-> TileBySgs(Size(1), w, n, g)]
           sets(c) == [i \in 1 .. Dim |-> Run(f + c.block, c.size)]
           tile(c) == Tile(<<sets(c)>>, <<c.size>>)
           F == [g \in G |-> ForeachTileTiles(g)]
           P == [p \in Space |-> p[1] - f]
<1>1. /\ n \in Nat \ {0} /\ G = Below(n) /\ w \in Nat \ {0} /\ f \in Int /\ Size(1) \in Int
      /\ 1 .. Dim = {1}
  BY NestFacts, ForeachTileFacts
<1>2. Parts(bodies, G, C, Holds, S)
  <2> HIDE DEF n, w
  <2>1. Parts([g \in Below(n) |-> TileBySgs(Size(1), w, n, g)], Below(n), LaneCalls(w), Holds, S)
    BY <1>1, BySgsParts
  <2>2. Parts(bodies, G, LaneCalls(w), Holds, S)
    BY <1>1, <2>1
  <2> HIDE DEF bodies, G, S
  <2> QED BY <2>2, PartsWithin
<1>3. ASSUME NEW g \in G
      PROVE  F[g] = [i \in DOMAIN bodies[g] |-> tile(bodies[g][i])]
  <2>1. \A c : [i \in 1 .. Dim |-> Run((<<f + c.block>>)[i], (<<c.size>>)[i])] = sets(c)
    <3> TAKE c
    <3> DEFINE x == f + c.block
               y == c.size
    <3>1. (<<x>>)[1] = x /\ (<<y>>)[1] = y
      OBVIOUS
    <3> HIDE DEF x, y
    <3>2. [i \in 1 .. Dim |-> Run((<<x>>)[i], (<<y>>)[i])] = [i \in 1 .. Dim |-> Run(x, y)]
      BY <1>1, <3>1
    <3> QED BY <3>2 DEF x, y
  <2>2. ForeachTileTiles(g) =
            [i \in DOMAIN bodies[g] |->
                Tile(<<[j \in 1 .. Dim |-> Run((<<f + bodies[g][i].block>>)[j], (<<bodies[g][i].size>>)[j])]>>,
                     <<bodies[g][i].size>>)]
    BY DEF ForeachTileTiles
  <2> HIDE DEF bodies, sets, f
  <2>3. ForeachTileTiles(g) = [i \in DOMAIN bodies[g] |-> tile(bodies[g][i])]
    BY <2>1, <2>2
  <2> QED BY <2>3
<1>4. ASSUME NEW c \in C
      PROVE  /\ tile(c) \in TileSet
             /\ \A p : <<tile(c), p>> \in Runs <=> p \in Points /\ p[1] \in Run(f + c.block, c.size)
  <2>1. c \in Calls(w) /\ c.block \in Int /\ c.size \in 1 .. w
    BY DEF Within, LaneCalls, Calls
  <2>2. sets(c) \in Boxes /\ sets(c)[1] = Run(f + c.block, c.size)
    BY <1>1, <2>1 DEF Boxes, Run
  <2> DEFINE z == <<c.size>>
  <2>3. z \in Seq(Nat) /\ \A i \in 1 .. Len(z) : z[i] \in 1 .. Largest(i)
    BY <1>1, <2>1 DEF Largest
  <2> HIDE DEF sets, z
  <2>4. /\ Tile(<<sets(c)>>, z) \in TileSet
        /\ \A p : <<Tile(<<sets(c)>>, z), p>> \in Runs
                    <=> p \in Points /\ \A i \in 1 .. Dim : p[i] \in sets(c)[i]
    BY <2>2, <2>3, OneBox
  <2> QED BY <1>1, <2>2, <2>4 DEF z
<1>5. ASSUME NEW g \in G
      PROVE  /\ DOMAIN F[g] = DOMAIN bodies[g] /\ F[g] \in Seq(TileSet)
             /\ \A i \in DOMAIN bodies[g] : bodies[g][i] \in C /\ F[g][i] = tile(bodies[g][i])
  <2>1. bodies[g] \in Seq(C)
    <3> HIDE DEF bodies, C, S
    <3> QED BY <1>2 DEF Parts
  <2> HIDE DEF bodies, F, tile, C
  <2> DEFINE k == Len(bodies[g])
  <2>2. k \in Nat /\ DOMAIN bodies[g] = 1 .. k /\ \A i \in 1 .. k : bodies[g][i] \in C
    BY <2>1, LenProperties, ElementOfSeq
  <2> HIDE DEF k
  <2>3. F[g] = [i \in 1 .. k |-> tile(bodies[g][i])]
    BY <1>3, <2>2
  <2>4. \A i \in 1 .. k : tile(bodies[g][i]) \in TileSet
    BY <1>4, <2>2
  <2>5. F[g] \in Seq(TileSet)
    BY <2>2, <2>3, <2>4, SeqDef
  <2> QED BY <2>2, <2>3, <2>5
<1>6. \A p \in Points : p[1] \in Int /\ (p[1] \in Mode(1) <=> p[1] - f \in S)
  <2> TAKE p \in Points
  <2>1. p[1] \in Int
    BY <1>1 DEF Points
  <2> QED BY <1>1, <2>1, InMode
<1>7. \A p : p \in Space <=> p \in Points /\ p[1] \in Mode(1)
  BY <1>1, SpaceMeans
<1>8. P \in [Space -> S]
  <2>1. \A p \in Space : p[1] - f \in S
    BY <1>6, <1>7
  <2> QED BY <2>1
<1>9. ASSUME NEW g \in G, NEW i \in DOMAIN bodies[g], NEW p
      PROVE  <<F[g][i], p>> \in Runs <=> p \in Space /\ <<bodies[g][i], P[p]>> \in Holds
  <2> DEFINE c == bodies[g][i]
  <2>1. c \in C /\ F[g][i] = tile(c)
    BY <1>5
  <2> HIDE DEF c
  <2>2. c \in Calls(w) /\ \A x : <<c, x>> \in Holds => x \in S
    BY <2>1 DEF Within, LaneCalls
  <2> HIDE DEF tile, F, C, S, bodies
  <2>3. <<F[g][i], p>> \in Runs <=> p \in Points /\ p[1] \in Run(f + c.block, c.size)
    BY <1>4, <2>1
  <2>4. ASSUME p \in Points
        PROVE  p[1] \in Run(f + c.block, c.size) <=> <<c, p[1] - f>> \in Holds
    <3> DEFINE x == p[1]
    <3>1. x \in Int
      BY <1>6, <2>4
    <3> HIDE DEF x
    <3>2. x \in Run(f + c.block, c.size) <=> <<c, x - f>> \in Holds
      BY <1>1, <2>2, <3>1, RunMeans
    <3> QED BY <3>2 DEF x
  <2>5. p \in Space => P[p] = p[1] - f
    OBVIOUS
  <2> HIDE DEF P, f
  <2> QED BY <1>6, <1>7, <2>2, <2>3, <2>4, <2>5 DEF c
<1>10. F \in [G -> Seq(TileSet)] /\ \A g \in G : DOMAIN F[g] = DOMAIN bodies[g]
  BY <1>5
<1> HIDE DEF F, G, C, S, bodies, P
<1>11. Parts(F, G, TileSet, Runs, Space)
  BY <1>2, <1>8, <1>9, <1>10, PartsRenamed
<1> QED BY <1>11 DEF F, G

(* The loop over the third mode, or the single pass where there is none.   *)
NoCall == Call(0, 0, FALSE)
Third == IF Dim < 3 THEN <<NoCall>> ELSE Clipped(nest.from[3], nest.to[3], nest.shape[3])
ThirdCalls == IF Dim < 3 THEN {NoCall} ELSE Within(Calls(nest.shape[3]), Holds, Mode(3))
ThirdHolds == IF Dim < 3 THEN {<<NoCall, 0>>} ELSE Holds
ThirdMode == IF Dim < 3 THEN {0} ELSE Mode(3)

LEMMA ThirdParts ==
    ASSUME nest \in Nests, nest.op = "foreach_tile"
    PROVE  /\ Parts([g \in {0} |-> Third], {0}, ThirdCalls, ThirdHolds, ThirdMode)
           /\ \A c \in ThirdCalls : \A x : <<c, x>> \in ThirdHolds => x \in ThirdMode
<1>1. CASE Dim < 3
  <2>1. /\ Third = <<NoCall>> /\ ThirdCalls = {NoCall}
        /\ ThirdHolds = {<<NoCall, 0>>} /\ ThirdMode = {0}
    BY <1>1 DEF Third, ThirdCalls, ThirdHolds, ThirdMode
  <2> DEFINE G == {0}
             H == {<<NoCall, 0>>}
             last == 0
             c == NoCall
  <2>2. last \in G /\ (\A x : <<c, x>> \in H <=> x \in G) /\ \A g \in G : g = last
    BY DEF NoCall, Call
  <2>3. [g \in G |-> Third] = [g \in G |-> IF g = last THEN <<c>> ELSE <<>>]
    BY <2>1, <2>2
  <2> DEFINE D == {c}
  <2>4. c \in D
    OBVIOUS
  <2> HIDE DEF G, H, last, c, D
  <2>5. Parts([g \in G |-> IF g = last THEN <<c>> ELSE <<>>], G, D, H, G)
    BY <2>2, <2>4, PartsOfOne
  <2>6. Parts([g \in G |-> Third], G, D, H, G)
    BY <2>3, <2>5
  <2>7. \A e \in D : \A x : <<e, x>> \in H => x \in G
    BY <2>2 DEF D
  <2> QED BY <2>1, <2>6, <2>7 DEF G, H, D, c
<1>2. CASE ~(Dim < 3)
  <2>1. /\ Third = Clipped(nest.from[3], nest.to[3], nest.shape[3])
        /\ ThirdCalls = Within(Calls(nest.shape[3]), Holds, Mode(3))
        /\ ThirdHolds = Holds /\ ThirdMode = Mode(3)
    BY <1>2 DEF Third, ThirdCalls, ThirdHolds, ThirdMode
  <2>2. Dim = 3
    BY <1>2, ForeachTileFacts
  <2>3. 3 \in 1 .. Dim
    BY <2>2
  <2>4. nest.from[3] \in Int /\ nest.to[3] \in Int /\ nest.shape[3] \in Nat \ {0}
    BY <2>3, NestFacts, ForeachTileFacts
  <2> DEFINE F == [g \in {0} |-> Third]
             C == Calls(nest.shape[3])
             S == Mode(3)
  <2>5. Parts(F, {0}, C, Holds, S)
    <3> DEFINE u == nest.from[3]
               v == nest.to[3]
               w == nest.shape[3]
    <3>1. u \in Int /\ v \in Int /\ w \in Nat \ {0} /\ S = u .. v - 1 /\ Third = Clipped(u, v, w)
      BY <2>1, <2>4 DEF Mode
    <3> HIDE DEF u, v, S
    <3>2. Parts([g \in {0} |-> Clipped(u, v, w)], {0}, C, Holds, u .. v - 1)
      <4> HIDE DEF w
      <4>1. Parts([g \in {0} |-> Clipped(u, v, w)], {0}, Calls(w), Holds, u .. v - 1)
        BY <3>1, ClippedParts
      <4> QED BY <4>1 DEF w
    <3> HIDE DEF w
    <3> QED BY <3>1, <3>2
  <2> HIDE DEF F, C, S
  <2>6. Parts(F, {0}, Within(C, Holds, S), Holds, S)
    BY <2>5, PartsWithin
  <2>7. \A c \in Within(C, Holds, S) : \A x : <<c, x>> \in Holds => x \in S
    BY DEF Within
  <2> QED BY <2>1, <2>6, <2>7 DEF F, C, S
<1> QED BY <1>1, <1>2

(* The tile of a block in each mode.                                       *)
TileSets(c) ==
    [i \in 1 .. Dim |->
        IF i = 1 THEN Run(nest.from[1] + c[1][2].block, c[1][2].size) ELSE
        IF i = 2 THEN Run(c[1][1].block, c[1][1].size) ELSE Run(c[2].block, c[2].size)]
TileSizes(c) == SubSeq(<<c[1][2].size, c[1][1].size, c[2].size>>, 1, Dim)

LEMMA FirstOfThree ==
    ASSUME Dim \in {2, 3}, NEW a, NEW b, NEW c
    PROVE  SubSeq(<<a, b, c>>, 1, Dim) = [i \in 1 .. Dim |-> IF i = 1 THEN a ELSE IF i = 2 THEN b ELSE c]
<1>1. CASE Dim = 2
  BY <1>1
<1>2. CASE Dim = 3
  BY <1>2
<1> QED BY <1>1, <1>2

LEMMA ForeachTileTilesAre ==
    ASSUME nest \in Nests, nest.op = "foreach_tile", Dim \in {2, 3}, NEW g
    PROVE  LET bodies == Nested(Nested(TileBySgs(Size(2), nest.shape[2], nest.tiles[2], SgY(g)),
                                      TileBySgs(Size(1), nest.shape[1], nest.tiles[1], SgX(g))),
                               Third)
           IN  ForeachTileTiles(g) =
                   [i \in DOMAIN bodies |-> Tile(<<TileSets(bodies[i])>>, TileSizes(bodies[i]))]
<1> DEFINE bodies == Nested(Nested(TileBySgs(Size(2), nest.shape[2], nest.tiles[2], SgY(g)),
                                  TileBySgs(Size(1), nest.shape[1], nest.tiles[1], SgX(g))),
                           Third)
           column(c1, c0, c2) ==
               Tile(<<[i \in 1 .. Dim |->
                         Run(SubSeq(<<nest.from[1] + c0.block, c1.block, c2.block>>, 1, Dim)[i],
                             SubSeq(<<c0.size, c1.size, c2.size>>, 1, Dim)[i])]>>,
                    SubSeq(<<c0.size, c1.size, c2.size>>, 1, Dim))
<1>1. ForeachTileTiles(g) =
          [i \in DOMAIN bodies |-> column(bodies[i][1][1], bodies[i][1][2], bodies[i][2])]
  <2> DEFINE inner == IF Dim < 3 THEN <<Call(0, 0, FALSE)>>
                      ELSE LET vars3 == Iterate(nest.from[3], nest.to[3], nest.shape[3])
                           IN  [i \in DOMAIN vars3 |->
                                   Call(vars3[i], IF nest.to[3] - vars3[i] < nest.shape[3]
                                                  THEN nest.to[3] - vars3[i] ELSE nest.shape[3], FALSE)]
             all == Nested(Nested(TileBySgs(Size(2), nest.shape[2], nest.tiles[2], SgY(g)),
                                  TileBySgs(Size(1), nest.shape[1], nest.tiles[1], SgX(g))),
                           inner)
  <2>1. Dim # 1
    OBVIOUS
  <2>2. ForeachTileTiles(g) = [i \in DOMAIN all |-> column(all[i][1][1], all[i][1][2], all[i][2])]
    BY <2>1 DEF ForeachTileTiles
  <2>3. inner = Third
    BY DEF Third, Clipped, NoCall
  <2> HIDE DEF inner, column
  <2>4. all = bodies
    BY <2>3
  <2> HIDE DEF all, bodies
  <2> QED BY <2>2, <2>4
<1>2. \A a, b, c : SubSeq(<<a, b, c>>, 1, Dim)
                       = [i \in 1 .. Dim |-> IF i = 1 THEN a ELSE IF i = 2 THEN b ELSE c]
  BY FirstOfThree
<1>3. \A c : column(c[1][1], c[1][2], c[2]) = Tile(<<TileSets(c)>>, TileSizes(c))
  <2> TAKE c
  <2> DEFINE u == nest.from[1] + c[1][2].block
             v == c[1][1].block
             w == c[2].block
             x == c[1][2].size
             y == c[1][1].size
             z == c[2].size
  <2>1. TileSets(c) = [i \in 1 .. Dim |-> IF i = 1 THEN Run(u, x) ELSE IF i = 2 THEN Run(v, y) ELSE Run(w, z)]
    BY DEF TileSets
  <2>2. TileSizes(c) = SubSeq(<<x, y, z>>, 1, Dim)
    BY DEF TileSizes
  <2>3. column(c[1][1], c[1][2], c[2]) =
            Tile(<<[i \in 1 .. Dim |-> Run(SubSeq(<<u, v, w>>, 1, Dim)[i], SubSeq(<<x, y, z>>, 1, Dim)[i])]>>,
                 SubSeq(<<x, y, z>>, 1, Dim))
    OBVIOUS
  <2> HIDE DEF u, v, w, x, y, z
  <2>4. \A i \in 1 .. Dim :
            Run(SubSeq(<<u, v, w>>, 1, Dim)[i], SubSeq(<<x, y, z>>, 1, Dim)[i])
            = IF i = 1 THEN Run(u, x) ELSE IF i = 2 THEN Run(v, y) ELSE Run(w, z)
    <3> TAKE i \in 1 .. Dim
    <3>1. SubSeq(<<u, v, w>>, 1, Dim)[i] = IF i = 1 THEN u ELSE IF i = 2 THEN v ELSE w
      BY <1>2
    <3>2. SubSeq(<<x, y, z>>, 1, Dim)[i] = IF i = 1 THEN x ELSE IF i = 2 THEN y ELSE z
      BY <1>2
    <3> QED BY <3>1, <3>2
  <2>5. [i \in 1 .. Dim |-> Run(SubSeq(<<u, v, w>>, 1, Dim)[i], SubSeq(<<x, y, z>>, 1, Dim)[i])]
        = TileSets(c)
    BY <2>1, <2>4
  <2> QED BY <2>2, <2>3, <2>5
<1> HIDE DEF column
<1>4. ForeachTileTiles(g) =
          [i \in DOMAIN bodies |-> Tile(<<TileSets(bodies[i])>>, TileSizes(bodies[i]))]
  <2> HIDE DEF bodies
  <2> QED BY <1>1, <1>3
<1> QED BY <1>4

LEMMA ForeachTileOfSeveral ==
    ASSUME nest \in Nests, nest.op = "foreach_tile", Dim > 1, nest.from[2] = 0
    PROVE  Parts([g \in Subgroup |-> ForeachTileTiles(g)], Subgroup, TileSet, Runs, Space)
<1> DEFINE tx == nest.tiles[1]
           ty == nest.tiles[2]
           w1 == nest.shape[1]
           w2 == nest.shape[2]
           f == nest.from[1]
           G == Subgroup
           SA == Below(Size(2))
           SB == Below(Size(1))
           A == Within(LaneCalls(w2), Holds, SA)
           B == Within(LaneCalls(w1), Holds, SB)
           FA == [g \in Below(ty) |-> TileBySgs(Size(2), w2, ty, g)]
           FB == [g \in Below(tx) |-> TileBySgs(Size(1), w1, tx, g)]
           a == [g \in G |-> SgY(g)]
           b == [g \in G |-> SgX(g)]
           outer == NestedBy(FA, FB, a, b, G)
           AB == A \X B
           SAB == SA \X SB
           HAB == Paired(A, B, Holds, Holds, SA, SB)
           own == [g \in G |-> g]
           only == [g \in G |-> 0]
           FC == [g \in {0} |-> Third]
           bodies == NestedBy(outer, FC, own, only, G)
           C == AB \X ThirdCalls
           S == SAB \X ThirdMode
           H == Paired(AB, ThirdCalls, HAB, ThirdHolds, SAB, ThirdMode)
           tile(c) == Tile(<<TileSets(c)>>, TileSizes(c))
           F == [g \in G |-> ForeachTileTiles(g)]
           third(p) == IF Dim < 3 THEN 0 ELSE p[3]
           inThird(p) == Dim = 3 => p[3] \in Mode(3)
           P == [p \in Space |-> <<<<p[2], p[1] - f>>, third(p)>>]
<1>1. /\ tx \in Nat \ {0} /\ ty \in Nat \ {0} /\ w1 \in Nat \ {0} /\ w2 \in Nat \ {0} /\ f \in Int
      /\ Size(1) \in Int /\ Size(2) \in Int /\ Dim \in {2, 3}
      /\ 1 \in 1 .. Dim /\ 2 \in 1 .. Dim
  <2>1. Dim \in {2, 3}
    BY ForeachTileFacts
  <2>2. 1 \in 1 .. Dim /\ 2 \in 1 .. Dim
    BY <2>1
  <2> QED BY <2>1, <2>2, NestFacts, ForeachTileFacts
<1>2. Parts(outer, G, AB, HAB, SAB)
  <2>1. Parts(FA, Below(ty), A, Holds, SA)
    <3> HIDE DEF w2, ty
    <3>1. Parts(FA, Below(ty), LaneCalls(w2), Holds, SA)
      BY <1>1, BySgsParts
    <3> HIDE DEF FA, SA
    <3> QED BY <3>1, PartsWithin
  <2>2. Parts(FB, Below(tx), B, Holds, SB)
    <3> HIDE DEF w1, tx
    <3>1. Parts(FB, Below(tx), LaneCalls(w1), Holds, SB)
      BY <1>1, BySgsParts
    <3> HIDE DEF FB, SB
    <3> QED BY <3>1, PartsWithin
  <2>3. a \in [G -> Below(ty)] /\ b \in [G -> Below(tx)]
    BY SubgroupIds
  <2>4. /\ \A i \in Below(ty), j \in Below(tx) : \E g \in G : a[g] = i /\ b[g] = j
        /\ \A g, h \in G : a[g] = a[h] /\ b[g] = b[h] => g = h
    BY SubgroupIds
  <2> HIDE DEF FA, FB, G, A, B, SA, SB, a, b, tx, ty
  <2> DEFINE K == Below(ty)
             L == Below(tx)
  <2>5. /\ Parts(FA, K, A, Holds, SA) /\ Parts(FB, L, B, Holds, SB)
        /\ a \in [G -> K] /\ b \in [G -> L]
        /\ \A i \in K, j \in L : \E g \in G : a[g] = i /\ b[g] = j
        /\ \A g, h \in G : a[g] = a[h] /\ b[g] = b[h] => g = h
    BY <2>1, <2>2, <2>3, <2>4
  <2> HIDE DEF K, L
  <2> QED BY <2>5, PartsOfPairs
<1>3. Parts(bodies, G, C, H, S)
  <2> DEFINE K == {0}
  <2>1. Parts(FC, K, ThirdCalls, ThirdHolds, ThirdMode)
    BY ThirdParts
  <2>2. /\ own \in [G -> G] /\ only \in [G -> K]
        /\ \A i \in G, j \in K : \E g \in G : own[g] = i /\ only[g] = j
        /\ \A g, h \in G : own[g] = own[h] /\ only[g] = only[h] => g = h
    OBVIOUS
  <2> DEFINE TC == ThirdCalls
             TH == ThirdHolds
             TM == ThirdMode
             E == G
  <2>3. /\ Parts(outer, E, AB, HAB, SAB) /\ Parts(FC, K, TC, TH, TM)
        /\ own \in [G -> E] /\ only \in [G -> K]
        /\ \A i \in E, j \in K : \E g \in G : own[g] = i /\ only[g] = j
        /\ \A g, h \in G : own[g] = own[h] /\ only[g] = only[h] => g = h
    BY <1>2, <2>1, <2>2
  <2> HIDE DEF K, E, FC, outer, AB, SAB, HAB, own, only, TC, TH, TM, C, S, H, bodies, G
  <2>4. Parts(NestedBy(outer, FC, own, only, G), G, AB \X TC,
              Paired(AB, TC, HAB, TH, SAB, TM), SAB \X TM)
    BY <2>3, PartsOfPairs
  <2> QED BY <2>4 DEF TC, TH, TM, C, S, H, bodies
<1>4. ASSUME NEW g \in G
      PROVE  F[g] = [i \in DOMAIN bodies[g] |-> tile(bodies[g][i])]
  <2>1. bodies[g] = Nested(Nested(TileBySgs(Size(2), w2, ty, SgY(g)), TileBySgs(Size(1), w1, tx, SgX(g))),
                          Third)
    <3>1. own[g] = g /\ only[g] = 0 /\ FC[0] = Third
      OBVIOUS
    <3>2. outer[g] = Nested(TileBySgs(Size(2), w2, ty, SgY(g)), TileBySgs(Size(1), w1, tx, SgX(g)))
      BY SubgroupIds DEF NestedBy
    <3>3. bodies[g] = Nested(outer[own[g]], FC[only[g]])
      BY DEF NestedBy
    <3> HIDE DEF outer, own, only, FC, bodies
    <3> QED BY <3>1, <3>2, <3>3
  <2>2. F[g] = ForeachTileTiles(g)
    OBVIOUS
  <2> HIDE DEF bodies, tile, F
  <2>3. ForeachTileTiles(g) = [i \in DOMAIN bodies[g] |-> tile(bodies[g][i])]
    BY <1>1, <2>1, ForeachTileTilesAre DEF tile
  <2> QED BY <2>2, <2>3
<1>5. ASSUME NEW c \in C
      PROVE  /\ c[1][1] \in A /\ c[1][2] \in B /\ c[2] \in ThirdCalls
             /\ c[1][1] \in Calls(w2) /\ c[1][2] \in Calls(w1)
             /\ c = <<c[1], c[2]>> /\ c[1] = <<c[1][1], c[1][2]>>
  <2>1. A \subseteq Calls(w2) /\ B \subseteq Calls(w1)
    BY DEF Within, LaneCalls
  <2> HIDE DEF A, B
  <2>2. c[1] \in AB /\ c[2] \in ThirdCalls /\ c = <<c[1], c[2]>>
    <3> HIDE DEF AB
    <3> QED OBVIOUS
  <2> DEFINE d == c[1]
  <2>3. d[1] \in A /\ d[2] \in B /\ d = <<d[1], d[2]>>
    <3>1. d \in A \X B
      BY <2>2
    <3> HIDE DEF d
    <3> QED BY <3>1
  <2> QED BY <2>1, <2>2, <2>3
<1>6. ASSUME NEW c \in C
      PROVE  /\ tile(c) \in TileSet
             /\ \A p : <<tile(c), p>> \in Runs
                         <=> /\ p \in Points
                             /\ p[1] \in Run(f + c[1][2].block, c[1][2].size)
                             /\ p[2] \in Run(c[1][1].block, c[1][1].size)
                             /\ Dim = 3 => p[3] \in Run(c[2].block, c[2].size)
  <2> DEFINE c0 == c[1][2]
             c1 == c[1][1]
             c2 == c[2]
  <2>1. /\ c0.block \in Int /\ c0.size \in 1 .. w1
        /\ c1.block \in Int /\ c1.size \in 1 .. w2
        /\ Dim = 3 => c2.block \in Int /\ c2.size \in 1 .. nest.shape[3]
    <3>1. c0 \in Calls(w1) /\ c1 \in Calls(w2) /\ c2 \in ThirdCalls
      BY <1>5
    <3>2. Dim = 3 => c2 \in Calls(nest.shape[3])
      <4> HIDE DEF c2
      <4> QED BY <3>1 DEF ThirdCalls, Within
    <3> HIDE DEF c0, c1, c2
    <3> QED BY <3>1, <3>2 DEF Calls
  <2>2. TileSets(c) = [i \in 1 .. Dim |-> IF i = 1 THEN Run(f + c0.block, c0.size) ELSE
                                         IF i = 2 THEN Run(c1.block, c1.size) ELSE Run(c2.block, c2.size)]
    BY DEF TileSets
  <2>3. TileSizes(c) = SubSeq(<<c0.size, c1.size, c2.size>>, 1, Dim)
    BY DEF TileSizes
  <2> HIDE DEF c0, c1, c2, C, f, w1, w2
  <2>4. TileSets(c) \in Boxes
    <3>1. Run(f + c0.block, c0.size) \subseteq Int /\ Run(c1.block, c1.size) \subseteq Int
      BY <1>1, <2>1 DEF Run
    <3>2. Dim = 3 => Run(c2.block, c2.size) \subseteq Int
      BY <1>1, <2>1 DEF Run
    <3>3. \A i \in 1 .. Dim : i = 1 \/ i = 2 \/ Dim = 3
      BY <1>1
    <3> QED BY <2>2, <3>1, <3>2, <3>3 DEF Boxes
  <2> DEFINE z == TileSizes(c)
  <2>5. z \in Seq(Nat) /\ \A i \in 1 .. Len(z) : z[i] \in 1 .. Largest(i)
    <3>1. z = [i \in 1 .. Dim |-> IF i = 1 THEN c0.size ELSE IF i = 2 THEN c1.size ELSE c2.size]
      BY <1>1, <2>3, FirstOfThree
    <3> HIDE DEF z
    <3>2. \A i \in 1 .. Dim : i = 1 \/ i = 2 \/ (i = 3 /\ Dim = 3)
      BY <1>1
    <3>3. Largest(1) = w1 /\ Largest(2) = w2 /\ Largest(3) = nest.shape[3]
      BY DEF Largest, w1, w2
    <3>4. Dim = 3 => nest.shape[3] \in Nat
      BY ForeachTileFacts
    <3>5. \A i \in 1 .. Dim : z[i] \in Nat /\ z[i] \in 1 .. Largest(i)
      BY <1>1, <2>1, <3>1, <3>2, <3>3, <3>4, SMTT(60)
    <3>6. Dim \in Nat /\ z = [i \in 1 .. Dim |-> z[i]]
      BY <1>1, <3>1
    <3>7. z \in Seq(Nat)
      BY <3>5, <3>6, SeqDef
    <3>8. Len(z) = Dim
      BY <3>6, <3>7
    <3> QED BY <3>5, <3>7, <3>8
  <2> HIDE DEF z
  <2>6. /\ Tile(<<TileSets(c)>>, z) \in TileSet
        /\ \A p : <<Tile(<<TileSets(c)>>, z), p>> \in Runs
                    <=> p \in Points /\ \A i \in 1 .. Dim : p[i] \in TileSets(c)[i]
    BY <2>4, <2>5, OneBox
  <2>7. \A p : (\A i \in 1 .. Dim : p[i] \in TileSets(c)[i])
                <=> /\ p[1] \in Run(f + c0.block, c0.size)
                    /\ p[2] \in Run(c1.block, c1.size)
                    /\ Dim = 3 => p[3] \in Run(c2.block, c2.size)
    <3>1. \A i : i \in 1 .. Dim <=> i = 1 \/ i = 2 \/ (Dim = 3 /\ i = 3)
      BY <1>1
    <3> QED BY <2>2, <3>1
  <2> QED BY <2>6, <2>7 DEF z, c0, c1, c2
<1>7. ASSUME NEW g \in G
      PROVE  /\ DOMAIN F[g] = DOMAIN bodies[g] /\ F[g] \in Seq(TileSet)
             /\ \A i \in DOMAIN bodies[g] : bodies[g][i] \in C /\ F[g][i] = tile(bodies[g][i])
  <2>1. bodies[g] \in Seq(C)
    <3> HIDE DEF bodies, C, H, S
    <3> QED BY <1>3 DEF Parts
  <2> HIDE DEF bodies, F, tile, C
  <2> DEFINE k == Len(bodies[g])
  <2>2. k \in Nat /\ DOMAIN bodies[g] = 1 .. k /\ \A i \in 1 .. k : bodies[g][i] \in C
    BY <2>1, LenProperties, ElementOfSeq
  <2> HIDE DEF k
  <2>3. F[g] = [i \in 1 .. k |-> tile(bodies[g][i])]
    BY <1>4, <2>2
  <2>4. \A i \in 1 .. k : tile(bodies[g][i]) \in TileSet
    BY <1>6, <2>2
  <2>5. F[g] \in Seq(TileSet)
    BY <2>2, <2>3, <2>4, SeqDef
  <2> QED BY <2>2, <2>3, <2>5
<1>8. ASSUME NEW p \in Points
      PROVE  /\ p[1] \in Int /\ p[2] \in Int /\ (Dim = 3 => p[3] \in Int)
             /\ p[2] \in Mode(2) <=> p[2] \in SA
             /\ p[1] \in Mode(1) <=> p[1] - f \in SB
             /\ inThird(p) <=> third(p) \in ThirdMode
  <2>1. p[1] \in Int /\ p[2] \in Int /\ (Dim = 3 => p[3] \in Int)
    BY <1>1 DEF Points
  <2>2. p[1] \in Mode(1) <=> p[1] - f \in SB
    BY <1>1, <2>1, InMode
  <2>3. p[2] \in Mode(2) <=> p[2] \in SA
    <3>1. p[2] \in Mode(2) <=> p[2] - nest.from[2] \in SA
      BY <1>1, <2>1, InMode
    <3>2. p[2] - nest.from[2] = p[2]
      BY <2>1
    <3> QED BY <3>1, <3>2
  <2>4. inThird(p) <=> third(p) \in ThirdMode
    BY <1>1 DEF ThirdMode
  <2> QED BY <2>1, <2>2, <2>3, <2>4
<1>9. \A p : p \in Space <=> /\ p \in Points /\ p[1] \in Mode(1) /\ p[2] \in Mode(2)
                             /\ inThird(p)
  <2>1. \A i : i \in 1 .. Dim <=> i = 1 \/ i = 2 \/ (Dim = 3 /\ i = 3)
    BY <1>1
  <2>2. \A p : (\A i \in 1 .. Dim : p[i] \in Mode(i))
                <=> p[1] \in Mode(1) /\ p[2] \in Mode(2) /\ inThird(p)
    BY <2>1
  <2> HIDE DEF inThird
  <2> QED BY <2>2, SpaceMeans
<1> HIDE DEF third, inThird
<1>10. P \in [Space -> S]
  <2>1. \A p \in Space : <<<<p[2], p[1] - f>>, third(p)>> \in S
    <3> SUFFICES ASSUME NEW p \in Space PROVE <<<<p[2], p[1] - f>>, third(p)>> \in S
      OBVIOUS
    <3> HIDE DEF SA, SB
    <3>1. p[2] \in SA /\ p[1] - f \in SB /\ third(p) \in ThirdMode
      BY <1>8, <1>9
    <3> QED BY <3>1
  <2> QED BY <2>1
<1>11. ASSUME NEW g \in G, NEW i \in DOMAIN bodies[g], NEW p
       PROVE  <<F[g][i], p>> \in Runs <=> p \in Space /\ <<bodies[g][i], P[p]>> \in H
  <2> DEFINE c == bodies[g][i]
             c0 == c[1][2]
             c1 == c[1][1]
             c2 == c[2]
             x == p[2]
             y == p[1] - f
             z == third(p)
  <2>1. c \in C /\ F[g][i] = tile(c)
    BY <1>7
  <2>2. /\ c1 \in A /\ c0 \in B /\ c2 \in ThirdCalls /\ c1 \in Calls(w2) /\ c0 \in Calls(w1)
        /\ c = <<<<c1, c0>>, c2>>
    <3> HIDE DEF c
    <3>1. c[1] = <<c1, c0>> /\ c = <<c[1], c2>>
      BY <1>5, <2>1
    <3> HIDE DEF c0, c1, c2
    <3>2. c = <<<<c1, c0>>, c2>>
      BY <3>1
    <3> QED BY <1>5, <2>1, <3>2 DEF c0, c1, c2
  <2>3. <<F[g][i], p>> \in Runs
            <=> /\ p \in Points /\ p[1] \in Run(f + c0.block, c0.size)
                /\ p[2] \in Run(c1.block, c1.size)
                /\ Dim = 3 => p[3] \in Run(c2.block, c2.size)
    <3> HIDE DEF c, C, tile, F
    <3> QED BY <1>6, <2>1
  <2> HIDE DEF c, c0, c1, c2, tile, F, bodies
  <2>4. \A k \in SA, l \in SB, m \in ThirdMode :
            <<c, <<<<k, l>>, m>>>> \in H
                <=> <<c1, k>> \in Holds /\ <<c0, l>> \in Holds /\ <<c2, m>> \in ThirdHolds
    <3> HIDE DEF A, B, SA, SB
    <3> SUFFICES ASSUME NEW k \in SA, NEW l \in SB, NEW m \in ThirdMode
                 PROVE  <<c, <<<<k, l>>, m>>>> \in H
                            <=> <<c1, k>> \in Holds /\ <<c0, l>> \in Holds /\ <<c2, m>> \in ThirdHolds
      OBVIOUS
    <3> DEFINE d == <<c1, c0>>
               q == <<k, l>>
    <3>1. d \in AB /\ q \in SAB /\ c = <<d, c2>>
      BY <2>2
    <3>2. <<d, q>> \in HAB <=> <<c1, k>> \in Holds /\ <<c0, l>> \in Holds
      BY <2>2 DEF Paired
    <3> HIDE DEF d, q, AB, SAB, HAB
    <3>3. <<<<d, c2>>, <<q, m>>>> \in H <=> <<d, q>> \in HAB /\ <<c2, m>> \in ThirdHolds
      BY <2>2, <3>1 DEF Paired
    <3> QED BY <3>1, <3>2, <3>3 DEF q
  <2>5. ASSUME p \in Points
        PROVE  /\ p[1] \in Run(f + c0.block, c0.size) <=> <<c0, y>> \in Holds
               /\ p[2] \in Run(c1.block, c1.size) <=> <<c1, x>> \in Holds
               /\ (Dim = 3 => p[3] \in Run(c2.block, c2.size)) <=> <<c2, z>> \in ThirdHolds
    <3> DEFINE k == p[1]
               l == p[2]
               m == p[3]
    <3>1. k \in Int /\ l \in Int /\ (Dim = 3 => m \in Int)
      BY <1>8, <2>5
    <3> HIDE DEF k, l, m
    <3>2. k \in Run(f + c0.block, c0.size) <=> <<c0, k - f>> \in Holds
      <4> HIDE DEF w1, f
      <4> QED BY <1>1, <2>2, <3>1, RunMeans
    <3>3. l \in Run(c1.block, c1.size) <=> <<c1, l>> \in Holds
      <4>1. c1.block \in Int
        BY <2>2 DEF Calls
      <4>2. 0 + c1.block = c1.block /\ l - 0 = l /\ 0 \in Int
        BY <3>1, <4>1
      <4> HIDE DEF w2
      <4>3. l \in Run(0 + c1.block, c1.size) <=> <<c1, l - 0>> \in Holds
        BY <1>1, <2>2, <3>1, RunMeans, 0 \in Int
      <4> QED BY <4>2, <4>3
    <3>4. (Dim = 3 => m \in Run(c2.block, c2.size)) <=> <<c2, IF Dim < 3 THEN 0 ELSE m>> \in ThirdHolds
      <4>1. CASE Dim = 2
        <5>1. c2 = NoCall /\ ThirdHolds = {<<NoCall, 0>>}
          BY <2>2, <4>1 DEF ThirdCalls, ThirdHolds
        <5> QED BY <4>1, <5>1
      <4>2. CASE Dim = 3
        <5> DEFINE w == nest.shape[3]
        <5>1. c2 \in Calls(w) /\ ThirdHolds = Holds
          BY <2>2, <4>2 DEF ThirdCalls, ThirdHolds, Within
        <5>2. w \in Nat
          BY <4>2, ForeachTileFacts
        <5>3. c2.block \in Int
          BY <5>1 DEF Calls
        <5>4. 0 + c2.block = c2.block /\ m - 0 = m
          BY <3>1, <4>2, <5>3
        <5> HIDE DEF w
        <5>5. m \in Run(0 + c2.block, c2.size) <=> <<c2, m - 0>> \in Holds
          BY <3>1, <4>2, <5>1, <5>2, RunMeans, 0 \in Int
        <5> QED BY <4>2, <5>1, <5>4, <5>5
      <4> QED BY <1>1, <4>1, <4>2
    <3> QED BY <3>2, <3>3, <3>4 DEF k, l, m, third
  <2>6. /\ <<c1, x>> \in Holds => x \in SA
        /\ <<c0, y>> \in Holds => y \in SB
        /\ <<c2, z>> \in ThirdHolds => z \in ThirdMode
    <3>1. (<<c1, x>> \in Holds => x \in SA) /\ (<<c0, y>> \in Holds => y \in SB)
      BY <2>2 DEF Within
    <3> HIDE DEF z
    <3> QED BY <2>2, <3>1, ThirdParts
  <2>7. p \in Space => P[p] = <<<<x, y>>, z>>
    OBVIOUS
  <2> HIDE DEF x, y, z, A, B, SA, SB, P, H, f
  <2>8. p \in Points => /\ p[2] \in Mode(2) <=> x \in SA
                        /\ p[1] \in Mode(1) <=> y \in SB
                        /\ inThird(p) <=> z \in ThirdMode
    BY <1>8 DEF x, y, z
  <2>9. ASSUME p \in Space
        PROVE  <<c, P[p]>> \in H <=> <<c1, x>> \in Holds /\ <<c0, y>> \in Holds /\ <<c2, z>> \in ThirdHolds
    <3>1. x \in SA /\ y \in SB /\ z \in ThirdMode
      BY <1>9, <2>8, <2>9
    <3> QED BY <2>4, <2>7, <2>9, <3>1
  <2>10. <<F[g][i], p>> \in Runs
             <=> p \in Space /\ <<c1, x>> \in Holds /\ <<c0, y>> \in Holds /\ <<c2, z>> \in ThirdHolds
    BY <1>9, <2>3, <2>5, <2>6, <2>8
  <2> QED BY <2>9, <2>10 DEF c
<1>12. F \in [G -> Seq(TileSet)] /\ \A g \in G : DOMAIN F[g] = DOMAIN bodies[g]
  BY <1>7
<1> HIDE DEF F, G, C, S, H, bodies, P
<1>13. Parts(F, G, TileSet, Runs, Space)
  BY <1>3, <1>10, <1>11, <1>12, PartsRenamed
<1> QED BY <1>13 DEF F, G

-----------------------------------------------------------------------------
(* The tiles of linear algebra that is no foreach.                         *)
LEMMA ScalarTilesAre ==
    ASSUME nest \in Nests, nest.op # "foreach_tile", Dim = 0
    PROVE  Parts([g \in Subgroup |-> ScalarTiles(g)], Subgroup, TileSet, Runs, Space)
<1> DEFINE t == Tile(<<<<>>>>, <<>>)
           s == <<>>
           z == <<>>
<1>1. s \in Boxes /\ z \in Seq(Nat) /\ Len(z) = 0 /\ 1 .. Dim = {}
  BY DEF Boxes
<1>2. Tile(<<s>>, z) = t
  OBVIOUS
<1> HIDE DEF s, z, t
<1>3. /\ t \in TileSet
      /\ \A p : <<t, p>> \in Runs <=> p \in Points /\ \A i \in 1 .. Dim : p[i] \in s[i]
  <2>1. \A i \in 1 .. Len(z) : z[i] \in 1 .. Largest(i)
    BY <1>1
  <2>2. /\ Tile(<<s>>, z) \in TileSet
        /\ \A p : <<Tile(<<s>>, z), p>> \in Runs <=> p \in Points /\ \A i \in 1 .. Dim : p[i] \in s[i]
    BY <1>1, <2>1, OneBox
  <2> QED BY <1>2, <2>2
<1>4. \A p : <<t, p>> \in Runs <=> p \in Space
  BY <1>1, <1>3, SpaceMeans
<1>5. 0 \in Subgroup
  BY NestFacts DEF Below
<1>6. Parts([g \in Subgroup |-> IF g = 0 THEN <<t>> ELSE <<>>], Subgroup, TileSet, Runs, Space)
  BY <1>3, <1>4, <1>5, PartsOfOne
<1>7. [g \in Subgroup |-> ScalarTiles(g)] = [g \in Subgroup |-> IF g = 0 THEN <<t>> ELSE <<>>]
  BY DEF ScalarTiles, t
<1> QED BY <1>6, <1>7

(* The steps in which a subgroup scans a column.                           *)
Steps(n, w) == Iterate(0, (CDiv(n - 1, w) + 1) * w, w)

LEMMA StepsCover ==
    ASSUME NEW n \in Nat, NEW w \in Nat \ {0}
    PROVE  /\ Steps(n, w) \in Seq(Int)
           /\ \A i, j \in DOMAIN Steps(n, w) : \A x :
                  x \in Run(Steps(n, w)[i], w) /\ x \in Run(Steps(n, w)[j], w) => i = j
           /\ \A x \in 0 .. n - 1 : \E i \in DOMAIN Steps(n, w) : x \in Run(Steps(n, w)[i], w)
<1> DEFINE q == CDiv(n - 1, w)
           s == Steps(n, w)
           last == (q + 1) * w
<1>1. /\ q \in Int /\ last \in Int
      /\ n > 0 => q \in Nat /\ n <= last
  <2>1. CASE n = 0
    <3> DEFINE m == n - 1
               a == -m
    <3>1. m \in Int /\ m < 0 /\ ~(w < 0)
      BY <2>1
    <3> HIDE DEF m
    <3>2. a \in Nat
      BY <3>1
    <3> HIDE DEF a
    <3>3. a \div w \in Nat
      BY <3>2, QuotientFacts
    <3>4. Abs(m) = a /\ Abs(w) = w
      BY <3>1 DEF Abs, a
    <3>5. CDiv(m, w) = -(a \div w)
      BY <3>1, <3>4 DEF CDiv
    <3>6. CDiv(m, w) \in Int
      BY <3>3, <3>5
    <3>7. q \in Int
      BY <3>6 DEF m
    <3> HIDE DEF q
    <3> QED BY <2>1, <3>7
  <2>2. CASE n > 0
    <3> DEFINE m == n - 1
               r == m % w
               d == m \div w
    <3>1. m \in Nat
      BY <2>2
    <3> HIDE DEF m
    <3>2. d \in Nat /\ r \in 0 .. w - 1 /\ m = w * d + r /\ CDiv(m, w) = d
      BY <3>1, QuotientFacts
    <3>3. q = d
      BY <3>2 DEF m
    <3> HIDE DEF d, r, q
    <3>4. last = w * d + w /\ w * d \in Nat /\ last \in Int
      BY <3>2, <3>3, ProductIsNat
    <3> HIDE DEF last
    <3> QED BY <2>2, <3>2, <3>3, <3>4 DEF m
  <2> QED BY <2>1, <2>2
<1>2. Values(s, 0, last, w)
  <2> HIDE DEF last
  <2>1. Values(Iterate(0, last, w), 0, last, w)
    BY <1>1, IterateFacts, 0 \in Int
  <2> QED BY <2>1 DEF last, Steps
<1> HIDE DEF s, q, last
<1>3. /\ s \in Seq(Int)
      /\ \A i \in Nat \ {0} : i \in DOMAIN s <=> w * (i - 1) < last
      /\ \A i \in DOMAIN s : i \in Nat \ {0} /\ s[i] = w * (i - 1)
  <2>1. \A i \in Nat : w * (i - 1) \in Int /\ 0 + w * (i - 1) = w * (i - 1)
    BY Scaled
  <2> QED BY <1>2, <2>1 DEF Values
<1>4. ASSUME NEW i \in DOMAIN s, NEW j \in DOMAIN s, NEW x, x \in Run(s[i], w), x \in Run(s[j], w)
      PROVE  i = j
  <2> DEFINE a == i - 1
             b == j - 1
             u == w * a
             v == w * b
  <2>1. a \in Nat /\ b \in Nat /\ s[i] = u /\ s[j] = v /\ u \in Int /\ v \in Int
    BY <1>3, ProductIsNat, SMTT(60)
  <2>2. i = a + 1 /\ j = b + 1
    BY <1>3, SMTT(60)
  <2> HIDE DEF a, b
  <2> DEFINE r == x - u
             t == x - v
  <2>3. x \in Int /\ r \in 0 .. w - 1 /\ t \in 0 .. w - 1 /\ u + r = v + t
    <3> HIDE DEF u, v
    <3> QED BY <1>4, <2>1 DEF Run
  <2> HIDE DEF r, t
  <2>4. a = b
    BY <2>1, <2>3, OneQuotient
  <2> QED BY <2>2, <2>4
<1>5. ASSUME NEW x \in 0 .. n - 1
      PROVE  \E i \in DOMAIN s : x \in Run(s[i], w)
  <2> DEFINE d == x \div w
             r == x % w
             i == d + 1
             u == w * d
  <2>1. x \in Nat /\ x < n /\ n > 0
    OBVIOUS
  <2>2. d \in Nat /\ r \in 0 .. w - 1 /\ x = u + r
    BY <2>1, QuotientFacts
  <2>3. i \in Nat \ {0} /\ i - 1 = d /\ u \in Int
    BY <2>2, ProductIsNat
  <2> HIDE DEF i, d, r
  <2>4. u < last
    <3> HIDE DEF u
    <3> QED BY <1>1, <2>1, <2>2, <2>3
  <2>5. i \in DOMAIN s /\ s[i] = u
    BY <1>3, <2>3, <2>4
  <2>6. x \in Run(s[i], w)
    <3> HIDE DEF u
    <3> QED BY <2>2, <2>3, <2>5 DEF Run
  <2> QED BY <2>5, <2>6
<1> QED BY <1>3, <1>4, <1>5 DEF s

LEMMA ColumnTilesAre ==
    ASSUME nest \in Nests, nest.op = "cumsum", Dim > 1
    PROVE  Parts([g \in Subgroup |-> ColumnTiles(g)], Subgroup, TileSet, Runs, Space)
<1> DEFINE n == nest.tiles[1] * nest.tiles[2]
           w == nest.sgs
           G == Subgroup
           S == Below(Size(2))
           C == Calls(1)
           own == [g \in Below(n) |-> g]
           columns == Dealt(0, Size(2), 1, n, own)
           steps == Steps(Size(1), w)
           box(i, c) == [k \in 1 .. Dim |-> IF k = 1 THEN Run(steps[i], w) \cap Mode(1) ELSE
                                           IF k = 2 THEN {c.block} ELSE Mode(k)]
           tile(c) == Tile([i \in DOMAIN steps |-> box(i, c)], <<>>)
           F == [g \in G |-> ColumnTiles(g)]
           P == [p \in Space |-> p[2]]
<1>1. /\ n \in Nat \ {0} /\ G = Below(n) /\ w \in Nat \ {0} /\ Dim \in Nat
      /\ 1 \in 1 .. Dim /\ 2 \in 1 .. Dim /\ Size(1) \in Nat /\ Size(2) \in Nat
      /\ Mode(1) = 0 .. Size(1) - 1 /\ Mode(2) = S
  <2>1. Dim \in Nat /\ 1 \in 1 .. Dim /\ 2 \in 1 .. Dim
    BY NestFacts
  <2>2. \A i \in 1 .. Dim : nest.from[i] = 0 /\ nest.to[i] >= 0
    BY NestsAssumption DEF WellFormed, Dim
  <2>3. nest.to[1] \in Int /\ nest.to[2] \in Int
    BY <2>1, NestFacts
  <2>4. Size(1) = nest.to[1] /\ Size(2) = nest.to[2] /\ Size(1) \in Nat /\ Size(2) \in Nat
    BY <2>1, <2>2, <2>3 DEF Size
  <2>5. Mode(1) = 0 .. Size(1) - 1 /\ Mode(2) = S
    BY <2>1, <2>2, <2>4 DEF Mode, Below
  <2> QED BY <2>1, <2>4, <2>5, NestFacts
<1>2. Parts(columns, G, C, Holds, S)
  <2>1. \A b \in Nat : Call(b, 1, FALSE) \in C
    BY DEF Call, Calls
  <2>2. /\ own \in [Below(n) -> Below(n)]
        /\ \A t \in Below(n) : \E g \in Below(n) : own[g] = t
        /\ \A g, h \in Below(n) : own[g] = own[h] => g = h
    OBVIOUS
  <2> HIDE DEF own, n, C
  <2>3. Parts(columns, Below(n), C, Holds, 0 .. 0 + 1 * Size(2) - 1)
    BY <1>1, <2>1, <2>2, DealtParts, 0 \in Nat, 1 \in Nat \ {0}
  <2>4. 0 .. 0 + 1 * Size(2) - 1 = S
    BY <1>1 DEF Below
  <2> HIDE DEF columns
  <2> QED BY <1>1, <2>3, <2>4
<1>3. ASSUME NEW g \in G
      PROVE  F[g] = [i \in DOMAIN columns[g] |-> tile(columns[g][i])]
  <2> DEFINE starts == Iterate(g, Size(2), n)
             rows == Iterate(0, (CDiv(Size(1) - 1, w) + 1) * w, w)
             cells(r, c) == [i \in 1 .. Dim |-> CASE i = 1 -> Run(r, w) \cap Mode(1)
                                                 [] i = 2 -> {c}
                                                 [] OTHER -> Mode(i)]
  <2>1. F[g] = [j \in DOMAIN starts |->
                   Tile([i \in DOMAIN rows |-> cells(rows[i], starts[j])], <<>>)]
    BY DEF ColumnTiles
  <2>2. columns[g] = [i \in DOMAIN starts |-> Call(starts[i], 1, FALSE)]
    <3>1. own[g] = g /\ g \in Below(n) /\ g \in Int
      BY <1>1 DEF Below
    <3> HIDE DEF own, n
    <3>2. 0 + 1 * own[g] = g /\ 0 + 1 * Size(2) = Size(2) /\ 1 * n = n
      BY <1>1, <3>1
    <3> QED BY <3>1, <3>2 DEF Dealt
  <2>3. rows = steps
    BY DEF Steps
  <2>4. \A i, j : cells(steps[i], starts[j]) = box(i, Call(starts[j], 1, FALSE))
    BY DEF Call
  <2> HIDE DEF F, columns, starts, rows, steps, cells, box
  <2>5. \A j \in DOMAIN starts :
            [i \in DOMAIN steps |-> cells(steps[i], starts[j])]
                = [i \in DOMAIN steps |-> box(i, columns[g][j])]
    <3> SUFFICES ASSUME NEW j \in DOMAIN starts
                 PROVE  [i \in DOMAIN steps |-> cells(steps[i], starts[j])]
                            = [i \in DOMAIN steps |-> box(i, columns[g][j])]
      OBVIOUS
    <3> DEFINE c == columns[g][j]
    <3>1. c = Call(starts[j], 1, FALSE)
      BY <2>2
    <3> HIDE DEF c
    <3>2. \A i : cells(steps[i], starts[j]) = box(i, c)
      BY <2>4, <3>1
    <3>3. [i \in DOMAIN steps |-> cells(steps[i], starts[j])] = [i \in DOMAIN steps |-> box(i, c)]
      BY <3>2
    <3> QED BY <3>3 DEF c
  <2>6. \A j \in DOMAIN starts :
            Tile([i \in DOMAIN rows |-> cells(rows[i], starts[j])], <<>>) = tile(columns[g][j])
    BY <2>3, <2>5
  <2>7. DOMAIN columns[g] = DOMAIN starts
    BY <2>2
  <2> HIDE DEF tile
  <2> QED BY <2>1, <2>6, <2>7
<1>4. ASSUME NEW c \in C
      PROVE  /\ tile(c) \in TileSet
             /\ \A p : <<tile(c), p>> \in Runs
                         <=> /\ p \in Points /\ p[1] \in Mode(1) /\ p[2] = c.block
                             /\ \A k \in 1 .. Dim : k # 1 /\ k # 2 => p[k] \in Mode(k)
  <2> DEFINE t == tile(c)
             bs == [i \in DOMAIN steps |-> box(i, c)]
             m == Len(steps)
  <2>1. c.block \in Int
    BY DEF Calls
  <2>2. /\ steps \in Seq(Int)
        /\ \A i, j \in DOMAIN steps : \A x : x \in Run(steps[i], w) /\ x \in Run(steps[j], w) => i = j
        /\ \A x \in Mode(1) : \E i \in DOMAIN steps : x \in Run(steps[i], w)
    <3> HIDE DEF w
    <3> QED BY <1>1, StepsCover
  <2>3. m \in Nat /\ DOMAIN steps = 1 .. m
    <3> HIDE DEF steps
    <3> QED BY <2>2, LenProperties
  <2>4. \A i \in DOMAIN steps : box(i, c) \in Boxes
    BY <2>1 DEF Boxes, Mode
  <2>5. \A i, p : (\A k \in 1 .. Dim : p[k] \in box(i, c)[k])
                     <=> /\ p[1] \in Run(steps[i], w) /\ p[1] \in Mode(1) /\ p[2] = c.block
                         /\ \A k \in 1 .. Dim : k # 1 /\ k # 2 => p[k] \in Mode(k)
    BY <1>1
  <2>6. t.boxes = bs /\ t.size = <<>> /\ DOMAIN bs = DOMAIN steps
        /\ \A i \in DOMAIN bs : bs[i] = box(i, c)
    BY DEF Tile
  <2>7. t = [boxes |-> bs, size |-> <<>>]
    BY DEF Tile
  <2> HIDE DEF steps, m, box, t
  <2>8. bs \in Seq(Boxes)
    BY <2>3, <2>4, SeqDef
  <2> HIDE DEF bs
  <2>9. \A i \in DOMAIN bs : \A p : p \in Box(bs[i])
                <=> /\ p \in Points /\ p[1] \in Run(steps[i], w) /\ p[1] \in Mode(1) /\ p[2] = c.block
                    /\ \A k \in 1 .. Dim : k # 1 /\ k # 2 => p[k] \in Mode(k)
    <3> SUFFICES ASSUME NEW i \in DOMAIN bs, NEW p
                 PROVE  p \in Box(bs[i])
                <=> /\ p \in Points /\ p[1] \in Run(steps[i], w) /\ p[1] \in Mode(1) /\ p[2] = c.block
                    /\ \A k \in 1 .. Dim : k # 1 /\ k # 2 => p[k] \in Mode(k)
      OBVIOUS
    <3>1. bs[i] = box(i, c) /\ box(i, c) \in Boxes
      BY <2>4, <2>6
    <3>2. p \in Box(box(i, c)) <=> p \in Points /\ \A k \in 1 .. Dim : p[k] \in box(i, c)[k]
      BY <3>1, BoxMeans
    <3> QED BY <2>5, <3>1, <3>2
  <2>10. BoxesApart(t)
    BY <2>2, <2>6, <2>9 DEF BoxesApart
  <2>11. t \in TileSet
    <3>1. t \in [boxes : Seq(Boxes), size : Seq(Nat)]
      BY <2>7, <2>8
    <3>2. 1 .. Len(t.size) = {}
      BY <2>6
    <3> QED BY <2>10, <3>1, <3>2 DEF TileSet
  <2>12. \A p : <<t, p>> \in Runs <=> p \in Points /\ \E i \in DOMAIN bs : p \in Box(bs[i])
    BY <2>6, <2>11 DEF Runs
  <2>13. ASSUME NEW p
         PROVE  <<t, p>> \in Runs
                    <=> /\ p \in Points /\ p[1] \in Mode(1) /\ p[2] = c.block
                        /\ \A k \in 1 .. Dim : k # 1 /\ k # 2 => p[k] \in Mode(k)
    BY <2>2, <2>6, <2>9, <2>12
  <2> QED BY <2>11, <2>13, Zenon DEF t
<1>5. ASSUME NEW g \in G
      PROVE  /\ DOMAIN F[g] = DOMAIN columns[g] /\ F[g] \in Seq(TileSet)
             /\ \A i \in DOMAIN columns[g] : columns[g][i] \in C /\ F[g][i] = tile(columns[g][i])
  <2>1. columns[g] \in Seq(C)
    <3> HIDE DEF columns, C
    <3> QED BY <1>2 DEF Parts
  <2> HIDE DEF columns, F, tile, C
  <2> DEFINE m == Len(columns[g])
  <2>2. m \in Nat /\ DOMAIN columns[g] = 1 .. m /\ \A i \in 1 .. m : columns[g][i] \in C
    BY <2>1, LenProperties, ElementOfSeq
  <2> HIDE DEF m
  <2>3. F[g] = [i \in 1 .. m |-> tile(columns[g][i])]
    BY <1>3, <2>2
  <2>4. \A i \in 1 .. m : tile(columns[g][i]) \in TileSet
    BY <1>4, <2>2
  <2>5. F[g] \in Seq(TileSet)
    BY <2>2, <2>3, <2>4, SeqDef
  <2> QED BY <2>2, <2>3, <2>5
<1>6. P \in [Space -> S]
  <2>1. \A p \in Space : p[2] \in S
    BY <1>1, SpaceMeans
  <2> QED BY <2>1
<1>7. ASSUME NEW g \in G, NEW i \in DOMAIN columns[g], NEW p
      PROVE  <<F[g][i], p>> \in Runs <=> p \in Space /\ <<columns[g][i], P[p]>> \in Holds
  <2> DEFINE c == columns[g][i]
  <2>1. c \in C /\ F[g][i] = tile(c)
    BY <1>5
  <2>2. \A x : <<c, x>> \in Holds => x \in S
    <3> HIDE DEF columns, C, S
    <3> QED BY <1>2 DEF Parts
  <2> HIDE DEF c, tile, F, S, columns
  <2>3. \A x : <<c, x>> \in Holds <=> x = c.block
    <3>1. c.block \in Int /\ c.size = 1
      BY <2>1 DEF Calls
    <3>2. \A x : <<c, x>> \in Holds <=> x \in Int /\ c.block <= x /\ x < c.block + c.size
      BY <2>1, HoldsMeans, 1 \in Nat
    <3> QED BY <3>1, <3>2
  <2> HIDE DEF C
  <2>4. <<F[g][i], p>> \in Runs
            <=> /\ p \in Points /\ p[1] \in Mode(1) /\ p[2] = c.block
                /\ \A k \in 1 .. Dim : k # 1 /\ k # 2 => p[k] \in Mode(k)
    BY <1>4, <2>1
  <2>5. p \in Space => P[p] = p[2]
    OBVIOUS
  <2> HIDE DEF P
  <2>6. p \in Space <=> /\ p \in Points /\ p[1] \in Mode(1) /\ p[2] \in Mode(2)
                        /\ \A k \in 1 .. Dim : k # 1 /\ k # 2 => p[k] \in Mode(k)
    BY <1>1, SpaceMeans
  <2>7. c.block \in Mode(2)
    BY <1>1, <2>2, <2>3
  <2> QED BY <2>3, <2>4, <2>5, <2>6, <2>7 DEF c
<1>8. F \in [G -> Seq(TileSet)]
  BY <1>5
<1> HIDE DEF F, G, C, S, columns, P
<1>9. Parts(F, G, TileSet, Runs, Space)
  BY <1>2, <1>5, <1>6, <1>7, <1>8, PartsRenamed
<1> QED BY <1>9 DEF F, G

-----------------------------------------------------------------------------
(* Block sizes of a gemm.                                                  *)

(* A set of numbers up to n has a greatest one.                            *)
LEMMA GreatestExists ==
    ASSUME NEW n \in Nat, NEW S \in SUBSET (0 .. n), S # {}
    PROVE  \E x \in S : \A y \in S : x >= y
<1> DEFINE T == {n - x : x \in S}
<1>1. PICK x \in S : TRUE
  OBVIOUS
<1>2. T \in SUBSET Nat /\ n - x \in T
  OBVIOUS
<1>3. PICK j \in T : \A t \in T : j <= t
  <2> HIDE DEF T
  <2> QED BY <1>2, LeastNumber
<1>4. PICK z \in S : j = n - z
  OBVIOUS
<1>5. \A y \in S : n - y \in T
  OBVIOUS
<1>6. \A y \in S : z >= y
  <2> HIDE DEF T
  <2> QED BY <1>3, <1>4, <1>5
<1> QED BY <1>6

LEMMA DoublingsUnfold ==
    ASSUME NEW n \in Nat
    PROVE  /\ Doublings(n) \in [0 .. n -> Nat \ {0}]
           /\ Doublings(n)[0] = 1
           /\ \A k \in 1 .. n : Doublings(n)[k] = 2 * Doublings(n)[k - 1]
<1> DEFINE S == Nat \ {0}
           G == [k \in 1 .. n |-> [v \in S |-> 2 * v]]
           Solves(f) == f = [e \in 0 .. n |-> IF e = 0 THEN 1 ELSE 2 * f[e - 1]]
<1>1. G \in Rules(n, S) /\ 1 \in S
  BY DEF Rules
<1>2. PICK f : Solution(f, n, S, 1, G)
  <2> HIDE DEF G, S
  <2> QED BY <1>1, RecursionExists
<1>3. f \in [0 .. n -> S] /\ f[0] = 1 /\ \A k \in 1 .. n : f[k] = 2 * f[k - 1]
  <2>1. f \in [0 .. n -> S] /\ f[0] = 1 /\ \A k \in 1 .. n : f[k] = G[k][f[k - 1]]
    BY <1>2 DEF Solution
  <2>2. \A k \in 1 .. n : f[k - 1] \in S
    BY <2>1
  <2> QED BY <2>1, <2>2
<1>4. Solves(f)
  <2>1. ASSUME NEW k \in 0 .. n, k # 0 PROVE f[k] = 2 * f[k - 1]
    BY <1>3, <2>1
  <2> QED BY <1>3, <2>1
<1> DEFINE p == Doublings(n)
<1>5. p = CHOOSE g : Solves(g)
  BY DEF Doublings
<1>6. Solves(p)
  <2> HIDE DEF Solves, p
  <2> QED BY <1>4, <1>5
<1> HIDE DEF p
<1>7. /\ p = [k \in 0 .. n |-> p[k]] /\ p[0] = 1
      /\ \A k \in 1 .. n : p[k] = 2 * p[k - 1]
  <2>1. \A q : Solves(q) => q = [k \in 0 .. n |-> q[k]] /\ q[0] = 1
    BY DEF Solves
  <2>2. \A q : Solves(q) => \A k \in 1 .. n : q[k] = 2 * q[k - 1]
    BY DEF Solves
  <2> HIDE DEF Solves
  <2> QED BY <1>6, <2>1, <2>2
<1> HIDE DEF Solves
<1>8. \A k \in 0 .. n : p[k] \in S
  <2> DEFINE T == {m \in 0 .. n : p[m] \in S}
  <2>1. 0 \in T
    BY <1>7
  <2>2. ASSUME NEW m \in T, m \in 0 .. n - 1 PROVE m + 1 \in T
    <3>1. m + 1 \in 1 .. n /\ (m + 1) - 1 = m /\ p[m] \in S
      BY <2>2
    <3>2. p[m + 1] = 2 * p[m]
      BY <1>7, <3>1
    <3> QED BY <2>2, <3>1, <3>2
  <2> HIDE DEF T
  <2>3. \A m \in 0 .. n : m \in T
    BY <2>1, <2>2, UpTo
  <2> QED BY <2>3 DEF T
<1> QED BY <1>7, <1>8 DEF p

(* Powers of two grow.                                                     *)
LEMMA DoublingsGrow ==
    ASSUME NEW n \in Nat
    PROVE  /\ \A k \in 0 .. n : Doublings(n)[k] > k
           /\ \A j, k \in 0 .. n : j < k => Doublings(n)[j] < Doublings(n)[k]
<1> DEFINE p == Doublings(n)
<1>1. p \in [0 .. n -> Nat \ {0}] /\ p[0] = 1 /\ \A k \in 1 .. n : p[k] = 2 * p[k - 1]
  BY DoublingsUnfold
<1> HIDE DEF p
<1>2. \A k \in 0 .. n : p[k] > k
  <2> DEFINE T == {m \in 0 .. n : p[m] > m}
  <2>1. 0 \in T
    BY <1>1
  <2>2. ASSUME NEW m \in T, m \in 0 .. n - 1 PROVE m + 1 \in T
    <3>1. p[m + 1] = 2 * p[m] /\ p[m] \in Nat /\ p[m] > m
      BY <1>1, <2>2
    <3> QED BY <2>2, <3>1
  <2> HIDE DEF T
  <2>3. \A m \in 0 .. n : m \in T
    BY <2>1, <2>2, UpTo
  <2> QED BY <2>3 DEF T
<1>3. ASSUME NEW j \in 0 .. n
      PROVE  \A k \in 0 .. n : j < k => p[j] < p[k]
  <2> DEFINE T == {m \in 0 .. n : j < m => p[j] < p[m]}
  <2>1. 0 \in T
    OBVIOUS
  <2>2. ASSUME NEW m \in T, m \in 0 .. n - 1 PROVE m + 1 \in T
    <3>1. p[m + 1] = 2 * p[m] /\ p[m] \in Nat \ {0} /\ p[j] \in Nat
      BY <1>1, <2>2
    <3>2. p[m] < p[m + 1]
      BY <3>1
    <3>3. j < m + 1 => p[j] <= p[m]
      BY <2>2, <3>1
    <3> QED BY <2>2, <3>1, <3>2, <3>3
  <2> HIDE DEF T
  <2>3. \A m \in 0 .. n : m \in T
    BY <2>1, <2>2, UpTo
  <2> QED BY <2>3 DEF T
<1> QED BY <1>2, <1>3 DEF p

(* The number of blocks is one unless several are within the limit.        *)
LEMMA ChosenMultiple ==
    ASSUME NEW minSize \in Nat \ {0}, NEW maxSize \in Nat \ {0}, NEW tiles, NEW size
    PROVE  LET k == ChooseBlockSizeMultiple(minSize, maxSize, tiles, size)
           IN  k \in Nat \ {0} /\ (k = 1 \/ minSize * k < maxSize)
<1> DEFINE p == Doublings(maxSize)
           powers == {p[e] : e \in 0 .. maxSize}
           ends(k) == 2 * k * minSize >= maxSize
           isStart(k) == ends(k) /\ \A j \in powers : j < k => 2 * j * minSize < maxSize
           even(k) == /\ CRem(1 + CDiv(size - 1, k * minSize), tiles) = 0
                      /\ k * minSize - size < minSize
           start == CHOOSE k \in powers : isStart(k)
           fitting == {k \in powers : k <= start /\ (k = 1 \/ even(k))}
           chosen == CHOOSE k \in fitting : \A j \in fitting : j <= k
<1>1. /\ p \in [0 .. maxSize -> Nat \ {0}] /\ p[0] = 1
      /\ \A k \in 1 .. maxSize : p[k] = 2 * p[k - 1]
      /\ \A k \in 0 .. maxSize : p[k] > k
      /\ \A j, k \in 0 .. maxSize : j < k => p[j] < p[k]
  BY DoublingsUnfold, DoublingsGrow
<1>2. ChooseBlockSizeMultiple(minSize, maxSize, tiles, size) = chosen
  BY DEF ChooseBlockSizeMultiple
<1> HIDE DEF p
<1>3. \A k \in Nat : /\ 2 * k * minSize = minSize * (2 * k)
                     /\ minSize * (2 * k) \in Nat /\ minSize * (2 * k) >= k
  <2> TAKE k \in Nat
  <2>1. 2 * k \in Nat
    OBVIOUS
  <2>2. minSize * (2 * k) >= 2 * k
    <3> DEFINE d == 2 * k
               m == minSize - 1
    <3>1. m \in Nat /\ d \in Nat /\ minSize = m + 1
      OBVIOUS
    <3> HIDE DEF d, m
    <3>2. (m + 1) * d = m * d + d /\ m * d \in Nat
      BY <3>1, ProductIsNat
    <3>3. minSize * d >= d
      BY <3>1, <3>2
    <3> QED BY <3>3 DEF d
  <2>3. 2 * k * minSize = minSize * (2 * k)
    OBVIOUS
  <2>4. minSize * (2 * k) \in Nat
    BY <2>1, ProductIsNat
  <2> HIDE DEF p
  <2> QED BY <2>1, <2>2, <2>3, <2>4
<1>4. \E k \in powers : isStart(k)
  <2> DEFINE T == {e \in 0 .. maxSize : ends(p[e])}
  <2>1. maxSize \in T
    <3>1. maxSize \in 0 .. maxSize /\ p[maxSize] \in Nat /\ p[maxSize] > maxSize
      BY <1>1
    <3>2. 2 * p[maxSize] * minSize >= p[maxSize]
      <4> DEFINE k == p[maxSize]
      <4>1. k \in Nat
        BY <3>1
      <4> HIDE DEF k
      <4> DEFINE x == minSize * (2 * k)
      <4>2. 2 * k * minSize = x /\ x >= k
        BY <1>3, <4>1
      <4> HIDE DEF x
      <4> QED BY <4>2 DEF k
    <3>3. 2 * p[maxSize] * minSize \in Nat
      BY <1>3, <3>1
    <3> DEFINE x == 2 * p[maxSize] * minSize
               k == p[maxSize]
    <3>4. x \in Nat /\ x >= k /\ k \in Nat /\ k > maxSize
      BY <3>1, <3>2, <3>3
    <3> HIDE DEF x, k
    <3>5. x >= maxSize
      BY <3>4
    <3> QED BY <3>1, <3>5 DEF x
  <2>2. T \in SUBSET Nat
    OBVIOUS
  <2>3. PICK e \in T : \A f \in T : e <= f
    <3> HIDE DEF T
    <3> QED BY <2>1, <2>2, LeastNumber
  <2>4. ends(p[e]) /\ p[e] \in powers /\ e \in 0 .. maxSize
    OBVIOUS
  <2>5. ASSUME NEW j \in powers, j < p[e]
        PROVE  2 * j * minSize < maxSize
    <3>1. PICK f \in 0 .. maxSize : j = p[f]
      OBVIOUS
    <3>2. f < e
      <4>1. CASE e = f
        <5>1. j \in Nat /\ j = p[e]
          BY <1>1, <2>4, <3>1, <4>1
        <5> QED BY <2>5, <5>1
      <4>2. CASE e < f
        <5>1. p[e] < p[f] /\ p[e] \in Nat /\ p[f] \in Nat
          BY <1>1, <2>4, <4>2
        <5> QED BY <2>5, <3>1, <5>1
      <4> QED BY <2>4, <4>1, <4>2
    <3>3. f \notin T
      BY <2>3, <2>4, <3>2
    <3>4. ~ends(p[f]) /\ p[f] \in Nat
      BY <1>1, <3>3
    <3> QED BY <1>3, <3>1, <3>4
  <2> QED BY <2>4, <2>5
<1>5. start \in powers /\ isStart(start)
  <2> HIDE DEF powers, isStart
  <2> QED BY <1>4
<1> HIDE DEF start
<1>6. PICK e \in 0 .. maxSize : start = p[e]
  BY <1>5
<1>7. 1 \in fitting
  <2>1. 1 \in powers
    BY <1>1
  <2>2. 1 <= start
    BY <1>1, <1>6
  <2> QED BY <2>1, <2>2
<1>8. fitting \in SUBSET (0 .. start) /\ start \in Nat
  <2>1. \A k \in powers : k \in Nat
    BY <1>1
  <2>2. start \in Nat
    BY <1>5, <2>1
  <2> HIDE DEF powers, even
  <2> QED BY <2>1, <2>2
<1>9. \E k \in fitting : \A j \in fitting : j <= k
  <2> HIDE DEF fitting
  <2>1. PICK k \in fitting : \A j \in fitting : k >= j
    BY <1>7, <1>8, GreatestExists
  <2>2. \A j \in fitting : j \in Nat
    BY <1>8
  <2> QED BY <2>1, <2>2
<1>10. chosen \in fitting
  <2> HIDE DEF fitting
  <2> QED BY <1>9
<1> HIDE DEF chosen
<1>11. PICK f \in 0 .. maxSize : chosen = p[f]
  BY <1>10
<1>12. chosen \in Nat \ {0} /\ chosen <= start
  BY <1>1, <1>10, <1>11
<1>13. ASSUME chosen # 1
       PROVE  minSize * chosen < maxSize
  <2>1. f \in 1 .. maxSize /\ f - 1 \in 0 .. maxSize
    BY <1>1, <1>11, <1>13
  <2>2. chosen = 2 * p[f - 1] /\ p[f - 1] \in Nat \ {0} /\ p[f - 1] \in powers
    BY <1>1, <1>11, <2>1
  <2>3. p[f - 1] < start
    <3> DEFINE a == p[f - 1]
    <3>1. a \in Nat \ {0} /\ chosen = 2 * a
      BY <2>2
    <3>2. start \in Nat
      BY <1>8
    <3> HIDE DEF a
    <3> QED BY <1>12, <3>1, <3>2 DEF a
  <2>4. 2 * p[f - 1] * minSize < maxSize
    BY <1>5, <2>2, <2>3
  <2> QED BY <1>3, <2>2, <2>4
<1> QED BY <1>2, <1>12, <1>13

(* What is known of a gemm.                                                *)
LEMMA GemmFacts ==
    ASSUME nest \in Nests, nest.op = "gemm"
    PROVE  /\ Dim = 3
           /\ \A i \in 1 .. 3 : /\ Size(i) \in Nat /\ Mode(i) = 0 .. Size(i) - 1
                                /\ nest.from[i] = 0 /\ Size(i) = nest.to[i] - nest.from[i]
           /\ nest.ks \in Seq(Nat \ {0}) /\ nest.ks # <<>>
           /\ nest.max[1] \in Nat \ {0} /\ nest.max[2] \in Nat \ {0} /\ nest.sgs <= nest.max[1]
           /\ nest.ext => nest.shape[1] \in Nat \ {0} /\ nest.shape[2] \in Nat \ {0}
           /\ nest.ext \in BOOLEAN /\ \A i \in 1 .. 3 : nest.static[i] \in BOOLEAN
<1>1. WellFormed(nest)
  BY NestsAssumption
<1>2. /\ Dim = 3
      /\ nest.ks \in Seq(Nat \ {0}) /\ nest.ks # <<>>
      /\ nest.max[1] \in Nat \ {0} /\ nest.max[2] \in Nat \ {0} /\ nest.sgs <= nest.max[1]
      /\ nest.ext => nest.shape[1] \in Nat \ {0} /\ nest.shape[2] \in Nat \ {0}
      /\ nest.ext \in BOOLEAN /\ nest.static \in BOOLEAN \X BOOLEAN \X BOOLEAN
  BY <1>1 DEF WellFormed, Dim
<1>3. \A i \in 1 .. 3 : nest.from[i] = 0 /\ nest.to[i] >= 0 /\ nest.to[i] \in Int
  <2>1. \A i \in 1 .. 3 : nest.from[i] = 0 /\ nest.to[i] >= 0
    BY <1>1, <1>2 DEF WellFormed, Dim
  <2> QED BY <1>2, <2>1, NestFacts
<1>4. \A i \in 1 .. 3 : Size(i) = nest.to[i] /\ Size(i) \in Nat /\ Mode(i) = 0 .. Size(i) - 1
  BY <1>3 DEF Size, Mode
<1>5. \A i \in 1 .. 3 : nest.static[i] \in BOOLEAN
  BY <1>2
<1> QED BY <1>2, <1>3, <1>4, <1>5 DEF Size

(* The blocks of C.                                                        *)
LEMMA BlockFacts ==
    ASSUME nest \in Nests, nest.op = "gemm"
    PROVE  /\ BlockSize[1] \in Nat \ {0} /\ BlockSize[2] \in Nat \ {0}
           /\ NumBlocks(1) \in Nat \ {0} /\ NumBlocks(2) \in Nat \ {0}
           /\ DoTileUniformly => NumBlocks(2) = 1
           /\ NumBlocks(1) = 1 \/ BlockSize[1] * NumBlocks(1) < nest.max[1]
           /\ NumBlocks(2) = 1 \/ BlockSize[2] * NumBlocks(2) < nest.max[2]
<1>1. BlockSize[1] \in Nat \ {0} /\ BlockSize[2] \in Nat \ {0}
  <2>1. nest.sgs \in Nat \ {0}
    BY NestFacts
  <2>2. CASE nest.ext
    <3>1. BlockSize = nest.shape
      BY <2>2 DEF BlockSize
    <3> QED BY <2>2, <3>1, GemmFacts
  <2>3. CASE ~nest.ext
    <3>1. BlockSize = <<nest.sgs, nest.max[2]>>
      BY <2>3 DEF BlockSize
    <3>2. BlockSize[1] = nest.sgs /\ BlockSize[2] = nest.max[2]
      BY <3>1
    <3> QED BY <2>1, <3>2, GemmFacts
  <2> QED BY <2>2, <2>3
<1>2. NumBlocks(1) \in Nat \ {0} /\ (NumBlocks(1) = 1 \/ BlockSize[1] * NumBlocks(1) < nest.max[1])
  <2> DEFINE b == BlockSize[1]
             m == nest.max[1]
             t == nest.tiles[1]
             z == IF nest.static[1] THEN Size(1) ELSE nest.max[1]
  <2>1. NumBlocks(1) = ChooseBlockSizeMultiple(b, m, t, z)
    BY DEF NumBlocks
  <2>2. b \in Nat \ {0} /\ m \in Nat \ {0}
    BY <1>1, GemmFacts
  <2> HIDE DEF b, m, t, z
  <2>3. LET k == ChooseBlockSizeMultiple(b, m, t, z)
        IN  k \in Nat \ {0} /\ (k = 1 \/ b * k < m)
    BY <2>2, ChosenMultiple
  <2> QED BY <2>1, <2>3 DEF b, m
<1>3. NumBlocks(2) \in Nat \ {0} /\ (NumBlocks(2) = 1 \/ BlockSize[2] * NumBlocks(2) < nest.max[2])
  <2> DEFINE b == BlockSize[2]
             m == nest.max[2]
             t == nest.tiles[2]
             z == IF nest.static[2] THEN Size(2) ELSE nest.max[2]
  <2>1. NumBlocks(2) = 1 \/ NumBlocks(2) = ChooseBlockSizeMultiple(b, m, t, z)
    BY DEF NumBlocks
  <2>2. b \in Nat \ {0} /\ m \in Nat \ {0}
    BY <1>1, GemmFacts
  <2> HIDE DEF b, m, t, z
  <2>3. LET k == ChooseBlockSizeMultiple(b, m, t, z)
        IN  k \in Nat \ {0} /\ (k = 1 \/ b * k < m)
    BY <2>2, ChosenMultiple
  <2> QED BY <2>1, <2>3 DEF b, m
<1>4. DoTileUniformly => NumBlocks(2) = 1
  BY DEF DoTileUniformly, NumBlocks
<1> QED BY <1>1, <1>2, <1>3, <1>4

(* The blocks of a loop over a range.                                      *)
BlocksFrom(v, from, to, w) ==
    /\ v \in Seq(Int)
    /\ \A i \in DOMAIN v : v[i] \in Int /\ v[i] >= from
    /\ \A i, j \in DOMAIN v : \A x : x \in Run(v[i], w) /\ x \in Run(v[j], w) => i = j
    /\ \A x \in from .. to - 1 : \E i \in DOMAIN v : x \in Run(v[i], w)
    /\ \A q \in Nat : to = from + w * q => \A i \in DOMAIN v : \A x \in Run(v[i], w) : x < to

LEMMA RangeSteps ==
    ASSUME NEW from \in Int, NEW to \in Int, NEW w \in Nat \ {0}
    PROVE  BlocksFrom(Iterate(from, to, w), from, to, w)
<1> DEFINE v == Iterate(from, to, w)
<1>1. /\ v \in Seq(Int)
      /\ \A i \in Nat \ {0} : i \in DOMAIN v <=> from + w * (i - 1) < to
      /\ \A i \in DOMAIN v : i \in Nat \ {0} /\ v[i] = from + w * (i - 1)
  BY IterateFacts DEF Values
<1> HIDE DEF v
<1>2. ASSUME NEW i \in DOMAIN v
      PROVE  /\ i - 1 \in Nat /\ i \in Nat /\ w * (i - 1) \in Nat
             /\ v[i] = from + w * (i - 1) /\ v[i] \in Int /\ v[i] >= from
  <2>1. i - 1 \in Nat /\ i \in Nat /\ v[i] = from + w * (i - 1)
    BY <1>1
  <2>2. w * (i - 1) \in Nat
    BY <2>1, ProductIsNat
  <2> QED BY <2>1, <2>2
<1>3. ASSUME NEW i \in DOMAIN v, NEW j \in DOMAIN v, NEW x, x \in Run(v[i], w), x \in Run(v[j], w)
      PROVE  i = j
  <2> DEFINE a == i - 1
             b == j - 1
             p == w * a
             q == w * b
             k == x - from - p
             l == x - from - q
  <2>1. /\ a \in Nat /\ b \in Nat /\ i = a + 1 /\ j = b + 1 /\ p \in Nat /\ q \in Nat
        /\ v[i] = from + p /\ v[j] = from + q
    BY <1>2
  <2> HIDE DEF p, q, a, b
  <2>2. k \in 0 .. w - 1 /\ l \in 0 .. w - 1 /\ p + k = q + l
    BY <1>3, <2>1 DEF Run
  <2> HIDE DEF k, l
  <2>3. w * a + k = w * b + l
    BY <2>2 DEF p, q
  <2>4. a = b
    BY <2>1, <2>2, <2>3, OneQuotient
  <2> QED BY <2>1, <2>4
<1>4. ASSUME NEW x \in from .. to - 1
      PROVE  \E i \in DOMAIN v : x \in Run(v[i], w)
  <2> DEFINE d == x - from
             q == d \div w
             r == d % w
             i == q + 1
  <2>1. d \in Nat /\ x = from + d
    OBVIOUS
  <2> HIDE DEF d
  <2>2. q \in Nat /\ r \in 0 .. w - 1 /\ d = w * q + r
    BY <2>1, QuotientFacts
  <2> HIDE DEF q, r
  <2>3. i \in Nat \ {0} /\ i - 1 = q /\ w * q \in Nat
    BY <2>2, ProductIsNat
  <2>4. from + w * (i - 1) < to
    BY <2>1, <2>2, <2>3
  <2> HIDE DEF i
  <2>5. i \in DOMAIN v
    BY <1>1, <2>3, <2>4
  <2>6. v[i] = from + w * q
    BY <1>2, <2>3, <2>5
  <2>7. x \in Run(v[i], w)
    BY <2>1, <2>2, <2>3, <2>6 DEF Run
  <2> QED BY <2>5, <2>7
<1>5. ASSUME NEW q \in Nat, to = from + w * q, NEW i \in DOMAIN v, NEW x \in Run(v[i], w)
      PROVE  x < to
  <2> DEFINE a == i - 1
  <2>1. a \in Nat /\ w * a \in Nat /\ v[i] = from + w * a /\ from + w * a < to /\ w * q \in Nat
    BY <1>1, <1>2, ProductIsNat
  <2> HIDE DEF a
  <2>2. w * a < w * q
    BY <1>5, <2>1
  <2>3. a + 1 <= q
    BY <2>1, <2>2, Scaled
  <2>4. w * (a + 1) <= w * q /\ w * (a + 1) = w * a + w
    BY <2>1, <2>3, Scaled
  <2> QED BY <1>5, <2>1, <2>4 DEF Run
<1> QED BY <1>1, <1>2, <1>3, <1>4, <1>5 DEF v, BlocksFrom

(* The loops over full blocks in mode K and over the remainder cover it,   *)
(* and nothing twice.                                                      *)
LEMMA KBlocksMean ==
    ASSUME nest \in Nests, nest.op = "gemm"
    PROVE  /\ KBlocks \in Seq(SUBSET Int)
           /\ \A i, j \in DOMAIN KBlocks : \A x : x \in KBlocks[i] /\ x \in KBlocks[j] => i = j
           /\ \A x : (\E i \in DOMAIN KBlocks : x \in KBlocks[i]) <=> x \in Mode(3)
<1> DEFINE ks == nest.ks
           n == Size(3)
           size == IF nest.static[3] THEN ChooseKBlockSize(ks, n) ELSE Last(ks)
           q == CDiv(n, size)
           u == q * size
           h == Head(ks)
           full == Iterate(0, u, size)
           rest == Iterate(u, n, h)
           first == [i \in DOMAIN full |-> Covered(3, full[i], size, FALSE)]
           second == [i \in DOMAIN rest |-> Covered(3, rest[i], h, h > 1)]
<1>1. /\ ks \in Seq(Nat \ {0}) /\ ks # <<>> /\ n \in Nat /\ Mode(3) = 0 .. n - 1
  BY GemmFacts
<1>2. /\ Len(ks) \in Nat \ {0} /\ DOMAIN ks = 1 .. Len(ks) /\ \A i \in 1 .. Len(ks) : ks[i] \in Nat \ {0}
      /\ h \in Nat \ {0}
  <2> HIDE DEF ks
  <2>1. /\ Len(ks) \in Nat \ {0} /\ DOMAIN ks = 1 .. Len(ks)
        /\ \A i \in 1 .. Len(ks) : ks[i] \in Nat \ {0}
    BY <1>1, LenProperties, EmptySeq, ElementOfSeq
  <2>2. h = ks[1]
    BY <1>1
  <2> QED BY <2>1, <2>2
<1>3. size \in Nat \ {0}
  <2>1. CASE nest.static[3]
    <3> DEFINE T == {1} \cup {j \in DOMAIN ks : ks[j] <= n}
    <3>1. T \in SUBSET (0 .. Len(ks)) /\ T # {} /\ \A j \in T : j \in 1 .. Len(ks)
      BY <1>2
    <3>2. ChooseKBlockSize(ks, n) = ks[Max(T)]
      BY DEF ChooseKBlockSize
    <3> HIDE DEF T, ks, n
    <3>3. Max(T) \in T
      <4>1. \E x \in T : \A y \in T : x >= y
        BY <1>2, <3>1, GreatestExists
      <4> QED BY <4>1 DEF Max
    <3>4. ks[Max(T)] \in Nat \ {0}
      BY <1>2, <3>1, <3>3
    <3> QED BY <2>1, <3>2, <3>4
  <2>2. CASE ~nest.static[3]
    <3> HIDE DEF ks
    <3>1. size = ks[Len(ks)]
      BY <2>2 DEF Last
    <3> QED BY <1>2, <3>1
  <2> QED BY <2>1, <2>2
<1>4. q \in Nat /\ u \in Nat /\ u = 0 + size * q /\ u <= n
  <2> HIDE DEF n, size
  <2> DEFINE r == n % size
             p == size * q
  <2>1. q \in Nat /\ r \in 0 .. size - 1 /\ n = p + r
    <3>1. q = n \div size
      BY <1>1, <1>3, QuotientFacts
    <3> HIDE DEF q
    <3> QED BY <1>1, <1>3, <3>1, QuotientFacts
  <2> HIDE DEF q, r
  <2>2. p \in Nat /\ u = p
    BY <1>3, <2>1, ProductIsNat
  <2> HIDE DEF p, u
  <2>3. u \in Nat /\ u <= n
    BY <1>1, <1>3, <2>1, <2>2
  <2> QED BY <2>1, <2>2, <2>3 DEF p
<1>5. KBlocks = first \o second
  BY DEF KBlocks
<1> HIDE DEF ks, n, size, q, u, h
<1>6. /\ full \in Seq(Int)
      /\ \A i \in DOMAIN full : full[i] \in Int /\ full[i] >= 0
      /\ \A i, j \in DOMAIN full : \A x : x \in Run(full[i], size) /\ x \in Run(full[j], size) => i = j
      /\ \A x \in 0 .. u - 1 : \E i \in DOMAIN full : x \in Run(full[i], size)
      /\ \A i \in DOMAIN full : \A x \in Run(full[i], size) : x < u
  <2> DEFINE a == 0
  <2>1. a \in Int /\ full = Iterate(a, u, size) /\ u \in Int /\ u = a + size * q /\ a + 0 = a
    BY <1>4
  <2> HIDE DEF a, full
  <2>2. BlocksFrom(full, a, u, size)
    BY <1>3, <2>1, RangeSteps
  <2> QED BY <1>4, <2>1, <2>2 DEF BlocksFrom, a
<1>7. /\ rest \in Seq(Int)
      /\ \A i \in DOMAIN rest : rest[i] \in Int /\ rest[i] >= u
      /\ \A i, j \in DOMAIN rest : \A x : x \in Run(rest[i], h) /\ x \in Run(rest[j], h) => i = j
      /\ \A x \in u .. n - 1 : \E i \in DOMAIN rest : x \in Run(rest[i], h)
      /\ \A k \in Nat : n = u + h * k => \A i \in DOMAIN rest : \A x \in Run(rest[i], h) : x < n
  <2> HIDE DEF rest
  <2>1. BlocksFrom(rest, u, n, h)
    BY <1>1, <1>2, <1>4, RangeSteps DEF rest
  <2> QED BY <2>1 DEF BlocksFrom
<1> HIDE DEF full, rest
<1>8. \A i \in DOMAIN full : first[i] = Run(full[i], size)
  BY DEF Covered
<1>9. ASSUME NEW i \in DOMAIN rest, NEW x
      PROVE  x \in second[i] <=> x \in Run(rest[i], h) /\ x \in Mode(3)
  <2>1. CASE h > 1
    BY <2>1 DEF Covered
  <2>2. CASE ~(h > 1)
    <3>1. h = 1
      BY <1>2, <2>2
    <3>2. second[i] = Run(rest[i], h)
      BY <2>2 DEF Covered
    <3>3. n - u \in Nat /\ n = u + h * (n - u)
      BY <1>1, <1>4, <3>1
    <3>4. \A y \in Run(rest[i], h) : y < n /\ y \in Int /\ y >= u
      <4>1. \A y \in Run(rest[i], h) : y < n
        BY <1>7, <3>3
      <4>2. \A y \in Run(rest[i], h) : y \in Int /\ y >= u
        BY <1>2, <1>4, <1>7 DEF Run
      <4> QED BY <4>1, <4>2
    <3> QED BY <1>1, <1>4, <3>2, <3>4
  <2> QED BY <2>1, <2>2
<1>10. first \in Seq(SUBSET Int) /\ DOMAIN first = DOMAIN full
  <2>1. Len(full) \in Nat /\ DOMAIN full = 1 .. Len(full)
    BY <1>6, LenProperties
  <2>2. DOMAIN first = DOMAIN full /\ first = [i \in DOMAIN full |-> first[i]]
    OBVIOUS
  <2> HIDE DEF first
  <2>3. ASSUME NEW i \in DOMAIN full
        PROVE  first[i] \in SUBSET Int
    <3>1. first[i] = Run(full[i], size) /\ full[i] \in Int
      BY <1>6, <1>8
    <3> QED BY <1>3, <3>1 DEF Run
  <2> QED BY <2>1, <2>2, <2>3, SeqDef
<1>11. second \in Seq(SUBSET Int) /\ DOMAIN second = DOMAIN rest
  <2>1. Len(rest) \in Nat /\ DOMAIN rest = 1 .. Len(rest)
    BY <1>7, LenProperties
  <2>2. \A i \in DOMAIN rest : second[i] \in SUBSET Int
    BY <1>1, <1>9
  <2>3. DOMAIN second = DOMAIN rest /\ second = [i \in DOMAIN rest |-> second[i]]
    OBVIOUS
  <2> HIDE DEF second
  <2> QED BY <2>1, <2>2, <2>3, SeqDef
<1> HIDE DEF first, second
<1>12. \A i \in DOMAIN full : \A x \in first[i] : x \in 0 .. u - 1
  <2>1. \A i \in DOMAIN full : \A x \in first[i] : x < u
    BY <1>6, <1>8
  <2>2. \A i \in DOMAIN full : \A x \in first[i] : x \in Int /\ full[i] <= x
    BY <1>3, <1>6, <1>8 DEF Run
  <2> QED BY <1>4, <1>6, <2>1, <2>2
<1>13. \A i \in DOMAIN rest : \A x \in second[i] : x \in u .. n - 1
  BY <1>1, <1>2, <1>4, <1>7, <1>9 DEF Run
<1> DEFINE K == first \o second
           l == Len(first)
<1>14. /\ K \in Seq(SUBSET Int) /\ l \in Nat
       /\ \A i \in DOMAIN full : i \in DOMAIN K /\ K[i] = first[i]
       /\ \A i \in DOMAIN rest : l + i \in DOMAIN K /\ K[l + i] = second[i]
       /\ \A i \in DOMAIN K :
              /\ i \in Nat
              /\ \/ i \in DOMAIN full /\ K[i] = first[i]
                 \/ i - l \in DOMAIN rest /\ K[i] = second[i - l]
  BY <1>10, <1>11, Concatenation
<1> HIDE DEF K, l
<1>15. ASSUME NEW i \in DOMAIN K, NEW j \in DOMAIN K, NEW x, x \in K[i], x \in K[j]
       PROVE  i = j
  <2>1. CASE i \in DOMAIN full /\ K[i] = first[i]
    <3>1. x \in 0 .. u - 1
      BY <1>12, <1>15, <2>1
    <3>2. ~(j - l \in DOMAIN rest /\ K[j] = second[j - l])
      BY <1>4, <1>13, <1>15, <3>1
    <3>3. j \in DOMAIN full /\ K[j] = first[j]
      BY <1>14, <3>2
    <3> QED BY <1>6, <1>8, <1>15, <2>1, <3>3
  <2>2. CASE i - l \in DOMAIN rest /\ K[i] = second[i - l]
    <3>1. x \in u .. n - 1
      BY <1>13, <1>15, <2>2
    <3>2. ~(j \in DOMAIN full /\ K[j] = first[j])
      BY <1>4, <1>12, <1>15, <3>1
    <3>3. j - l \in DOMAIN rest /\ K[j] = second[j - l]
      BY <1>14, <3>2
    <3>4. i - l = j - l
      BY <1>7, <1>9, <1>15, <2>2, <3>3
    <3> QED BY <1>14, <3>4
  <2> QED BY <1>14, <2>1, <2>2
<1>16. ASSUME NEW x \in Mode(3)
       PROVE  \E i \in DOMAIN K : x \in K[i]
  <2>1. CASE x < u
    <3>1. PICK i \in DOMAIN full : x \in Run(full[i], size)
      <4>1. x \in 0 .. u - 1
        BY <1>1, <1>4, <2>1
      <4> QED BY <1>6, <4>1
    <3> QED BY <1>8, <1>14, <3>1
  <2>2. CASE ~(x < u)
    <3>1. PICK i \in DOMAIN rest : x \in Run(rest[i], h)
      BY <1>1, <1>4, <1>7, <2>2
    <3> QED BY <1>9, <1>14, <3>1
  <2> QED BY <2>1, <2>2
<1>17. ASSUME NEW i \in DOMAIN K, NEW x \in K[i]
       PROVE  x \in Mode(3)
  BY <1>1, <1>4, <1>12, <1>13, <1>14, SMTT(60)
<1> QED BY <1>5, <1>14, <1>15, <1>16, <1>17 DEF K

(* The blocks of the microkernel in a mode, X from their numbers, k of     *)
(* length w, make up what the tile loop has handed to it.                  *)
AreBlocks(X, i, c, w, k, check) ==
    X = [m \in 0 .. k - 1 |-> Covered(i, c.block + m * w, w, check)]

MakeUp(X, c, k) ==
    /\ X \in [0 .. k - 1 -> SUBSET Int]
    /\ \A l, m \in 0 .. k - 1 : \A x : x \in X[l] /\ x \in X[m] => l = m
    /\ \A x : (\E m \in 0 .. k - 1 : x \in X[m]) <=> x \in Run(c.block, c.size)

LEMMA ModeBlocks ==
    ASSUME NEW i, NEW n \in Nat, Mode(i) = 0 .. n - 1,
           NEW w \in Nat \ {0}, NEW k \in Nat \ {0}, NEW c \in Calls(w * k), NEW check \in BOOLEAN,
           ~check => c.size = w * k,
           check => c.block \in Nat /\ c.block + c.size = n,
           NEW Y, AreBlocks(Y, i, c, w, k, check)
    PROVE  MakeUp(Y, c, k)
<1> DEFINE b == c.block
           z == c.size
           X(m) == Covered(i, b + m * w, w, check)
<1>1. w * k \in Nat \ {0} /\ b \in Int /\ z \in Nat /\ z <= w * k
  <2>1. w * k \in Nat \ {0}
    BY Scaled
  <2> QED BY <2>1 DEF Calls
<1>2. (~check => z = w * k) /\ (check => b \in Nat /\ b + z = n)
  OBVIOUS
<1> HIDE DEF b, z
<1>3. ASSUME NEW m \in 0 .. k - 1
      PROVE  /\ w * m \in Nat /\ w * m + w <= w * k
             /\ \A x : x \in X(m) <=> /\ x \in Int /\ b + w * m <= x /\ x < b + w * m + w
                                      /\ check => x \in 0 .. n - 1
  <2>1. w * m \in Nat /\ m * w = w * m
    BY ProductIsNat
  <2>2. w * m + w <= w * k
    <3>1. w * (m + 1) <= w * k /\ w * (m + 1) = w * m + w
      BY Scaled
    <3> QED BY <3>1
  <2> DEFINE d == w * m
             e == m * w
  <2>3. d \in Nat /\ e = d /\ X(m) = Covered(i, b + e, w, check)
    BY <2>1
  <2> HIDE DEF d, e
  <2>4. \A x : x \in Covered(i, b + e, w, check)
                  <=> /\ x \in Int /\ b + d <= x /\ x < b + d + w
                      /\ check => x \in 0 .. n - 1
    BY <1>1, <2>3 DEF Covered, Run
  <2> QED BY <2>1, <2>2, <2>3, <2>4 DEF d
<1> HIDE DEF X
<1>4. ASSUME NEW l \in 0 .. k - 1, NEW m \in 0 .. k - 1, NEW x, x \in X(l), x \in X(m)
      PROVE  l = m
  <2> DEFINE p == w * l
             q == w * m
             r == x - b - p
             s == x - b - q
  <2>1. /\ p \in Nat /\ q \in Nat /\ x \in Int /\ b + p <= x /\ x < b + p + w
        /\ b + q <= x /\ x < b + q + w
    BY <1>3, <1>4
  <2> HIDE DEF p, q
  <2>2. r \in 0 .. w - 1 /\ s \in 0 .. w - 1 /\ p + r = q + s
    BY <1>1, <2>1
  <2> HIDE DEF r, s
  <2>3. w * l + r = w * m + s
    BY <2>2 DEF p, q
  <2> QED BY <2>2, <2>3, OneQuotient
<1>5. ASSUME NEW x, x \in Run(b, z)
      PROVE  \E m \in 0 .. k - 1 : x \in X(m)
  <2> DEFINE d == x - b
             m == d \div w
             r == d % w
  <2>1. x \in Int /\ d \in Nat /\ d < z /\ x = b + d
    BY <1>1, <1>5 DEF Run
  <2> HIDE DEF d
  <2>2. m \in Nat /\ r \in 0 .. w - 1 /\ d = w * m + r
    BY <2>1, QuotientFacts
  <2> HIDE DEF m, r
  <2>3. m < k
    <3>1. w * m \in Nat
      BY <2>2, ProductIsNat
    <3>2. w * m < w * k
      BY <1>1, <2>1, <2>2, <3>1
    <3> QED BY <2>2, <3>2, Scaled
  <2>4. m \in 0 .. k - 1
    BY <2>2, <2>3
  <2>5. check => x \in 0 .. n - 1
    BY <1>1, <1>2, <2>1
  <2>6. x \in X(m)
    <3> DEFINE p == w * m
    <3>1. p \in Nat /\ d = p + r
      BY <1>3, <2>2, <2>4
    <3> HIDE DEF p
    <3>2. b + p <= x /\ x < b + p + w
      BY <1>1, <2>1, <2>2, <3>1
    <3> QED BY <1>3, <2>1, <2>4, <2>5, <3>2 DEF p
  <2> QED BY <2>4, <2>6
<1>6. ASSUME NEW m \in 0 .. k - 1, NEW x, x \in X(m)
      PROVE  x \in Run(b, z)
  <2> DEFINE p == w * m
             e == w * k
  <2>1. /\ p \in Nat /\ p + w <= e /\ x \in Int /\ b + p <= x /\ x < b + p + w
        /\ check => x \in 0 .. n - 1
    BY <1>3, <1>6
  <2>2. e \in Nat /\ (~check => z = e)
    BY <1>1, <1>2
  <2> HIDE DEF p, e
  <2>3. b <= x
    BY <1>1, <2>1
  <2>4. x < b + z
    BY <1>1, <1>2, <2>1, <2>2
  <2> QED BY <1>1, <2>1, <2>3, <2>4 DEF Run
<1>7. \A m \in 0 .. k - 1 : X(m) \in SUBSET Int
  BY <1>3
<1>8. Y = [m \in 0 .. k - 1 |-> X(m)]
  BY DEF AreBlocks, X, b
<1> QED BY <1>4, <1>5, <1>6, <1>7, <1>8 DEF MakeUp, b, z

(* Three nested loops: I, J and K are where each of them is.               *)
ThreeMeans(N, s, t, u, I, J, K) ==
    /\ \A n \in DOMAIN N :
           /\ I[n] \in DOMAIN s /\ J[n] \in DOMAIN t /\ K[n] \in DOMAIN u
           /\ N[n] = <<s[I[n]], <<t[J[n]], u[K[n]]>>>>
    /\ \A i \in DOMAIN s, j \in DOMAIN t, k \in DOMAIN u :
           \E n \in DOMAIN N : I[n] = i /\ J[n] = j /\ K[n] = k
    /\ \A m, n \in DOMAIN N : I[m] = I[n] /\ J[m] = J[n] /\ K[m] = K[n] => m = n

LEMMA ThreeNested ==
    ASSUME NEW A, NEW B, NEW C, NEW s \in Seq(A), NEW t \in Seq(B), NEW u \in Seq(C)
    PROVE  \E I, J, K : ThreeMeans(Nested(s, Nested(t, u)), s, t, u, I, J, K)
<1> DEFINE M == Nested(t, u)
           N == Nested(s, M)
           I == [n \in DOMAIN N |-> Row(n, M)]
           L == [n \in DOMAIN N |-> Col(n, M)]
           J == [n \in DOMAIN N |-> Row(L[n], u)]
           K == [n \in DOMAIN N |-> Col(L[n], u)]
<1>1. /\ M \in Seq(B \X C)
      /\ \A n \in DOMAIN M :
             /\ Row(n, u) \in DOMAIN t /\ Col(n, u) \in DOMAIN u
             /\ M[n] = <<t[Row(n, u)], u[Col(n, u)]>>
      /\ \A i \in DOMAIN t, j \in DOMAIN u : \E n \in DOMAIN M : Row(n, u) = i /\ Col(n, u) = j
      /\ \A m, n \in DOMAIN M : Row(m, u) = Row(n, u) /\ Col(m, u) = Col(n, u) => m = n
  <2> HIDE DEF M
  <2>1. NestedMeans(M, t, u, B, C)
    BY NestedFacts DEF M
  <2> QED BY <2>1, Zenon DEF NestedMeans
<1> HIDE DEF M
<1>2. /\ \A n \in DOMAIN N :
             /\ Row(n, M) \in DOMAIN s /\ Col(n, M) \in DOMAIN M
             /\ N[n] = <<s[Row(n, M)], M[Col(n, M)]>>
      /\ \A i \in DOMAIN s, j \in DOMAIN M : \E n \in DOMAIN N : Row(n, M) = i /\ Col(n, M) = j
      /\ \A m, n \in DOMAIN N : Row(m, M) = Row(n, M) /\ Col(m, M) = Col(n, M) => m = n
  <2> DEFINE D == B \X C
  <2>1. M \in Seq(D)
    BY <1>1
  <2> HIDE DEF N, D
  <2>2. NestedMeans(N, s, M, A, D)
    BY <2>1, NestedFacts DEF N
  <2> QED BY <2>2, Zenon DEF NestedMeans
<1> HIDE DEF N
<1>3. \A n \in DOMAIN N : /\ I[n] = Row(n, M) /\ L[n] = Col(n, M)
                          /\ J[n] = Row(L[n], u) /\ K[n] = Col(L[n], u)
  OBVIOUS
<1> HIDE DEF I, J, K, L
<1>4. \A n \in DOMAIN N :
          /\ I[n] \in DOMAIN s /\ J[n] \in DOMAIN t /\ K[n] \in DOMAIN u
          /\ N[n] = <<s[I[n]], <<t[J[n]], u[K[n]]>>>>
  <2> TAKE n \in DOMAIN N
  <2>1. I[n] \in DOMAIN s /\ L[n] \in DOMAIN M /\ N[n] = <<s[I[n]], M[L[n]]>>
    BY <1>2, <1>3
  <2>2. J[n] \in DOMAIN t /\ K[n] \in DOMAIN u /\ M[L[n]] = <<t[J[n]], u[K[n]]>>
    BY <1>1, <1>3, <2>1
  <2> QED BY <2>1, <2>2
<1>5. ASSUME NEW i \in DOMAIN s, NEW j \in DOMAIN t, NEW k \in DOMAIN u
      PROVE  \E n \in DOMAIN N : I[n] = i /\ J[n] = j /\ K[n] = k
  <2>1. PICK l \in DOMAIN M : Row(l, u) = j /\ Col(l, u) = k
    BY <1>1
  <2>2. PICK n \in DOMAIN N : Row(n, M) = i /\ Col(n, M) = l
    BY <1>2
  <2> QED BY <1>3, <2>1, <2>2
<1>6. \A m, n \in DOMAIN N : I[m] = I[n] /\ J[m] = J[n] /\ K[m] = K[n] => m = n
  <2> SUFFICES ASSUME NEW m \in DOMAIN N, NEW n \in DOMAIN N, I[m] = I[n], J[m] = J[n], K[m] = K[n]
               PROVE  m = n
    OBVIOUS
  <2>1. L[m] \in DOMAIN M /\ L[n] \in DOMAIN M
    BY <1>2, <1>3
  <2>2. L[m] = L[n]
    BY <1>1, <1>3, <2>1
  <2> QED BY <1>2, <1>3, <2>2
<1>7. ThreeMeans(N, s, t, u, I, J, K)
  BY <1>4, <1>5, <1>6 DEF ThreeMeans
<1> QED BY <1>7 DEF N, M

(* A tile of as many boxes as there are blocks of K, columns Y and rows X. *)
Counted(n) == [i \in 1 .. n |-> i - 1]

BlockBoxes(s, a, b, Y, X) ==
    LET N == Nested(s, Nested(Counted(a), Counted(b)))
    IN  [i \in DOMAIN N |-> <<X[N[i][2][2]], Y[N[i][2][1]], N[i][1]>>]

LEMMA TileOfBlocks ==
    ASSUME Dim = 3, NEW s \in Seq(SUBSET Int),
           \A i, j \in DOMAIN s : \A x : x \in s[i] /\ x \in s[j] => i = j,
           NEW a \in Nat, NEW b \in Nat,
           NEW Y \in [0 .. a - 1 -> SUBSET Int], NEW X \in [0 .. b - 1 -> SUBSET Int],
           \A l, m \in 0 .. a - 1 : \A x : x \in Y[l] /\ x \in Y[m] => l = m,
           \A l, m \in 0 .. b - 1 : \A x : x \in X[l] /\ x \in X[m] => l = m,
           NEW z \in Seq(Nat), \A i \in 1 .. Len(z) : z[i] \in 1 .. Largest(i)
    PROVE  /\ Tile(BlockBoxes(s, a, b, Y, X), z) \in TileSet
           /\ \A p : <<Tile(BlockBoxes(s, a, b, Y, X), z), p>> \in Runs
                  <=> /\ p \in Points
                      /\ \E m \in 0 .. b - 1 : p[1] \in X[m]
                      /\ \E n \in 0 .. a - 1 : p[2] \in Y[n]
                      /\ \E i \in DOMAIN s : p[3] \in s[i]
<1> DEFINE t == Counted(a)
           u == Counted(b)
           N == Nested(s, Nested(t, u))
           bs == BlockBoxes(s, a, b, Y, X)
<1>1. t \in Seq(Int) /\ u \in Seq(Int) /\ DOMAIN t = 1 .. a /\ DOMAIN u = 1 .. b
      /\ (\A n \in 1 .. a : t[n] = n - 1) /\ \A m \in 1 .. b : u[m] = m - 1
  <2>1. ASSUME NEW k \in Nat
        PROVE  /\ Counted(k) \in Seq(Int) /\ DOMAIN Counted(k) = 1 .. k
               /\ \A n \in 1 .. k : Counted(k)[n] = n - 1
    <3> DEFINE v == Counted(k)
    <3>1. v = [n \in 1 .. k |-> n - 1]
      BY DEF Counted
    <3> HIDE DEF v
    <3>2. DOMAIN v = 1 .. k /\ \A n \in 1 .. k : v[n] = n - 1
      BY <3>1
    <3>3. v \in Seq(Int)
      BY <3>1
    <3> QED BY <3>2, <3>3 DEF v
  <2> QED BY <2>1
<1>16. bs = [i \in DOMAIN N |-> <<X[N[i][2][2]], Y[N[i][2][1]], N[i][1]>>]
  BY DEF BlockBoxes
<1> HIDE DEF t, u, bs
<1>2. N = Nested(s, Nested(t, u)) /\ N \in Seq((SUBSET Int) \X (Int \X Int))
  <2>1. N = Nested(s, Nested(t, u))
    OBVIOUS
  <2> HIDE DEF N
  <2> DEFINE A == SUBSET Int
             B == Int \X Int
             M == Nested(t, u)
  <2>2. M \in Seq(B)
    <3>1. NestedMeans(M, t, u, Int, Int)
      BY <1>1, NestedFacts
    <3> HIDE DEF M
    <3> QED BY <3>1 DEF NestedMeans
  <2> HIDE DEF A, B, M
  <2>3. s \in Seq(A) /\ N = Nested(s, M)
    BY <2>1 DEF A, M
  <2>4. NestedMeans(N, s, M, A, B)
    BY <2>2, <2>3, NestedFacts
  <2>5. N \in Seq(A \X B)
    BY <2>4 DEF NestedMeans
  <2> QED BY <2>1, <2>5 DEF A, B
<1> HIDE DEF N
<1>3. PICK I, J, K : ThreeMeans(N, s, t, u, I, J, K)
  <2> DEFINE A == SUBSET Int
  <2>1. s \in Seq(A) /\ t \in Seq(Int) /\ u \in Seq(Int)
    BY <1>1
  <2> HIDE DEF A
  <2>2. \E I, J, K : ThreeMeans(Nested(s, Nested(t, u)), s, t, u, I, J, K)
    BY <2>1, ThreeNested
  <2> QED BY <1>2, <2>2
<1>4. ASSUME NEW n \in DOMAIN N
      PROVE  /\ I[n] \in DOMAIN s /\ J[n] \in 1 .. a /\ K[n] \in 1 .. b
             /\ bs[n] = <<X[K[n] - 1], Y[J[n] - 1], s[I[n]]>>
  <2>1. /\ I[n] \in DOMAIN s /\ J[n] \in 1 .. a /\ K[n] \in 1 .. b
        /\ N[n] = <<s[I[n]], <<J[n] - 1, K[n] - 1>>>>
    <3>1. /\ I[n] \in DOMAIN s /\ J[n] \in DOMAIN t /\ K[n] \in DOMAIN u
          /\ N[n] = <<s[I[n]], <<t[J[n]], u[K[n]]>>>>
      BY <1>3 DEF ThreeMeans
    <3> QED BY <1>1, <3>1
  <2>2. N[n][1] = s[I[n]] /\ N[n][2][1] = J[n] - 1 /\ N[n][2][2] = K[n] - 1
    BY <2>1
  <2> QED BY <1>16, <2>1, <2>2
<1>5. /\ \A i \in DOMAIN s, j \in 1 .. a, k \in 1 .. b :
             \E n \in DOMAIN N : I[n] = i /\ J[n] = j /\ K[n] = k
      /\ \A m, n \in DOMAIN N : I[m] = I[n] /\ J[m] = J[n] /\ K[m] = K[n] => m = n
  <2>1. /\ \A i \in DOMAIN s, j \in DOMAIN t, k \in DOMAIN u :
               \E n \in DOMAIN N : I[n] = i /\ J[n] = j /\ K[n] = k
        /\ \A m, n \in DOMAIN N : I[m] = I[n] /\ J[m] = J[n] /\ K[m] = K[n] => m = n
    BY <1>3, Zenon DEF ThreeMeans
  <2>2. ASSUME NEW i \in DOMAIN s, NEW j \in 1 .. a, NEW k \in 1 .. b
        PROVE  \E n \in DOMAIN N : I[n] = i /\ J[n] = j /\ K[n] = k
    <3>1. j \in DOMAIN t /\ k \in DOMAIN u
      BY <1>1
    <3> QED BY <2>1, <3>1
  <2> QED BY <2>1, <2>2, Zenon
<1>17. \A n \in DOMAIN N : /\ I[n] \in DOMAIN s /\ J[n] \in Nat /\ K[n] \in Nat
                           /\ J[n] - 1 \in 0 .. a - 1 /\ K[n] - 1 \in 0 .. b - 1
  <2> TAKE n \in DOMAIN N
  <2> DEFINE j == J[n]
             k == K[n]
  <2>1. I[n] \in DOMAIN s /\ j \in 1 .. a /\ k \in 1 .. b
    BY <1>4
  <2> HIDE DEF j, k
  <2>2. j \in Nat /\ k \in Nat /\ j - 1 \in 0 .. a - 1 /\ k - 1 \in 0 .. b - 1
    BY <2>1
  <2> QED BY <2>1, <2>2 DEF j, k
<1>6. DOMAIN bs = DOMAIN N /\ Len(N) \in Nat /\ DOMAIN N = 1 .. Len(N) /\ bs = [n \in DOMAIN N |-> bs[n]]
  BY <1>2, <1>16, LenProperties
<1>7. \A i \in DOMAIN s : s[i] \in SUBSET Int
  BY LenProperties, ElementOfSeq
<1>8. ASSUME NEW n \in DOMAIN N
      PROVE  /\ bs[n] \in Boxes
             /\ \A p : p \in Box(bs[n]) <=> /\ p \in Points /\ p[1] \in X[K[n] - 1]
                                            /\ p[2] \in Y[J[n] - 1] /\ p[3] \in s[I[n]]
  <2> DEFINE x == X[K[n] - 1]
             y == Y[J[n] - 1]
             k == s[I[n]]
             c == bs[n]
  <2>1. x \in SUBSET Int /\ y \in SUBSET Int /\ k \in SUBSET Int /\ c = <<x, y, k>>
    <3>1. K[n] - 1 \in 0 .. b - 1 /\ J[n] - 1 \in 0 .. a - 1 /\ I[n] \in DOMAIN s
      BY <1>17
    <3> QED BY <1>4, <1>7, <3>1
  <2> HIDE DEF x, y, k, c
  <2>2. c \in Boxes /\ c[1] = x /\ c[2] = y /\ c[3] = k
    <3>1. c = [i \in 1 .. 3 |-> c[i]] /\ c[1] = x /\ c[2] = y /\ c[3] = k
      BY <2>1
    <3>2. \A i \in 1 .. 3 : c[i] \in SUBSET Int
      <4>1. \A i \in 1 .. 3 : i = 1 \/ i = 2 \/ i = 3
        OBVIOUS
      <4>2. c[1] \in SUBSET Int /\ c[2] \in SUBSET Int /\ c[3] \in SUBSET Int
        BY <2>1, <3>1
      <4> QED BY <4>1, <4>2, Zenon
    <3>3. c \in [1 .. 3 -> SUBSET Int]
      BY <3>1, <3>2
    <3> QED BY <3>1, <3>3 DEF Boxes
  <2>3. \A p : p \in Box(c) <=> p \in Points /\ p[1] \in x /\ p[2] \in y /\ p[3] \in k
    <3>1. \A p : p \in Box(c) <=> p \in Points /\ \A i \in 1 .. Dim : p[i] \in c[i]
      BY <2>2, BoxMeans
    <3>2. \A p : (\A i \in 1 .. Dim : p[i] \in c[i]) <=> p[1] \in c[1] /\ p[2] \in c[2] /\ p[3] \in c[3]
      OBVIOUS
    <3> QED BY <2>2, <3>1, <3>2
  <2> QED BY <2>2, <2>3 DEF x, y, k, c
<1>9. bs \in Seq(Boxes)
  BY <1>6, <1>8, SeqDef
<1> DEFINE T == Tile(bs, z)
<1>10. T.boxes = bs /\ T.size = z /\ T \in [boxes : Seq(Boxes), size : Seq(Nat)]
  BY <1>9 DEF Tile
<1> HIDE DEF T
<1>11. BoxesApart(T)
  <2> SUFFICES ASSUME NEW m \in DOMAIN N, NEW n \in DOMAIN N, NEW p, p \in Box(bs[m]), p \in Box(bs[n])
               PROVE  m = n
    BY <1>6, <1>10 DEF BoxesApart
  <2>1. /\ I[m] \in DOMAIN s /\ J[m] - 1 \in 0 .. a - 1 /\ K[m] - 1 \in 0 .. b - 1
        /\ I[n] \in DOMAIN s /\ J[n] - 1 \in 0 .. a - 1 /\ K[n] - 1 \in 0 .. b - 1
        /\ J[m] \in Nat /\ K[m] \in Nat /\ J[n] \in Nat /\ K[n] \in Nat
    BY <1>17, Zenon
  <2>2. /\ p[1] \in X[K[m] - 1] /\ p[1] \in X[K[n] - 1]
        /\ p[2] \in Y[J[m] - 1] /\ p[2] \in Y[J[n] - 1]
        /\ p[3] \in s[I[m]] /\ p[3] \in s[I[n]]
    BY <1>8
  <2>3. K[m] - 1 = K[n] - 1 /\ J[m] - 1 = J[n] - 1 /\ I[m] = I[n]
    BY <2>1, <2>2, Zenon
  <2>4. K[m] = K[n] /\ J[m] = J[n]
    <3>1. \A k, l \in Nat : k - 1 = l - 1 => k = l
      OBVIOUS
    <3> QED BY <2>1, <2>3, <3>1, Zenon
  <2>5. I[m] = I[n]
    BY <2>3
  <2> QED BY <1>5, <2>4, <2>5, Zenon
<1>12. T \in TileSet
  BY <1>10, <1>11 DEF TileSet
<1>13. ASSUME NEW p
       PROVE  <<T, p>> \in Runs <=> p \in Points /\ \E n \in DOMAIN N : p \in Box(bs[n])
  BY <1>6, <1>10, <1>12 DEF Runs
<1>14. ASSUME NEW p \in Points, NEW m \in 0 .. b - 1, NEW n \in 0 .. a - 1, NEW i \in DOMAIN s,
              p[1] \in X[m], p[2] \in Y[n], p[3] \in s[i]
       PROVE  \E l \in DOMAIN N : p \in Box(bs[l])
  <2> DEFINE row == m + 1
             col == n + 1
  <2>1. row \in 1 .. b /\ col \in 1 .. a /\ row - 1 = m /\ col - 1 = n
    OBVIOUS
  <2> HIDE DEF row, col
  <2>2. PICK l \in DOMAIN N : I[l] = i /\ J[l] = col /\ K[l] = row
    <3>1. \A y \in 1 .. a, x \in 1 .. b :
              \E l \in DOMAIN N : I[l] = i /\ J[l] = y /\ K[l] = x
      BY <1>5
    <3>2. col \in 1 .. a /\ row \in 1 .. b
      BY <2>1
    <3> QED BY <3>1, <3>2, ZenonT(60)
  <2>3. K[l] - 1 = m /\ J[l] - 1 = n
    BY <2>1, <2>2
  <2>4. p[1] \in X[K[l] - 1] /\ p[2] \in Y[J[l] - 1] /\ p[3] \in s[I[l]]
    BY <1>14, <2>2, <2>3, Zenon
  <2> QED BY <1>8, <2>4, Zenon
<1>15. ASSUME NEW n \in DOMAIN N, NEW p \in Box(bs[n])
       PROVE  /\ \E m \in 0 .. b - 1 : p[1] \in X[m]
              /\ \E l \in 0 .. a - 1 : p[2] \in Y[l]
              /\ \E i \in DOMAIN s : p[3] \in s[i]
  <2>1. I[n] \in DOMAIN s /\ J[n] - 1 \in 0 .. a - 1 /\ K[n] - 1 \in 0 .. b - 1
    BY <1>17, Zenon
  <2> QED BY <1>8, <2>1
<1>18. ASSUME NEW p
       PROVE  <<T, p>> \in Runs
                  <=> /\ p \in Points
                      /\ \E m \in 0 .. b - 1 : p[1] \in X[m]
                      /\ \E n \in 0 .. a - 1 : p[2] \in Y[n]
                      /\ \E i \in DOMAIN s : p[3] \in s[i]
  <2>1. <<T, p>> \in Runs <=> p \in Points /\ \E n \in DOMAIN N : p \in Box(bs[n])
    BY <1>13
  <2> QED BY <1>14, <1>15, <2>1, Zenon
<1> QED BY <1>12, <1>18, Zenon DEF T, bs

(* The remainder of tile_loop_by_sgs ends with the range.                  *)
EdgeCalls(trip, sgs) ==
    {c \in LaneCalls(sgs) : c.rem => c.block \in Nat /\ c.block + c.size = trip}

LEMMA EdgeParts ==
    ASSUME NEW trip \in Nat, NEW sgs \in Nat \ {0}, NEW tiles \in Nat \ {0}
    PROVE  Parts([g \in Below(tiles) |-> TileBySgs(trip, sgs, tiles, g)], Below(tiles),
                 EdgeCalls(trip, sgs), Holds, Below(trip))
<1> DEFINE G == Below(tiles)
           F == [g \in G |-> TileBySgs(trip, sgs, tiles, g)]
           C == LaneCalls(sgs)
           E == EdgeCalls(trip, sgs)
           S == Below(trip)
           q == CDiv(trip, sgs)
           r == CRem(trip, sgs)
<1>1. Parts(F, G, C, Holds, S)
  BY BySgsParts
<1>2. q * sgs \in Nat /\ q * sgs + r = trip /\ r \in Nat /\ q \in Nat
  <2> DEFINE d == trip \div sgs
             m == trip % sgs
  <2>1. q = d /\ r = m /\ d \in Nat /\ m \in 0 .. sgs - 1 /\ trip = sgs * d + m
    BY QuotientFacts
  <2> HIDE DEF q, r, d, m
  <2>2. sgs * d \in Nat /\ q * sgs = sgs * d
    BY <2>1, ProductIsNat
  <2> QED BY <2>1, <2>2
<1>3. ASSUME NEW g \in G, NEW i \in DOMAIN F[g], F[g][i].rem
      PROVE  F[g][i].block \in Nat /\ F[g][i].block + F[g][i].size = trip
  <2> DEFINE starts == IF q > 0 THEN Iterate(sgs * g, sgs * q, sgs * tiles) ELSE <<>>
             D == [block : Int, size : Int, rem : BOOLEAN]
             s == [j \in DOMAIN starts |-> Call(starts[j], sgs, FALSE)]
             last == Call(q * sgs, r, TRUE)
             t == IF r > 0 /\ g = tiles - 1 THEN <<last>> ELSE <<>>
  <2>1. F[g] = s \o t
    BY DEF TileBySgs
  <2>2. starts \in Seq(Int)
    <3> DEFINE a == sgs * g
               b == sgs * q
               c == sgs * tiles
    <3>1. a \in Int /\ b \in Int /\ c \in Nat \ {0}
      <4>1. g \in Nat
        BY DEF Below
      <4>2. c \in Nat \ {0} /\ a \in Int
        BY <4>1, Scaled
      <4> HIDE DEF q
      <4>3. b \in Int
        BY <1>2, Scaled
      <4> QED BY <4>2, <4>3
    <3> HIDE DEF a, b, c
    <3>2. Iterate(a, b, c) \in Seq(Int)
      BY <3>1, IterateFacts DEF Values
    <3> HIDE DEF q
    <3> QED BY <3>2 DEF a, b, c
  <2>3. Len(starts) \in Nat /\ DOMAIN starts = 1 .. Len(starts) /\ \A j \in DOMAIN starts : starts[j] \in Int
    <3> HIDE DEF starts
    <3>1. Len(starts) \in Nat /\ DOMAIN starts = 1 .. Len(starts)
      BY <2>2, LenProperties
    <3> QED BY <2>2, <3>1, ElementOfSeq
  <2> HIDE DEF F, starts, q, r
  <2>4. \A j \in DOMAIN starts : s[j] \in D /\ ~s[j].rem
    BY <2>3 DEF Call
  <2>5. DOMAIN s = DOMAIN starts /\ s = [j \in 1 .. Len(starts) |-> s[j]]
    BY <2>3
  <2>6. last \in D /\ last.block = q * sgs /\ last.size = r
    BY <1>2 DEF Call
  <2> HIDE DEF s, last, D
  <2>7. s \in Seq(D)
    BY <2>3, <2>4, <2>5, SeqDef
  <2>8. t \in Seq(D) /\ \A j \in DOMAIN t : t[j] = last
    BY <2>6
  <2> HIDE DEF t
  <2>9. \/ i \in DOMAIN s /\ F[g][i] = s[i]
        \/ i - Len(s) \in DOMAIN t /\ F[g][i] = t[i - Len(s)]
    <3> DEFINE u == F[g]
    <3>1. u = s \o t /\ i \in DOMAIN u
      BY <2>1
    <3> HIDE DEF u
    <3>2. \/ i \in DOMAIN s /\ u[i] = s[i]
          \/ i - Len(s) \in DOMAIN t /\ u[i] = t[i - Len(s)]
      BY <2>7, <2>8, <3>1, Concatenation
    <3> QED BY <3>2 DEF u
  <2>10. F[g][i] = last
    BY <1>3, <2>4, <2>5, <2>8, <2>9
  <2> QED BY <1>2, <2>6, <2>10
<1> HIDE DEF F, q, r
<1>4. ASSUME NEW g \in G
      PROVE  F[g] \in Seq(E)
  <2> DEFINE s == F[g]
  <2>1. s \in Seq(C)
    <3> HIDE DEF C
    <3> QED BY <1>1 DEF Parts
  <2> HIDE DEF s, C
  <2>2. Len(s) \in Nat /\ DOMAIN s = 1 .. Len(s) /\ s = [i \in 1 .. Len(s) |-> s[i]]
        /\ \A i \in DOMAIN s : s[i] \in C
    BY <2>1, LenProperties, ElementOfSeq
  <2>3. \A i \in DOMAIN s : s[i] \in E
    BY <1>3, <2>2 DEF s, C, EdgeCalls
  <2> HIDE DEF E
  <2>4. s \in Seq(E)
    BY <2>2, <2>3, SeqDef
  <2> QED BY <2>4 DEF s
<1> HIDE DEF C, E, S, G
<1>5. F \in [G -> Seq(E)]
  BY <1>1, <1>4 DEF Parts
<1>6. Parts(F, G, E, Holds, S)
  BY <1>1, <1>5 DEF Parts
<1> QED BY <1>6 DEF F, G, E, S

(* The indices the microkernel counts its blocks with.                     *)
LEMMA CountedNested ==
    ASSUME NEW A, NEW s \in Seq(A), NEW a \in Nat, NEW b \in Nat
    PROVE  LET N == Nested(s, Nested(Counted(a), Counted(b)))
           IN  \A i \in DOMAIN N : N[i][2][1] \in 0 .. a - 1 /\ N[i][2][2] \in 0 .. b - 1
<1> DEFINE B == 0 .. a - 1
           C == 0 .. b - 1
           D == B \X C
           t == Counted(a)
           u == Counted(b)
           M == Nested(t, u)
           N == Nested(s, M)
<1>1. t \in Seq(B) /\ u \in Seq(C)
  <2>1. ASSUME NEW k \in Nat
        PROVE  Counted(k) \in Seq(0 .. k - 1)
    <3> DEFINE v == Counted(k)
    <3>1. v = [n \in 1 .. k |-> n - 1]
      BY DEF Counted
    <3> HIDE DEF v
    <3>2. v \in Seq(0 .. k - 1)
      BY <3>1
    <3> QED BY <3>2 DEF v
  <2> QED BY <2>1
<1> HIDE DEF t, u, B, C
<1>2. M \in Seq(D)
  <2>1. NestedMeans(M, t, u, B, C)
    BY <1>1, NestedFacts
  <2> HIDE DEF M
  <2> QED BY <2>1 DEF NestedMeans
<1> HIDE DEF M, D
<1>3. N \in Seq(A \X D)
  <2>1. NestedMeans(N, s, M, A, D)
    BY <1>2, NestedFacts
  <2> HIDE DEF N
  <2> QED BY <2>1 DEF NestedMeans
<1> HIDE DEF N
<1>4. \A i \in DOMAIN N : N[i] \in A \X D
  BY <1>3, LenProperties, ElementOfSeq
<1>5. \A i \in DOMAIN N : N[i][2] \in D
  BY <1>4
<1>6. \A i \in DOMAIN N : N[i][2][1] \in B /\ N[i][2][2] \in C
  BY <1>5 DEF D
<1> QED BY <1>6 DEF N, M, t, u, B, C

(* What the tile loops around the microkernel call it with.                *)
RowCalls == EdgeCalls(Size(1), BlockSize[1] * NumBlocks(1))
ColCalls == IF DoTileUniformly THEN Calls(BlockSize[2] * NumBlocks(2))
            ELSE EdgeCalls(Size(2), BlockSize[2] * NumBlocks(2))
Width(c) == IF DoTileUniformly THEN c.size ELSE BlockSize[2]

LEMMA MicrokernelRuns ==
    ASSUME nest \in Nests, nest.op = "gemm", NEW c0 \in RowCalls, NEW c1 \in ColCalls
    PROVE  /\ Microkernel(c0, c1, Width(c1)) \in TileSet
           /\ \A p : <<Microkernel(c0, c1, Width(c1)), p>> \in Runs
                  <=> /\ p \in Points
                      /\ p[1] \in Run(c0.block, c0.size)
                      /\ p[2] \in Run(c1.block, c1.size)
                      /\ p[3] \in Mode(3)
<1> DEFINE w == Width(c1)
           v == BlockSize[1]
           a == NumBlocks(2)
           b == NumBlocks(1)
           check == c1.rem /\ ~DoTileUniformly
           X == [m \in 0 .. b - 1 |-> Covered(1, c0.block + m * v, v, c0.rem)]
           Y == [n \in 0 .. a - 1 |-> Covered(2, c1.block + n * w, w, check)]
           z == <<v * b, w * a>>
           bs == BlockBoxes(KBlocks, a, b, Y, X)
           T == Microkernel(c0, c1, w)
<1>1. /\ v \in Nat \ {0} /\ a \in Nat \ {0} /\ b \in Nat \ {0} /\ v * b \in Nat \ {0} /\ Dim = 3
      /\ Size(1) \in Nat /\ Size(2) \in Nat /\ Mode(1) = 0 .. Size(1) - 1 /\ Mode(2) = 0 .. Size(2) - 1
  <2>1. v \in Nat \ {0} /\ a \in Nat \ {0} /\ b \in Nat \ {0}
    BY BlockFacts
  <2> HIDE DEF v, a, b
  <2>2. v * b \in Nat \ {0}
    BY <2>1, Scaled
  <2> QED BY <2>1, <2>2, GemmFacts
<1>2. /\ c0 \in Calls(v * b) /\ c0.rem \in BOOLEAN /\ (~c0.rem => c0.size = v * b)
      /\ c0.rem => c0.block \in Nat /\ c0.block + c0.size = Size(1)
  BY DEF RowCalls, EdgeCalls, LaneCalls, Calls
<1>3. /\ w \in Nat \ {0} /\ c1 \in Calls(w * a) /\ check \in BOOLEAN /\ (~check => c1.size = w * a)
      /\ check => c1.block \in Nat /\ c1.block + c1.size = Size(2)
      /\ w * a \in Nat \ {0} /\ w * a <= BlockSize[2] * a
  <2> DEFINE y == BlockSize[2]
  <2>1. y \in Nat \ {0} /\ y * a \in Nat \ {0} /\ (DoTileUniformly => a = 1)
    <3>1. y \in Nat \ {0} /\ (DoTileUniformly => a = 1)
      BY BlockFacts
    <3> HIDE DEF y, a
    <3> QED BY <1>1, <3>1, Scaled
  <2>2. CASE DoTileUniformly
    <3>1. c1 \in Calls(y * a) /\ w = c1.size /\ check = FALSE
      BY <2>2 DEF ColCalls, Width
    <3> HIDE DEF a, w, y, check
    <3>2. a = 1 /\ y * a = y /\ w * a = w
      <4>1. a = 1
        BY <2>1, <2>2
      <4>2. w \in Nat
        BY <3>1 DEF Calls
      <4> QED BY <2>1, <4>1, <4>2
    <3>3. c1.size \in 1 .. y /\ c1.block \in Int /\ c1.rem \in BOOLEAN /\ c1 = [block |-> c1.block, size |-> c1.size, rem |-> c1.rem]
      BY <3>1, <3>2 DEF Calls
    <3>4. w \in Nat \ {0} /\ w <= y
      BY <2>1, <3>1, <3>3
    <3>5. c1.size \in 1 .. w
      BY <3>1, <3>4
    <3>6. c1 \in Calls(w)
      BY <3>3, <3>5 DEF Calls
    <3> QED BY <3>1, <3>2, <3>4, <3>6 DEF y
  <2>3. CASE ~DoTileUniformly
    <3>1. c1 \in EdgeCalls(Size(2), y * a) /\ w = y /\ check = c1.rem
      BY <2>3 DEF ColCalls, Width, EdgeCalls, LaneCalls, Calls
    <3> HIDE DEF a, w, y, check
    <3>2. /\ c1 \in Calls(y * a) /\ c1.rem \in BOOLEAN /\ (~c1.rem => c1.size = y * a)
          /\ c1.rem => c1.block \in Nat /\ c1.block + c1.size = Size(2)
      BY <3>1 DEF EdgeCalls, LaneCalls, Calls
    <3> QED BY <2>1, <3>1, <3>2 DEF y
  <2> QED BY <2>2, <2>3
<1>4. /\ KBlocks \in Seq(SUBSET Int)
      /\ \A i, j \in DOMAIN KBlocks : \A x : x \in KBlocks[i] /\ x \in KBlocks[j] => i = j
      /\ \A x : (\E i \in DOMAIN KBlocks : x \in KBlocks[i]) <=> x \in Mode(3)
  BY KBlocksMean
<1>5. T = Tile(bs, z)
  <2> DEFINE N == Nested(KBlocks, Nested(Counted(a), Counted(b)))
             block(k, n, m) == <<Covered(1, c0.block + m * v, v, c0.rem),
                                 Covered(2, c1.block + n * w, w, check), k>>
  <2>1. T = Tile([i \in DOMAIN N |-> block(N[i][1], N[i][2][1], N[i][2][2])], z)
    BY DEF Microkernel, Counted
  <2>2. bs = [i \in DOMAIN N |-> <<X[N[i][2][2]], Y[N[i][2][1]], N[i][1]>>]
    BY DEF BlockBoxes
  <2>3. \A i \in DOMAIN N : N[i][2][1] \in 0 .. a - 1 /\ N[i][2][2] \in 0 .. b - 1
    <3> HIDE DEF a, b
    <3> QED BY <1>1, <1>4, CountedNested
  <2>4. \A n \in 0 .. a - 1, m \in 0 .. b - 1 : \A k : block(k, n, m) = <<X[m], Y[n], k>>
    OBVIOUS
  <2> HIDE DEF N, block, X, Y, T, bs, z, a, b
  <2>5. \A i \in DOMAIN N : block(N[i][1], N[i][2][1], N[i][2][2]) = <<X[N[i][2][2]], Y[N[i][2][1]], N[i][1]>>
    BY <2>3, <2>4
  <2> QED BY <2>1, <2>2, <2>5
<1>6. z \in Seq(Nat) /\ \A i \in 1 .. Len(z) : z[i] \in 1 .. Largest(i)
  <2>1. Largest(1) = v * b /\ Largest(2) = BlockSize[2] * a
    BY DEF Largest
  <2>2. z \in Seq(Nat) /\ Len(z) = 2 /\ z[1] = v * b /\ z[2] = w * a
    <3> DEFINE k == v * b
               l == w * a
    <3>1. k \in Nat /\ l \in Nat
      BY <1>1, <1>3
    <3> HIDE DEF k, l
    <3>2. <<k, l>> \in Seq(Nat) /\ Len(<<k, l>>) = 2 /\ <<k, l>>[1] = k /\ <<k, l>>[2] = l
      BY <3>1
    <3> QED BY <3>2 DEF k, l
  <2> HIDE DEF z
  <2>3. v * b \in 1 .. Largest(1)
    BY <1>1, <2>1
  <2>4. w * a \in 1 .. Largest(2)
    <3> DEFINE x == BlockSize[2] * a
               y == w * a
    <3>1. x \in Int /\ y \in Nat \ {0} /\ y <= x
      <4>1. BlockSize[2] \in Nat \ {0}
        BY BlockFacts
      <4>2. x \in Int
        <5> HIDE DEF a
        <5> QED BY <1>1, <4>1, Scaled
      <4> QED BY <1>3, <4>2
    <3> HIDE DEF x, y
    <3>2. y \in 1 .. x
      BY <3>1
    <3> QED BY <2>1, <3>2 DEF x, y
  <2>5. \A i \in 1 .. 2 : i = 1 \/ i = 2
    OBVIOUS
  <2> QED BY <2>2, <2>3, <2>4, <2>5
<1> HIDE DEF v, a, b, w, check, z, bs, T
<1>7. MakeUp(X, c0, b)
  <2> DEFINE n == Size(1)
             k == c0.rem
             i == 1
  <2>1. AreBlocks(X, i, c0, v, b, k)
    BY DEF AreBlocks
  <2>2. n \in Nat /\ Mode(i) = 0 .. n - 1 /\ k \in BOOLEAN /\ (~k => c0.size = v * b)
        /\ (k => c0.block \in Nat /\ c0.block + c0.size = n)
    BY <1>1, <1>2
  <2> HIDE DEF X, Y, n, k, i
  <2> QED BY <1>1, <1>2, <2>1, <2>2, ModeBlocks
<1>8. MakeUp(Y, c1, a)
  <2> DEFINE n == Size(2)
             k == check
             i == 2
  <2>1. AreBlocks(Y, i, c1, w, a, k)
    BY DEF AreBlocks
  <2>2. n \in Nat /\ Mode(i) = 0 .. n - 1 /\ k \in BOOLEAN /\ (~k => c1.size = w * a)
        /\ (k => c1.block \in Nat /\ c1.block + c1.size = n)
    BY <1>1, <1>3
  <2> HIDE DEF X, Y, n, k, i
  <2> QED BY <1>1, <1>3, <2>1, <2>2, ModeBlocks
<1> HIDE DEF X, Y
<1>9. /\ Tile(bs, z) \in TileSet
      /\ \A p : <<Tile(bs, z), p>> \in Runs
             <=> /\ p \in Points
                 /\ \E m \in 0 .. b - 1 : p[1] \in X[m]
                 /\ \E n \in 0 .. a - 1 : p[2] \in Y[n]
                 /\ \E i \in DOMAIN KBlocks : p[3] \in KBlocks[i]
  <2> DEFINE k == KBlocks
  <2>1. /\ k \in Seq(SUBSET Int)
        /\ \A i, j \in DOMAIN k : \A x : x \in k[i] /\ x \in k[j] => i = j
        /\ bs = BlockBoxes(k, a, b, Y, X) /\ a \in Nat /\ b \in Nat
    BY <1>1, <1>4 DEF bs
  <2> HIDE DEF k
  <2>2. /\ Tile(BlockBoxes(k, a, b, Y, X), z) \in TileSet
        /\ \A p : <<Tile(BlockBoxes(k, a, b, Y, X), z), p>> \in Runs
               <=> /\ p \in Points
                   /\ \E m \in 0 .. b - 1 : p[1] \in X[m]
                   /\ \E n \in 0 .. a - 1 : p[2] \in Y[n]
                   /\ \E i \in DOMAIN k : p[3] \in k[i]
    BY <1>1, <1>6, <1>7, <1>8, <2>1, TileOfBlocks DEF MakeUp
  <2> QED BY <2>1, <2>2 DEF k
<1>10. T \in TileSet /\ \A p : <<T, p>> \in Runs
                           <=> /\ p \in Points
                               /\ p[1] \in Run(c0.block, c0.size)
                               /\ p[2] \in Run(c1.block, c1.size)
                               /\ p[3] \in Mode(3)
  BY <1>4, <1>5, <1>7, <1>8, <1>9 DEF MakeUp
<1> QED BY <1>10 DEF T, w

(* The tiles of a gemm.                                                    *)
LEMMA GemmTilesAre ==
    ASSUME nest \in Nests, nest.op = "gemm",
           DoTileUniformly => /\ NumBlocks(1) = 1
                              /\ UniformBlocks(Size(2), BlockSize[2] * NumBlocks(2), nest.tiles[2]) # 0
    PROVE  Parts([g \in Subgroup |-> GemmTiles(g)], Subgroup, TileSet, Runs, Space)
<1> DEFINE tx == nest.tiles[1]
           ty == nest.tiles[2]
           rows == BlockSize[1] * NumBlocks(1)
           cols == BlockSize[2] * NumBlocks(2)
           G == Subgroup
           SA == Below(Size(2))
           SB == Below(Size(1))
           A == Within(ColCalls, Holds, SA)
           B == Within(RowCalls, Holds, SB)
           FA == [g \in Below(ty) |-> IF DoTileUniformly THEN TileUniformly(Size(2), cols, ty, g)
                                      ELSE TileBySgs(Size(2), cols, ty, g)]
           FB == [g \in Below(tx) |-> TileBySgs(Size(1), rows, tx, g)]
           a == [g \in G |-> SgY(g)]
           b == [g \in G |-> SgX(g)]
           bodies == NestedBy(FA, FB, a, b, G)
           C == A \X B
           S == SA \X SB
           H == Paired(A, B, Holds, Holds, SA, SB)
           tile(c) == Microkernel(c[2], c[1], Width(c[1]))
           F == [g \in G |-> GemmTiles(g)]
           P == [p \in Space |-> <<p[2], p[1]>>]
<1>1. /\ tx \in Nat \ {0} /\ ty \in Nat \ {0} /\ rows \in Nat \ {0} /\ cols \in Nat \ {0}
      /\ Size(1) \in Nat /\ Size(2) \in Nat /\ Dim = 3
      /\ Mode(1) = SB /\ Mode(2) = SA
  <2>1. tx \in Nat \ {0} /\ ty \in Nat \ {0}
    BY NestFacts
  <2>2. Size(1) \in Nat /\ Size(2) \in Nat /\ Dim = 3 /\ Mode(1) = SB /\ Mode(2) = SA
    BY GemmFacts DEF Below
  <2>3. \A k, l \in Nat \ {0} : k * l \in Nat \ {0}
    BY Scaled
  <2>4. rows \in Nat \ {0} /\ cols \in Nat \ {0}
    BY <2>3, BlockFacts
  <2> QED BY <2>1, <2>2, <2>4
<1>2. Parts(bodies, G, C, H, S)
  <2>1. Parts(FA, Below(ty), A, Holds, SA)
    <3> DEFINE n == Size(2)
    <3>1. CASE DoTileUniformly
      <4>1. FA = [g \in Below(ty) |-> TileUniformly(n, cols, ty, g)] /\ ColCalls = Calls(cols)
        BY <3>1 DEF ColCalls
      <4>2. UniformBlocks(n, cols, ty) # 0 /\ n \in Nat
        BY <1>1, <3>1
      <4> HIDE DEF FA, cols, ty, n
      <4>3. Parts(FA, Below(ty), ColCalls, Holds, Below(n))
        BY <1>1, <4>1, <4>2, UniformParts
      <4> QED BY <4>3, PartsWithin DEF n
    <3>2. CASE ~DoTileUniformly
      <4>1. FA = [g \in Below(ty) |-> TileBySgs(n, cols, ty, g)] /\ ColCalls = EdgeCalls(n, cols)
        BY <3>2 DEF ColCalls
      <4>2. n \in Nat
        BY <1>1
      <4> HIDE DEF FA, cols, ty, n
      <4>3. Parts(FA, Below(ty), ColCalls, Holds, Below(n))
        BY <1>1, <4>1, <4>2, EdgeParts
      <4> QED BY <4>3, PartsWithin DEF n
    <3> QED BY <3>1, <3>2
  <2>2. Parts(FB, Below(tx), B, Holds, SB)
    <3> DEFINE n == Size(1)
    <3>1. RowCalls = EdgeCalls(n, rows) /\ n \in Nat
      BY <1>1 DEF RowCalls
    <3> HIDE DEF rows, tx, n
    <3>2. Parts(FB, Below(tx), RowCalls, Holds, Below(n))
      BY <1>1, <3>1, EdgeParts DEF n
    <3> HIDE DEF FB
    <3> QED BY <3>2, PartsWithin DEF n
  <2>3. a \in [G -> Below(ty)] /\ b \in [G -> Below(tx)]
    BY SubgroupIds
  <2>4. /\ \A i \in Below(ty), j \in Below(tx) : \E g \in G : a[g] = i /\ b[g] = j
        /\ \A g, h \in G : a[g] = a[h] /\ b[g] = b[h] => g = h
    BY SubgroupIds
  <2> HIDE DEF FA, FB, G, A, B, SA, SB, a, b, tx, ty
  <2> DEFINE K == Below(ty)
             L == Below(tx)
  <2>5. /\ Parts(FA, K, A, Holds, SA) /\ Parts(FB, L, B, Holds, SB)
        /\ a \in [G -> K] /\ b \in [G -> L]
        /\ \A i \in K, j \in L : \E g \in G : a[g] = i /\ b[g] = j
        /\ \A g, h \in G : a[g] = a[h] /\ b[g] = b[h] => g = h
    BY <2>1, <2>2, <2>3, <2>4
  <2> HIDE DEF K, L
  <2> QED BY <2>5, PartsOfPairs
<1>3. ASSUME NEW g \in G
      PROVE  F[g] = [i \in DOMAIN bodies[g] |-> tile(bodies[g][i])]
  <2> DEFINE u == TileUniformly(Size(2), cols, ty, SgY(g))
             v == TileBySgs(Size(2), cols, ty, SgY(g))
             x == TileBySgs(Size(1), rows, tx, SgX(g))
             y == TileBySgs(Size(1), BlockSize[1], tx, SgX(g))
  <2>1. bodies[g] = Nested(IF DoTileUniformly THEN u ELSE v, x)
    BY SubgroupIds DEF NestedBy
  <2>2. DoTileUniformly => x = y
    <3>1. DoTileUniformly => rows = BlockSize[1]
      BY BlockFacts
    <3> HIDE DEF rows
    <3> QED BY <3>1
  <2>3. GemmTiles(g) =
            LET dealt == IF DoTileUniformly THEN Nested(u, y) ELSE Nested(v, x)
            IN  [i \in DOMAIN dealt |->
                    Microkernel(dealt[i][2], dealt[i][1],
                                IF DoTileUniformly THEN dealt[i][1].size ELSE BlockSize[2])]
    BY DEF GemmTiles
  <2> HIDE DEF u, v, x, y, bodies
  <2>4. bodies[g] = IF DoTileUniformly THEN Nested(u, y) ELSE Nested(v, x)
    BY <2>1, <2>2
  <2>5. GemmTiles(g) = [i \in DOMAIN bodies[g] |->
                           Microkernel(bodies[g][i][2], bodies[g][i][1],
                                IF DoTileUniformly THEN bodies[g][i][1].size ELSE BlockSize[2])]
    BY <2>3, <2>4
  <2> QED BY <2>5 DEF Width
<1>4. ASSUME NEW c \in C
      PROVE  /\ tile(c) \in TileSet
             /\ \A p : <<tile(c), p>> \in Runs
                         <=> /\ p \in Points /\ p[1] \in Run(c[2].block, c[2].size)
                             /\ p[2] \in Run(c[1].block, c[1].size)
                             /\ p[3] \in Mode(3)
  <2>1. c[1] \in ColCalls /\ c[2] \in RowCalls
    <3>1. A \subseteq ColCalls /\ B \subseteq RowCalls
      BY DEF Within
    <3>2. c[1] \in A /\ c[2] \in B
      <4> HIDE DEF A, B
      <4> QED OBVIOUS
    <3> QED BY <3>1, <3>2
  <2> DEFINE u == c[1]
             v == c[2]
  <2>2. u \in ColCalls /\ v \in RowCalls
    BY <2>1
  <2> HIDE DEF u, v, C
  <2>3. /\ Microkernel(v, u, Width(u)) \in TileSet
        /\ \A p : <<Microkernel(v, u, Width(u)), p>> \in Runs
                  <=> /\ p \in Points
                      /\ p[1] \in Run(v.block, v.size)
                      /\ p[2] \in Run(u.block, u.size)
                      /\ p[3] \in Mode(3)
    BY <2>2, MicrokernelRuns
  <2> QED BY <2>3 DEF u, v
<1>5. ASSUME NEW g \in G
      PROVE  /\ bodies[g] \in Seq(C) /\ DOMAIN F[g] = DOMAIN bodies[g] /\ F[g] \in Seq(TileSet)
             /\ \A i \in DOMAIN bodies[g] : bodies[g][i] \in C /\ F[g][i] = tile(bodies[g][i])
  <2>1. bodies[g] \in Seq(C)
    <3> HIDE DEF bodies, C, H, S
    <3> QED BY <1>2 DEF Parts
  <2> HIDE DEF bodies, F, tile, C
  <2> DEFINE k == Len(bodies[g])
  <2>2. k \in Nat /\ DOMAIN bodies[g] = 1 .. k /\ \A i \in 1 .. k : bodies[g][i] \in C
    BY <2>1, LenProperties, ElementOfSeq
  <2> HIDE DEF k
  <2>3. F[g] = [i \in 1 .. k |-> tile(bodies[g][i])]
    BY <1>3, <2>2
  <2>4. \A i \in 1 .. k : tile(bodies[g][i]) \in TileSet
    BY <1>4, <2>2
  <2>5. F[g] \in Seq(TileSet)
    BY <2>2, <2>3, <2>4, SeqDef
  <2> QED BY <2>1, <2>2, <2>3, <2>5
<1>6. \A p : p \in Space <=> p \in Points /\ p[1] \in SB /\ p[2] \in SA /\ p[3] \in Mode(3)
  <2> HIDE DEF SA, SB
  <2>1. \A p : p \in Space <=> p \in Points /\ \A i \in 1 .. 3 : p[i] \in Mode(i)
    BY <1>1, SpaceMeans
  <2>2. \A i \in 1 .. 3 : i = 1 \/ i = 2 \/ i = 3
    OBVIOUS
  <2> QED BY <1>1, <2>1, <2>2
<1>7. P \in [Space -> S]
  <2> HIDE DEF SA, SB
  <2> QED BY <1>6
<1>8. ASSUME NEW g \in G, NEW i \in DOMAIN bodies[g], NEW p
      PROVE  <<F[g][i], p>> \in Runs <=> p \in Space /\ <<bodies[g][i], P[p]>> \in H
  <2> DEFINE c == bodies[g][i]
             x == p[2]
             y == p[1]
  <2>1. c \in C /\ F[g][i] = tile(c)
    BY <1>5
  <2>2. PICK u \in A, v \in B : c = <<u, v>>
    <3> HIDE DEF c, A, B
    <3> QED BY <2>1
  <2>3. c[1] = u /\ c[2] = v
    <3> HIDE DEF c, x, y, tile, F, bodies, A, B, SA, SB
    <3> QED BY <2>2
  <2>4. \A k \in SA, l \in SB : <<c, <<k, l>>>> \in H <=> <<u, k>> \in Holds /\ <<v, l>> \in Holds
    <3> HIDE DEF A, B, SA, SB, c
    <3> QED BY <2>2 DEF Paired
  <2> HIDE DEF c, tile, F, bodies
  <2>5. <<F[g][i], p>> \in Runs
            <=> /\ p \in Points /\ y \in Run(v.block, v.size) /\ x \in Run(u.block, u.size)
                /\ p[3] \in Mode(3)
    BY <1>4, <2>1, <2>3
  <2>6. ASSUME p \in Points
        PROVE  /\ y \in Run(v.block, v.size) <=> <<v, y>> \in Holds
               /\ x \in Run(u.block, u.size) <=> <<u, x>> \in Holds
    <3>1. x \in Int /\ y \in Int
      BY <1>1, <2>6 DEF Points
    <3>2. u \in Calls(cols) /\ v \in Calls(rows)
      <4>1. u \in ColCalls /\ v \in RowCalls
        BY DEF Within
      <4> QED BY <4>1 DEF ColCalls, RowCalls, EdgeCalls, LaneCalls
    <3> HIDE DEF x, y, rows, cols
    <3>3. \A z \in Int : Run(0 + z, v.size) = Run(z, v.size) /\ Run(0 + z, u.size) = Run(z, u.size)
      OBVIOUS
    <3>4. v.block \in Int /\ u.block \in Int /\ x - 0 = x /\ y - 0 = y
      BY <3>1, <3>2 DEF Calls
    <3>5. \A k \in Nat : \A d \in Calls(k), z \in Int : z \in Run(0 + d.block, d.size) <=> <<d, z - 0>> \in Holds
      BY RunMeans
    <3> QED BY <1>1, <3>1, <3>2, <3>3, <3>4, <3>5
  <2>7. (<<u, x>> \in Holds => x \in SA) /\ (<<v, y>> \in Holds => y \in SB)
    BY DEF Within
  <2>8. p \in Space => P[p] = <<x, y>>
    OBVIOUS
  <2>9. p \in Space <=> p \in Points /\ y \in SB /\ x \in SA /\ p[3] \in Mode(3)
    BY <1>6
  <2> HIDE DEF x, y, A, B, SA, SB, P, H
  <2>10. ASSUME p \in Space
         PROVE  <<c, P[p]>> \in H <=> <<u, x>> \in Holds /\ <<v, y>> \in Holds
    BY <2>4, <2>8, <2>9, <2>10
  <2>11. <<F[g][i], p>> \in Runs <=> p \in Space /\ <<u, x>> \in Holds /\ <<v, y>> \in Holds
    BY <2>5, <2>6, <2>7, <2>9
  <2> QED BY <2>10, <2>11 DEF c
<1>9. F \in [G -> Seq(TileSet)]
  BY <1>5
<1>10. \A g \in G : DOMAIN F[g] = DOMAIN bodies[g]
  BY <1>5
<1> HIDE DEF F, G, C, S, H, bodies, P
<1>11. Parts(F, G, TileSet, Runs, Space)
  BY <1>2, <1>7, <1>8, <1>9, <1>10, PartsRenamed
<1> QED BY <1>11 DEF F, G

-----------------------------------------------------------------------------
(* All nests.                                                              *)

(* The first mode that a foreach distributes is the first one.             *)
LEMMA ModesOfForeach ==
    ASSUME nest \in Nests, UsesForeach
    PROVE  /\ nest.op \notin {"foreach_tile", "gemm"} /\ Dim > 0
           /\ \/ ForeachModes = <<1>>
              \/ /\ Len(ForeachModes) > 1 /\ Len(ForeachModes) # 1
                 /\ ForeachModes[1] = 1 /\ ForeachModes[2] \in 2 .. Dim
                 /\ nest.op = "foreach" => ForeachModes[2] = 2
<1> DEFINE m == ForeachModes
<1>1. Dim \in Nat /\ Dim > 0 /\ nest.op \notin {"foreach_tile", "gemm"}
  BY NestFacts DEF UsesForeach
<1>2. CASE nest.op \in {"foreach", "axpby", "ger", "hadamard"}
  <2>1. m = [i \in 1 .. Dim |-> i]
    BY <1>2 DEF ForeachModes
  <2> HIDE DEF m
  <2>2. CASE Dim = 1
    <3>1. m = <<1>>
      BY <2>1, <2>2
    <3> QED BY <1>1, <3>1 DEF m
  <2>3. CASE Dim > 1
    <3>1. m \in Seq(Nat) /\ Len(m) = Dim /\ m[1] = 1 /\ m[2] = 2
      BY <1>1, <2>1, <2>3
    <3> QED BY <1>1, <2>3, <3>1 DEF m
  <2> QED BY <1>1, <2>2, <2>3
<1>3. CASE nest.op \in {"gemv", "sum"}
  <2>1. m = <<1>>
    BY <1>3 DEF ForeachModes
  <2> QED BY <1>1, <2>1
<1>4. CASE nest.op = "cumsum"
  <2>1. m = [i \in 1 .. Dim - 1 |-> IF i <= nest.mode THEN i ELSE i + 1]
    BY <1>4 DEF ForeachModes
  <2>2. Dim > 1 /\ nest.mode \in 1 .. Dim - 1
    <3>1. WellFormed(nest)
      BY NestsAssumption
    <3>2. Dim > 1 /\ nest.mode \in 0 .. Dim - 1
      BY <1>4, <3>1 DEF WellFormed, Dim
    <3>3. nest.mode # 0
      BY <1>4 DEF UsesForeach
    <3> QED BY <1>1, <3>2, <3>3
  <2> HIDE DEF m
  <2>3. CASE Dim = 2
    <3>1. m = <<1>>
      BY <2>1, <2>2, <2>3
    <3> QED BY <1>1, <3>1 DEF m
  <2>4. CASE Dim > 2
    <3>1. \A i \in 1 .. Dim - 1 : m[i] \in Nat
      BY <1>1, <2>1, <2>2
    <3>2. Dim - 1 \in Nat /\ m = [i \in 1 .. Dim - 1 |-> m[i]]
      BY <1>1, <2>1, <2>4
    <3>3. m \in Seq(Nat)
      BY <3>1, <3>2, SeqDef
    <3>4. Len(m) = Dim - 1
      BY <3>2, <3>3
    <3>5. m[1] = 1 /\ m[2] \in 2 .. Dim
      BY <1>1, <2>1, <2>2, <2>4
    <3> QED BY <1>1, <1>4, <2>4, <3>4, <3>5 DEF m
  <2> QED BY <1>1, <2>2, <2>3, <2>4
<1> QED BY <1>2, <1>3, <1>4 DEF UsesForeach

(* The columns of an ordinary gemm are only distributed uniformly when its *)
(* rows are dealt out one block at a time.                                 *)
LEMMA OneBlockOfRows ==
    ASSUME nest \in Nests, Ordinary(nest), nest.op = "gemm", DoTileUniformly
    PROVE  NumBlocks(1) = 1
<1>1. ~nest.ext /\ nest.static[2]
  BY DEF DoTileUniformly
<1>2. BlockSize[1] = nest.sgs
  BY <1>1 DEF BlockSize
<1>3. NumBlocks(1) = ChooseBlockSizeMultiple(BlockSize[1], nest.max[1], nest.tiles[1],
                                             IF nest.static[1] THEN Size(1) ELSE nest.max[1])
  BY DEF NumBlocks
<1>4. ChooseBlockSizeMultiple(nest.sgs, nest.max[1], nest.tiles[1],
                              IF nest.static[1] THEN nest.to[1] - nest.from[1] ELSE nest.max[1]) = 1
  BY <1>1 DEF Ordinary
<1> QED BY <1>2, <1>3, <1>4 DEF Size

LEMMA TilesParts ==
    ASSUME nest \in Nests, Ordinary(nest), ~DividesByZero
    PROVE  Parts([g \in Subgroup |-> Tiles(g)], Subgroup, TileSet, Runs, Space)
<1> DEFINE F == [g \in Subgroup |-> Tiles(g)]
<1>1. WellFormed(nest) /\ Dim \in Nat
  BY NestsAssumption, NestFacts
<1>6. CASE nest.op = "gemm"
  <2>1. F = [g \in Subgroup |-> GemmTiles(g)]
    BY <1>6 DEF Tiles
  <2>2. DoTileUniformly => /\ NumBlocks(1) = 1
                           /\ UniformBlocks(Size(2), BlockSize[2] * NumBlocks(2), nest.tiles[2]) # 0
    BY <1>6, OneBlockOfRows DEF DividesByZero
  <2> HIDE DEF F
  <2> QED BY <1>6, <2>1, <2>2, GemmTilesAre DEF F
<1>2. CASE nest.op = "foreach_tile"
  <2>1. F = [g \in Subgroup |-> ForeachTileTiles(g)]
    BY <1>2 DEF Tiles
  <2>2. Dim > 0 /\ (Dim > 1 => nest.from[2] = 0)
    BY <1>1, <1>2 DEF WellFormed, Dim, Ordinary
  <2> HIDE DEF F
  <2>3. CASE Dim = 1
    BY <1>2, <2>1, <2>3, ForeachTileOfOne DEF F
  <2>4. CASE Dim > 1
    BY <1>2, <2>1, <2>2, <2>4, ForeachTileOfSeveral DEF F
  <2> QED BY <1>1, <2>2, <2>3, <2>4
<1>3. CASE nest.op = "axpby" /\ Dim = 0
  <2>1. F = [g \in Subgroup |-> ScalarTiles(g)]
    BY <1>3 DEF Tiles
  <2>2. nest.op # "foreach_tile" /\ Dim = 0
    BY <1>3
  <2> QED BY <2>1, <2>2, ScalarTilesAre
<1>4. CASE nest.op = "cumsum" /\ nest.mode = 0
  <2>1. F = [g \in Subgroup |-> ColumnTiles(g)]
    BY <1>4 DEF Tiles
  <2>2. Dim > 1
    BY <1>1, <1>4 DEF WellFormed, Dim
  <2> QED BY <1>4, <2>1, <2>2, ColumnTilesAre
<1>5. CASE /\ nest.op \notin {"foreach_tile", "gemm"} /\ ~(nest.op = "axpby" /\ Dim = 0)
           /\ ~(nest.op = "cumsum" /\ nest.mode = 0)
  <2>1. F = [g \in Subgroup |-> ForeachTiles(g, ForeachModes)]
    BY <1>1, <1>5 DEF Tiles
  <2>2. UsesForeach
    <3>1. nest.op # "axpby" => Dim > 0
      BY <1>1 DEF WellFormed, Dim
    <3>2. nest.op \in {"foreach", "axpby", "ger", "hadamard", "gemv", "sum", "cumsum"}
      BY <1>1, <1>5 DEF WellFormed
    <3> QED BY <1>1, <1>5, <3>1, <3>2 DEF UsesForeach
  <2> HIDE DEF F
  <2>3. CASE ForeachModes = <<1>>
    BY <1>5, <2>1, <2>2, <2>3, ModesOfForeach, ForeachOfOne DEF F
  <2>4. CASE ForeachModes # <<1>>
    <3> DEFINE m == ForeachModes
    <3>1. /\ Len(m) > 1 /\ Len(m) # 1 /\ m[1] = 1 /\ m[2] \in 2 .. Dim
          /\ nest.op = "foreach" => m[2] = 2
      BY <2>2, <2>4, ModesOfForeach
    <3>2. UniformBlocks(Size(m[2]), nest.sgs, nest.tiles[2]) # 0
      BY <2>2, <3>1 DEF DividesByZero
    <3>3. Size(m[2]) >= 0
      <4> HIDE DEF m
      <4>1. m[2] \in 1 .. Dim /\ m[2] > 1 /\ Dim > 1
        BY <1>1, <3>1
      <4>2. nest.from[m[2]] \in Int /\ nest.to[m[2]] \in Int
        BY <4>1, NestFacts
      <4>3. CASE nest.op = "foreach"
        <5>1. nest.from[2] <= nest.to[2]
          BY <4>1, <4>3 DEF Ordinary, Dim
        <5> QED BY <3>1, <4>2, <4>3, <5>1 DEF Size
      <4>4. CASE nest.op # "foreach"
        <5>1. nest.from[m[2]] = 0 /\ nest.to[m[2]] >= 0
          BY <1>1, <1>5, <4>1, <4>4 DEF WellFormed, Dim
        <5> QED BY <4>2, <5>1 DEF Size
      <4> QED BY <4>3, <4>4
    <3> HIDE DEF m
    <3>4. Parts([g \in Subgroup |-> ForeachTiles(g, m)], Subgroup, TileSet, Runs, Space)
      BY <1>5, <3>1, <3>2, <3>3, ForeachOfSeveral
    <3> QED BY <2>1, <3>4 DEF F, m
  <2> QED BY <2>3, <2>4
<1> QED BY <1>2, <1>3, <1>4, <1>5, <1>6

(* tile_loop_uniformly only divides by zero where there is nothing to do.  *)
LEMMA NothingToDivide ==
    ASSUME nest \in Nests, Ordinary(nest), DividesByZero
    PROVE  Space = {}
<1> DEFINE m == ForeachModes
<1>9. CASE ~UsesForeach
  <2>1. nest.op = "gemm" /\ UniformBlocks(Size(2), BlockSize[2] * NumBlocks(2), nest.tiles[2]) = 0
    BY <1>9 DEF DividesByZero
  <2> DEFINE n == Size(2)
             w == BlockSize[2] * NumBlocks(2)
  <2>2. n \in Nat /\ w \in Nat \ {0} /\ Mode(2) = 0 .. n - 1 /\ Dim = 3
    <3>1. n \in Nat /\ Mode(2) = 0 .. n - 1 /\ Dim = 3
      BY <2>1, GemmFacts
    <3>2. \A k, l \in Nat \ {0} : k * l \in Nat \ {0}
      BY Scaled
    <3>3. w \in Nat \ {0}
      BY <2>1, <3>2, BlockFacts
    <3> QED BY <3>1, <3>3
  <2>3. nest.tiles[2] \in Nat \ {0} /\ UniformBlocks(n, w, nest.tiles[2]) = 0
    BY <2>1, NestFacts
  <2> HIDE DEF n, w
  <2>4. n = 0
    BY <2>2, <2>3, EnoughBlocks
  <2>5. 2 \in 1 .. Dim /\ Mode(2) = {}
    BY <2>2, <2>4
  <2> QED BY <2>5, SpaceMeans
<1> SUFFICES ASSUME UsesForeach PROVE Space = {}
  BY <1>9
<1>1. /\ UsesForeach /\ Len(m) > 1
      /\ UniformBlocks(Size(m[2]), nest.sgs, nest.tiles[2]) = 0
  <2>1. nest.op # "gemm"
    BY DEF UsesForeach
  <2> QED BY <2>1 DEF DividesByZero
<1>2. m[2] \in 2 .. Dim /\ (nest.op = "foreach" => m[2] = 2)
  <2>1. Len(<<1>>) = 1
    OBVIOUS
  <2> QED BY <1>1, <2>1, ModesOfForeach
<1>3. Dim \in Nat /\ WellFormed(nest) /\ nest.sgs \in Nat \ {0} /\ nest.tiles[2] \in Nat \ {0}
  BY NestsAssumption, NestFacts
<1> HIDE DEF m
<1> DEFINE e == m[2]
<1>4. e \in 1 .. Dim /\ e > 1 /\ Dim > 1 /\ nest.from[e] \in Int /\ nest.to[e] \in Int
  <2>1. e \in 1 .. Dim /\ e > 1 /\ Dim > 1
    BY <1>2, <1>3
  <2> QED BY <2>1, NestFacts
<1>5. Size(e) \in Nat
  <2>1. CASE nest.op = "foreach"
    <3>1. nest.from[2] <= nest.to[2]
      BY <1>4, <2>1 DEF Ordinary, Dim
    <3> QED BY <1>2, <1>4, <2>1, <3>1 DEF Size
  <2>2. CASE nest.op # "foreach"
    <3>1. nest.op # "foreach_tile"
      BY <1>1 DEF UsesForeach
    <3>2. nest.from[e] = 0 /\ nest.to[e] >= 0
      BY <1>3, <1>4, <2>2, <3>1 DEF WellFormed, Dim
    <3> QED BY <1>4, <3>2 DEF Size
  <2> QED BY <2>1, <2>2
<1>6. Size(e) = 0
  <2>1. UniformBlocks(Size(e), nest.sgs, nest.tiles[2]) = 0
    BY <1>1
  <2> HIDE DEF e
  <2> QED BY <1>3, <1>5, <2>1, EnoughBlocks
<1>7. Mode(e) = {}
  BY <1>4, <1>6 DEF Mode, Size
<1> HIDE DEF e
<1> QED BY <1>4, <1>7, SpaceMeans

-----------------------------------------------------------------------------
(* The subgroups at work.                                                  *)

(* One of them has made its first call.                                    *)
LEMMA OneFewer ==
    ASSUME NEW F, NEW G, NEW C, NEW H, NEW S, Parts(F, G, C, H, S),
           NEW g \in G, F[g] # <<>>, NEW D, \A x : x \in D <=> <<Head(F[g]), x>> \in H
    PROVE  Parts([F EXCEPT ![g] = Tail(@)], G, C, H, S \ D)
<1> DEFINE E == [F EXCEPT ![g] = Tail(@)]
           at(h, i) == IF h = g THEN i + 1 ELSE i
<1>1. /\ F \in [G -> Seq(C)]
      /\ \A h \in G : \A i \in DOMAIN F[h] : \A x : <<F[h][i], x>> \in H => x \in S
      /\ \A x \in S : \E h \in G : \E i \in DOMAIN F[h] : <<F[h][i], x>> \in H
  BY DEF Parts
<1>2. /\ E[g] = Tail(F[g]) /\ F[g] \in Seq(C) /\ \A h \in G : h # g => E[h] = F[h]
      /\ DOMAIN E = G /\ E = [h \in G |-> E[h]]
  BY <1>1
<1> HIDE DEF E
<1> DEFINE s == F[g]
           r == E[g]
<1>3. /\ r \in Seq(C) /\ 1 \in DOMAIN s /\ Head(s) = s[1]
      /\ \A i \in DOMAIN r : i \in Nat \ {0} /\ i + 1 \in DOMAIN s /\ r[i] = s[i + 1]
      /\ \A i \in DOMAIN s : i \in Nat \ {0} /\ (i # 1 => i - 1 \in DOMAIN r)
  <2>1. s \in Seq(C) /\ s # <<>> /\ r = Tail(s)
    BY <1>2
  <2> HIDE DEF s, r
  <2>2. Tail(s) \in Seq(C) /\ Len(s) \in Nat \ {0} /\ Len(Tail(s)) = Len(s) - 1
        /\ Head(s) = s[1] /\ \A i \in 1 .. Len(Tail(s)) : Tail(s)[i] = s[i + 1]
    BY <2>1, HeadTailProperties, LenProperties, EmptySeq
  <2>3. DOMAIN s = 1 .. Len(s) /\ DOMAIN Tail(s) = 1 .. Len(s) - 1
    BY <2>1, <2>2, LenProperties
  <2> QED BY <2>1, <2>2, <2>3
<1>4. \A h \in G : E[h] \in Seq(C)
  BY <1>1, <1>2, <1>3
<1>5. E \in [G -> Seq(C)]
  BY <1>2, <1>4
<1>6. ASSUME NEW h \in G, NEW i \in DOMAIN E[h]
      PROVE  /\ at(h, i) \in DOMAIN F[h] /\ E[h][i] = F[h][at(h, i)] /\ ~(h = g /\ at(h, i) = 1)
             /\ i = IF h = g THEN at(h, i) - 1 ELSE at(h, i)
  <2>1. CASE h = g
    <3>1. i \in Nat \ {0} /\ i + 1 \in DOMAIN F[g] /\ E[g][i] = F[g][i + 1]
      BY <1>3, <2>1
    <3> QED BY <2>1, <3>1
  <2>2. CASE h # g
    BY <1>2, <2>2
  <2> QED BY <2>1, <2>2
<1>7. ASSUME NEW h \in G, NEW i \in DOMAIN F[h], ~(h = g /\ i = 1)
      PROVE  \E j \in DOMAIN E[h] : at(h, j) = i
  <2>1. CASE h = g
    <3>1. i \in Nat \ {0} /\ i - 1 \in DOMAIN E[g] /\ (i - 1) + 1 = i
      BY <1>3, <1>7, <2>1
    <3> QED BY <2>1, <3>1
  <2>2. CASE h # g
    BY <1>2, <2>2
  <2> QED BY <2>1, <2>2
<1> HIDE DEF at, r
<1>8. \A h, k \in G : \A i \in DOMAIN F[h], j \in DOMAIN F[k] : \A x :
          <<F[h][i], x>> \in H /\ <<F[k][j], x>> \in H => h = k /\ i = j
  BY OneCall
<1>9. \A x : x \in D <=> <<F[g][1], x>> \in H
  BY <1>3
<1> HIDE DEF s
<1>10. 1 \in DOMAIN F[g]
  BY <1>3 DEF s
<1>11. ASSUME NEW h \in G, NEW i \in DOMAIN E[h], NEW x, <<E[h][i], x>> \in H
       PROVE  x \in S \ D
  <2>1. at(h, i) \in DOMAIN F[h] /\ <<F[h][at(h, i)], x>> \in H /\ ~(h = g /\ at(h, i) = 1)
    BY <1>6, <1>11
  <2>2. x \in S
    BY <1>1, <2>1
  <2>3. x \notin D
    BY <1>8, <1>9, <1>10, <2>1
  <2> QED BY <2>2, <2>3
<1>12. ASSUME NEW x \in S \ D
       PROVE  \E h \in G : \E i \in DOMAIN E[h] : <<E[h][i], x>> \in H
  <2>1. PICK h \in G : \E i \in DOMAIN F[h] : <<F[h][i], x>> \in H
    BY <1>1
  <2>2. PICK i \in DOMAIN F[h] : <<F[h][i], x>> \in H
    BY <2>1
  <2>3. ~(h = g /\ i = 1)
    BY <1>9, <2>2
  <2>4. PICK j \in DOMAIN E[h] : at(h, j) = i
    BY <1>7, <2>3
  <2>5. E[h][j] = F[h][i]
    BY <1>6, <2>4
  <2> QED BY <2>2, <2>5
<1>13. NoneShared(E, G, H)
  <2> SUFFICES ASSUME NEW h \in G, NEW k \in G, NEW i \in DOMAIN E[h], NEW j \in DOMAIN E[k], NEW x,
                      <<E[h][i], x>> \in H, <<E[k][j], x>> \in H
               PROVE  h = k /\ i = j
    BY DEF NoneShared
  <2>1. /\ at(h, i) \in DOMAIN F[h] /\ E[h][i] = F[h][at(h, i)]
        /\ i = IF h = g THEN at(h, i) - 1 ELSE at(h, i)
    BY <1>6
  <2>2. /\ at(k, j) \in DOMAIN F[k] /\ E[k][j] = F[k][at(k, j)]
        /\ j = IF k = g THEN at(k, j) - 1 ELSE at(k, j)
    BY <1>6
  <2>3. h = k /\ at(h, i) = at(k, j)
    BY <1>8, <2>1, <2>2
  <2> QED BY <2>1, <2>2, <2>3
<1> QED BY <1>5, <1>11, <1>12, <1>13 DEF Parts, E

(* What the tiles left in todo have to run is what has not been.           *)
InvRan ==
    /\ DOMAIN ran \subseteq Space
    /\ ran = [p \in DOMAIN ran |-> 1]

LoopInv ==
    /\ nest \in Nests
    /\ Parts(todo, Subgroup, TileSet, Runs, Space \ DOMAIN ran)
    /\ InvRan

LEMMA LoopInitHolds ==
    ASSUME \A n \in Nests : Ordinary(n), LoopInit
    PROVE  LoopInv
<1>1. nest \in Nests /\ Ordinary(nest)
  BY DEF LoopInit
<1>2. DOMAIN ran = {} /\ ran = [p \in DOMAIN ran |-> 1]
  BY DEF LoopInit, EmptyBag, SetToBag
<1>3. Parts(todo, Subgroup, TileSet, Runs, Space)
  <2>1. CASE DividesByZero
    <3>1. todo = [g \in Subgroup |-> <<>>]
      BY <2>1 DEF LoopInit
    <3>2. Space = {}
      BY <1>1, <2>1, NothingToDivide
    <3> QED BY <3>1, <3>2, PartsOfNone
  <2>2. CASE ~DividesByZero
    <3>1. todo = [g \in Subgroup |-> Tiles(g)]
      BY <2>2 DEF LoopInit
    <3> QED BY <1>1, <2>2, <3>1, TilesParts
  <2> QED BY <2>1, <2>2
<1>4. Space \ DOMAIN ran = Space
  BY <1>2
<1> QED BY <1>1, <1>2, <1>3, <1>4 DEF LoopInv, InvRan

(* What a tile runs.                                                       *)
PointsOf(t) == UNION {Box(t.boxes[b]) : b \in DOMAIN t.boxes}

LEMMA PointsOfMeans ==
    ASSUME NEW t \in TileSet
    PROVE  /\ \A p : p \in PointsOf(t) <=> <<t, p>> \in Runs
           /\ \A p : p \notin PointsOf(t) => Cardinality({b \in DOMAIN t.boxes : p \in Box(t.boxes[b])}) = 0
           /\ \A p \in PointsOf(t) : Cardinality({b \in DOMAIN t.boxes : p \in Box(t.boxes[b])}) = 1
<1>1. t.boxes \in Seq(Boxes) /\ BoxesApart(t)
  BY DEF TileSet
<1>2. \A b \in DOMAIN t.boxes : t.boxes[b] \in Boxes
  <2> DEFINE s == t.boxes
  <2>1. s \in Seq(Boxes)
    BY <1>1
  <2> HIDE DEF s
  <2>2. \A b \in DOMAIN s : s[b] \in Boxes
    BY <2>1, LenProperties, ElementOfSeq
  <2> QED BY <2>2 DEF s
<1>3. ASSUME NEW p, p \in PointsOf(t)
      PROVE  <<t, p>> \in Runs
  <2>1. PICK b \in DOMAIN t.boxes : p \in Box(t.boxes[b])
    BY <1>3 DEF PointsOf
  <2>2. p \in Points
    BY <1>2, <2>1, BoxMeans
  <2> QED BY <2>1, <2>2 DEF Runs
<1>4. ASSUME NEW p, <<t, p>> \in Runs
      PROVE  p \in PointsOf(t)
  BY <1>4 DEF Runs, PointsOf
<1>5. ASSUME NEW p, p \notin PointsOf(t)
      PROVE  Cardinality({b \in DOMAIN t.boxes : p \in Box(t.boxes[b])}) = 0
  <2>1. {b \in DOMAIN t.boxes : p \in Box(t.boxes[b])} = {}
    BY <1>5 DEF PointsOf
  <2> QED BY <2>1, FS_EmptySet
<1>6. ASSUME NEW p \in PointsOf(t)
      PROVE  Cardinality({b \in DOMAIN t.boxes : p \in Box(t.boxes[b])}) = 1
  <2>1. PICK b \in DOMAIN t.boxes : p \in Box(t.boxes[b])
    BY DEF PointsOf
  <2>2. {c \in DOMAIN t.boxes : p \in Box(t.boxes[c])} = {b}
    BY <1>1, <2>1 DEF BoxesApart
  <2> QED BY <2>2, FS_Singleton
<1> QED BY <1>3, <1>4, <1>5, <1>6

LEMMA NestKept ==
    ASSUME nest' = nest
    PROVE  Space' = Space /\ Subgroup' = Subgroup /\ TileSet' = TileSet /\ Runs' = Runs
<1>1. Dim' = Dim /\ \A i : Mode(i)' = Mode(i) /\ Largest(i)' = Largest(i)
  <2>1. Dim' = Dim /\ \A i : Mode(i)' = Mode(i) /\ Size(i)' = Size(i)
    BY DEF Dim, Mode, Size
  <2>2. BlockSize' = BlockSize
    BY DEF BlockSize
  <2>3. \A i : NumBlocks(i)' = NumBlocks(i)
    BY <2>1, <2>2 DEF NumBlocks
  <2> QED BY <2>1, <2>2, <2>3 DEF Largest
<1>2. Space' = Space /\ Subgroup' = Subgroup
  BY <1>1 DEF Space, Subgroup
<1>3. Boxes' = Boxes /\ Points' = Points
  BY <1>1 DEF Boxes, Points
<1>4. TileSet' = TileSet
  BY <1>1, <1>3 DEF TileSet, BoxesApart
<1> QED BY <1>2, <1>3, <1>4 DEF Runs

(* A step of a subgroup runs points that nobody has, if any, just once.    *)
LEMMA StepRuns ==
    ASSUME LoopInv, NEW g \in Subgroup, RunTile(g)
    PROVE  /\ LoopInv'
           /\ Space' = Space /\ nest' = nest
           /\ DOMAIN ran \subseteq DOMAIN ran'
           /\ DOMAIN ran' = DOMAIN ran => ran' = ran
<1> DEFINE t == Head(todo[g])
           D == PointsOf(t)
<1>1. /\ todo[g] # <<>> /\ nest' = nest
      /\ todo' = [todo EXCEPT ![g] = Tail(@)]
      /\ ran' = [p \in DOMAIN ran \cup D |->
                    (IF p \in DOMAIN ran THEN ran[p] ELSE 0)
                        + Cardinality({b \in DOMAIN t.boxes : p \in Box(t.boxes[b])})]
  BY DEF RunTile, BagIn, BagToSet, PointsOf
<1>2. /\ nest \in Nests /\ Parts(todo, Subgroup, TileSet, Runs, Space \ DOMAIN ran)
      /\ DOMAIN ran \subseteq Space /\ ran = [p \in DOMAIN ran |-> 1]
  BY DEF LoopInv, InvRan
<1>3. t \in TileSet /\ t = todo[g][1] /\ 1 \in DOMAIN todo[g]
  <2> DEFINE s == todo[g]
  <2>1. s \in Seq(TileSet) /\ s # <<>>
    BY <1>1, <1>2 DEF Parts
  <2> HIDE DEF s
  <2>2. Head(s) = s[1] /\ 1 \in DOMAIN s /\ Head(s) \in TileSet
    BY <2>1, HeadTailProperties, LenProperties, EmptySeq, ElementOfSeq
  <2> QED BY <2>2 DEF s
<1> HIDE DEF t
<1>4. /\ \A p : p \in D <=> <<t, p>> \in Runs
      /\ \A p : p \notin D => Cardinality({b \in DOMAIN t.boxes : p \in Box(t.boxes[b])}) = 0
      /\ \A p \in D : Cardinality({b \in DOMAIN t.boxes : p \in Box(t.boxes[b])}) = 1
  BY <1>3, PointsOfMeans
<1> HIDE DEF D
<1>5. D \subseteq Space \ DOMAIN ran
  BY <1>2, <1>3, <1>4 DEF Parts
<1>6. \A p \in DOMAIN ran : ran[p] = 1
  BY <1>2
<1>7. \A p \in DOMAIN ran \cup D :
          (IF p \in DOMAIN ran THEN ran[p] ELSE 0)
              + Cardinality({b \in DOMAIN t.boxes : p \in Box(t.boxes[b])}) = 1
  BY <1>4, <1>5, <1>6
<1>8. ran' = [p \in DOMAIN ran \cup D |-> 1]
  BY <1>1, <1>7
<1>9. DOMAIN ran' = DOMAIN ran \cup D /\ ran' = [p \in DOMAIN ran' |-> 1]
  BY <1>8
<1>10. Space' = Space /\ Subgroup' = Subgroup /\ TileSet' = TileSet /\ Runs' = Runs
  BY <1>1, NestKept
<1>11. Parts(todo, Subgroup, TileSet, Runs, Space \ DOMAIN ran)'
  <2>1. \A p : p \in D <=> <<Head(todo[g]), p>> \in Runs
    BY <1>4 DEF t
  <2>2. Parts([todo EXCEPT ![g] = Tail(@)], Subgroup, TileSet, Runs, (Space \ DOMAIN ran) \ D)
    BY <1>1, <1>2, <2>1, OneFewer
  <2>3. (Space \ DOMAIN ran) \ D = Space' \ DOMAIN ran'
    BY <1>9, <1>10
  <2>4. Parts(todo', Subgroup', TileSet', Runs', Space' \ DOMAIN ran')
    BY <1>1, <1>10, <2>2, <2>3
  <2> QED BY <2>4 DEF Parts, NoneShared
<1>12. (InvRan)'
  BY <1>2, <1>5, <1>9, <1>10 DEF InvRan
<1>13. LoopInv'
  BY <1>1, <1>2, <1>11, <1>12 DEF LoopInv
<1>14. DOMAIN ran' = DOMAIN ran => ran' = ran
  BY <1>2, <1>9
<1> QED BY <1>1, <1>9, <1>10, <1>13, <1>14

LEMMA InvariantHolds ==
    ASSUME \A n \in Nests : Ordinary(n)
    PROVE  LoopSpec => []LoopInv
<1>1. LoopInit => LoopInv
  BY LoopInitHolds
<1>2. LoopInv /\ [LoopNext]_loopVars => LoopInv'
  <2> SUFFICES ASSUME LoopInv, [LoopNext]_loopVars
               PROVE  LoopInv'
    OBVIOUS
  <2>1. CASE LoopNext
    BY <2>1, StepRuns DEF LoopNext
  <2>2. CASE UNCHANGED loopVars
    <3>1. nest' = nest /\ todo' = todo /\ ran' = ran
      BY <2>2 DEF loopVars
    <3>2. Space' = Space /\ Subgroup' = Subgroup /\ TileSet' = TileSet /\ Runs' = Runs
      BY <3>1, NestKept
    <3>3. Parts(todo', Subgroup', TileSet', Runs', Space' \ DOMAIN ran')
      BY <3>1, <3>2 DEF LoopInv
    <3>4. Parts(todo, Subgroup, TileSet, Runs, Space \ DOMAIN ran)'
      BY <3>3 DEF Parts, NoneShared
    <3>5. (InvRan)'
      BY <3>1, <3>2 DEF LoopInv, InvRan
    <3> QED BY <3>1, <3>4, <3>5 DEF LoopInv
  <2> QED BY <2>1, <2>2
<1> QED BY <1>1, <1>2, PTL DEF LoopSpec

(* However the subgroups interleave, no iteration of a loop nest, or       *)
(* scalar update of a gemm, is executed twice and none outside of the      *)
(* ranges, for any ranges of any number of modes, any subgroup size, any   *)
(* number of subgroups, any tile shape and any register and K blocks       *)
(* (lower-foreach and the loops of lower-linalg, with tile_loop_by_sgs,    *)
(* tile_loop_uniformly and the gemm microkernel).                          *)
THEOREM IterationsOnce ==
    ASSUME \A n \in Nests : Ordinary(n)
    PROVE  LoopSpec => RunsEachOnce
<1>1. LoopInit => EO!Init
  BY DEF LoopInit, EO!Init, EmptyBag, EO!EmptyBag, SetToBag, EO!SetToBag
<1>2. LoopInv /\ LoopInv' /\ [LoopNext]_loopVars => [EO!Execute]_EO!vars
  <2> SUFFICES ASSUME LoopInv, [LoopNext]_loopVars
               PROVE  [EO!Execute]_EO!vars
    OBVIOUS
  <2>1. CASE UNCHANGED loopVars
    BY <2>1 DEF loopVars, EO!vars, Space, Mode, Dim
  <2>2. CASE LoopNext
    <3>1. PICK g \in Subgroup : RunTile(g)
      BY <2>2 DEF LoopNext
    <3>2. /\ (InvRan)' /\ Space' = Space /\ DOMAIN ran \subseteq DOMAIN ran'
          /\ DOMAIN ran' = DOMAIN ran => ran' = ran
      BY <3>1, StepRuns DEF LoopInv
    <3>3. \A p \in DOMAIN ran' : p \in Space /\ ran'[p] = 1
      BY <3>2 DEF InvRan
    <3>4. CASE ran' = ran
      BY <3>2, <3>4 DEF EO!vars
    <3>5. CASE ran' # ran
      BY <3>2, <3>3, <3>5 DEF EO!Execute
    <3> QED BY <3>4, <3>5
  <2> QED BY <2>1, <2>2
<1>3. LoopSpec => []LoopInv
  BY InvariantHolds
<1> QED BY <1>1, <1>2, <1>3, PTL DEF LoopSpec, RunsEachOnce, EO!Safe

(* When all subgroups are through with their tiles, no iteration is left:  *)
(* whatever remains of a range is with one of them.                        *)
THEOREM IterationsAll ==
    ASSUME \A n \in Nests : Ordinary(n)
    PROVE  LoopSpec => []((\A g \in Subgroup : todo[g] = <<>>) => BagToSet(ran) = Space)
<1>1. LoopInv => ((\A g \in Subgroup : todo[g] = <<>>) => BagToSet(ran) = Space)
  <2> SUFFICES ASSUME LoopInv, \A g \in Subgroup : todo[g] = <<>>
               PROVE  DOMAIN ran = Space
    BY DEF BagToSet
  <2>1. \A g \in Subgroup : DOMAIN todo[g] = {}
    OBVIOUS
  <2> QED BY <2>1 DEF LoopInv, InvRan, Parts
<1> QED BY <1>1, InvariantHolds, PTL

(* The registers have room for a block of C of a subgroup of rows and one  *)
(* column, with the blocks of A and B; the largest is the one that is      *)
(* chosen for them, and no smaller than that of a matrix extension.        *)
Roomy(n) ==
    n.op = "gemm" =>
        /\ n.max = MaxRegisterBlock(n.bytes, n.sgs, n.space)
        /\ 2 * RegisterBytes(n.sgs, 1, n.bytes) <= n.space
        /\ n.ext => n.shape[1] <= n.max[1] /\ n.shape[2] <= n.max[2]

(* The blocks of C that a subgroup keeps are no larger than the largest.   *)
LEMMA BlocksAtMost ==
    ASSUME nest \in Nests, nest.op = "gemm", Roomy(nest)
    PROVE  /\ BlockSize[1] * NumBlocks(1) \in Nat /\ BlockSize[1] * NumBlocks(1) <= nest.max[1]
           /\ BlockSize[2] * NumBlocks(2) \in Nat /\ BlockSize[2] * NumBlocks(2) <= nest.max[2]
<1>1. BlockSize[1] <= nest.max[1] /\ BlockSize[2] <= nest.max[2]
  <2>1. CASE nest.ext
    <3>1. BlockSize = nest.shape
      BY <2>1 DEF BlockSize
    <3> QED BY <2>1, <3>1 DEF Roomy
  <2>2. CASE ~nest.ext
    <3>1. BlockSize[1] = nest.sgs /\ BlockSize[2] = nest.max[2]
      BY <2>2 DEF BlockSize
    <3> QED BY <3>1, GemmFacts
  <2> QED BY <2>1, <2>2
<1>2. ASSUME NEW b \in Nat \ {0}, NEW k \in Nat \ {0}, NEW m \in Nat, b <= m, k = 1 \/ b * k < m
      PROVE  b * k \in Nat /\ b * k <= m
  <2>1. b * k \in Nat
    BY Scaled
  <2>2. b * 1 = b
    OBVIOUS
  <2> QED BY <1>2, <2>1, <2>2
<1> QED BY <1>1, <1>2, BlockFacts, GemmFacts

(* A product grows with its factors.                                       *)
LEMMA MoreTimes ==
    ASSUME NEW a \in Nat, NEW b \in Nat, NEW d \in Nat, a <= b
    PROVE  a * d \in Nat /\ b * d \in Nat /\ a * d <= b * d /\ d * a <= d * b
<1>1. a * d \in Nat /\ b * d \in Nat /\ a * d = d * a /\ b * d = d * b
  BY SMT
<1>2. CASE d = 0
  BY <1>2
<1>3. CASE d # 0
  <2>1. d * a <= d * b
    BY <1>3, Scaled
  <2> QED BY <1>1, <2>1
<1> QED BY <1>2, <1>3

(* A smaller block takes fewer registers.                                  *)
LEMMA FewerRegisters ==
    ASSUME NEW r \in Nat, NEW c \in Nat, NEW m \in Nat, NEW n \in Nat, r <= m, c <= n,
           NEW bytes, bytes[1] \in Nat, bytes[2] \in Nat, bytes[3] \in Nat
    PROVE  RegisterBytes(r, c, bytes) <= RegisterBytes(m, n, bytes)
<1>1. \A a, b, d \in Nat : a <= b => a * d \in Nat /\ b * d \in Nat /\ a * d <= b * d /\ d * a <= d * b
  BY MoreTimes
<1> DEFINE x == bytes[1]
           y == bytes[2]
           z == bytes[3]
<1>2. x \in Nat /\ y \in Nat /\ z \in Nat
  OBVIOUS
<1> HIDE DEF x, y, z
<1>3. r * x \in Nat /\ m * x \in Nat /\ r * x <= m * x /\ c * y \in Nat /\ n * y \in Nat /\ c * y <= n * y
  BY <1>1, <1>2
<1>4. r * c \in Nat /\ m * n \in Nat /\ r * c <= m * n
  <2>1. r * c \in Nat /\ m * c \in Nat /\ r * c <= m * c
    BY <1>1
  <2>2. m * n \in Nat /\ m * c <= m * n
    BY <1>1
  <2> QED BY <2>1, <2>2
<1> DEFINE p == r * c
           q == m * n
           d == r * x
           e == m * x
           f == c * y
           g == n * y
<1>5. p \in Nat /\ q \in Nat /\ p <= q /\ d \in Nat /\ e \in Nat /\ d <= e /\ f \in Nat /\ g \in Nat /\ f <= g
  BY <1>3, <1>4
<1> HIDE DEF p, q, d, e, f, g
<1>6. p * z \in Nat /\ q * z \in Nat /\ p * z <= q * z
  BY <1>1, <1>2, <1>5
<1>7. p * z + 8 * (d + f) <= q * z + 8 * (e + g)
  <2> DEFINE i == p * z
             j == q * z
  <2>1. i \in Nat /\ j \in Nat /\ i <= j
    BY <1>6
  <2> HIDE DEF i, j
  <2>2. i + 8 * (d + f) <= j + 8 * (e + g)
    BY <1>5, <2>1
  <2> QED BY <2>2 DEF i, j
<1> QED BY <1>7 DEF RegisterBytes, p, q, d, e, f, g, x, y, z

(* Sizes of blocks in registers are integers.                              *)
LEMMA RegistersAreInt ==
    ASSUME NEW r \in Nat, NEW c \in Nat, NEW bytes, bytes[1] \in Nat, bytes[2] \in Nat, bytes[3] \in Nat
    PROVE  RegisterBytes(r, c, bytes) \in Int
<1>1. \A a, b \in Nat : a * b \in Nat
  BY ProductIsNat
<1> DEFINE p == r * c
           d == r * bytes[1]
           f == c * bytes[2]
<1>2. p \in Nat /\ d \in Nat /\ f \in Nat
  BY <1>1
<1> HIDE DEF p, d, f
<1> DEFINE i == p * bytes[3]
<1>3. i \in Nat
  BY <1>1, <1>2
<1> HIDE DEF i
<1>4. i + 8 * (d + f) \in Int
  BY <1>2, <1>3
<1> QED BY <1>4 DEF RegisterBytes, i, p, d, f

(* The ratio of products to loads of a block, compared without fractions.  *)
Better(a, b) == a[1] * a[2] * (b[1] + b[2]) > b[1] * b[2] * (a[1] + a[2])
Sooner(a, b) == a[1] < b[1] \/ (a[1] = b[1] /\ a[2] < b[2])
Best(b, S) == \A a \in S \ {b} : Better(b, a) \/ (~Better(a, b) /\ Sooner(b, a))

(* Comparing fractions is transitive.                                      *)
LEMMA FractionsCompare ==
    ASSUME NEW x \in Nat, NEW y \in Nat, NEW z \in Nat,
           NEW p \in Nat \ {0}, NEW q \in Nat \ {0}, NEW r \in Nat \ {0},
           x * q > y * p, y * r >= z * q
    PROVE  x * r > z * p
<1>1. \A a, b \in Nat : a * b \in Nat /\ a * b = b * a
  BY ProductIsNat, SMT
<1>2. \A a, b, c \in Nat : a * (b * c) = b * (a * c)
  <2> TAKE a, b, c \in Nat
  <2>1. a * (b * c) = (a * b) * c /\ (a * b) * c = (b * a) * c /\ (b * a) * c = b * (a * c)
    BY SMT
  <2> QED BY <2>1
<1>3. r * (x * q) > r * (y * p)
  <2> DEFINE a == x * q
             b == y * p
  <2>1. a \in Nat /\ b \in Nat /\ b < a
    BY <1>1
  <2> HIDE DEF a, b
  <2>2. r * b < r * a /\ r * b \in Int /\ r * a \in Int
    BY <2>1, Scaled
  <2>3. r * a > r * b
    BY <2>2
  <2> QED BY <2>3 DEF a, b
<1>4. p * (z * q) <= p * (y * r)
  <2> DEFINE a == z * q
             b == y * r
  <2>1. a \in Nat /\ b \in Nat /\ a <= b
    BY <1>1
  <2> HIDE DEF a, b
  <2>2. p * a <= p * b
    BY <2>1, Scaled
  <2> QED BY <2>2 DEF a, b
<1>5. r * (x * q) = q * (x * r) /\ r * (y * p) = p * (y * r) /\ p * (z * q) = q * (z * p)
  <2>1. ASSUME NEW a \in Nat, NEW b \in Nat, NEW c \in Nat PROVE a * (b * c) = c * (b * a)
    <3>1. a * (b * c) = b * (a * c) /\ c * (b * a) = b * (c * a) /\ a * c = c * a
      BY <1>1, <1>2
    <3> QED BY <3>1
  <2> QED BY <2>1
<1> DEFINE a == z * p
           b == x * r
<1>6. a \in Nat /\ b \in Nat
  BY <1>1
<1>7. q * a < q * b
  <2>1. q * a \in Nat /\ q * b \in Nat /\ p * (y * r) \in Nat
    BY <1>1
  <2>2. p * (y * r) < q * b /\ q * a <= p * (y * r)
    <3> DEFINE u == q * b
               v == q * a
               w == p * (y * r)
               t == r * (x * q)
               s == r * (y * p)
    <3>1. t > s /\ t = u /\ s = w /\ v <= w
      BY <1>3, <1>4, <1>5
    <3>2. u \in Nat /\ w \in Nat
      BY <2>1
    <3> HIDE DEF u, v, w, t, s
    <3>3. w < u /\ v <= w
      BY <3>1, <3>2
    <3> QED BY <3>3 DEF u, v, w
  <2> HIDE DEF a, b
  <2> DEFINE u == q * b
             v == q * a
             w == p * (y * r)
  <2>3. u \in Nat /\ v \in Nat /\ w \in Nat /\ w < u /\ v <= w
    BY <2>1, <2>2
  <2> HIDE DEF u, v, w
  <2>4. v < u
    BY <2>3
  <2> QED BY <2>4 DEF u, v
<1> HIDE DEF a, b
<1>8. a < b
  BY <1>6, <1>7, Scaled
<1>9. b > a
  BY <1>6, <1>8
<1> QED BY <1>9 DEF a, b

LEMMA BetterThanWorse ==
    ASSUME NEW a \in (Nat \ {0}) \X (Nat \ {0}), NEW b \in (Nat \ {0}) \X (Nat \ {0}),
           NEW e \in (Nat \ {0}) \X (Nat \ {0}), Better(e, b), ~Better(a, b)
    PROVE  Better(e, a)
<1> DEFINE x == e[1] * e[2]
           y == b[1] * b[2]
           z == a[1] * a[2]
           p == e[1] + e[2]
           q == b[1] + b[2]
           r == a[1] + a[2]
<1>1. \A k, l \in Nat : k * l \in Nat
  BY ProductIsNat
<1>2. x \in Nat /\ y \in Nat /\ z \in Nat /\ p \in Nat \ {0} /\ q \in Nat \ {0} /\ r \in Nat \ {0}
  BY <1>1
<1>3. x * q > y * p /\ ~(z * q > y * r)
  BY DEF Better
<1> HIDE DEF x, y, z, p, q, r
<1>4. y * r >= z * q
  <2>1. y * r \in Nat /\ z * q \in Nat
    BY <1>1, <1>2
  <2> DEFINE k == y * r
             l == z * q
  <2>2. k \in Nat /\ l \in Nat /\ ~(l > k)
    BY <1>3, <2>1
  <2> HIDE DEF k, l
  <2>3. k >= l
    BY <2>2
  <2> QED BY <2>3 DEF k, l
<1>5. x * r > z * p
  BY <1>2, <1>3, <1>4, FractionsCompare
<1> QED BY <1>5 DEF Better, x, z, p, r

(* A finite set of blocks has a best one: they are looked at in the order  *)
(* of Sooner, as the loops of the code do.                                 *)
LEMMA BestExists ==
    ASSUME NEW P \in Nat, NEW Q \in Nat, NEW S \in SUBSET ((1 .. P) \X (1 .. Q)), S # {}
    PROVE  \E b \in S : Best(b, S)
<1> DEFINE w == Q + 1
           R(b) == w * b[1] + b[2]
           U(n) == {b \in S : R(b) < n}
           Good(n) == U(n) = {} \/ \E b \in U(n) : Best(b, U(n))
           T == {n \in Nat : ~Good(n)}
<1>1. w \in Nat \ {0} /\ \A b \in S : b \in (Nat \ {0}) \X (Nat \ {0}) /\ b[1] <= P /\ b[2] <= Q /\ b[2] \in 0 .. w - 1
  OBVIOUS
<1>2. \A b \in S : R(b) \in Nat
  <2> TAKE b \in S
  <2>1. w * b[1] \in Nat
    BY <1>1, ProductIsNat
  <2> QED BY <1>1, <2>1
<1> HIDE DEF w
<1>3. ASSUME NEW a \in S, NEW b \in S, a[1] < b[1]
      PROVE  R(a) < R(b)
  <2> DEFINE k == w * a[1]
             l == w * b[1]
  <2>1. k + w <= l /\ k \in Nat /\ l \in Nat
    <3>1. w * (a[1] + 1) <= w * b[1] /\ w * (a[1] + 1) = w * a[1] + w
      <4>1. a[1] + 1 \in Int /\ b[1] \in Int /\ a[1] \in Int /\ a[1] + 1 <= b[1]
        BY <1>1, <1>3
      <4> QED BY <1>1, <4>1, Scaled
    <3>2. k \in Nat /\ l \in Nat
      BY <1>1, ProductIsNat
    <3> QED BY <3>1, <3>2
  <2> HIDE DEF k, l
  <2>2. k + a[2] < l + b[2]
    BY <1>1, <2>1
  <2> QED BY <2>2 DEF k, l
<1>4. ASSUME NEW a \in S, NEW b \in S, R(a) <= R(b)
      PROVE  a = b \/ Sooner(a, b)
  <2>1. a[1] \in Nat /\ b[1] \in Nat /\ a[2] \in Nat /\ b[2] \in Nat /\ a = <<a[1], a[2]>> /\ b = <<b[1], b[2]>>
    BY <1>1
  <2>2. ~(b[1] < a[1])
    <3> SUFFICES ASSUME b[1] < a[1] PROVE FALSE
      OBVIOUS
    <3>1. R(b) < R(a)
      BY <1>3
    <3> HIDE DEF R
    <3> QED BY <1>2, <1>4, <3>1
  <2>3. CASE a[1] < b[1]
    BY <2>3 DEF Sooner
  <2>4. CASE a[1] = b[1]
    <3> DEFINE k == w * a[1]
    <3>1. k \in Nat /\ k + a[2] <= k + b[2]
      BY <1>1, <1>4, <2>4, ProductIsNat
    <3> HIDE DEF k
    <3>2. a[2] <= b[2]
      BY <2>1, <3>1
    <3>3. CASE a[2] < b[2]
      BY <2>4, <3>3 DEF Sooner
    <3>4. CASE a[2] = b[2]
      BY <2>1, <2>4, <3>4
    <3> QED BY <2>1, <3>2, <3>3, <3>4
  <2> QED BY <2>1, <2>2, <2>3, <2>4
<1>5. ASSUME NEW n \in Nat, Good(n)
      PROVE  Good(n + 1)
  <2>1. CASE U(n + 1) = U(n)
    BY <1>5, <2>1
  <2>2. CASE U(n + 1) # U(n)
    <3>1. U(n) \subseteq U(n + 1)
      <4> HIDE DEF R
      <4> QED BY <1>2
    <3>2. PICK e \in S : R(e) = n /\ e \in U(n + 1)
      <4> HIDE DEF R
      <4> QED BY <1>2, <2>2, <3>1
    <3>3. \A a \in U(n + 1) : a # e => a \in U(n) /\ Sooner(a, e)
      <4> SUFFICES ASSUME NEW a \in U(n + 1), a # e PROVE a \in U(n) /\ Sooner(a, e)
        OBVIOUS
      <4>1. a \in S /\ R(a) <= R(e)
        <5> HIDE DEF R
        <5> QED BY <1>2, <3>2
      <4>2. Sooner(a, e)
        BY <1>4, <4>1
      <4>3. ~(R(e) <= R(a))
        <5> SUFFICES ASSUME R(e) <= R(a) PROVE FALSE
          OBVIOUS
        <5>1. Sooner(e, a)
          BY <1>4, <4>1
        <5>2. a[1] \in Nat /\ a[2] \in Nat /\ e[1] \in Nat /\ e[2] \in Nat
          BY <1>1, <4>1
        <5> QED BY <4>2, <5>1, <5>2 DEF Sooner
      <4>4. R(a) < n
        <5> HIDE DEF R
        <5> QED BY <1>2, <3>2, <4>1, <4>3
      <4> QED BY <4>1, <4>2, <4>4
    <3>4. CASE U(n) = {}
      <4>1. U(n + 1) = {e}
        <5> HIDE DEF U
        <5> QED BY <3>2, <3>3, <3>4
      <4>2. Best(e, U(n + 1))
        <5> HIDE DEF U
        <5> QED BY <4>1 DEF Best
      <4> QED BY <3>2, <4>2
    <3>5. CASE U(n) # {}
      <4>1. PICK b \in U(n) : Best(b, U(n))
        BY <1>5, <3>5
      <4>2. b \in S /\ e \in S /\ U(n) \subseteq S
        OBVIOUS
      <4> HIDE DEF U, R
      <4>3. CASE ~Better(e, b)
        <5>1. ASSUME NEW a \in U(n + 1), a # b
              PROVE  Better(b, a) \/ (~Better(a, b) /\ Sooner(b, a))
          <6>1. CASE a = e
            BY <3>1, <3>3, <4>3, <5>1, <6>1
          <6>2. CASE a # e
            BY <3>3, <4>1, <5>1, <6>2 DEF Best
          <6> QED BY <6>1, <6>2
        <5>2. Best(b, U(n + 1))
          BY <5>1 DEF Best
        <5> QED BY <3>1, <5>2
      <4>4. CASE Better(e, b)
        <5>1. ASSUME NEW a \in U(n + 1), a # e
              PROVE  Better(e, a)
          <6>1. a \in U(n) /\ a \in S
            BY <3>3, <4>2, <5>1
          <6>2. CASE a = b
            BY <4>4, <6>2
          <6>3. CASE a # b
            <7>1. Better(b, a) \/ ~Better(a, b)
              BY <4>1, <6>1, <6>3 DEF Best
            <7>2. ~Better(a, b)
              <8> SUFFICES ASSUME Better(b, a), Better(a, b) PROVE FALSE
                BY <7>1
              <8>1. a[1] \in Nat /\ a[2] \in Nat /\ b[1] \in Nat /\ b[2] \in Nat
                BY <1>1, <4>2, <6>1
              <8> DEFINE k == a[1] * a[2] * (b[1] + b[2])
                         l == b[1] * b[2] * (a[1] + a[2])
              <8>2. k > l /\ l > k
                BY DEF Better
              <8>3. k \in Nat /\ l \in Nat
                <9>1. \A x, y \in Nat : x * y \in Nat
                  BY ProductIsNat
                <9>2. a[1] * a[2] \in Nat /\ b[1] * b[2] \in Nat /\ a[1] + a[2] \in Nat /\ b[1] + b[2] \in Nat
                  BY <8>1, <9>1
                <9> QED BY <9>1, <9>2
              <8> HIDE DEF k, l
              <8> QED BY <8>2, <8>3
            <7> QED BY <1>1, <4>2, <4>4, <6>1, <7>2, BetterThanWorse
          <6> QED BY <6>2, <6>3
        <5>2. Best(e, U(n + 1))
          BY <5>1 DEF Best
        <5> QED BY <3>2, <5>2
      <4> QED BY <4>3, <4>4
    <3> QED BY <3>4, <3>5
  <2> QED BY <2>1, <2>2
<1>6. Good(0)
  <2> HIDE DEF R
  <2>1. U(0) = {}
    BY <1>2
  <2> QED BY <2>1
<1>7. \A n \in Nat : Good(n)
  <2> SUFFICES ASSUME NEW n \in T PROVE FALSE
    OBVIOUS
  <2> HIDE DEF Good
  <2>1. PICK j \in T : \A i \in T : j <= i
    BY LeastNumber
  <2>2. j \in Nat /\ ~Good(j) /\ j # 0
    BY <1>6
  <2>3. j - 1 \in Nat /\ j - 1 \notin T /\ (j - 1) + 1 = j
    BY <2>1, <2>2
  <2>4. Good(j)
    <3>1. Good(j - 1)
      BY <2>3
    <3>2. Good((j - 1) + 1)
      BY <1>5, <2>3, <3>1
    <3> QED BY <2>3, <3>2
  <2> QED BY <2>2, <2>4
<1> DEFINE N == w * (P + 1)
<1>8. N \in Nat /\ U(N) = S
  <2>1. N \in Nat
    BY <1>1, ProductIsNat
  <2>2. ASSUME NEW b \in S PROVE R(b) < N
    <3> DEFINE k == w * b[1]
    <3>1. k \in Nat /\ k + w <= N
      <4>1. w * (b[1] + 1) <= w * (P + 1) /\ w * (b[1] + 1) = w * b[1] + w
        <5>1. b[1] + 1 \in Int /\ P + 1 \in Int /\ b[1] + 1 <= P + 1 /\ b[1] \in Int
          BY <1>1
        <5> QED BY <1>1, <5>1, Scaled
      <4>2. k \in Nat
        BY <1>1, ProductIsNat
      <4> QED BY <4>1, <4>2
    <3> HIDE DEF k, N
    <3>2. k + b[2] < N
      BY <1>1, <2>1, <3>1
    <3> QED BY <3>2 DEF k
  <2> QED BY <2>1, <2>2
<1> HIDE DEF R, N
<1>9. Good(N)
  BY <1>7, <1>8
<1> QED BY <1>8, <1>9

(* The largest block fits if that of a subgroup of rows and one column     *)
(* does.                                                                   *)
LEMMA LargestFits ==
    ASSUME NEW bytes, bytes[1] \in Nat \ {0}, bytes[2] \in Nat \ {0}, bytes[3] \in Nat \ {0},
           NEW sgs \in Nat \ {0}, NEW space \in Nat,
           2 * RegisterBytes(sgs, 1, bytes) <= space
    PROVE  LET m == MaxRegisterBlock(bytes, sgs, space)
           IN  2 * RegisterBytes(m[1], m[2], bytes) <= space
<1> DEFINE half == space \div 2
           P == space \div (16 * bytes[1])
           Q == space \div (16 * bytes[2])
           S == {b \in {r \in 1 .. P : r % sgs = 0} \X (1 .. Q) :
                    RegisterBytes(b[1], b[2], bytes) <= half}
           m == MaxRegisterBlock(bytes, sgs, space)
<1>1. P \in Nat /\ Q \in Nat /\ half \in Nat /\ 2 * half <= space
  <2>1. 16 * bytes[1] \in Nat \ {0} /\ 16 * bytes[2] \in Nat \ {0} /\ 2 \in Nat \ {0}
    OBVIOUS
  <2>2. P \in Nat /\ Q \in Nat
    BY <2>1, QuotientFacts
  <2>3. half \in Nat /\ 2 * half <= space
    OBVIOUS
  <2> QED BY <2>2, <2>3
<1>2. m = IF S = {} THEN <<sgs, 1>> ELSE CHOOSE b \in S : Best(b, S)
  BY DEF MaxRegisterBlock, Best, Better, Sooner
<1>3. S \in SUBSET ((1 .. P) \X (1 .. Q))
  OBVIOUS
<1>4. ASSUME NEW b \in S
      PROVE  2 * RegisterBytes(b[1], b[2], bytes) <= space
  <2> DEFINE x == RegisterBytes(b[1], b[2], bytes)
  <2>1. x <= half /\ b[1] \in 1 .. P /\ b[2] \in 1 .. Q
    OBVIOUS
  <2> HIDE DEF P, Q, half
  <2>2. x \in Int
    <3>1. b[1] \in Nat /\ b[2] \in Nat
      BY <1>1, <2>1
    <3> QED BY <3>1, RegistersAreInt
  <2> HIDE DEF x
  <2> QED BY <1>1, <2>1, <2>2 DEF x
<1> HIDE DEF S, P, Q, m, half
<1>5. CASE S = {}
  <2>1. m = <<sgs, 1>>
    BY <1>2, <1>5
  <2>2. m[1] = sgs /\ m[2] = 1
    BY <2>1
  <2> QED BY <2>2 DEF m
<1>6. CASE S # {}
  <2>1. \E b \in S : Best(b, S)
    BY <1>1, <1>3, <1>6, BestExists
  <2>2. m \in S
    BY <1>2, <1>6, <2>1
  <2> QED BY <1>4, <2>2 DEF m
<1> QED BY <1>5, <1>6

(* The work-group is one the device can launch, and every tile is within   *)
(* the block its code is laid out for, and not empty; the blocks that a    *)
(* gemm keeps fill at most half of the registers if the smallest do        *)
(* (max_register_block_gemm, choose_block_size_multiple).                  *)
THEOREM TilesFit ==
    ASSUME \A n \in Nests : Ordinary(n) /\ Roomy(n)
    PROVE  LoopSpec => []FitsDevice
<1>1. LoopInv => FitsDevice
  <2> SUFFICES ASSUME LoopInv
               PROVE  FitsDevice
    OBVIOUS
  <2>1. WellFormed(nest) /\ nest \in Nests /\ Roomy(nest)
    BY NestsAssumption DEF LoopInv
  <2>2. nest.sgs * Cardinality(Subgroup) <= nest.limit
    <3> DEFINE n == nest.tiles[1] * nest.tiles[2]
    <3>1. n \in Nat \ {0} /\ nest.sgs * n <= nest.limit
      BY <2>1, NestFacts DEF WellFormed
    <3>2. Subgroup = 0 .. n - 1
      BY DEF Subgroup
    <3> HIDE DEF n
    <3>3. Cardinality(0 .. n - 1) = n
      <4>1. 0 \in Int /\ n - 1 \in Int /\ ~(0 > n - 1) /\ (n - 1) - 0 + 1 = n
        BY <3>1
      <4> QED BY <4>1, FS_Interval
    <3> QED BY <3>1, <3>2, <3>3
  <2>3. ASSUME NEW g \in Subgroup, NEW m \in DOMAIN todo[g], NEW i \in 1 .. Len(todo[g][m].size)
        PROVE  todo[g][m].size[i] \in
                   1 .. CASE nest.op = "gemm" -> BlockSize[i] * NumBlocks(i)
                          [] nest.op = "foreach_tile" -> nest.shape[i]
                          [] OTHER -> nest.sgs
    <3> DEFINE s == todo[g]
    <3>1. s \in Seq(TileSet)
      BY DEF LoopInv, Parts
    <3> HIDE DEF s
    <3>2. \A j \in DOMAIN s : s[j] \in TileSet
      BY <3>1, LenProperties, ElementOfSeq
    <3>3. todo[g][m] \in TileSet
      BY <3>2 DEF s
    <3>4. todo[g][m].size[i] \in 1 .. Largest(i)
      BY <3>3 DEF TileSet
    <3> QED BY <2>1, <3>4 DEF Largest
  <2>4. ASSUME nest.op = "gemm"
        PROVE  2 * RegisterBytes(BlockSize[1] * NumBlocks(1), BlockSize[2] * NumBlocks(2), nest.bytes)
                   <= nest.space
    <3> DEFINE r == BlockSize[1] * NumBlocks(1)
               c == BlockSize[2] * NumBlocks(2)
               m == nest.max[1]
               n == nest.max[2]
               b == nest.bytes
    <3>1. r \in Nat /\ c \in Nat /\ r <= m /\ c <= n
      BY <2>1, <2>4, BlocksAtMost
    <3>2. m \in Nat /\ n \in Nat
      BY <2>1, <2>4, GemmFacts
    <3>3. /\ b[1] \in Nat /\ b[2] \in Nat /\ b[3] \in Nat /\ nest.space \in Nat
          /\ 2 * RegisterBytes(m, n, b) <= nest.space
      <4> DEFINE k == nest.sgs
                 h == nest.space
                 z == nest.max
      <4>1. /\ b[1] \in Nat \ {0} /\ b[2] \in Nat \ {0} /\ b[3] \in Nat \ {0} /\ h \in Nat /\ k \in Nat \ {0}
        BY <2>1, <2>4 DEF WellFormed
      <4>2. z = MaxRegisterBlock(b, k, h) /\ 2 * RegisterBytes(k, 1, b) <= h
        BY <2>1, <2>4 DEF Roomy
      <4>3. m = z[1] /\ n = z[2]
        OBVIOUS
      <4> HIDE DEF b, k, h, z, m, n
      <4>4. 2 * RegisterBytes(z[1], z[2], b) <= h
        BY <4>1, <4>2, LargestFits
      <4> QED BY <4>1, <4>3, <4>4 DEF h
    <3> HIDE DEF r, c, m, n, b
    <3> DEFINE x == RegisterBytes(r, c, b)
               y == RegisterBytes(m, n, b)
    <3>4. x <= y
      BY <3>1, <3>2, <3>3, FewerRegisters
    <3>5. x \in Int /\ y \in Int
      BY <3>1, <3>2, <3>3, RegistersAreInt
    <3> HIDE DEF x, y
    <3>6. 2 * y <= nest.space
      BY <3>3 DEF y
    <3>7. 2 * x <= nest.space
      BY <3>3, <3>4, <3>5, <3>6
    <3> QED BY <3>7 DEF x, r, c, b
  <2> QED BY <2>2, <2>3, <2>4 DEF FitsDevice
<1>2. \A n \in Nests : Ordinary(n)
  OBVIOUS
<1> QED BY <1>1, <1>2, InvariantHolds, PTL
=============================================================================
