------------------------------- MODULE Lemmas -------------------------------
(***************************************************************************)
(* Lemmas that several proofs need, for programs and sequences of any      *)
(* size.  The operators of ControlFlow recur towards the root of a region  *)
(* tree, and a sum is a fold over sets of indices: both are functions that *)
(* CHOOSE picks, so that there are such functions comes first.             *)
(***************************************************************************)
EXTENDS ControlFlow, Sums, WellFoundedInduction, TLAPS

-----------------------------------------------------------------------------
(* Region trees. *)

(* An instruction comes behind the one whose child region holds it.        *)
IsTree(p) == Len(p.op) \in Nat /\ \A n \in Inst(p) : p.parent[n] \in 0 .. n - 1

(* Every non-empty set of numbers has a least one.                         *)
LEMMA LeastNumber ==
    ASSUME NEW T \in SUBSET Nat, NEW i \in T
    PROVE  \E j \in T : \A n \in T : j <= n
<1>1. IsWellFoundedOn(OpToRel(<, Nat), Nat)
  BY NatLessThanWellFounded
<1>2. PICK j \in T : \A n \in T : ~(<<n, j>> \in OpToRel(<, Nat))
  BY <1>1, WFMin, Zenon
<1>3. ASSUME NEW n \in T PROVE j <= n
  <2>1. n \in Nat /\ j \in Nat
    OBVIOUS
  <2>2. ~(n < j)
    BY <1>2, <2>1 DEF OpToRel
  <2> QED
    BY <2>1, <2>2
<1> QED
  BY <1>3

(* Induction on the instructions, in pre-order.                            *)
LEMMA InPreOrder ==
    ASSUME NEW n \in Nat, NEW T,
           \A m \in 1 .. n : (\A k \in 1 .. m - 1 : k \in T) => m \in T
    PROVE  \A m \in 1 .. n : m \in T
<1> DEFINE Bad == {m \in 1 .. n : m \notin T}
<1> SUFFICES ASSUME NEW m \in Bad PROVE FALSE
  OBVIOUS
<1>1. Bad \in SUBSET Nat
  OBVIOUS
<1>2. PICK j \in Bad : \A k \in Bad : j <= k
  <2> HIDE DEF Bad
  <2> QED
    BY <1>1, LeastNumber
<1>3. j \in 1 .. n /\ j \notin T
  BY <1>2
<1>4. \A k \in 1 .. j - 1 : k \in T
  BY <1>2, <1>3
<1> QED
  BY <1>3, <1>4

(* Induction on the instructions, from the last one back.                  *)
LEMMA InReverse ==
    ASSUME NEW n \in Nat, NEW T,
           \A m \in 1 .. n : (\A k \in m + 1 .. n : k \in T) => m \in T
    PROVE  \A m \in 1 .. n : m \in T
<1> DEFINE U == {i \in 1 .. n : n + 1 - i \in T}
<1>1. ASSUME NEW i \in 1 .. n, \A k \in 1 .. i - 1 : k \in U PROVE i \in U
  <2>1. n + 1 - i \in 1 .. n
    OBVIOUS
  <2>2. ASSUME NEW k \in (n + 1 - i) + 1 .. n PROVE k \in T
    <3>1. n + 1 - k \in 1 .. i - 1 /\ n + 1 - (n + 1 - k) = k
      BY <2>2
    <3> QED
      BY <1>1, <3>1
  <2> QED
    BY <2>1, <2>2
<1>2. \A i \in 1 .. n : i \in U
  <2> HIDE DEF U
  <2> QED
    BY <1>1, InPreOrder
<1> SUFFICES ASSUME NEW m \in 1 .. n PROVE m \in T
  OBVIOUS
<1>3. n + 1 - m \in 1 .. n /\ n + 1 - (n + 1 - m) = m
  OBVIOUS
<1> QED
  BY <1>2, <1>3

(* f says where the references d end, from E on with b; and f collects the *)
(* references it passes on the way to 0.                                   *)
IsEnd(f, n, E, b, d) == f = [w \in 1 .. n |-> IF w \in E THEN b[w] ELSE f[d[w]]]

IsPath(f, n, d) == f = [w \in 1 .. n |-> IF d[w] = 0 THEN {} ELSE {d[w]} \cup f[d[w]]]

(* A chain of references to smaller numbers ends, so that what is at its   *)
(* end is a function of where it starts.                                   *)
LEMMA ChainsEnd ==
    ASSUME NEW n \in Nat, NEW E, NEW b, NEW d,
           \A w \in 1 .. n : w \notin E => d[w] \in 1 .. w - 1
    PROVE  \E f : IsEnd(f, n, E, b, d)
<1> DEFINE R(f, w) == IF w \in E THEN b[w] ELSE f[d[w]]
           Ends(m) == \E f : f = [w \in 1 .. m |-> R(f, w)]
           T == {m \in Nat : m <= n => Ends(m)}
<1>1. ASSUME NEW m \in 1 .. n, Ends(m - 1) PROVE Ends(m)
  <2>1. PICK f : f = [w \in 1 .. m - 1 |-> R(f, w)]
    BY <1>1
  <2> DEFINE g == [w \in 1 .. m |-> IF w < m THEN f[w] ELSE R(f, w)]
  <2>2. ASSUME NEW w \in 1 .. m PROVE g[w] = R(g, w)
    <3>1. w \notin E => d[w] \in 1 .. w - 1
      OBVIOUS
    <3>2. g[w] = R(f, w)
      BY <2>1
    <3>3. w \notin E => g[d[w]] = f[d[w]]
      BY <3>1
    <3> QED
      BY <3>2, <3>3
  <2>3. g = [w \in 1 .. m |-> R(g, w)]
    <3> HIDE DEF R
    <3> QED
      BY <2>2
  <2> HIDE DEF g
  <2> QED
    BY <2>3
<1>2. Ends(0)
  <2> DEFINE f == [w \in 1 .. 0 |-> w]
  <2>1. f = [w \in 1 .. 0 |-> R(f, w)]
    OBVIOUS
  <2> HIDE DEF f, R
  <2> QED
    BY <2>1
<1>3. \A m \in 1 .. n : m \in T
  <2>1. ASSUME NEW m \in 1 .. n, \A k \in 1 .. m - 1 : k \in T PROVE m \in T
    <3> HIDE DEF Ends
    <3>1. CASE m = 1
      BY <1>1, <1>2, <3>1
    <3>2. CASE m # 1
      <4>1. m - 1 \in 1 .. m - 1 /\ m - 1 <= n
        BY <3>2
      <4> QED
        BY <1>1, <2>1, <4>1
    <3> QED
      BY <3>1, <3>2
  <2> HIDE DEF T
  <2> QED
    BY <2>1, InPreOrder
<1>4. Ends(n)
  <2> HIDE DEF Ends
  <2> QED
    BY <1>2, <1>3
<1> QED
  BY <1>4 DEF IsEnd

(* The same of what is collected on the way.                               *)
LEMMA PathsEnd ==
    ASSUME NEW n \in Nat, NEW d, \A w \in 1 .. n : d[w] \in 0 .. w - 1
    PROVE  \E f : IsPath(f, n, d)
<1> DEFINE R(f, w) == IF d[w] = 0 THEN {} ELSE {d[w]} \cup f[d[w]]
           Ends(m) == \E f : f = [w \in 1 .. m |-> R(f, w)]
           T == {m \in Nat : m <= n => Ends(m)}
<1>1. ASSUME NEW m \in 1 .. n, Ends(m - 1) PROVE Ends(m)
  <2>1. PICK f : f = [w \in 1 .. m - 1 |-> R(f, w)]
    BY <1>1
  <2> DEFINE g == [w \in 1 .. m |-> IF w < m THEN f[w] ELSE R(f, w)]
  <2>2. ASSUME NEW w \in 1 .. m PROVE g[w] = R(g, w)
    <3>1. d[w] # 0 => d[w] \in 1 .. w - 1
      OBVIOUS
    <3>2. g[w] = R(f, w)
      <4>1. CASE w < m
        <5>1. w \in 1 .. m - 1 /\ g[w] = f[w]
          BY <4>1
        <5> HIDE DEF R, g
        <5> QED
          BY <2>1, <5>1
      <4>2. CASE ~(w < m)
        <5> HIDE DEF R
        <5> QED
          BY <4>2
      <4> QED
        BY <4>1, <4>2
    <3>3. d[w] # 0 => g[d[w]] = f[d[w]]
      BY <3>1
    <3> QED
      BY <3>2, <3>3
  <2>3. g = [w \in 1 .. m |-> R(g, w)]
    <3> HIDE DEF R
    <3> QED
      BY <2>2
  <2> HIDE DEF g
  <2> QED
    BY <2>3
<1>2. Ends(0)
  <2> DEFINE f == [w \in 1 .. 0 |-> w]
  <2>1. f = [w \in 1 .. 0 |-> R(f, w)]
    OBVIOUS
  <2> HIDE DEF f, R
  <2> QED
    BY <2>1
<1>3. \A m \in 1 .. n : m \in T
  <2>1. ASSUME NEW m \in 1 .. n, \A k \in 1 .. m - 1 : k \in T PROVE m \in T
    <3> HIDE DEF Ends
    <3>1. CASE m = 1
      BY <1>1, <1>2, <3>1
    <3>2. CASE m # 1
      <4>1. m - 1 \in 1 .. m - 1 /\ m - 1 <= n
        BY <3>2
      <4> QED
        BY <1>1, <2>1, <4>1
    <3> QED
      BY <3>1, <3>2
  <2> HIDE DEF T
  <2> QED
    BY <2>1, InPreOrder
<1>4. Ends(n)
  <2> HIDE DEF Ends
  <2> QED
    BY <1>2, <1>3
<1> QED
  BY <1>4 DEF IsPath

-----------------------------------------------------------------------------
(* The instructions around another one, on the path to the root.           *)

(* They are the parent and those around the parent.                        *)
LEMMA EnclosingUnfolds ==
    ASSUME NEW p, IsTree(p), NEW n \in Inst(p)
    PROVE  Enclosing(p, n) =
               IF p.parent[n] = 0 THEN {} ELSE {p.parent[n]} \cup Enclosing(p, p.parent[n])
<1> DEFINE U(f) == f = [m \in Inst(p) |->
                           IF p.parent[m] = 0 THEN {} ELSE {p.parent[m]} \cup f[p.parent[m]]]
           up == CHOOSE f : U(f)
<1>1. \E f : U(f)
  BY PathsEnd DEF IsPath, IsTree, Inst
<1>2. U(up)
  <2> HIDE DEF U
  <2> QED
    BY <1>1
<1>3. \A m : Enclosing(p, m) = up[m]
  BY DEF Enclosing
<1> HIDE DEF up
<1> QED
  BY <1>2, <1>3

(* They all come before it, and what is around one of them is, too.        *)
LEMMA EnclosingFacts ==
    ASSUME NEW p, IsTree(p)
    PROVE  \A n \in Inst(p) :
               /\ Enclosing(p, n) \subseteq 1 .. n - 1
               /\ \A k \in Enclosing(p, n) : Enclosing(p, k) \subseteq Enclosing(p, n)
<1> DEFINE T == {n \in Inst(p) :
                    /\ Enclosing(p, n) \subseteq 1 .. n - 1
                    /\ \A k \in Enclosing(p, n) : Enclosing(p, k) \subseteq Enclosing(p, n)}
<1>1. ASSUME NEW n \in 1 .. Len(p.op), \A k \in 1 .. n - 1 : k \in T PROVE n \in T
  <2>1. n \in Inst(p) /\ p.parent[n] \in 0 .. n - 1
    BY DEF IsTree, Inst
  <2>2. Enclosing(p, n) =
            IF p.parent[n] = 0 THEN {} ELSE {p.parent[n]} \cup Enclosing(p, p.parent[n])
    BY <2>1, EnclosingUnfolds
  <2>3. CASE p.parent[n] = 0
    BY <2>1, <2>2, <2>3
  <2>4. CASE p.parent[n] # 0
    <3>1. p.parent[n] \in T /\ p.parent[n] \in 1 .. n - 1
      BY <1>1, <2>1, <2>4
    <3>2. Enclosing(p, n) = {p.parent[n]} \cup Enclosing(p, p.parent[n])
      BY <2>2, <2>4
    <3>3. Enclosing(p, n) \subseteq 1 .. n - 1
      BY <2>1, <3>1, <3>2
    <3>4. \A k \in Enclosing(p, n) : Enclosing(p, k) \subseteq Enclosing(p, n)
      BY <3>1, <3>2
    <3> QED
      BY <2>1, <3>3, <3>4
  <2> QED
    BY <2>3, <2>4
<1>2. \A n \in 1 .. Len(p.op) : n \in T
  <2> HIDE DEF T
  <2> QED
    BY <1>1, InPreOrder DEF IsTree
<1> QED
  BY <1>2 DEF Inst

(* What encloses an instruction is the parent of one.                      *)
LEMMA EnclosingAreParents ==
    ASSUME NEW p, IsTree(p)
    PROVE  \A x \in Inst(p) : \A n \in Enclosing(p, x) :
               n \in Inst(p) /\ \E k \in Inst(p) : p.parent[k] = n
<1> DEFINE T == {x \in Inst(p) : \A n \in Enclosing(p, x) :
                    n \in Inst(p) /\ \E k \in Inst(p) : p.parent[k] = n}
<1>1. ASSUME NEW x \in 1 .. Len(p.op), \A k \in 1 .. x - 1 : k \in T PROVE x \in T
  <2>1. x \in Inst(p) /\ p.parent[x] \in 0 .. x - 1
    BY DEF IsTree, Inst
  <2>2. Enclosing(p, x) =
            IF p.parent[x] = 0 THEN {} ELSE {p.parent[x]} \cup Enclosing(p, p.parent[x])
    BY <2>1, EnclosingUnfolds
  <2>3. p.parent[x] # 0 => p.parent[x] \in T /\ p.parent[x] \in Inst(p)
    BY <1>1, <2>1
  <2> QED
    BY <2>1, <2>2, <2>3
<1>2. \A x \in 1 .. Len(p.op) : x \in T
  <2> HIDE DEF T
  <2> QED
    BY <1>1, InPreOrder DEF IsTree
<1> QED
  BY <1>2 DEF Inst

(* The instructions of a region have the same ones around them.            *)
LEMMA SiblingFacts ==
    ASSUME NEW p, IsTree(p), NEW n \in Inst(p), NEW m \in Siblings(p, n)
    PROVE  /\ m \in Inst(p) /\ p.parent[m] = p.parent[n]
           /\ Enclosing(p, m) = Enclosing(p, n)
           /\ Siblings(p, m) = Siblings(p, n)
           /\ n \in Siblings(p, n)
<1>1. m \in Inst(p) /\ p.parent[m] = p.parent[n] /\ p.branch[m] = p.branch[n]
  BY DEF Siblings, Region
<1>2. Enclosing(p, m) = Enclosing(p, n)
  BY <1>1, EnclosingUnfolds
<1> QED
  BY <1>1, <1>2 DEF Siblings, Region

-----------------------------------------------------------------------------
(* Where control goes.                                                     *)

(* The first instruction of a region is in it, and no other is in front.   *)
LEMMA FirstFacts ==
    ASSUME NEW R \in SUBSET Nat, NEW k \in R
    PROVE  First(R) \in R /\ First(R) <= k
<1>1. \E m \in R : \A j \in R : m <= j
  BY LeastNumber
<1> QED
  BY <1>1 DEF First

(* What follows an instruction is the next one of its region, the loop     *)
(* around it, or what follows its parent.                                  *)
LEMMA FollowUnfolds ==
    ASSUME NEW p, IsTree(p), NEW n \in Inst(p)
    PROVE  Follow(p, n) =
               IF LaterSiblings(p, n) # {} THEN First(LaterSiblings(p, n))
               ELSE IF p.parent[n] = 0 THEN 0
               ELSE IF p.op[p.parent[n]] \in Loops THEN p.parent[n]
               ELSE Follow(p, p.parent[n])
<1> DEFINE N(f) == f = [m \in Inst(p) |->
                           IF LaterSiblings(p, m) # {} THEN First(LaterSiblings(p, m))
                           ELSE IF p.parent[m] = 0 THEN 0
                           ELSE IF p.op[p.parent[m]] \in Loops THEN p.parent[m]
                           ELSE f[p.parent[m]]]
           next == CHOOSE f : N(f)
           E == {m \in Inst(p) : \/ LaterSiblings(p, m) # {}
                                 \/ p.parent[m] = 0
                                 \/ p.op[p.parent[m]] \in Loops}
           b == [m \in Inst(p) |->
                    IF LaterSiblings(p, m) # {} THEN First(LaterSiblings(p, m))
                    ELSE IF p.parent[m] = 0 THEN 0
                    ELSE p.parent[m]]
           d == p.parent
<1>1. PICK f : IsEnd(f, Len(p.op), E, b, d)
  <2>1. \A m \in 1 .. Len(p.op) : m \notin E => d[m] \in 1 .. m - 1
    BY DEF IsTree, Inst
  <2> HIDE DEF E, b, d
  <2> QED
    BY <2>1, ChainsEnd DEF IsTree
<1>2. f = [m \in Inst(p) |-> IF m \in E THEN b[m] ELSE f[d[m]]]
  BY <1>1 DEF IsEnd, Inst
<1>3. N(f)
  <2>1. ASSUME NEW m \in Inst(p)
        PROVE  (IF m \in E THEN b[m] ELSE f[d[m]]) =
                   IF LaterSiblings(p, m) # {} THEN First(LaterSiblings(p, m))
                   ELSE IF p.parent[m] = 0 THEN 0
                   ELSE IF p.op[p.parent[m]] \in Loops THEN p.parent[m]
                   ELSE f[p.parent[m]]
    OBVIOUS
  <2> HIDE DEF E, b, d
  <2> QED
    BY <1>2, <2>1
<1>4. N(next)
  <2> HIDE DEF N
  <2> QED
    BY <1>3
<1>5. \A m : Follow(p, m) = next[m]
  BY DEF Follow
<1> HIDE DEF next
<1> QED
  BY <1>4, <1>5

(* What follows an instruction is one, or the end of the function.         *)
LEMMA FollowIsInst ==
    ASSUME NEW p, IsTree(p)
    PROVE  \A n \in Inst(p) : Follow(p, n) \in Inst(p) \cup {0}
<1> DEFINE T == {n \in Inst(p) : Follow(p, n) \in Inst(p) \cup {0}}
<1>1. ASSUME NEW m \in 1 .. Len(p.op), \A k \in 1 .. m - 1 : k \in T PROVE m \in T
  <2>1. m \in Inst(p) /\ p.parent[m] \in 0 .. m - 1
    BY DEF Inst, IsTree
  <2>2. Follow(p, m) = IF LaterSiblings(p, m) # {} THEN First(LaterSiblings(p, m))
            ELSE IF p.parent[m] = 0 THEN 0
            ELSE IF p.op[p.parent[m]] \in Loops THEN p.parent[m]
            ELSE Follow(p, p.parent[m])
    BY <2>1, FollowUnfolds
  <2>3. LaterSiblings(p, m) # {} => First(LaterSiblings(p, m)) \in Inst(p)
    <3>1. LaterSiblings(p, m) \in SUBSET Nat /\ LaterSiblings(p, m) \subseteq Inst(p)
      BY DEF LaterSiblings, Siblings, Region, Inst
    <3> QED
      BY <3>1, FirstFacts
  <2>4. p.parent[m] # 0 => p.parent[m] \in T /\ p.parent[m] \in Inst(p)
    BY <1>1, <2>1
  <2> QED
    BY <2>1, <2>2, <2>3, <2>4
<1>2. \A m \in 1 .. Len(p.op) : m \in T
  <2> HIDE DEF T
  <2> QED
    BY <1>1, InPreOrder DEF IsTree
<1> QED
  BY <1>2 DEF Inst

-----------------------------------------------------------------------------
(* Division. *)

(* Quotient and remainder are the only ones. *)
LEMMA DivisionUnique ==
    ASSUME NEW q \in Int, NEW b \in Nat \ {0}, NEW r \in Nat, r < b
    PROVE  (b * q + r) % b = r /\ (b * q + r) \div b = q
OBVIOUS

(* And there are some.                                                     *)
LEMMA Division ==
    ASSUME NEW a \in Int, NEW b \in Nat \ {0}
    PROVE  /\ a \div b \in Int /\ a % b \in Nat /\ a % b < b
           /\ a = b * (a \div b) + (a % b)
<1> DEFINE q == a \div b
           r == a - b * q
<1>1. q \in Int /\ q * b <= a /\ a < (q + 1) * b
  OBVIOUS
<1> HIDE DEF q
<1>2. r \in Nat /\ r < b /\ a = b * q + r
  <2>1. (q + 1) * b = q * b + b /\ q * b = b * q /\ b * q \in Int
    BY <1>1
  <2> DEFINE p == b * q
  <2>2. p \in Int /\ p <= a /\ a < p + b
    BY <1>1, <2>1
  <2> HIDE DEF p
  <2>3. a - p \in Nat /\ a - p < b /\ a = p + (a - p)
    BY <2>2
  <2> QED BY <2>3 DEF p
<1> HIDE DEF r
<1>3. a % b = r
  BY <1>1, <1>2, DivisionUnique
<1> QED BY <1>1, <1>2, <1>3 DEF q

-----------------------------------------------------------------------------
(* Recursion and sums. *)

(* Induction up to n, on the set of the numbers a fact is true of.         *)
LEMMA UpTo ==
    ASSUME NEW n \in Nat, NEW T, 0 \in T, \A m \in T : m \in 0 .. n - 1 => m + 1 \in T
    PROVE  \A m \in 0 .. n : m \in T
<1> DEFINE Bad == {m \in 0 .. n : m \notin T}
           R == OpToRel(<, Nat)
<1> SUFFICES ASSUME Bad # {} PROVE FALSE
  OBVIOUS
<1>1. IsWellFoundedOn(R, Nat)
  BY NatLessThanWellFounded
<1>2. PICK m \in Bad : \A y \in Bad : <<y, m>> \notin R
  <2>1. Bad \subseteq Nat
    OBVIOUS
  <2> HIDE DEF Bad, R
  <2> QED
    BY <1>1, <2>1, WFMin
<1>3. m \in 0 .. n /\ m \notin T /\ m # 0
  BY <1>2
<1>4. m - 1 \notin T
  BY <1>3
<1>5. m - 1 \in Bad /\ <<m - 1, m>> \in R
  BY <1>3, <1>4 DEF OpToRel
<1> QED
  BY <1>2, <1>5

(* A recursion along the numbers up to n, where G says how the next value  *)
(* comes from the last one, has a solution.                                *)
Rules(n, S) == [1 .. n -> [S -> S]]
Solution(f, n, S, c, G) ==
    f \in [0 .. n -> S] /\ f[0] = c /\ \A k \in 1 .. n : f[k] = G[k][f[k - 1]]

LEMMA RecursionExists ==
    ASSUME NEW n \in Nat, NEW S, NEW c \in S, NEW G \in Rules(n, S)
    PROVE  \E f : Solution(f, n, S, c, G)
<1> USE DEF Rules
<1> DEFINE Solves(f, m) == f[0] = c /\ \A k \in 1 .. m : f[k] = G[k][f[k - 1]]
           T == {m \in 0 .. n : \E f \in [0 .. m -> S] : Solves(f, m)}
<1>1. 0 \in T
  <2> DEFINE f == [k \in 0 .. 0 |-> c]
  <2>1. f \in [0 .. 0 -> S] /\ Solves(f, 0)
    OBVIOUS
  <2> HIDE DEF f, Solves
  <2> QED BY <2>1
<1>2. ASSUME NEW m \in T, m \in 0 .. n - 1 PROVE m + 1 \in T
  <2>1. PICK f \in [0 .. m -> S] : Solves(f, m)
    OBVIOUS
  <2> DEFINE g == [k \in 0 .. m + 1 |-> IF k = m + 1 THEN G[m + 1][f[m]] ELSE f[k]]
  <2>2. m + 1 \in 1 .. n /\ m \in Nat
    BY <1>2
  <2>3. f[m] \in S /\ G[m + 1] \in [S -> S]
    BY <2>1, <2>2
  <2>4. g \in [0 .. m + 1 -> S]
    <3>1. ASSUME NEW k \in 0 .. m + 1, k # m + 1 PROVE f[k] \in S
      <4>1. k \in 0 .. m
        BY <2>2, <3>1
      <4> QED BY <2>1, <4>1
    <3>2. G[m + 1][f[m]] \in S
      BY <2>3
    <3> QED BY <3>1, <3>2
  <2>5. g[0] = c
    BY <2>1, <2>2
  <2>6. ASSUME NEW k \in 1 .. m + 1 PROVE g[k] = G[k][g[k - 1]]
    <3>1. k - 1 \in 0 .. m /\ g[k - 1] = f[k - 1]
      BY <2>2
    <3>2. CASE k = m + 1
      BY <2>2, <3>1, <3>2
    <3>3. CASE k # m + 1
      <4>1. k \in 1 .. m /\ g[k] = f[k]
        BY <2>2, <3>3
      <4> QED BY <2>1, <3>1, <4>1
    <3> QED BY <3>2, <3>3
  <2>7. Solves(g, m + 1)
    BY <2>5, <2>6
  <2> HIDE DEF g, Solves
  <2> QED BY <1>2, <2>4, <2>7
<1>3. n \in T
  <2> HIDE DEF T
  <2> QED BY <1>1, <1>2, UpTo
<1> QED BY <1>3 DEF Solution

-----------------------------------------------------------------------------
(* What the fold over s does on a set of indices, f being its own value on *)
(* smaller ones.                                                           *)
Unfolds(f, s, n) ==
    f = [S \in SUBSET (1 .. n) |->
            IF S = {} THEN 0 ELSE f[S \ {Max(S)}] + s[Max(S)]]

Fold(s, n) == CHOOSE f : Unfolds(f, s, n)

(* The last index of a prefix is the largest one a set of its indices can  *)
(* hold.                                                                   *)
LEMMA MaxOfInterval ==
    ASSUME NEW n \in Nat, NEW S \in SUBSET (1 .. n + 1), n + 1 \in S
    PROVE  Max(S) = n + 1
<1>1. \A y \in S : y \in 1 .. n + 1
  OBVIOUS
<1>2. \A y \in S : n + 1 >= y
  BY <1>1
<1>3. \A x \in S : (\A y \in S : x >= y) => x = n + 1
  BY <1>1
<1> QED
  BY <1>2, <1>3 DEF Max

(* The recursive function behind the fold exists, by induction on the      *)
(* number of indices.                                                      *)
LEMMA FoldExists ==
    ASSUME NEW n \in Nat, NEW s
    PROVE  \E f : Unfolds(f, s, n)
<1> DEFINE T == {m \in 0 .. n : \E f : Unfolds(f, s, m)}
<1>1. 0 \in T
  <2> DEFINE f == [S \in SUBSET (1 .. 0) |-> 0]
  <2>1. \A S \in SUBSET (1 .. 0) : S = {}
    OBVIOUS
  <2>2. Unfolds(f, s, 0)
    BY <2>1 DEF Unfolds
  <2> QED
    BY <2>2
<1>2. ASSUME NEW m \in T, m \in 0 .. n - 1 PROVE m + 1 \in T
  <2>1. PICK f : Unfolds(f, s, m)
    BY <1>2
  <2> DEFINE g == [S \in SUBSET (1 .. m + 1) |->
                      IF m + 1 \in S THEN f[S \ {m + 1}] + s[m + 1] ELSE f[S]]
             h == [S \in SUBSET (1 .. m + 1) |->
                      IF S = {} THEN 0 ELSE g[S \ {Max(S)}] + s[Max(S)]]
  <2>2. ASSUME NEW S \in SUBSET (1 .. m + 1) PROVE g[S] = h[S]
    <3>1. CASE m + 1 \in S
      <4>1. Max(S) = m + 1
        BY <3>1, MaxOfInterval, m \in Nat
      <4>2. S \ {m + 1} \in SUBSET (1 .. m + 1) /\ m + 1 \notin S \ {m + 1}
        BY <1>2
      <4>3. g[S \ {m + 1}] = f[S \ {m + 1}]
        BY <4>2
      <4>4. g[S] = f[S \ {m + 1}] + s[m + 1]
        BY <3>1
      <4>5. h[S] = g[S \ {m + 1}] + s[m + 1]
        BY <3>1, <4>1
      <4> QED
        BY <4>3, <4>4, <4>5
    <3>2. CASE m + 1 \notin S
      <4>1. S \in SUBSET (1 .. m) /\ S \ {Max(S)} \in SUBSET (1 .. m)
        <5>1. \A y \in S : y \in 1 .. m + 1 /\ y # m + 1
          BY <3>2
        <5>2. \A y \in S : y \in 1 .. m
          BY <5>1, <1>2
        <5> QED
          BY <5>2
      <4>2. S \ {Max(S)} \in SUBSET (1 .. m + 1) /\ m + 1 \notin S \ {Max(S)}
        BY <3>2
      <4>3. g[S] = f[S] /\ g[S \ {Max(S)}] = f[S \ {Max(S)}]
        BY <3>2, <4>2
      <4>4. f[S] = IF S = {} THEN 0 ELSE f[S \ {Max(S)}] + s[Max(S)]
        BY <2>1, <4>1 DEF Unfolds
      <4> QED
        BY <4>3, <4>4
    <3> QED
      BY <3>1, <3>2
  <2>3. g = h
    BY <2>2
  <2>4. Unfolds(g, s, m + 1)
    BY <2>3 DEF Unfolds
  <2> QED
    BY <1>2, <2>4
<1>3. n \in T
  <2> HIDE DEF T
  <2> QED
    BY <1>1, <1>2, UpTo
<1> QED
  BY <1>3

(* ... so that the one the fold chooses has its defining equation.         *)
LEMMA FoldUnfolds ==
    ASSUME NEW n \in Nat, NEW s
    PROVE  Unfolds(Fold(s, n), s, n)
BY FoldExists DEF Fold

(* The total of a sequence is that fold over all of its indices.           *)
LEMMA TotalIsFold ==
    ASSUME NEW n \in Nat, NEW s, DOMAIN s = 1 .. n
    PROVE  Total(s) = Fold(s, n)[1 .. n]
BY DEF Total, FoldLeft, MapThenFoldSet, Fold, Unfolds

(* The value of a fold on the first m indices.                             *)
LEMMA FoldStep ==
    ASSUME NEW n \in Nat, NEW s, NEW m \in 0 .. n
    PROVE  Fold(s, n)[1 .. m] = IF m = 0 THEN 0 ELSE Fold(s, n)[1 .. m - 1] + s[m]
<1>1. 1 .. m \in SUBSET (1 .. n)
  OBVIOUS
<1>2. Unfolds(Fold(s, n), s, n)
  BY FoldUnfolds
<1>3. Fold(s, n)[1 .. m] =
          IF 1 .. m = {} THEN 0 ELSE Fold(s, n)[(1 .. m) \ {Max(1 .. m)}] + s[Max(1 .. m)]
  BY <1>1, <1>2 DEF Unfolds
<1>4. CASE m = 0
  BY <1>3, <1>4
<1>5. CASE m # 0
  <2>1. Max(1 .. m) = m
    BY <1>5 DEF Max
  <2>2. 1 .. m # {} /\ (1 .. m) \ {m} = 1 .. m - 1
    BY <1>5
  <2> QED
    BY <1>3, <1>5, <2>1, <2>2
<1> QED
  BY <1>4, <1>5

(* Sequences that agree on their first m elements have the same sum of     *)
(* them, and it is an integer.                                             *)
LEMMA FoldOfPrefix ==
    ASSUME NEW n \in Nat, NEW k \in Nat, NEW s, NEW t, NEW m \in 0 .. n, m <= k,
           \A i \in 1 .. m : s[i] = t[i] /\ s[i] \in Int
    PROVE  Fold(s, n)[1 .. m] = Fold(t, k)[1 .. m] /\ Fold(s, n)[1 .. m] \in Int
<1> DEFINE T == {j \in 0 .. m : /\ Fold(s, n)[1 .. j] = Fold(t, k)[1 .. j]
                                /\ Fold(s, n)[1 .. j] \in Int}
<1>1. 0 \in T
  <2>1. Fold(s, n)[1 .. 0] = 0 /\ Fold(t, k)[1 .. 0] = 0
    BY FoldStep
  <2> QED
    BY <2>1
<1>2. ASSUME NEW j \in T, j \in 0 .. m - 1 PROVE j + 1 \in T
  <2>1. j + 1 # 0 /\ j + 1 \in 0 .. n /\ j + 1 \in 0 .. k /\ j + 1 - 1 = j
    BY <1>2
  <2>2. Fold(s, n)[1 .. j + 1] = Fold(s, n)[1 .. j] + s[j + 1]
    BY <2>1, FoldStep
  <2>3. Fold(t, k)[1 .. j + 1] = Fold(t, k)[1 .. j] + t[j + 1]
    BY <2>1, FoldStep
  <2>4. s[j + 1] = t[j + 1] /\ s[j + 1] \in Int
    BY <1>2
  <2> QED
    BY <1>2, <2>2, <2>3, <2>4
<1>3. m \in T
  <2> HIDE DEF T
  <2> QED
    BY <1>1, <1>2, UpTo
<1> QED
  BY <1>3

-----------------------------------------------------------------------------
(* The sum of no elements, and of one element more.                        *)
(* Nothing adds up to 0.                                                   *)
LEMMA TotalOfNone ==
    ASSUME NEW s, DOMAIN s = 1 .. 0
    PROVE  Total(s) = 0
BY TotalIsFold, FoldStep

(* Integers add up to an integer.                                          *)
LEMMA TotalType ==
    ASSUME NEW n \in Nat, NEW s \in [1 .. n -> Int]
    PROVE  Total(s) \in Int
<1>1. Total(s) = Fold(s, n)[1 .. n]
  BY TotalIsFold
<1> QED
  BY <1>1, FoldOfPrefix

(* An element at the end of a sequence adds itself to the total.           *)
LEMMA TotalOfOneMore ==
    ASSUME NEW n \in Nat, NEW s \in [1 .. n + 1 -> Int],
           NEW t \in [1 .. n -> Int], \A i \in 1 .. n : s[i] = t[i]
    PROVE  Total(s) = Total(t) + s[n + 1]
<1>1. Total(s) = Fold(s, n + 1)[1 .. n + 1]
  BY TotalIsFold
<1>2. Total(t) = Fold(t, n)[1 .. n]
  BY TotalIsFold
<1>3. Fold(s, n + 1)[1 .. n + 1] = Fold(s, n + 1)[1 .. n] + s[n + 1]
  BY FoldStep, n + 1 - 1 = n, n + 1 # 0
<1>4. Fold(s, n + 1)[1 .. n] = Fold(t, n)[1 .. n]
  BY FoldOfPrefix
<1> QED
  BY <1>1, <1>2, <1>3, <1>4

(* Summing two sequences one element at a time.                            *)
LEMMA TotalOfSums ==
    ASSUME NEW n \in Nat, NEW s \in [1 .. n -> Int], NEW t \in [1 .. n -> Int]
    PROVE  Total([i \in 1 .. n |-> s[i] + t[i]]) = Total(s) + Total(t)
<1> DEFINE S(m) == [i \in 1 .. m |-> s[i]]
           U(m) == [i \in 1 .. m |-> t[i]]
           V(m) == [i \in 1 .. m |-> s[i] + t[i]]
           T == {m \in 0 .. n : Total(V(m)) = Total(S(m)) + Total(U(m))}
<1>1. \A i \in 1 .. n : s[i] \in Int /\ t[i] \in Int /\ s[i] + t[i] \in Int
  OBVIOUS
<1>2. ASSUME NEW m \in 0 .. n
      PROVE  S(m) \in [1 .. m -> Int] /\ U(m) \in [1 .. m -> Int] /\ V(m) \in [1 .. m -> Int]
  <2>1. \A i \in 1 .. m : i \in 1 .. n
    OBVIOUS
  <2> QED
    BY <1>1, <2>1
<1>3. 0 \in T
  <2>1. Total(V(0)) = 0 /\ Total(S(0)) = 0 /\ Total(U(0)) = 0
    BY TotalOfNone
  <2> QED
    BY <2>1
<1>4. ASSUME NEW m \in T, m \in 0 .. n - 1 PROVE m + 1 \in T
  <2>1. m \in 0 .. n /\ m + 1 \in 0 .. n /\ m \in Nat /\ m + 1 \in 1 .. n
    BY <1>4
  <2>2. /\ S(m) \in [1 .. m -> Int] /\ U(m) \in [1 .. m -> Int] /\ V(m) \in [1 .. m -> Int]
        /\ S(m + 1) \in [1 .. m + 1 -> Int]
        /\ U(m + 1) \in [1 .. m + 1 -> Int]
        /\ V(m + 1) \in [1 .. m + 1 -> Int]
    BY <1>2, <2>1
  <2>3. \A i \in 1 .. m : /\ S(m + 1)[i] = S(m)[i] /\ U(m + 1)[i] = U(m)[i]
                         /\ V(m + 1)[i] = V(m)[i]
    BY <2>1
  <2>4. /\ S(m + 1)[m + 1] = s[m + 1] /\ U(m + 1)[m + 1] = t[m + 1]
        /\ V(m + 1)[m + 1] = s[m + 1] + t[m + 1]
    BY <2>1
  <2>5. Total(V(m)) = Total(S(m)) + Total(U(m))
    BY <1>4
  <2> HIDE DEF S, U, V
  <2>6. Total(S(m + 1)) = Total(S(m)) + s[m + 1] /\ Total(S(m)) \in Int
    BY <2>1, <2>2, <2>3, <2>4, TotalOfOneMore, TotalType
  <2>7. Total(U(m + 1)) = Total(U(m)) + t[m + 1] /\ Total(U(m)) \in Int
    BY <2>1, <2>2, <2>3, <2>4, TotalOfOneMore, TotalType
  <2>8. Total(V(m + 1)) = Total(V(m)) + (s[m + 1] + t[m + 1])
    BY <2>1, <2>2, <2>3, <2>4, TotalOfOneMore
  <2>9. s[m + 1] \in Int /\ t[m + 1] \in Int
    BY <1>1, <2>1
  <2>10. Total(V(m + 1)) = Total(S(m + 1)) + Total(U(m + 1))
    BY <2>5, <2>6, <2>7, <2>8, <2>9
  <2> QED
    BY <2>1, <2>10
<1>5. Total(V(n)) = Total(S(n)) + Total(U(n))
  <2> HIDE DEF T
  <2>1. \A m \in 0 .. n : m \in T
    BY <1>3, <1>4, UpTo
  <2>2. n \in T
    BY <2>1
  <2> QED
    BY <2>2 DEF T
<1>6. S(n) = s /\ U(n) = t
  OBVIOUS
<1> QED
  BY <1>5, <1>6

(* Nothing but zeros sums to zero.                                         *)
LEMMA TotalOfZeros ==
    ASSUME NEW n \in Nat, NEW s \in [1 .. n -> {0}]
    PROVE  Total(s) = 0
<1>1. s \in [1 .. n -> Int] /\ s = [i \in 1 .. n |-> s[i] + s[i]]
  OBVIOUS
<1>2. Total(s) = Total(s) + Total(s)
  BY <1>1, TotalOfSums
<1>3. Total(s) \in Int
  BY <1>1, TotalType
<1> QED
  BY <1>2, <1>3
=============================================================================
