------------------------- MODULE MemrefViewsProofs -------------------------
(***************************************************************************)
(* Proofs about views of memrefs, for any parameters, local memrefs and    *)
(* programs: what gcd_analysis claims divides, what a type states is so,   *)
(* the code computes the address of the element the text means, and blocks *)
(* are read only where they are aligned.                                   *)
(***************************************************************************)
EXTENDS MemrefViews, Lemmas, SequenceTheorems

-----------------------------------------------------------------------------
(* d divides n: n is a multiple of d. *)
LEMMA DividesMeans ==
    ASSUME NEW d \in Nat, NEW n \in Int
    PROVE  Divides(d, n) <=> \E q \in Int : n = d * q
<1>1. CASE d = 0
  BY <1>1 DEF Divides
<1>2. CASE d # 0
  <2>1. ASSUME Divides(d, n) PROVE n = d * (n \div d) /\ n \div d \in Int
    BY <1>2, <2>1, Division DEF Divides
  <2>2. ASSUME NEW q \in Int, n = d * q PROVE Divides(d, n)
    BY <1>2, <2>2 DEF Divides
  <2> QED BY <2>1, <2>2
<1> QED BY <1>1, <1>2

LEMMA DividesSum ==
    ASSUME NEW d \in Nat, NEW m \in Int, NEW n \in Int, Divides(d, m), Divides(d, n)
    PROVE  Divides(d, m + n) /\ Divides(d, m - n)
<1>1. PICK p \in Int : m = d * p
  BY DividesMeans
<1>2. PICK q \in Int : n = d * q
  BY DividesMeans
<1>3. m + n = d * (p + q) /\ m - n = d * (p - q) /\ p + q \in Int /\ p - q \in Int
  BY <1>1, <1>2
<1> QED BY <1>3, DividesMeans, m + n \in Int, m - n \in Int

LEMMA DividesProduct ==
    ASSUME NEW d \in Nat, NEW e \in Nat, NEW m \in Int, NEW n \in Int, Divides(d, m), Divides(e, n)
    PROVE  Divides(d * e, m * n)
<1>1. PICK p \in Int : m = d * p
  BY DividesMeans
<1>2. PICK q \in Int : n = e * q
  BY DividesMeans
<1>3. m * n = (d * e) * (p * q)
  <2>1. m * n = (d * p) * (e * q)
    BY <1>1, <1>2
  <2>2. (d * p) * (e * q) = d * (p * (e * q)) /\ p * (e * q) = e * (p * q)
    OBVIOUS
  <2>3. d * (e * (p * q)) = (d * e) * (p * q)
    OBVIOUS
  <2> QED BY <2>1, <2>2, <2>3
<1>4. p * q \in Int /\ d * e \in Nat /\ m * n \in Int
  OBVIOUS
<1> QED BY <1>3, <1>4, DividesMeans

LEMMA DividesTransitive ==
    ASSUME NEW c \in Nat, NEW d \in Nat, NEW n \in Int, Divides(c, d), Divides(d, n)
    PROVE  Divides(c, n)
<1>1. PICK p \in Int : d = c * p
  BY DividesMeans
<1>2. PICK q \in Int : n = d * q
  BY DividesMeans
<1>3. n = c * (p * q) /\ p * q \in Int
  <2>1. n = (c * p) * q
    BY <1>1, <1>2
  <2>2. (c * p) * q = c * (p * q) /\ p * q \in Int
    OBVIOUS
  <2> QED BY <2>1, <2>2
<1> QED BY <1>3, DividesMeans

LEMMA DividesMultiple ==
    ASSUME NEW d \in Nat, NEW m \in Int, NEW n \in Int, Divides(d, m)
    PROVE  Divides(d, m * n)
<1>1. PICK p \in Int : m = d * p
  BY DividesMeans
<1>2. m * n = d * (p * n) /\ p * n \in Int /\ m * n \in Int
  <2>1. m * n = (d * p) * n
    BY <1>1
  <2>2. (d * p) * n = d * (p * n) /\ p * n \in Int
    OBVIOUS
  <2> QED BY <2>1, <2>2
<1> QED BY <1>2, DividesMeans

LEMMA DividesItself ==
    ASSUME NEW n \in Nat
    PROVE  Divides(n, n) /\ Divides(n, 0) /\ Divides(1, n) /\ Divides(n, -n)
<1>1. n = n * 1 /\ 0 = n * 0 /\ n = 1 * n /\ -n = n * (-1)
  OBVIOUS
<1>2. n \in Int /\ 0 \in Int /\ -n \in Int /\ 1 \in Int /\ -1 \in Int
  OBVIOUS
<1>3. Divides(n, n) /\ Divides(1, n)
  BY <1>1, <1>2, DividesMeans
<1>4. Divides(n, 0)
  BY <1>1, <1>2, DividesMeans
<1>5. Divides(n, -n)
  BY <1>1, <1>2, DividesMeans
<1> QED BY <1>3, <1>4, <1>5

LEMMA AbsFacts ==
    ASSUME NEW n \in Int
    PROVE  Abs(n) \in Nat /\ (Abs(n) = n \/ Abs(n) = -n)
BY DEF Abs

(* Gcd is a common divisor. *)
LEMMA GcdDivides ==
    ASSUME NEW a \in Int, NEW b \in Int
    PROVE  Gcd(a, b) \in Nat /\ Divides(Gcd(a, b), a) /\ Divides(Gcd(a, b), b)
<1> DEFINE n == Abs(a) + Abs(b)
           common == {d \in 1 .. n : a % d = 0 /\ b % d = 0}
<1>1. n \in Nat
  BY AbsFacts
<1>2. Gcd(a, b) = IF common = {} THEN 0 ELSE CHOOSE d \in common : \A e \in common : e <= d
  BY DEF Gcd
<1>3. CASE common = {}
  <2>1. 1 \notin common
    BY <1>3
  <2>2. a % 1 = 0 /\ b % 1 = 0
    OBVIOUS
  <2>3. n = 0
    BY <1>1, <2>1, <2>2
  <2>4. a = 0 /\ b = 0
    BY <2>3 DEF Abs
  <2> QED BY <1>2, <1>3, <2>4 DEF Divides
<1>4. CASE common # {}
  <2>1. PICK c \in common : TRUE
    BY <1>4
  <2> DEFINE below == {n - d : d \in common}
  <2>2. below \in SUBSET Nat /\ n - c \in below
    BY <1>1, <2>1
  <2>3. PICK j \in below : \A k \in below : j <= k
    BY <2>2, LeastNumber
  <2>4. PICK d \in common : j = n - d
    BY <2>3
  <2>5. \A e \in common : e <= d
    <3>1. TAKE e \in common
    <3>2. n - e \in below
      OBVIOUS
    <3>3. n - d <= n - e
      BY <2>3, <2>4, <3>2
    <3> QED BY <1>1, <2>4, <3>3
  <2>6. Gcd(a, b) \in common
    BY <1>2, <1>4, <2>4, <2>5
  <2> QED BY <1>1, <2>6 DEF Divides
<1> QED BY <1>3, <1>4

-----------------------------------------------------------------------------
(* Products and sums of products. *)

Number == Int \cup {Dynamic}

(* The sequences of n elements of S. *)
Row(n, S) == [1 .. n -> S]

(* Sequences are functions on 1 .. n, and the other way round.             *)
LEMMA RowIsSeq ==
    ASSUME NEW n \in Nat, NEW S, NEW f \in Row(n, S)
    PROVE  f \in Seq(S) /\ Len(f) = n /\ DOMAIN f = 1 .. n
BY DEF Row

LEMMA TimesFacts ==
    /\ \A a, b \in Number : Times(a, b) \in Number
    /\ \A a, b \in Extent : Times(a, b) \in Extent
    /\ \A a, b \in Int : Times(a, b) = a * b
BY DynamicAssumption DEF Number, Extent, Times, IsDynamic

LEMMA ProductsUnfold ==
    ASSUME NEW n \in Nat, NEW s \in Row(n, Number)
    PROVE  /\ Products(s) \in [0 .. n -> Number]
           /\ Products(s)[0] = 1
           /\ \A k \in 1 .. n : Products(s)[k] = Times(Products(s)[k - 1], s[k])
<1> USE DEF Row
<1> DEFINE G == [k \in 1 .. n |-> [v \in Number |-> Times(v, s[k])]]
           Solves(f) == f = [k \in 0 .. n |-> IF k = 0 THEN 1 ELSE Times(f[k - 1], s[k])]
<1>1. G \in [1 .. n -> [Number -> Number]]
  BY TimesFacts
<1>2. 1 \in Number
  BY DEF Number
<1>3. PICK f : Solution(f, n, Number, 1, G)
  <2> HIDE DEF G
  <2> QED BY <1>1, <1>2, RecursionExists DEF Rules
<1>4. f \in [0 .. n -> Number] /\ f[0] = 1 /\ \A k \in 1 .. n : f[k] = G[k][f[k - 1]]
  BY <1>3 DEF Solution
<1>5. Solves(f)
  <2>1. ASSUME NEW k \in 0 .. n, k # 0 PROVE f[k] = Times(f[k - 1], s[k])
    <3>1. k \in 1 .. n /\ k - 1 \in 0 .. n
      BY <2>1
    <3> QED BY <1>4, <3>1
  <2> QED BY <1>4, <2>1
<1>6. Len(s) = n
  BY RowIsSeq
<1>7. Products(s) = CHOOSE p : Solves(p)
  BY <1>6 DEF Products
<1>8. Solves(Products(s))
  <2> HIDE DEF Solves
  <2> QED BY <1>5, <1>7
<1>9. ASSUME NEW p, Solves(p)
      PROVE  /\ DOMAIN p = 0 .. n /\ p[0] = 1
             /\ \A k \in 1 .. n : p[k] = Times(p[k - 1], s[k])
  BY <1>9
<1> DEFINE p == Products(s)
<1>10. /\ DOMAIN p = 0 .. n /\ p[0] = 1
      /\ \A k \in 1 .. n : p[k] = Times(p[k - 1], s[k])
  <2> HIDE DEF Solves, p
  <2> QED BY <1>8, <1>9 DEF p
<1>11. p = [k \in 0 .. n |-> p[k]]
  <2> HIDE DEF p, Solves
  <2>1. \A q : Solves(q) => q = [k \in 0 .. n |-> q[k]]
    BY DEF Solves
  <2> QED BY <1>8, <2>1 DEF p
<1>12. \A k \in 0 .. n : p[k] \in Number
  <2> DEFINE T == {m \in 0 .. n : p[m] \in Number}
  <2> HIDE DEF p
  <2>1. 0 \in T
    BY <1>2, <1>10
  <2>2. ASSUME NEW m \in T, m \in 0 .. n - 1 PROVE m + 1 \in T
    BY <1>10, <2>2, TimesFacts
  <2> HIDE DEF T
  <2>3. \A m \in 0 .. n : m \in T
    BY <2>1, <2>2, UpTo
  <2> QED BY <2>3 DEF T
<1> HIDE DEF p
<1>13. p \in [0 .. n -> Number]
  BY <1>11, <1>12
<1> QED BY <1>10, <1>13 DEF p

LEMMA DotsUnfold ==
    ASSUME NEW n \in Nat, NEW a \in Row(n, Int), NEW b \in Row(n, Int)
    PROVE  /\ Dots(a, b) \in [0 .. n -> Int]
           /\ Dots(a, b)[0] = 0
           /\ \A k \in 1 .. n : Dots(a, b)[k] = Dots(a, b)[k - 1] + a[k] * b[k]
           /\ Dot(a, b) = Dots(a, b)[n] /\ Dot(a, b) \in Int
<1> USE DEF Row
<1> DEFINE G == [k \in 1 .. n |-> [v \in Int |-> v + a[k] * b[k]]]
           Solves(f) == f = [k \in 0 .. n |-> IF k = 0 THEN 0 ELSE f[k - 1] + a[k] * b[k]]
<1>1. G \in [1 .. n -> [Int -> Int]]
  OBVIOUS
<1>2. PICK f : Solution(f, n, Int, 0, G)
  <2> HIDE DEF G
  <2> QED BY <1>1, 0 \in Int, RecursionExists DEF Rules
<1>3. f \in [0 .. n -> Int] /\ f[0] = 0 /\ \A k \in 1 .. n : f[k] = G[k][f[k - 1]]
  BY <1>2 DEF Solution
<1>4. Solves(f)
  <2>1. ASSUME NEW k \in 0 .. n, k # 0 PROVE f[k] = f[k - 1] + a[k] * b[k]
    <3>1. k \in 1 .. n /\ k - 1 \in 0 .. n
      BY <2>1
    <3> QED BY <1>3, <3>1
  <2> QED BY <1>3, <2>1
<1>5. Len(a) = n
  BY RowIsSeq
<1>6. Dots(a, b) = CHOOSE p : Solves(p)
  BY <1>5 DEF Dots
<1>7. Solves(Dots(a, b))
  <2> HIDE DEF Solves
  <2> QED BY <1>4, <1>6
<1>8. ASSUME NEW p, Solves(p)
      PROVE  /\ DOMAIN p = 0 .. n /\ p[0] = 0
             /\ \A k \in 1 .. n : p[k] = p[k - 1] + a[k] * b[k]
  BY <1>8
<1> DEFINE p == Dots(a, b)
<1>9. /\ DOMAIN p = 0 .. n /\ p[0] = 0
      /\ \A k \in 1 .. n : p[k] = p[k - 1] + a[k] * b[k]
  <2> HIDE DEF Solves, p
  <2> QED BY <1>7, <1>8 DEF p
<1>10. p = [k \in 0 .. n |-> p[k]]
  <2> HIDE DEF p, Solves
  <2>1. \A q : Solves(q) => q = [k \in 0 .. n |-> q[k]]
    BY DEF Solves
  <2> QED BY <1>7, <2>1 DEF p
<1>11. \A k \in 0 .. n : p[k] \in Int
  <2> DEFINE T == {m \in 0 .. n : p[m] \in Int}
  <2> HIDE DEF p
  <2>1. 0 \in T
    BY <1>9
  <2>2. ASSUME NEW m \in T, m \in 0 .. n - 1 PROVE m + 1 \in T
    <3>1. m + 1 \in 1 .. n /\ p[m + 1] = p[m] + a[m + 1] * b[m + 1]
      <4>1. m + 1 \in 1 .. n /\ (m + 1) - 1 = m
        BY <2>2
      <4> QED BY <1>9, <4>1
    <3>2. a[m + 1] * b[m + 1] \in Int
      BY <3>1
    <3> QED BY <2>2, <3>1, <3>2
  <2> HIDE DEF T
  <2>3. \A m \in 0 .. n : m \in T
    BY <2>1, <2>2, UpTo
  <2> QED BY <2>3 DEF T
<1> HIDE DEF p
<1>12. p \in [0 .. n -> Int]
  BY <1>10, <1>11
<1>13. Dot(a, b) = p[n] /\ p[n] \in Int
  BY <1>5, <1>11 DEF p, Dot
<1> QED BY <1>9, <1>12, <1>13 DEF p

(* Sums of the same products differ by as much.                            *)
SameProducts(a, b, m, c, d, p, w) == \A i \in 1 .. w : a[m + i] * b[m + i] = c[p + i] * d[p + i]

LEMMA DotsShift ==
    ASSUME NEW n \in Nat, NEW a \in Row(n, Int), NEW b \in Row(n, Int),
           NEW l \in Nat, NEW c \in Row(l, Int), NEW d \in Row(l, Int),
           NEW m \in 0 .. n, NEW p \in 0 .. l, NEW w \in Nat, m + w <= n, p + w <= l,
           SameProducts(a, b, m, c, d, p, w)
    PROVE  Dots(a, b)[m + w] - Dots(a, b)[m] = Dots(c, d)[p + w] - Dots(c, d)[p]
<1> USE DEF Row, SameProducts
<1> DEFINE f == Dots(a, b)
           g == Dots(c, d)
           T == {k \in 0 .. w : f[m + k] - f[m] = g[p + k] - g[p]}
<1>1. f \in [0 .. n -> Int] /\ \A k \in 1 .. n : f[k] = f[k - 1] + a[k] * b[k]
  BY DotsUnfold
<1>2. g \in [0 .. l -> Int] /\ \A k \in 1 .. l : g[k] = g[k - 1] + c[k] * d[k]
  BY DotsUnfold
<1> HIDE DEF f, g
<1>3. 0 \in T
  BY <1>1, <1>2
<1>4. ASSUME NEW k \in T, k \in 0 .. w - 1 PROVE k + 1 \in T
  <2>1. m + (k + 1) \in 1 .. n /\ p + (k + 1) \in 1 .. l /\ k + 1 \in 1 .. w
    BY <1>4
  <2>2. /\ f[m + (k + 1)] = f[m + k] + a[m + (k + 1)] * b[m + (k + 1)]
        /\ g[p + (k + 1)] = g[p + k] + c[p + (k + 1)] * d[p + (k + 1)]
    <3>1. (m + (k + 1)) - 1 = m + k /\ (p + (k + 1)) - 1 = p + k
      BY <1>4
    <3> QED BY <1>1, <1>2, <2>1, <3>1
  <2>3. a[m + (k + 1)] * b[m + (k + 1)] = c[p + (k + 1)] * d[p + (k + 1)]
    BY <2>1
  <2>4. f[m + k] \in Int /\ f[m] \in Int /\ g[p + k] \in Int /\ g[p] \in Int
    BY <1>1, <1>2, <1>4
  <2>5. c[p + (k + 1)] * d[p + (k + 1)] \in Int
    BY <2>1
  <2>6. f[m + k] - f[m] = g[p + k] - g[p]
    BY <1>4
  <2>7. f[m + (k + 1)] - f[m] = g[p + (k + 1)] - g[p]
    <3> DEFINE e == c[p + (k + 1)] * d[p + (k + 1)]
    <3>1. e \in Int /\ f[m + (k + 1)] = f[m + k] + e /\ g[p + (k + 1)] = g[p + k] + e
      BY <2>2, <2>3, <2>5
    <3> HIDE DEF e
    <3>2. (f[m + k] + e) - f[m] = (g[p + k] + e) - g[p]
      <4> DEFINE u == f[m + k]  v == f[m]  y == g[p + k]  z == g[p]
      <4>1. u \in Int /\ v \in Int /\ y \in Int /\ z \in Int /\ u - v = y - z
        BY <2>4, <2>6
      <4> HIDE DEF u, v, y, z
      <4>2. (u + e) - v = (y + e) - z
        BY <3>1, <4>1
      <4> QED BY <4>2 DEF u, v, y, z
    <3> QED BY <3>1, <3>2
  <2> QED BY <1>4, <2>7
<1>5. \A k \in 0 .. w : k \in T
  <2> HIDE DEF T
  <2> QED BY <1>3, <1>4, UpTo
<1>6. w \in T
  <2> HIDE DEF T
  <2> QED BY <1>5
<1> QED BY <1>6 DEF f, g

(* A common factor of the elements of b is one of the sum.                 *)
LEMMA DotScales ==
    ASSUME NEW n \in Nat, NEW a \in Row(n, Int), NEW b \in Row(n, Int),
           NEW c \in Row(n, Int), NEW f \in Int, \A i \in 1 .. n : c[i] = f * b[i]
    PROVE  Dot(a, c) = f * Dot(a, b)
<1> USE DEF Row
<1> DEFINE p == Dots(a, b)
           q == Dots(a, c)
           T == {k \in 0 .. n : q[k] = f * p[k]}
<1>1. p \in [0 .. n -> Int] /\ p[0] = 0 /\ \A k \in 1 .. n : p[k] = p[k - 1] + a[k] * b[k]
  BY DotsUnfold
<1>2. q \in [0 .. n -> Int] /\ q[0] = 0 /\ \A k \in 1 .. n : q[k] = q[k - 1] + a[k] * c[k]
  BY DotsUnfold
<1>3. Dot(a, b) = p[n] /\ Dot(a, c) = q[n]
  BY DotsUnfold
<1> HIDE DEF p, q
<1>4. 0 \in T
  BY <1>1, <1>2
<1>5. ASSUME NEW k \in T, k \in 0 .. n - 1 PROVE k + 1 \in T
  <2>1. k + 1 \in 1 .. n /\ (k + 1) - 1 = k
    BY <1>5
  <2>2. p[k + 1] = p[k] + a[k + 1] * b[k + 1] /\ q[k + 1] = q[k] + a[k + 1] * c[k + 1]
    BY <1>1, <1>2, <2>1
  <2>3. c[k + 1] = f * b[k + 1] /\ p[k] \in Int /\ a[k + 1] \in Int /\ b[k + 1] \in Int
    BY <1>1, <1>5, <2>1
  <2>4. \A y, v, w \in Int : f * y + v * (f * w) = f * (y + v * w)
    OBVIOUS
  <2> QED BY <1>5, <2>2, <2>3, <2>4
<1>6. \A k \in 0 .. n : k \in T
  <2> HIDE DEF T
  <2> QED BY <1>4, <1>5, UpTo
<1> QED BY <1>3, <1>6

(* The sum over a + b is the sum of the sums.                              *)
LEMMA DotAdds ==
    ASSUME NEW n \in Nat, NEW a \in Row(n, Int), NEW b \in Row(n, Int),
           NEW c \in Row(n, Int), NEW s \in Row(n, Int), \A i \in 1 .. n : c[i] = a[i] + b[i]
    PROVE  Dot(c, s) = Dot(a, s) + Dot(b, s)
<1> USE DEF Row
<1> DEFINE p == Dots(a, s)
           q == Dots(b, s)
           r == Dots(c, s)
           T == {k \in 0 .. n : r[k] = p[k] + q[k]}
<1>1. p \in [0 .. n -> Int] /\ p[0] = 0 /\ \A k \in 1 .. n : p[k] = p[k - 1] + a[k] * s[k]
  BY DotsUnfold
<1>2. q \in [0 .. n -> Int] /\ q[0] = 0 /\ \A k \in 1 .. n : q[k] = q[k - 1] + b[k] * s[k]
  BY DotsUnfold
<1>3. r \in [0 .. n -> Int] /\ r[0] = 0 /\ \A k \in 1 .. n : r[k] = r[k - 1] + c[k] * s[k]
  BY DotsUnfold
<1>4. Dot(a, s) = p[n] /\ Dot(b, s) = q[n] /\ Dot(c, s) = r[n]
  BY DotsUnfold
<1> HIDE DEF p, q, r
<1>5. 0 \in T
  BY <1>1, <1>2, <1>3
<1>6. ASSUME NEW k \in T, k \in 0 .. n - 1 PROVE k + 1 \in T
  <2>1. k + 1 \in 1 .. n /\ (k + 1) - 1 = k
    BY <1>6
  <2>2. /\ p[k + 1] = p[k] + a[k + 1] * s[k + 1]
        /\ q[k + 1] = q[k] + b[k + 1] * s[k + 1]
        /\ r[k + 1] = r[k] + c[k + 1] * s[k + 1]
    BY <1>1, <1>2, <1>3, <2>1
  <2>3. /\ c[k + 1] = a[k + 1] + b[k + 1] /\ p[k] \in Int /\ q[k] \in Int
        /\ a[k + 1] \in Int /\ b[k + 1] \in Int /\ s[k + 1] \in Int /\ r[k] = p[k] + q[k]
    BY <1>1, <1>2, <1>6, <2>1
  <2>4. \A y, z, v, w, u \in Int : (y + z) + (v + w) * u = (y + v * u) + (z + w * u)
    OBVIOUS
  <2> QED BY <1>6, <2>2, <2>3, <2>4
<1>7. \A k \in 0 .. n : k \in T
  <2> HIDE DEF T
  <2> QED BY <1>5, <1>6, UpTo
<1> QED BY <1>4, <1>7

-----------------------------------------------------------------------------
(* Parts of sequences. *)

LEMMA PartIsSeq ==
    ASSUME NEW n \in Nat, NEW S, NEW s \in Row(n, S), NEW from \in 1 .. n, NEW to \in from .. n
    PROVE  /\ SubSeq(s, from, to) \in Row(to - from + 1, S)
           /\ \A i \in 1 .. to - from + 1 : SubSeq(s, from, to)[i] = s[from + i - 1]
           /\ to - from + 1 \in Nat \ {0}
<1> USE DEF Row
<1> DEFINE p == SubSeq(s, from, to)
<1>1. \A i \in from .. to : s[i] \in S
  OBVIOUS
<1>2. from \in Int /\ to \in Int /\ from <= to
  OBVIOUS
<1>3. /\ p \in Seq(S) /\ Len(p) = to - from + 1
      /\ \A i \in 1 .. to - from + 1 : p[i] = s[from + i - 1]
  BY <1>1, <1>2, SubSeqProperties
<1> HIDE DEF p
<1>4. p \in [1 .. Len(p) -> S]
  BY <1>3, LenProperties
<1> QED BY <1>2, <1>3, <1>4 DEF p

(* The length of a sequence of n elements after w replaced from .. to.     *)
After(n, from, to, w) == n - (to - from + 1) + w

LEMMA ReplacedFacts ==
    ASSUME NEW n \in Nat, NEW S, NEW s \in Row(n, S), NEW from \in 1 .. n, NEW to \in from .. n,
           NEW w \in Nat, NEW new \in Row(w, S)
    PROVE  /\ Replaced(s, from, to, new) \in Row(After(n, from, to, w), S)
           /\ After(n, from, to, w) \in Nat
           /\ \A i \in 1 .. After(n, from, to, w) :
                  /\ i < from => Replaced(s, from, to, new)[i] = s[i]
                  /\ from <= i /\ i < from + w => Replaced(s, from, to, new)[i] = new[i - from + 1]
                  /\ from + w <= i => Replaced(s, from, to, new)[i] = s[i - w + (to - from + 1)]
<1> USE DEF Row
<1> DEFINE a == SubSeq(s, 1, from - 1)
           b == SubSeq(s, to + 1, n)
           l == After(n, from, to, w)
           r == Replaced(s, from, to, new)
<1>1. Len(s) = n /\ new \in Seq(S) /\ Len(new) = w
  BY RowIsSeq
<1>2. from \in 1 .. n /\ to \in from .. n /\ l \in Nat /\ l = n - (to - from + 1) + w
  BY DEF After
<1>3. /\ a \in Seq(S) /\ Len(a) = from - 1
      /\ \A i \in 1 .. from - 1 : a[i] = s[i]
  <2>1. \A i \in 1 .. from - 1 : s[i] \in S
    OBVIOUS
  <2>2. /\ a \in Seq(S) /\ Len(a) = IF 1 <= from - 1 THEN (from - 1) - 1 + 1 ELSE 0
        /\ \A i \in 1 .. (from - 1) - 1 + 1 : a[i] = s[1 + i - 1]
    BY <2>1, from - 1 \in Int, SubSeqProperties
  <2> HIDE DEF a
  <2> QED BY <2>2
<1>4. /\ b \in Seq(S) /\ Len(b) = n - to
      /\ \A i \in 1 .. n - to : b[i] = s[to + i]
  <2>1. \A i \in to + 1 .. n : s[i] \in S
    OBVIOUS
  <2>2. /\ b \in Seq(S) /\ Len(b) = IF to + 1 <= n THEN n - (to + 1) + 1 ELSE 0
        /\ \A i \in 1 .. n - (to + 1) + 1 : b[i] = s[(to + 1) + i - 1]
    BY <2>1, to + 1 \in Int, SubSeqProperties
  <2> HIDE DEF b
  <2> QED BY <2>2
<1>5. r = (a \o new) \o b
  BY <1>1 DEF Replaced
<1> HIDE DEF a, b, l, r
<1>6. /\ a \o new \in Seq(S) /\ Len(a \o new) = from - 1 + w
      /\ \A i \in 1 .. from - 1 + w : (a \o new)[i] = IF i <= from - 1 THEN a[i] ELSE new[i - (from - 1)]
  <2>1. /\ a \o new \in Seq(S) /\ Len(a \o new) = Len(a) + Len(new)
        /\ \A i \in 1 .. Len(a) + Len(new) :
               (a \o new)[i] = IF i <= Len(a) THEN a[i] ELSE new[i - Len(a)]
    BY <1>1, <1>3, ConcatProperties
  <2> QED BY <1>1, <1>3, <2>1, Zenon
<1>7. /\ r \in Seq(S) /\ Len(r) = (from - 1 + w) + (n - to)
      /\ \A i \in 1 .. (from - 1 + w) + (n - to) :
             r[i] = IF i <= from - 1 + w THEN (a \o new)[i] ELSE b[i - (from - 1 + w)]
  <2> DEFINE c == a \o new
  <2>1. c \in Seq(S)
    BY <1>6
  <2> HIDE DEF c
  <2>2. /\ c \o b \in Seq(S) /\ Len(c \o b) = Len(c) + Len(b)
        /\ \A i \in 1 .. Len(c) + Len(b) :
               (c \o b)[i] = IF i <= Len(c) THEN c[i] ELSE b[i - Len(c)]
    BY <1>4, <2>1, ConcatProperties
  <2>3. r = c \o b /\ Len(c) = from - 1 + w /\ Len(b) = n - to
    BY <1>4, <1>5, <1>6 DEF c
  <2> QED BY <2>2, <2>3, Zenon DEF c
<1>8. (from - 1 + w) + (n - to) = l
  BY <1>2
<1>9. r \in [1 .. l -> S]
  BY <1>7, <1>8, LenProperties
<1>10. ASSUME NEW i \in 1 .. l
       PROVE  /\ i < from => r[i] = s[i]
              /\ from <= i /\ i < from + w => r[i] = new[i - from + 1]
              /\ from + w <= i => r[i] = s[i - w + (to - from + 1)]
  <2>1. CASE i < from
    <3>1. i <= from - 1 + w /\ i \in 1 .. from - 1 /\ i \in 1 .. from - 1 + w
      BY <1>2, <2>1
    <3> QED BY <1>3, <1>6, <1>7, <1>8, <2>1, <3>1
  <2>2. CASE ~ i < from /\ i < from + w
    <3>1. i <= from - 1 + w /\ i \in 1 .. from - 1 + w /\ ~ i <= from - 1 /\ i - (from - 1) = i - from + 1
      BY <1>2, <2>2
    <3> QED BY <1>6, <1>7, <1>8, <2>2, <3>1, SMTT(60)
  <2>3. CASE ~ i < from + w
    <3>1. /\ ~ i <= from - 1 + w /\ i - (from - 1 + w) \in 1 .. n - to /\ ~ i < from
          /\ to + (i - (from - 1 + w)) = i - w + (to - from + 1)
      BY <2>3, <1>2
    <3> QED BY <1>4, <1>7, <1>8, <2>3, <3>1
  <2> QED BY <2>1, <2>2, <2>3
<1> QED BY <1>2, <1>9, <1>10 DEF r, l

-----------------------------------------------------------------------------
(* What is stated of sizes and strides, and what they are.  Products keep  *)
(* either relation, so whatever a view computes from sizes and strides, it *)
(* may compute from what is stated of them.                                *)
Fitting == {r \in Extent \X Int : IsDynamic(r[1]) \/ r[1] = r[2]}
Dividing == {r \in Nat \X Int : Divides(r[1], r[2])}
Sizes == Nat \X Nat

Kind == {Fitting, Dividing, Sizes}
Related(R, n, s, t) == \A k \in 1 .. n : <<s[k], t[k]>> \in R

LEMMA KindFacts ==
    ASSUME NEW R \in Kind
    PROVE  /\ R \subseteq Number \X Int /\ <<1, 1>> \in R
           /\ \A a, b, c, d : <<a, b>> \in R /\ <<c, d>> \in R => <<Times(a, c), Times(b, d)>> \in R
<1>1. ASSUME NEW a, NEW b, NEW c, NEW d, <<a, b>> \in Fitting, <<c, d>> \in Fitting
      PROVE  <<Times(a, c), Times(b, d)>> \in Fitting
  <2>1. /\ a \in Extent /\ b \in Int /\ (a = Dynamic \/ a = b)
        /\ c \in Extent /\ d \in Int /\ (c = Dynamic \/ c = d)
    BY <1>1 DEF Fitting, IsDynamic
  <2>2. Times(a, c) \in Extent /\ Times(b, d) = b * d /\ b * d \in Int
    BY <2>1, TimesFacts
  <2>3. Times(a, c) = Dynamic \/ Times(a, c) = b * d
    BY <2>1 DEF Times, IsDynamic
  <2> QED BY <2>2, <2>3 DEF Fitting, IsDynamic
<1>2. ASSUME NEW a, NEW b, NEW c, NEW d, <<a, b>> \in Dividing, <<c, d>> \in Dividing
      PROVE  <<Times(a, c), Times(b, d)>> \in Dividing
  <2>1. a \in Nat /\ b \in Int /\ Divides(a, b) /\ c \in Nat /\ d \in Int /\ Divides(c, d)
    BY <1>2 DEF Dividing
  <2>2. Divides(a * c, b * d)
    BY <2>1, DividesProduct
  <2>3. Times(a, c) = a * c /\ Times(b, d) = b * d /\ a * c \in Nat /\ b * d \in Int
    BY <2>1, TimesFacts
  <2> QED BY <2>2, <2>3 DEF Dividing
<1>3. ASSUME NEW a, NEW b, NEW c, NEW d, <<a, b>> \in Sizes, <<c, d>> \in Sizes
      PROVE  <<Times(a, c), Times(b, d)>> \in Sizes
  <2>1. a \in Nat /\ b \in Nat /\ c \in Nat /\ d \in Nat
    BY <1>3 DEF Sizes
  <2>2. Times(a, c) = a * c /\ Times(b, d) = b * d /\ a * c \in Nat /\ b * d \in Nat
    BY <2>1, TimesFacts
  <2> QED BY <2>2 DEF Sizes
<1>4. <<1, 1>> \in Fitting /\ <<1, 1>> \in Dividing /\ <<1, 1>> \in Sizes
  BY DividesItself DEF Fitting, Dividing, Sizes, Extent
<1>5. R \subseteq Number \X Int
  BY DEF Kind, Fitting, Dividing, Sizes, Number, Extent
<1> QED BY <1>1, <1>2, <1>3, <1>4, <1>5 DEF Kind

LEMMA RelatedProducts ==
    ASSUME NEW R \in Kind, NEW n \in Nat,
           NEW s \in Row(n, Number), NEW t \in Row(n, Int), Related(R, n, s, t)
    PROVE  /\ \A k \in 0 .. n : <<Products(s)[k], Products(t)[k]>> \in R
           /\ <<Product(s), Product(t)>> \in R
<1> USE DEF Row
<1> DEFINE p == Products(s)
           q == Products(t)
           T == {k \in 0 .. n : <<p[k], q[k]>> \in R}
<1>1. p[0] = 1 /\ \A k \in 1 .. n : p[k] = Times(p[k - 1], s[k])
  BY ProductsUnfold
<1>2. q[0] = 1 /\ \A k \in 1 .. n : q[k] = Times(q[k - 1], t[k])
  <2>1. t \in [1 .. n -> Number]
    BY DEF Number
  <2> QED BY <2>1, ProductsUnfold
<1>3. Product(s) = p[n] /\ Product(t) = q[n]
  BY RowIsSeq DEF Product
<1> HIDE DEF p, q
<1>4. 0 \in T
  BY <1>1, <1>2, KindFacts
<1>5. ASSUME NEW m \in T, m \in 0 .. n - 1 PROVE m + 1 \in T
  <2>1. m + 1 \in 1 .. n /\ (m + 1) - 1 = m
    BY <1>5
  <2>2. p[m + 1] = Times(p[m], s[m + 1]) /\ q[m + 1] = Times(q[m], t[m + 1])
    BY <1>1, <1>2, <2>1
  <2>3. <<p[m], q[m]>> \in R /\ <<s[m + 1], t[m + 1]>> \in R
    BY <1>5, <2>1 DEF Related
  <2>4. <<p[m + 1], q[m + 1]>> \in R
    BY <2>2, <2>3, KindFacts
  <2> QED BY <2>1, <2>4
<1>6. \A m \in 0 .. n : m \in T
  <2> HIDE DEF T
  <2> QED BY <1>4, <1>5, UpTo
<1> QED BY <1>3, <1>6 DEF p, q

LEMMA RelatedCanonical ==
    ASSUME NEW R \in Kind, NEW n \in Nat,
           NEW s \in Row(n, Number), NEW t \in Row(n, Int), Related(R, n, s, t),
           NEW a, NEW b, <<a, b>> \in R
    PROVE  /\ Related(R, n, Canonical(a, s), Canonical(b, t))
           /\ DOMAIN Canonical(a, s) = 1 .. n /\ DOMAIN Canonical(b, t) = 1 .. n
           /\ Canonical(a, s) = [k \in 1 .. n |-> Canonical(a, s)[k]]
           /\ Canonical(b, t) = [k \in 1 .. n |-> Canonical(b, t)[k]]
<1> USE DEF Row
<1>1. DOMAIN s = 1 .. n /\ DOMAIN t = 1 .. n
  OBVIOUS
<1>2. ASSUME NEW k \in 1 .. n PROVE <<Canonical(a, s)[k], Canonical(b, t)[k]>> \in R
  <2>1. k - 1 \in 0 .. n
    OBVIOUS
  <2>2. <<Products(s)[k - 1], Products(t)[k - 1]>> \in R
    BY <2>1, RelatedProducts
  <2>3. Canonical(a, s)[k] = Times(a, Products(s)[k - 1]) /\ Canonical(b, t)[k] = Times(b, Products(t)[k - 1])
    BY <1>1 DEF Canonical
  <2> QED BY <2>2, <2>3, KindFacts
<1> QED BY <1>1, <1>2 DEF Related, Canonical

LEMMA RelatedReplaced ==
    ASSUME NEW R, NEW n \in Nat, NEW S, NEW T,
           NEW s \in Row(n, S), NEW t \in Row(n, T), Related(R, n, s, t),
           NEW from \in 1 .. n, NEW to \in from .. n, NEW w \in Nat,
           NEW u \in Row(w, S), NEW v \in Row(w, T), Related(R, w, u, v)
    PROVE  Related(R, After(n, from, to, w), Replaced(s, from, to, u), Replaced(t, from, to, v))
<1> SUFFICES ASSUME NEW i \in 1 .. After(n, from, to, w)
             PROVE  <<Replaced(s, from, to, u)[i], Replaced(t, from, to, v)[i]>> \in R
  BY DEF Related
<1>1. /\ i < from => Replaced(s, from, to, u)[i] = s[i]
      /\ from <= i /\ i < from + w => Replaced(s, from, to, u)[i] = u[i - from + 1]
      /\ from + w <= i => Replaced(s, from, to, u)[i] = s[i - w + (to - from + 1)]
  BY ReplacedFacts
<1>2. /\ i < from => Replaced(t, from, to, v)[i] = t[i]
      /\ from <= i /\ i < from + w => Replaced(t, from, to, v)[i] = v[i - from + 1]
      /\ from + w <= i => Replaced(t, from, to, v)[i] = t[i - w + (to - from + 1)]
  BY ReplacedFacts
<1>3. CASE i < from
  <2>1. i \in 1 .. n
    BY <1>3 DEF After
  <2> QED BY <1>1, <1>2, <1>3, <2>1 DEF Related
<1>4. CASE from <= i /\ i < from + w
  <2>1. i - from + 1 \in 1 .. w
    BY <1>4 DEF After
  <2> QED BY <1>1, <1>2, <1>4, <2>1 DEF Related
<1>5. CASE from + w <= i
  <2>1. i - w + (to - from + 1) \in 1 .. n
    BY <1>5 DEF After
  <2> QED BY <1>1, <1>2, <1>5, <2>1 DEF Related
<1>6. i \in Int
  BY DEF After
<1> QED BY <1>3, <1>4, <1>5, <1>6

LEMMA RelatedPart ==
    ASSUME NEW R, NEW n \in Nat, NEW S, NEW T,
           NEW s \in Row(n, S), NEW t \in Row(n, T), Related(R, n, s, t),
           NEW from \in 1 .. n, NEW to \in from .. n
    PROVE  Related(R, to - from + 1, SubSeq(s, from, to), SubSeq(t, from, to))
<1>1. ASSUME NEW i \in 1 .. to - from + 1
      PROVE  <<SubSeq(s, from, to)[i], SubSeq(t, from, to)[i]>> \in R
  <2>1. from + i - 1 \in 1 .. n
    OBVIOUS
  <2>2. SubSeq(s, from, to)[i] = s[from + i - 1] /\ SubSeq(t, from, to)[i] = t[from + i - 1]
    BY PartIsSeq
  <2> QED BY <2>1, <2>2 DEF Related
<1> QED BY <1>1 DEF Related

LEMMA RowGrows ==
    ASSUME NEW n \in Nat, NEW S, NEW T, S \subseteq T, NEW s \in Row(n, S)
    PROVE  s \in Row(n, T)
BY DEF Row

LEMMA RowOfOne ==
    ASSUME NEW S, NEW v \in S
    PROVE  <<v>> \in Row(1, S) /\ <<v>>[1] = v
BY DEF Row

LEMMA RowElement ==
    ASSUME NEW n \in Nat, NEW S, NEW s \in Row(n, S), NEW k \in 1 .. n
    PROVE  s[k] \in S
BY DEF Row

LEMMA RowEqual ==
    ASSUME NEW n \in Nat, NEW S, NEW s \in Row(n, S), NEW t \in Row(n, S), \A k \in 1 .. n : s[k] = t[k]
    PROVE  s = t
BY DEF Row

LEMMA RelatedElement ==
    ASSUME NEW R, NEW n \in Nat, NEW s, NEW t, Related(R, n, s, t), NEW k \in 1 .. n
    PROVE  <<s[k], t[k]>> \in R
BY DEF Related

(* A canonical stride has the entries of its relation.                     *)
LEMMA CanonicalIsRow ==
    ASSUME NEW R \in Kind, NEW S, R \subseteq S \X Int, NEW n \in Nat,
           NEW s \in Row(n, Number), NEW t \in Row(n, Int), Related(R, n, s, t),
           NEW a, NEW b, <<a, b>> \in R
    PROVE  Canonical(a, s) \in Row(n, S) /\ Canonical(b, t) \in Row(n, Int)
<1> DEFINE c == Canonical(a, s)
           d == Canonical(b, t)
<1>1. Related(R, n, c, d)
  BY RelatedCanonical
<1>2. c = [k \in 1 .. n |-> c[k]] /\ d = [k \in 1 .. n |-> d[k]]
  BY RelatedCanonical
<1> HIDE DEF c, d
<1>3. \A k \in 1 .. n : <<c[k], d[k]>> \in S \X Int
  BY <1>1 DEF Related
<1>4. \A k \in 1 .. n : c[k] \in S /\ d[k] \in Int
  BY <1>3
<1>5. c \in [1 .. n -> S] /\ d \in [1 .. n -> Int]
  BY <1>2, <1>4
<1> QED BY <1>5 DEF c, d, Row

(* expand, on what is stated of a view and what is so.                     *)
LEMMA RelatedSplit ==
    ASSUME NEW R \in Kind, NEW S, S \subseteq Number, R \subseteq S \X Int, NEW n \in Nat,
           NEW a \in Row(n, S), NEW b \in Row(n, Int), Related(R, n, a, b), NEW m \in 1 .. n,
           NEW w \in Nat, NEW u \in Row(w, S), NEW v \in Row(w, Int), Related(R, w, u, v)
    PROVE  /\ Replaced(a, m, m, Canonical(a[m], u)) \in Row(After(n, m, m, w), S)
           /\ Replaced(b, m, m, Canonical(b[m], v)) \in Row(After(n, m, m, w), Int)
           /\ Related(R, After(n, m, m, w), Replaced(a, m, m, Canonical(a[m], u)),
                                            Replaced(b, m, m, Canonical(b[m], v)))
<1> DEFINE c == Canonical(a[m], u)
           d == Canonical(b[m], v)
<1>1. <<a[m], b[m]>> \in R
  BY RelatedElement
<1>2. u \in Row(w, Number)
  BY RowGrows
<1>3. c \in Row(w, S) /\ d \in Row(w, Int)
  BY <1>1, <1>2, CanonicalIsRow
<1>4. Related(R, w, c, d)
  BY <1>1, <1>2, RelatedCanonical
<1>5. m \in m .. n
  OBVIOUS
<1> HIDE DEF c, d
<1>6. Replaced(a, m, m, c) \in Row(After(n, m, m, w), S)
  BY <1>3, <1>5, ReplacedFacts
<1>7. Replaced(b, m, m, d) \in Row(After(n, m, m, w), Int)
  BY <1>3, <1>5, ReplacedFacts
<1>8. Related(R, After(n, m, m, w), Replaced(a, m, m, c), Replaced(b, m, m, d))
  BY <1>3, <1>4, <1>5, RelatedReplaced
<1> QED BY <1>6, <1>7, <1>8 DEF c, d

(* fuse, likewise.                                                         *)
LEMMA RelatedJoin ==
    ASSUME NEW R \in Kind, NEW S, S \subseteq Number, R \subseteq S \X Int, NEW n \in Nat,
           NEW s \in Row(n, S), NEW t \in Row(n, Int), Related(R, n, s, t),
           NEW from \in 1 .. n, NEW to \in from .. n
    PROVE  /\ Product(SubSeq(s, from, to)) \in S
           /\ <<Product(SubSeq(s, from, to)), Product(SubSeq(t, from, to))>> \in R
<1> DEFINE c == SubSeq(s, from, to)
           d == SubSeq(t, from, to)
           w == to - from + 1
<1>1. c \in Row(w, S) /\ d \in Row(w, Int) /\ w \in Nat
  BY PartIsSeq
<1>2. Related(R, w, c, d)
  BY RelatedPart
<1> HIDE DEF c, d, w
<1>3. c \in Row(w, Number)
  BY <1>1, RowGrows
<1>4. <<Product(c), Product(d)>> \in R
  BY <1>1, <1>2, <1>3, RelatedProducts
<1>5. Product(c) \in S
  BY <1>4
<1> QED BY <1>4, <1>5 DEF c, d

LEMMA RelatedOne ==
    ASSUME NEW R, NEW S, NEW T, NEW n \in Nat,
           NEW s \in Row(n, S), NEW t \in Row(n, T), Related(R, n, s, t),
           NEW from \in 1 .. n, NEW to \in from .. n,
           NEW u \in S, NEW v \in T, <<u, v>> \in R
    PROVE  /\ Replaced(s, from, to, <<u>>) \in Row(After(n, from, to, 1), S)
           /\ Replaced(t, from, to, <<v>>) \in Row(After(n, from, to, 1), T)
           /\ Related(R, After(n, from, to, 1), Replaced(s, from, to, <<u>>), Replaced(t, from, to, <<v>>))
<1>1. <<u>> \in Row(1, S) /\ <<v>> \in Row(1, T)
  BY RowOfOne
<1>2. Related(R, 1, <<u>>, <<v>>)
  <2>1. ASSUME NEW k \in 1 .. 1 PROVE <<<<u>>[k], <<v>>[k]>> \in R
    <3>1. k = 1
      OBVIOUS
    <3> QED BY <3>1, RowOfOne
  <2> QED BY <2>1 DEF Related
<1>3. Replaced(s, from, to, <<u>>) \in Row(After(n, from, to, 1), S)
  BY <1>1, ReplacedFacts
<1>4. Replaced(t, from, to, <<v>>) \in Row(After(n, from, to, 1), T)
  BY <1>1, ReplacedFacts
<1>5. Related(R, After(n, from, to, 1), Replaced(s, from, to, <<u>>), Replaced(t, from, to, <<v>>))
  BY <1>1, <1>2, RelatedReplaced
<1> QED BY <1>3, <1>4, <1>5

LEMMA SeqIsRow ==
    ASSUME NEW S, NEW s \in Seq(S)
    PROVE  s \in Row(Len(s), S) /\ Len(s) \in Nat /\ DOMAIN s = 1 .. Len(s)
BY LenProperties DEF Row

-----------------------------------------------------------------------------
(* What is known of a view and of an index is so: the part of the          *)
(* inductive invariant that types and gcd_analysis are about.              *)
Stated(R, S, n, d, dope) ==
    /\ d.shape \in Row(n, S) /\ Related(R, n, d.shape, dope.shape)
    /\ d.stride \in Row(n, S) /\ Related(R, n, d.stride, dope.stride)

Described(v, sz) ==
    \E n \in Nat :
        /\ v.dope.shape \in Row(n, Nat) /\ v.dope.stride \in Row(n, Int)
        /\ Stated(Fitting, Extent, n, v.ty, v.dope)
        /\ Stated(Dividing, Nat, n, v.gcd, v.dope)
        /\ v.ptr \in Int /\ v.gcd.offset \in Nat /\ Divides(v.gcd.offset * sz, v.ptr)

Claimed(c) == c \in [run : Int, gcd : Nat] /\ Divides(c.gcd, c.run)

Known ==
    /\ size \in {2, 4}
    /\ Claimed(x)
    /\ group # <<>> => \E p \in Params : group = <<p>> /\ Legal(p, size)
    /\ view # NoView => Described(view, size)

LEMMA KindsOfPairs ==
    /\ Fitting \in Kind /\ Fitting \subseteq Extent \X Int /\ Extent \subseteq Number
    /\ Dividing \in Kind /\ Dividing \subseteq Nat \X Int /\ Nat \subseteq Number
    /\ Sizes \in Kind /\ Sizes \subseteq Nat \X Int
BY DEF Kind, Fitting, Dividing, Sizes, Extent, Number

(* A member of a parameter.                                                *)
LEMMA MemberIsTyped ==
    ASSUME NEW p \in Params, NEW k \in DOMAIN p.members
    PROVE  LET n == Len(p.ty.shape)
               m == p.members[k]
           IN  /\ n \in Nat
               /\ p.ty.shape \in Row(n, Extent) /\ p.ty.stride \in Row(n, Extent)
               /\ m.ptr \in Nat /\ m.shape \in Row(n, Nat) /\ m.stride \in Row(n, Int)
<1> DEFINE n == Len(p.ty.shape)
           m == p.members[k]
<1>1. /\ p.ty.shape \in Seq(Extent) /\ p.ty.stride \in Seq(Extent) /\ Len(p.ty.stride) = n
      /\ p.members \in Seq([ptr : Nat, shape : Seq(Nat), stride : Seq(Int)])
      /\ Len(m.shape) = n /\ Len(m.stride) = n
  BY ParamsAssumption
<1>2. m \in [ptr : Nat, shape : Seq(Nat), stride : Seq(Int)]
  BY <1>1, LenProperties, ZenonT(60)
<1> HIDE DEF n, m
<1>3. m.ptr \in Nat /\ m.shape \in Seq(Nat) /\ m.stride \in Seq(Int)
  BY <1>2
<1>4. p.ty.shape \in Row(n, Extent) /\ n \in Nat /\ p.ty.stride \in Row(n, Extent)
  BY <1>1, SeqIsRow DEF n
<1>5. m.shape \in Row(n, Nat) /\ m.stride \in Row(n, Int)
  BY <1>1, <1>3, SeqIsRow
<1> QED BY <1>3, <1>4, <1>5 DEF n, m

(* The run-time sizes and strides of a legal member are its own.           *)
LEMMA DopeOfMember ==
    ASSUME NEW p \in Params, NEW sz, Legal(p, sz), NEW k \in DOMAIN p.members
    PROVE  DopeOf(p.ty, p.members[k]) = [shape |-> p.members[k].shape, stride |-> p.members[k].stride]
<1> DEFINE n == Len(p.ty.shape)
           m == p.members[k]
           Par(static, run) == [i \in DOMAIN static |-> IF IsDynamic(static[i]) THEN run[i] ELSE static[i]]
<1>1. /\ p.ty.shape \in Row(n, Extent) /\ p.ty.stride \in Row(n, Extent)
      /\ m.shape \in Row(n, Nat) /\ m.stride \in Row(n, Int)
  BY MemberIsTyped
<1>2. Fits(p.ty.shape, m.shape) /\ Fits(p.ty.stride, m.stride)
  BY DEF Legal
<1> HIDE DEF n, m
<1>3. ASSUME NEW static, NEW run, NEW S, NEW T, static \in Row(n, S), run \in Row(n, T), Fits(static, run)
      PROVE  Par(static, run) = run
  <2>1. DOMAIN static = 1 .. n /\ run = [i \in 1 .. n |-> run[i]] /\ DOMAIN run = 1 .. n
    BY <1>3 DEF Row
  <2>2. \A i \in 1 .. n : (IF IsDynamic(static[i]) THEN run[i] ELSE static[i]) = run[i]
    BY <1>3, <2>1 DEF Fits
  <2> QED BY <2>1, <2>2
<1>4. Par(p.ty.shape, m.shape) = m.shape
  BY <1>1, <1>2, <1>3
<1>5. Par(p.ty.stride, m.stride) = m.stride
  BY <1>1, <1>2, <1>3
<1>6. DopeOf(p.ty, m) = [shape |-> Par(p.ty.shape, m.shape), stride |-> Par(p.ty.stride, m.stride)]
  BY DEF DopeOf
<1> QED BY <1>4, <1>5, <1>6 DEF m

LEMMA FittingMeans ==
    ASSUME NEW n \in Nat, NEW s \in Row(n, Extent), NEW t \in Row(n, Int)
    PROVE  Related(Fitting, n, s, t) <=> Fits(s, t)
<1>1. DOMAIN t = 1 .. n /\ (\A k \in 1 .. n : s[k] \in Extent /\ t[k] \in Int)
  BY DEF Row
<1> QED BY <1>1 DEF Related, Fitting, Fits

LEMMA DividingMeans ==
    ASSUME NEW n \in Nat, NEW s \in Row(n, Nat), NEW t \in Row(n, Int)
    PROVE  Related(Dividing, n, s, t) <=> \A k \in 1 .. n : Divides(s[k], t[k])
<1>1. \A k \in 1 .. n : s[k] \in Nat /\ t[k] \in Int
  BY DEF Row
<1> QED BY <1>1 DEF Related, Dividing

LEMMA ClaimsAreSizes ==
    ASSUME NEW attr \in Seq(Nat), NEW n \in Nat, NEW static \in Row(n, Extent)
    PROVE  Claims(attr, static) \in Row(n, Nat)
<1>1. DOMAIN static = 1 .. n /\ \A k \in 1 .. n : static[k] \in Extent
  BY DEF Row
<1>2. ASSUME NEW k \in 1 .. n
      PROVE  (IF k <= Len(attr) THEN attr[k] ELSE IF IsDynamic(static[k]) THEN 1 ELSE static[k]) \in Nat
  <2>1. k <= Len(attr) => attr[k] \in Nat
    BY LenProperties
  <2>2. ~ IsDynamic(static[k]) => static[k] \in Nat
    BY <1>1 DEF IsDynamic, Extent
  <2> QED BY <2>1, <2>2
<1> QED BY <1>1, <1>2 DEF Claims, Row

(* A memref parameter, and a memref loaded from a group.                   *)
LEMMA ParameterDescribed ==
    ASSUME NEW p \in Params, NEW sz \in {2, 4}, Legal(p, sz), NEW k \in DOMAIN p.members
    PROVE  Described(ViewOf(p, p.members[k], sz), sz)
<1> DEFINE n == Len(p.ty.shape)
           m == p.members[k]
           v == ViewOf(p, m, sz)
           g == KnownMemrefInfo(p, sz)
<1>1. /\ n \in Nat /\ p.ty.shape \in Row(n, Extent) /\ p.ty.stride \in Row(n, Extent)
      /\ m.ptr \in Nat /\ m.shape \in Row(n, Nat) /\ m.stride \in Row(n, Int)
  BY MemberIsTyped
<1>2. /\ v.ty = p.ty /\ v.ptr = m.ptr /\ v.gcd = g
      /\ v.dope.shape = m.shape /\ v.dope.stride = m.stride
  <2>1. DopeOf(p.ty, m) = [shape |-> m.shape, stride |-> m.stride]
    BY DopeOfMember
  <2> HIDE DEF m, g
  <2> QED BY <2>1 DEF ViewOf, g
<1>3. /\ p.alignment % sz = 0 /\ m.ptr % (g.offset * sz) = 0
      /\ Fits(p.ty.shape, m.shape) /\ Fits(p.ty.stride, m.stride)
      /\ \A d \in DOMAIN m.shape : Divides(g.shape[d], m.shape[d]) /\ Divides(g.stride[d], m.stride[d])
  BY DEF Legal
<1>4. /\ g.shape = Claims(p.shape_gcd, p.ty.shape) /\ g.stride = Claims(p.stride_gcd, p.ty.stride)
      /\ g.offset = (IF p.alignment = 0 THEN DefaultAlignment ELSE p.alignment) \div sz
  BY DEF KnownMemrefInfo
<1>5. p.alignment \in Nat /\ p.shape_gcd \in Seq(Nat) /\ p.stride_gcd \in Seq(Nat)
  BY ParamsAssumption
<1> HIDE DEF n, m, v, g
<1>6. g.shape \in Row(n, Nat) /\ g.stride \in Row(n, Nat)
  BY <1>1, <1>4, <1>5, ClaimsAreSizes
<1>7. m.shape \in Row(n, Int)
  BY <1>1, RowGrows, Nat \subseteq Int
<1>8. Related(Fitting, n, p.ty.shape, m.shape) /\ Related(Fitting, n, p.ty.stride, m.stride)
  BY <1>1, <1>3, <1>7, FittingMeans
<1>9. Related(Dividing, n, g.shape, m.shape) /\ Related(Dividing, n, g.stride, m.stride)
  <2>1. DOMAIN m.shape = 1 .. n
    BY <1>1 DEF Row
  <2> QED BY <1>1, <1>3, <1>6, <1>7, <2>1, DividingMeans
<1>10. g.offset \in Nat /\ Divides(g.offset * sz, m.ptr)
  <2> DEFINE a == IF p.alignment = 0 THEN DefaultAlignment ELSE p.alignment
  <2>1. a \in Nat \ {0} /\ Divides(sz, a)
    <3>1. DefaultAlignment % sz = 0
      <4>1. sz = 2 \/ sz = 4
        OBVIOUS
      <4> QED BY <4>1, AlignmentAssumption
    <3> QED BY <1>3, <1>5, <3>1, AlignmentAssumption DEF Divides
  <2> HIDE DEF a
  <2>2. a \div sz \in Int /\ a = sz * (a \div sz)
    BY <2>1, Division DEF Divides
  <2>3. g.offset = a \div sz
    BY <1>4 DEF a
  <2> DEFINE o == g.offset
  <2>4. o \in Int /\ a = sz * o
    BY <2>2, <2>3
  <2> HIDE DEF o
  <2>5. o \in Nat \ {0}
    <3>1. sz = 2 \/ sz = 4
      OBVIOUS
    <3> QED BY <2>1, <2>4, <3>1
  <2>6. o * sz \in Nat \ {0}
    <3>1. sz = 2 \/ sz = 4
      OBVIOUS
    <3> QED BY <2>5, <3>1
  <2>7. Divides(o * sz, m.ptr)
    BY <1>3, <2>6 DEF Divides, o
  <2> QED BY <2>5, <2>7 DEF o
<1>11. Stated(Fitting, Extent, n, v.ty, v.dope) /\ Stated(Dividing, Nat, n, v.gcd, v.dope)
  BY <1>1, <1>2, <1>6, <1>8, <1>9 DEF Stated
<1>12. Described(v, sz)
  BY <1>1, <1>2, <1>10, <1>11 DEF Described
<1> QED BY <1>12 DEF v, m

(* A local memref: its alignment divides the stack pointer, and holds      *)
(* elements.                                                               *)
LEMMA StackAlignmentFacts ==
    ASSUME NEW ptr \in Nat, NEW sz \in Nat \ {0}, ptr % sz = 0
    PROVE  /\ StackAlignment(ptr, sz) \in Nat
           /\ Divides(sz, StackAlignment(ptr, sz)) /\ Divides(StackAlignment(ptr, sz), ptr)
<1> DEFINE N == DefaultAlignment
           Ok(a) == a \in Nat \ {0} /\ Divides(sz, a) /\ Divides(a, ptr)
           S == {a \in Nat \ {0} : Divides(sz, a) /\ Divides(a, ptr)}
           step(a) == IF a < N /\ ptr % (2 * a) = 0 THEN 2 * a ELSE a
           G == [k \in 1 .. N |-> [a \in S |-> step(a)]]
           Solves(f) == f = [k \in 0 .. N |->
                               IF k = 0 THEN sz
                               ELSE IF f[k - 1] < N /\ ptr % (2 * f[k - 1]) = 0 THEN 2 * f[k - 1]
                               ELSE f[k - 1]]
<1>1. N \in Nat
  BY AlignmentAssumption
<1>2. sz \in S
  BY DividesItself DEF Divides
<1>3. ASSUME NEW a \in S PROVE step(a) \in S
  <2>1. CASE a < N /\ ptr % (2 * a) = 0
    <3>1. 2 * a \in Nat \ {0} /\ Divides(2 * a, ptr)
      BY <2>1 DEF Divides
    <3>2. Divides(sz, a * 2)
      BY <1>3, DividesMultiple
    <3>3. a * 2 = 2 * a
      OBVIOUS
    <3> QED BY <2>1, <3>1, <3>2, <3>3
  <2>2. CASE ~ (a < N /\ ptr % (2 * a) = 0)
    BY <2>2
  <2> QED BY <2>1, <2>2
<1>4. G \in [1 .. N -> [S -> S]]
  <2> HIDE DEF step, S, N
  <2> QED BY <1>3
<1>5. PICK f : Solution(f, N, S, sz, G)
  <2> HIDE DEF G, S, N
  <2> QED BY <1>1, <1>2, <1>4, RecursionExists DEF Rules
<1>6. f \in [0 .. N -> S] /\ f[0] = sz /\ \A k \in 1 .. N : f[k] = G[k][f[k - 1]]
  BY <1>5 DEF Solution
<1>7. ASSUME NEW k \in 0 .. N, k # 0 PROVE f[k] = step(f[k - 1])
  <2>1. k \in 1 .. N /\ k - 1 \in 0 .. N
    BY <1>1, <1>7
  <2>2. f[k - 1] \in S /\ f[k] = G[k][f[k - 1]]
    BY <1>6, <2>1
  <2> HIDE DEF step, S, N
  <2> QED BY <2>1, <2>2
<1>8. Solves(f)
  <2> HIDE DEF S, N, G
  <2>1. f = [k \in 0 .. N |-> f[k]]
    BY <1>6
  <2>2. \A k \in 0 .. N : f[k] = IF k = 0 THEN sz ELSE step(f[k - 1])
    <3> HIDE DEF step
    <3> QED BY <1>6, <1>7
  <2> QED BY <2>1, <2>2
<1>9. ASSUME NEW g, Solves(g) PROVE \A k \in 0 .. N : g[k] \in S
  <2> DEFINE T == {k \in 0 .. N : g[k] \in S}
  <2> HIDE DEF S, N
  <2>1. g[0] = sz /\ \A k \in 0 .. N : k # 0 => g[k] = step(g[k - 1])
    BY <1>1, <1>9
  <2>2. 0 \in T
    BY <1>1, <1>2, <2>1
  <2>3. ASSUME NEW m \in T, m \in 0 .. N - 1 PROVE m + 1 \in T
    <3>1. m + 1 \in 0 .. N /\ m + 1 # 0 /\ (m + 1) - 1 = m
      BY <1>1, <2>3
    <3>2. g[m + 1] = step(g[m]) /\ g[m] \in S
      BY <2>1, <2>3, <3>1
    <3> HIDE DEF step
    <3> QED BY <1>3, <3>1, <3>2
  <2> HIDE DEF T
  <2>4. \A m \in 0 .. N : m \in T
    BY <1>1, <2>2, <2>3, UpTo
  <2> QED BY <2>4 DEF T
<1> DEFINE c == CHOOSE g : Solves(g)
<1>10. Solves(c)
  <2> HIDE DEF Solves
  <2> QED BY <1>8
<1>11. c[N] \in S
  <2> HIDE DEF Solves, c, S, N
  <2> QED BY <1>1, <1>9, <1>10
<1>12. StackAlignment(ptr, sz) = c[N]
  BY DEF StackAlignment
<1> QED BY <1>11, <1>12

LEMMA AllocaDescribed ==
    ASSUME NEW a \in Allocas, NEW sz \in {2, 4}, a.stack_ptr % sz = 0
    PROVE  Described(AllocaView(a, sz), sz)
<1> DEFINE n == Len(a.ty.shape)
           v == AllocaView(a, sz)
           al == StackAlignment(a.stack_ptr, sz)
<1>1. /\ a.ty.shape \in Seq(Nat) /\ a.ty.stride \in Seq(Nat) /\ Len(a.ty.stride) = n
      /\ a.stack_ptr \in Nat
  BY AllocasAssumption
<1>2. n \in Nat /\ a.ty.shape \in Row(n, Nat) /\ a.ty.stride \in Row(n, Nat)
  BY <1>1, SeqIsRow
<1>3. /\ v.ty = a.ty /\ v.dope = a.ty /\ v.ptr = a.stack_ptr
      /\ v.gcd.offset = al \div sz /\ v.gcd.shape = a.ty.shape /\ v.gcd.stride = a.ty.stride
  BY DEF AllocaView
<1>4. v.gcd.offset \in Nat /\ Divides(v.gcd.offset * sz, v.ptr)
  <2>1. al \in Nat /\ Divides(sz, al) /\ Divides(al, a.stack_ptr)
    BY <1>1, StackAlignmentFacts
  <2> HIDE DEF al
  <2>2. al \div sz \in Int /\ al = sz * (al \div sz)
    BY <2>1, Division DEF Divides
  <2> DEFINE o == al \div sz
  <2>3. o \in Int /\ al = sz * o
    BY <2>2
  <2> HIDE DEF o
  <2>4. o \in Nat /\ o * sz = al
    <3>1. sz = 2 \/ sz = 4
      OBVIOUS
    <3> QED BY <2>1, <2>3, <3>1
  <2> QED BY <1>3, <2>1, <2>4 DEF o
<1> HIDE DEF n, v
<1>5. ASSUME NEW s \in Row(n, Nat)
      PROVE  /\ s \in Row(n, Extent) /\ s \in Row(n, Int)
             /\ Related(Fitting, n, s, s) /\ Related(Dividing, n, s, s)
  <2>1. \A k \in 1 .. n : s[k] \in Nat
    BY DEF Row
  <2>2. Nat \subseteq Extent /\ Nat \subseteq Int
    BY DEF Extent
  <2>3. \A k \in 1 .. n : Divides(s[k], s[k])
    BY <2>1, DividesItself
  <2>4. s \in Row(n, Extent) /\ s \in Row(n, Int)
    BY <1>2, <2>2, RowGrows
  <2> QED BY <2>1, <2>2, <2>3, <2>4 DEF Related, Fitting, Dividing
<1>6. Stated(Fitting, Extent, n, v.ty, v.dope) /\ Stated(Dividing, Nat, n, v.gcd, v.dope)
  BY <1>2, <1>3, <1>5 DEF Stated
<1> QED BY <1>1, <1>2, <1>3, <1>4, <1>5, <1>6 DEF Described, v

LEMMA InitKnown == Init => Known
<1> SUFFICES ASSUME Init PROVE Known
  OBVIOUS
<1>1. size \in {2, 4}
  BY DEF Init
<1>2. Claimed(x)
  <2>1. PICK v \in Arguments : x = Unclaimed(v)
    BY DEF Init
  <2>2. v \in Int
    BY OperandsAssumption
  <2>3. Divides(1, v)
    BY <2>2, DividesMeans, v = 1 * v
  <2> QED BY <2>1, <2>2, <2>3 DEF Claimed, Unclaimed
<1>3. CASE \E p \in {q \in Params : Legal(q, size)} :
              IF Len(p.members) = 1
              THEN /\ view = ViewOf(p, p.members[1], size)
                   /\ means = Elements(p.members[1].ptr, size, p.members[1])
                   /\ group = <<>>
              ELSE view = NoView /\ means = <<>> /\ group = <<p>>
  <2>1. PICK p \in Params :
            /\ Legal(p, size)
            /\ IF Len(p.members) = 1
               THEN view = ViewOf(p, p.members[1], size) /\ group = <<>>
               ELSE view = NoView /\ group = <<p>>
    BY <1>3
  <2>2. CASE Len(p.members) = 1
    <3>1. 1 \in DOMAIN p.members
      <4>1. p.members \in Seq([ptr : Nat, shape : Seq(Nat), stride : Seq(Int)])
        BY ParamsAssumption
      <4> QED BY <2>2, <4>1, SeqIsRow
    <3>2. Described(view, size)
      BY <1>1, <2>1, <2>2, <3>1, ParameterDescribed
    <3> QED BY <1>1, <1>2, <2>1, <2>2, <3>2 DEF Known
  <2>3. CASE Len(p.members) # 1
    BY <1>1, <1>2, <2>1, <2>3 DEF Known
  <2> QED BY <2>2, <2>3
<1>4. CASE \E a \in {b \in Allocas : b.stack_ptr % size = 0} :
              /\ view = AllocaView(a, size)
              /\ means = Elements(a.stack_ptr, size, a.ty)
              /\ group = <<>>
  <2>1. PICK a \in Allocas : a.stack_ptr % size = 0 /\ view = AllocaView(a, size) /\ group = <<>>
    BY <1>4
  <2>2. Described(view, size)
    BY <1>1, <2>1, AllocaDescribed
  <2> QED BY <1>1, <1>2, <2>1, <2>2 DEF Known
<1> QED BY <1>3, <1>4 DEF Init

-----------------------------------------------------------------------------
(* Index values. *)

LEMMA OperandClaimed ==
    ASSUME Known, NEW o \in Operands
    PROVE  Claimed(o)
<1>1. CASE o \in {Constant(c) : c \in Constants}
  <2>1. PICK c \in Int : o = Constant(c)
    BY <1>1, OperandsAssumption
  <2>2. Abs(c) \in Nat /\ Divides(Abs(c), c)
    <3>1. Abs(c) \in Nat /\ (c = Abs(c) \/ c = -Abs(c))
      BY AbsFacts
    <3> QED BY <3>1, DividesItself
  <2> QED BY <2>1, <2>2 DEF Claimed, Constant
<1>2. CASE o \in {Unclaimed(v) : v \in Arguments}
  <2>1. PICK v \in Int : o = Unclaimed(v)
    BY <1>2, OperandsAssumption
  <2>2. Divides(1, v)
    BY DividesMeans, v = 1 * v
  <2> QED BY <2>1, <2>2 DEF Claimed, Unclaimed
<1>3. CASE view # NoView /\ o \in {SizeOf(view, k) : k \in DOMAIN view.ty.shape}
  <2>1. PICK n \in Nat :
            /\ view.dope.shape \in Row(n, Nat)
            /\ Stated(Fitting, Extent, n, view.ty, view.dope)
            /\ Stated(Dividing, Nat, n, view.gcd, view.dope)
    BY <1>3 DEF Known, Described
  <2>2. PICK k \in DOMAIN view.ty.shape : o = SizeOf(view, k)
    BY <1>3
  <2>3. k \in 1 .. n
    BY <2>1, <2>2, RowIsSeq DEF Stated
  <2>4. /\ <<view.ty.shape[k], view.dope.shape[k]>> \in Fitting
        /\ <<view.gcd.shape[k], view.dope.shape[k]>> \in Dividing
    BY <2>1, <2>3 DEF Stated, Related
  <2>5. view.dope.shape[k] \in Nat
    BY <2>1, <2>3 DEF Row
  <2>6. o = [run |-> view.dope.shape[k],
             gcd |-> IF IsDynamic(view.ty.shape[k]) THEN view.gcd.shape[k] ELSE view.ty.shape[k]]
    BY <2>2 DEF SizeOf
  <2>7. CASE IsDynamic(view.ty.shape[k])
    BY <2>4, <2>6, <2>7 DEF Dividing, Claimed
  <2>8. CASE ~ IsDynamic(view.ty.shape[k])
    <3>1. view.ty.shape[k] = view.dope.shape[k]
      BY <2>4, <2>8 DEF Fitting
    <3>2. Divides(view.dope.shape[k], view.dope.shape[k])
      BY <2>5, DividesItself
    <3> QED BY <2>5, <2>6, <2>8, <3>1, <3>2 DEF Claimed
  <2> QED BY <2>7, <2>8
<1> QED BY <1>1, <1>2, <1>3 DEF Operands

LEMMA ArithClaimed ==
    ASSUME NEW a, Claimed(a), NEW b, Claimed(b), NEW op \in {"add", "sub", "mul"}
    PROVE  Claimed(Arith(op, a, b))
<1>1. /\ a.run \in Int /\ a.gcd \in Nat /\ Divides(a.gcd, a.run)
      /\ b.run \in Int /\ b.gcd \in Nat /\ Divides(b.gcd, b.run)
  BY DEF Claimed
<1> DEFINE g == Gcd(a.gcd, b.gcd)
<1>2. g \in Nat /\ Divides(g, a.gcd) /\ Divides(g, b.gcd)
  <2>1. a.gcd \in Int /\ b.gcd \in Int
    BY <1>1
  <2> QED BY <2>1, GcdDivides
<1> HIDE DEF g
<1>3. Divides(g, a.run) /\ Divides(g, b.run)
  BY <1>1, <1>2, DividesTransitive
<1>4. Divides(g, a.run + b.run) /\ Divides(g, a.run - b.run)
  BY <1>1, <1>2, <1>3, DividesSum
<1>5. Divides(a.gcd * b.gcd, a.run * b.run)
  BY <1>1, DividesProduct
<1>6. Arith(op, a, b) = CASE op = "add" -> [run |-> a.run + b.run, gcd |-> g]
                          [] op = "sub" -> [run |-> a.run - b.run, gcd |-> g]
                          [] op = "mul" -> [run |-> a.run * b.run, gcd |-> a.gcd * b.gcd]
  BY DEF Arith, g
<1>7. a.run + b.run \in Int /\ a.run - b.run \in Int /\ a.run * b.run \in Int /\ a.gcd * b.gcd \in Nat
  BY <1>1
<1>8. CASE op = "add"
  BY <1>2, <1>4, <1>6, <1>7, <1>8 DEF Claimed
<1>9. CASE op = "sub"
  BY <1>2, <1>4, <1>6, <1>7, <1>9 DEF Claimed
<1>10. CASE op = "mul"
  BY <1>5, <1>6, <1>7, <1>10 DEF Claimed
<1> QED BY <1>8, <1>9, <1>10

LEMMA QuotientClaimed ==
    ASSUME NEW a, Claimed(a), NEW c \in Int \ {0}
    PROVE  Claimed(Arith("div", a, Constant(c)))
<1> DEFINE d == Abs(c)
           q == Quotient(a.run, c)
<1>1. a.run \in Int /\ a.gcd \in Nat /\ Divides(a.gcd, a.run)
  BY DEF Claimed
<1>2. d \in Nat \ {0}
  BY DEF Abs
<1>3. Arith("div", a, Constant(c)) = [run |-> q, gcd |-> IF a.gcd % d = 0 THEN a.gcd \div d ELSE 1]
  BY DEF Arith, Constant
<1> DEFINE h == Abs(a.run)
           p == h \div d
<1>4. h \in Nat /\ (h = a.run \/ h = -a.run)
  BY <1>1, AbsFacts
<1>5. q = p \/ q = -p
  BY DEF Quotient
<1> HIDE DEF d, q, h, p
<1>6. p \in Int /\ q \in Int
  BY <1>2, <1>4, <1>5, Division DEF p
<1>7. CASE a.gcd % d = 0
  <2> DEFINE e == a.gcd \div d
  <2>1. e \in Int /\ a.gcd = d * e
    <3>1. a.gcd \in Int
      BY <1>1
    <3>2. /\ a.gcd \div d \in Int /\ a.gcd = d * (a.gcd \div d) + (a.gcd % d)
      BY <1>2, <3>1, Division
    <3> QED BY <1>2, <1>7, <3>1, <3>2
  <2> HIDE DEF e
  <2>2. e \in Nat
    BY <1>1, <1>2, <2>1
  <2>3. Divides(a.gcd, h)
    <3>1. Divides(a.gcd, 0) 
      BY <1>1, DividesItself
    <3>2. Divides(a.gcd, 0 - a.run)
      BY <1>1, <3>1, DividesSum
    <3>3. 0 - a.run = -a.run
      BY <1>1
    <3> QED BY <1>1, <1>4, <3>2, <3>3
  <2>4. PICK r \in Int : h = a.gcd * r
    <3>1. h \in Int
      BY <1>4
    <3> QED BY <1>1, <2>3, <3>1, DividesMeans
  <2>5. p = e * r
    <3>1. h = d * (e * r) + 0 /\ e * r \in Int
      <4>1. h = (d * e) * r
        BY <2>1, <2>4
      <4>2. (d * e) * r = d * (e * r) /\ d * (e * r) \in Int /\ e * r \in Int
        BY <1>2, <2>2, <2>4
      <4> QED BY <4>1, <4>2
    <3>2. 0 \in Nat /\ 0 < d
      BY <1>2
    <3> DEFINE k == e * r
    <3>3. k \in Int /\ h = d * k + 0
      BY <3>1
    <3> HIDE DEF k
    <3>4. (d * k + 0) \div d = k
      BY <1>2, <3>2, <3>3, DivisionUnique
    <3> QED BY <3>3, <3>4 DEF p, k
  <2>6. Divides(e, p)
    BY <2>2, <2>4, <2>5, <1>6, DividesMeans
  <2>7. Divides(e, 0 - p)
    BY <1>6, <2>2, <2>6, DividesItself, DividesSum
  <2>8. Divides(e, q)
    <3>1. 0 - p = -p
      BY <1>6
    <3> QED BY <1>5, <2>6, <2>7, <3>1
  <2> QED BY <1>3, <1>6, <1>7, <2>2, <2>8 DEF Claimed, e
<1>8. CASE a.gcd % d # 0
  <2>1. Divides(1, q)
    BY <1>6, DividesMeans, q = 1 * q
  <2> QED BY <1>3, <1>6, <1>8, <2>1 DEF Claimed
<1> QED BY <1>7, <1>8

LEMMA IndexSteps ==
    ASSUME Known, Take \/ Combine \/ TakeAbs \/ Loop
    PROVE  Known'
<1>1. ASSUME NEW c, Claimed(c), Assign(c) PROVE Known'
  BY <1>1 DEF Known, Assign
<1>2. Claimed(x) /\ \A o \in Operands : Claimed(o)
  BY OperandClaimed DEF Known
<1>3. CASE Take
  BY <1>1, <1>2, <1>3 DEF Take
<1>4. CASE Combine
  <2>1. CASE \E op \in {"add", "sub", "mul"}, o \in Operands : Assign(Arith(op, x, o))
    BY <1>1, <1>2, <2>1, ArithClaimed
  <2>2. CASE \E c \in Constants \ {0} : Assign(Arith("div", x, Constant(c)))
    <3>1. PICK c \in Int \ {0} : Assign(Arith("div", x, Constant(c)))
      BY <2>2, OperandsAssumption
    <3>2. Claimed(Arith("div", x, Constant(c)))
      BY <1>2, QuotientClaimed
    <3> QED BY <1>1, <3>1, <3>2
  <2> QED BY <1>4, <2>1, <2>2 DEF Combine
<1>5. CASE TakeAbs
  <2>1. Assign([x EXCEPT !.run = Abs(@)])
    BY <1>5 DEF TakeAbs
  <2> DEFINE c == [x EXCEPT !.run = Abs(@)]
  <2>2. x \in [run : Int, gcd : Nat] /\ Divides(x.gcd, x.run)
    BY <1>2 DEF Claimed
  <2>3. c \in [run : Int, gcd : Nat] /\ c.run = Abs(x.run) /\ c.gcd = x.gcd
    BY <2>2, AbsFacts
  <2>4. Divides(x.gcd, 0 - x.run)
    BY <2>2, DividesItself, DividesSum
  <2>5. 0 - x.run = -x.run
    BY <2>2
  <2>6. Divides(x.gcd, Abs(x.run))
    BY <2>2, <2>4, <2>5, AbsFacts
  <2>7. Claimed(c)
    BY <2>3, <2>6 DEF Claimed
  <2> QED BY <1>1, <2>1, <2>7
<1>6. CASE Loop
  <2>1. PICK step \in Operands, n \in 1 .. 2 :
            Assign([run |-> x.run + n * step.run, gcd |-> Gcd(x.gcd, step.gcd)])
    BY <1>6 DEF Loop
  <2> DEFINE g == Gcd(x.gcd, step.gcd)
             b == [run |-> n * step.run, gcd |-> step.gcd]
  <2>2. step.run \in Int /\ step.gcd \in Nat /\ Divides(step.gcd, step.run)
    BY <1>2 DEF Claimed
  <2>3. Divides(step.gcd, step.run * n)
    BY <2>2, DividesMultiple
  <2>4. step.run * n = n * step.run /\ n * step.run \in Int
    BY <2>2
  <2>5. Claimed(b)
    BY <2>2, <2>3, <2>4 DEF Claimed
  <2>6. Claimed(Arith("add", x, b))
    BY <1>2, <2>5, ArithClaimed
  <2>7. Arith("add", x, b) = [run |-> x.run + n * step.run, gcd |-> g]
    BY DEF Arith
  <2> QED BY <1>1, <2>1, <2>6, <2>7
<1> QED BY <1>3, <1>4, <1>5, <1>6

-----------------------------------------------------------------------------
(* Views of views. *)

LEMMA RunClaimed ==
    ASSUME Known, NEW v \in Extent
    PROVE  <<v, Run(v)>> \in Fitting /\ <<GcdOf(v), Run(v)>> \in Dividing
<1>1. x.run \in Int /\ x.gcd \in Nat /\ Divides(x.gcd, x.run)
  BY DEF Known, Claimed
<1>2. CASE IsDynamic(v)
  BY <1>1, <1>2 DEF Run, GcdOf, Fitting, Dividing
<1>3. CASE ~ IsDynamic(v)
  <2>1. v \in Nat
    BY <1>3 DEF IsDynamic, Extent
  <2>2. Divides(v, v)
    BY <2>1, DividesItself
  <2> QED BY <1>3, <2>1, <2>2 DEF Run, GcdOf, Fitting, Dividing
<1> QED BY <1>2, <1>3

LEMMA AcceptedFits ==
    ASSUME NEW n \in Nat, NEW s \in Row(n, Extent), NEW t, Related(Fitting, n, s, t),
           NEW r \in Accepted(s)
    PROVE  r \in Row(n, Extent) /\ Related(Fitting, n, r, t)
<1>1. DOMAIN s = 1 .. n /\ \A k \in 1 .. n : s[k] \in Extent
  BY DEF Row
<1>2. r \in [1 .. n -> Strides \cup {Dynamic}] /\ \A k \in 1 .. n : CheckStride(r[k], s[k])
  BY <1>1 DEF Accepted
<1>3. Strides \cup {Dynamic} \subseteq Extent
  BY OperandsAssumption DEF Extent
<1>4. ASSUME NEW k \in 1 .. n PROVE r[k] \in Extent /\ <<r[k], t[k]>> \in Fitting
  <2>1. r[k] \in Extent /\ (IsDynamic(r[k]) \/ r[k] = s[k])
    BY <1>2, <1>3 DEF CheckStride
  <2>2. <<s[k], t[k]>> \in Fitting
    BY DEF Related
  <2>3. t[k] \in Int /\ (IsDynamic(s[k]) \/ s[k] = t[k])
    BY <2>2 DEF Fitting
  <2> QED BY <2>1, <2>3 DEF Fitting
<1> QED BY <1>2, <1>4 DEF Row, Related

LEMMA ShowKnown ==
    ASSUME Known, NEW v, Show(v), Described(v, size)
    PROVE  Known'
<1>1. view' = v /\ size' = size /\ x' = x /\ group' = group
  BY DEF Show
<1>2. Described(view', size')
  BY <1>1
<1> QED BY <1>1, <1>2 DEF Known

LEMMA LoadGroupKnown ==
    ASSUME Known, LoadGroup
    PROVE  Known'
<1>1. PICK p \in Params : group = <<p>> /\ Legal(p, size)
  BY DEF Known, LoadGroup
<1>2. group[1] = p
  BY <1>1
<1>3. PICK k \in DOMAIN p.members : Show(ViewOf(p, p.members[k], size))
  BY <1>2 DEF LoadGroup
<1>4. size \in {2, 4}
  BY DEF Known
<1>5. Described(ViewOf(p, p.members[k], size), size)
  BY <1>1, <1>4, ParameterDescribed
<1> QED BY <1>3, <1>5, ShowKnown

(* What expand makes of a view.                                            *)
LEMMA ExpandDescribed ==
    ASSUME Known, NEW n \in Nat,
           view.dope.shape \in Row(n, Nat), view.dope.stride \in Row(n, Int),
           Stated(Fitting, Extent, n, view.ty, view.dope),
           Stated(Dividing, Nat, n, view.gcd, view.dope),
           view.ptr \in Int, view.gcd.offset \in Nat, Divides(view.gcd.offset * size, view.ptr),
           NEW m \in 1 .. n, NEW w \in Nat, NEW shape \in Row(w, Extent),
           NEW run \in Row(w, Nat), \A j \in 1 .. w : run[j] = Run(shape[j]),
           NEW claimed \in Row(w, Nat), \A j \in 1 .. w : claimed[j] = GcdOf(shape[j]),
           NEW stride \in Accepted(Replaced(view.ty.stride, m, m, Canonical(view.ty.stride[m], shape)))
    PROVE  Described([ty |-> [shape |-> Replaced(view.ty.shape, m, m, shape), stride |-> stride],
                      dope |-> [shape |-> Replaced(view.dope.shape, m, m, run),
                                stride |-> Replaced(view.dope.stride, m, m, Canonical(view.dope.stride[m], run))],
                      ptr |-> view.ptr,
                      gcd |-> [offset |-> view.gcd.offset,
                               shape |-> Replaced(view.gcd.shape, m, m, claimed),
                               stride |-> Replaced(view.gcd.stride, m, m, Canonical(view.gcd.stride[m], claimed))]],
                     size)
<1> DEFINE l == After(n, m, m, w)
<1>1. m \in m .. n
  OBVIOUS
<1>2. run \in Row(w, Int) /\ view.dope.shape \in Row(n, Int)
  BY RowGrows, Nat \subseteq Int
<1>3. Related(Fitting, w, shape, run) /\ Related(Dividing, w, claimed, run)
  <2>1. ASSUME NEW j \in 1 .. w PROVE <<shape[j], run[j]>> \in Fitting /\ <<claimed[j], run[j]>> \in Dividing
    <3>1. shape[j] \in Extent
      BY RowElement
    <3> QED BY <3>1, RunClaimed
  <2> QED BY <2>1 DEF Related
<1>4. /\ view.ty.shape \in Row(n, Extent) /\ Related(Fitting, n, view.ty.shape, view.dope.shape)
      /\ view.ty.stride \in Row(n, Extent) /\ Related(Fitting, n, view.ty.stride, view.dope.stride)
      /\ view.gcd.shape \in Row(n, Nat) /\ Related(Dividing, n, view.gcd.shape, view.dope.shape)
      /\ view.gcd.stride \in Row(n, Nat) /\ Related(Dividing, n, view.gcd.stride, view.dope.stride)
  BY DEF Stated
<1> DEFINE tsh == Replaced(view.ty.shape, m, m, shape)
           tst == Replaced(view.ty.stride, m, m, Canonical(view.ty.stride[m], shape))
           dsh == Replaced(view.dope.shape, m, m, run)
           dst == Replaced(view.dope.stride, m, m, Canonical(view.dope.stride[m], run))
           gsh == Replaced(view.gcd.shape, m, m, claimed)
           gst == Replaced(view.gcd.stride, m, m, Canonical(view.gcd.stride[m], claimed))
<1>5. tsh \in Row(l, Extent) /\ dsh \in Row(l, Nat) /\ gsh \in Row(l, Nat) /\ l \in Nat
  <2>1. tsh \in Row(l, Extent)
    BY <1>1, <1>4, ReplacedFacts
  <2>2. dsh \in Row(l, Nat)
    BY <1>1, ReplacedFacts
  <2>3. gsh \in Row(l, Nat)
    BY <1>1, <1>4, ReplacedFacts
  <2>4. l \in Nat
    BY DEF After
  <2> QED BY <2>1, <2>2, <2>3, <2>4
<1>6. Related(Fitting, l, tsh, dsh)
  BY <1>1, <1>3, <1>4, RelatedReplaced
<1>7. Related(Dividing, l, gsh, dsh)
  BY <1>1, <1>3, <1>4, RelatedReplaced
<1> DEFINE a == view.ty.stride
           b == view.dope.stride
           c == view.gcd.stride
<1>14. /\ a \in Row(n, Extent) /\ b \in Row(n, Int) /\ c \in Row(n, Nat)
       /\ Related(Fitting, n, a, b) /\ Related(Dividing, n, c, b)
  BY <1>4
<1> HIDE DEF a, b, c
<1>8. /\ tst \in Row(l, Extent) /\ dst \in Row(l, Int) /\ Related(Fitting, l, tst, dst)
  <2>1. Fitting \in Kind /\ Fitting \subseteq Extent \X Int /\ Extent \subseteq Number
    BY KindsOfPairs
  <2>2. /\ Replaced(a, m, m, Canonical(a[m], shape)) \in Row(l, Extent)
        /\ Replaced(b, m, m, Canonical(b[m], run)) \in Row(l, Int)
        /\ Related(Fitting, l, Replaced(a, m, m, Canonical(a[m], shape)),
                                Replaced(b, m, m, Canonical(b[m], run)))
    BY <1>2, <1>3, <1>14, <2>1, RelatedSplit
  <2> QED BY <2>2 DEF a, b
<1>9. /\ gst \in Row(l, Nat) /\ Related(Dividing, l, gst, dst)
  <2>1. Dividing \in Kind /\ Dividing \subseteq Nat \X Int /\ Nat \subseteq Number
    BY KindsOfPairs
  <2>2. /\ Replaced(c, m, m, Canonical(c[m], claimed)) \in Row(l, Nat)
        /\ Related(Dividing, l, Replaced(c, m, m, Canonical(c[m], claimed)),
                                 Replaced(b, m, m, Canonical(b[m], run)))
    BY <1>2, <1>3, <1>14, <2>1, RelatedSplit
  <2> QED BY <2>2 DEF b, c
<1> HIDE DEF l, tsh, dsh, gsh, dst, gst
<1>10. stride \in Row(l, Extent) /\ Related(Fitting, l, stride, dst)
  <2> HIDE DEF tst
  <2>1. stride \in Accepted(tst)
    BY DEF tst
  <2> QED BY <1>5, <1>8, <2>1, AcceptedFits
<1> DEFINE v == [ty |-> [shape |-> tsh, stride |-> stride],
                 dope |-> [shape |-> dsh, stride |-> dst],
                 ptr |-> view.ptr,
                 gcd |-> [offset |-> view.gcd.offset, shape |-> gsh, stride |-> gst]]
<1>11. Stated(Fitting, Extent, l, v.ty, v.dope) /\ Stated(Dividing, Nat, l, v.gcd, v.dope)
  BY <1>5, <1>6, <1>7, <1>8, <1>9, <1>10 DEF Stated
<1>12. /\ v.dope.shape \in Row(l, Nat) /\ v.dope.stride \in Row(l, Int)
       /\ v.ptr = view.ptr /\ v.gcd.offset = view.gcd.offset
  BY <1>5, <1>8
<1>13. Described(v, size)
  <2> HIDE DEF v
  <2> QED BY <1>5, <1>11, <1>12 DEF Described
<1> QED BY <1>13 DEF tsh, dsh, gsh, dst, gst

LEMMA ExpandKnown ==
    ASSUME Known, Expand
    PROVE  Known'
<1>1. view # NoView
  BY DEF Expand
<1>2. PICK n \in Nat :
          /\ view.dope.shape \in Row(n, Nat) /\ view.dope.stride \in Row(n, Int)
          /\ Stated(Fitting, Extent, n, view.ty, view.dope)
          /\ Stated(Dividing, Nat, n, view.gcd, view.dope)
          /\ view.ptr \in Int /\ view.gcd.offset \in Nat /\ Divides(view.gcd.offset * size, view.ptr)
  BY <1>1 DEF Known, Described
<1> DEFINE RunOf(shape) == [j \in DOMAIN shape |-> Run(shape[j])]
           ClaimOf(shape) == [j \in DOMAIN shape |-> GcdOf(shape[j])]
           NewView(m, shape, run, claimed, stride) ==
               [ty |-> [shape |-> Replaced(view.ty.shape, m, m, shape), stride |-> stride],
                dope |-> [shape |-> Replaced(view.dope.shape, m, m, run),
                          stride |-> Replaced(view.dope.stride, m, m, Canonical(view.dope.stride[m], run))],
                ptr |-> view.ptr,
                gcd |-> [offset |-> view.gcd.offset,
                         shape |-> Replaced(view.gcd.shape, m, m, claimed),
                         stride |-> Replaced(view.gcd.stride, m, m, Canonical(view.gcd.stride[m], claimed))]]
<1>3. PICK m \in DOMAIN view.ty.shape, shape \in ExpandShapes :
          /\ \A j \in DOMAIN RunOf(shape) : RunOf(shape)[j] > 0
          /\ \E stride \in Accepted(Replaced(view.ty.stride, m, m, Canonical(view.ty.stride[m], shape))) :
                 Show(NewView(m, shape, RunOf(shape), ClaimOf(shape), stride))
  BY ZenonT(60) DEF Expand
<1>4. PICK stride \in Accepted(Replaced(view.ty.stride, m, m, Canonical(view.ty.stride[m], shape))) :
          Show(NewView(m, shape, RunOf(shape), ClaimOf(shape), stride))
  <2> HIDE DEF NewView, RunOf, ClaimOf
  <2> QED BY <1>3
<1> DEFINE w == Len(shape)
           run == RunOf(shape)
           claimed == ClaimOf(shape)
<1>5. shape \in Row(w, Extent) /\ w \in Nat /\ DOMAIN shape = 1 .. w
  BY OperandsAssumption, SeqIsRow
<1>6. m \in 1 .. n
  BY <1>2, RowIsSeq DEF Stated
<1> HIDE DEF w
<1>7. ASSUME NEW j \in 1 .. w
      PROVE  run[j] = Run(shape[j]) /\ claimed[j] = GcdOf(shape[j]) /\ run[j] \in Nat /\ claimed[j] \in Nat
  <2>1. shape[j] \in Extent
    BY <1>5, RowElement
  <2>2. Run(shape[j]) \in Int /\ GcdOf(shape[j]) \in Nat
    BY <2>1, RunClaimed DEF Fitting, Dividing
  <2>3. run[j] = Run(shape[j]) /\ claimed[j] = GcdOf(shape[j])
    BY <1>5
  <2> HIDE DEF run, claimed
  <2>4. run[j] > 0
    BY <1>3, <1>5 DEF run
  <2> QED BY <2>2, <2>3, <2>4
<1>8. run \in Row(w, Nat) /\ claimed \in Row(w, Nat)
  <2>1. run = [j \in 1 .. w |-> run[j]] /\ claimed = [j \in 1 .. w |-> claimed[j]]
    BY <1>5
  <2> HIDE DEF run, claimed
  <2> QED BY <1>7, <2>1 DEF Row
<1> HIDE DEF run, claimed
<1>9. Described(NewView(m, shape, run, claimed, stride), size)
  BY <1>2, <1>4, <1>5, <1>6, <1>7, <1>8, ExpandDescribed
<1>10. Show(NewView(m, shape, run, claimed, stride))
  BY <1>4 DEF run, claimed
<1> HIDE DEF NewView
<1> QED BY <1>9, <1>10, ShowKnown

(* What fuse makes of a view. *)
LEMMA FuseDescribed ==
    ASSUME Known, NEW n \in Nat,
           view.dope.shape \in Row(n, Nat), view.dope.stride \in Row(n, Int),
           Stated(Fitting, Extent, n, view.ty, view.dope),
           Stated(Dividing, Nat, n, view.gcd, view.dope),
           view.ptr \in Int, view.gcd.offset \in Nat, Divides(view.gcd.offset * size, view.ptr),
           NEW from \in 1 .. n, NEW to \in from .. n,
           NEW stride \in Accepted(Replaced(view.ty.stride, from, to, <<view.ty.stride[from]>>))
    PROVE  Described([ty |-> [shape |-> Replaced(view.ty.shape, from, to,
                                            <<Product(SubSeq(view.ty.shape, from, to))>>),
                              stride |-> stride],
                      dope |-> [shape |-> Replaced(view.dope.shape, from, to,
                                              <<Product(SubSeq(view.dope.shape, from, to))>>),
                                stride |-> Replaced(view.dope.stride, from, to, <<view.dope.stride[from]>>)],
                      ptr |-> view.ptr,
                      gcd |-> [offset |-> view.gcd.offset,
                               shape |-> Replaced(view.gcd.shape, from, to,
                                             <<Product(SubSeq(view.gcd.shape, from, to))>>),
                               stride |-> Replaced(view.gcd.stride, from, to, <<view.gcd.stride[from]>>)]],
                     size)
<1> DEFINE l == After(n, from, to, 1)
           tp == Product(SubSeq(view.ty.shape, from, to))
           dp == Product(SubSeq(view.dope.shape, from, to))
           gp == Product(SubSeq(view.gcd.shape, from, to))
           tsh == Replaced(view.ty.shape, from, to, <<tp>>)
           tst == Replaced(view.ty.stride, from, to, <<view.ty.stride[from]>>)
           dsh == Replaced(view.dope.shape, from, to, <<dp>>)
           dst == Replaced(view.dope.stride, from, to, <<view.dope.stride[from]>>)
           gsh == Replaced(view.gcd.shape, from, to, <<gp>>)
           gst == Replaced(view.gcd.stride, from, to, <<view.gcd.stride[from]>>)
<1>1. view.dope.shape \in Row(n, Int)
  BY RowGrows, Nat \subseteq Int
<1>2. /\ view.ty.shape \in Row(n, Extent) /\ Related(Fitting, n, view.ty.shape, view.dope.shape)
      /\ view.ty.stride \in Row(n, Extent) /\ Related(Fitting, n, view.ty.stride, view.dope.stride)
      /\ view.gcd.shape \in Row(n, Nat) /\ Related(Dividing, n, view.gcd.shape, view.dope.shape)
      /\ view.gcd.stride \in Row(n, Nat) /\ Related(Dividing, n, view.gcd.stride, view.dope.stride)
  BY DEF Stated
<1>3. tp \in Extent /\ <<tp, dp>> \in Fitting
  BY <1>1, <1>2, KindsOfPairs, RelatedJoin
<1>4. gp \in Nat /\ <<gp, dp>> \in Dividing
  BY <1>1, <1>2, KindsOfPairs, RelatedJoin
<1>5. dp \in Nat
  <2>1. Related(Sizes, n, view.dope.shape, view.dope.shape)
    BY RowElement DEF Related, Sizes
  <2> QED BY <1>1, <2>1, KindsOfPairs, RelatedJoin
<1> HIDE DEF tp, dp, gp
<1>6. l \in Nat
  BY DEF After
<1>7. tsh \in Row(l, Extent) /\ dsh \in Row(l, Nat) /\ Related(Fitting, l, tsh, dsh)
  BY <1>2, <1>3, <1>5, RelatedOne
<1>8. gsh \in Row(l, Nat) /\ Related(Dividing, l, gsh, dsh)
  BY <1>2, <1>4, <1>5, RelatedOne
<1> DEFINE a == view.ty.stride
           b == view.dope.stride
           c == view.gcd.stride
<1>15. /\ a \in Row(n, Extent) /\ b \in Row(n, Int) /\ c \in Row(n, Nat)
       /\ Related(Fitting, n, a, b) /\ Related(Dividing, n, c, b)
  BY <1>2
<1> HIDE DEF a, b, c
<1>9. tst \in Row(l, Extent) /\ dst \in Row(l, Int) /\ Related(Fitting, l, tst, dst)
  <2>1. <<a[from], b[from]>> \in Fitting
    BY <1>15, RelatedElement
  <2>2. a[from] \in Extent /\ b[from] \in Int
    BY <1>15, RowElement
  <2>3. /\ Replaced(a, from, to, <<a[from]>>) \in Row(l, Extent)
        /\ Replaced(b, from, to, <<b[from]>>) \in Row(l, Int)
        /\ Related(Fitting, l, Replaced(a, from, to, <<a[from]>>), Replaced(b, from, to, <<b[from]>>))
    BY <1>15, <2>1, <2>2, RelatedOne
  <2> QED BY <2>3 DEF a, b
<1>10. gst \in Row(l, Nat) /\ Related(Dividing, l, gst, dst)
  <2>1. <<c[from], b[from]>> \in Dividing
    BY <1>15, RelatedElement
  <2>2. c[from] \in Nat /\ b[from] \in Int
    BY <1>15, RowElement
  <2>3. /\ Replaced(c, from, to, <<c[from]>>) \in Row(l, Nat)
        /\ Related(Dividing, l, Replaced(c, from, to, <<c[from]>>), Replaced(b, from, to, <<b[from]>>))
    BY <1>15, <2>1, <2>2, RelatedOne
  <2> QED BY <2>3 DEF b, c
<1> HIDE DEF l, tsh, dsh, gsh, dst, gst
<1>11. stride \in Row(l, Extent) /\ Related(Fitting, l, stride, dst)
  <2> HIDE DEF tst
  <2>1. stride \in Accepted(tst)
    BY DEF tst
  <2> QED BY <1>6, <1>9, <2>1, AcceptedFits
<1> DEFINE v == [ty |-> [shape |-> tsh, stride |-> stride],
                 dope |-> [shape |-> dsh, stride |-> dst],
                 ptr |-> view.ptr,
                 gcd |-> [offset |-> view.gcd.offset, shape |-> gsh, stride |-> gst]]
<1>12. Stated(Fitting, Extent, l, v.ty, v.dope) /\ Stated(Dividing, Nat, l, v.gcd, v.dope)
  BY <1>7, <1>8, <1>10, <1>11 DEF Stated
<1>13. /\ v.dope.shape \in Row(l, Nat) /\ v.dope.stride \in Row(l, Int)
       /\ v.ptr = view.ptr /\ v.gcd.offset = view.gcd.offset
  BY <1>7, <1>9
<1>14. Described(v, size)
  <2> HIDE DEF v
  <2> QED BY <1>6, <1>12, <1>13 DEF Described
<1> QED BY <1>14 DEF tsh, dsh, gsh, dst, gst, tp, dp, gp

LEMMA FuseKnown ==
    ASSUME Known, Fuse
    PROVE  Known'
<1>1. view # NoView
  BY DEF Fuse
<1>2. PICK n \in Nat :
          /\ view.dope.shape \in Row(n, Nat) /\ view.dope.stride \in Row(n, Int)
          /\ Stated(Fitting, Extent, n, view.ty, view.dope)
          /\ Stated(Dividing, Nat, n, view.gcd, view.dope)
          /\ view.ptr \in Int /\ view.gcd.offset \in Nat /\ Divides(view.gcd.offset * size, view.ptr)
  BY <1>1 DEF Known, Described
<1> DEFINE NewView(from, to, stride) ==
               [ty |-> [shape |-> Replaced(view.ty.shape, from, to,
                                     <<Product(SubSeq(view.ty.shape, from, to))>>),
                        stride |-> stride],
                dope |-> [shape |-> Replaced(view.dope.shape, from, to,
                                        <<Product(SubSeq(view.dope.shape, from, to))>>),
                          stride |-> Replaced(view.dope.stride, from, to, <<view.dope.stride[from]>>)],
                ptr |-> view.ptr,
                gcd |-> [offset |-> view.gcd.offset,
                         shape |-> Replaced(view.gcd.shape, from, to,
                                       <<Product(SubSeq(view.gcd.shape, from, to))>>),
                         stride |-> Replaced(view.gcd.stride, from, to, <<view.gcd.stride[from]>>)]]
<1>3. PICK from \in DOMAIN view.ty.shape, to \in DOMAIN view.ty.shape :
          /\ from < to
          /\ \E stride \in Accepted(Replaced(view.ty.stride, from, to, <<view.ty.stride[from]>>)) :
                 Show(NewView(from, to, stride))
  BY ZenonT(60) DEF Fuse
<1>4. PICK stride \in Accepted(Replaced(view.ty.stride, from, to, <<view.ty.stride[from]>>)) :
          Show(NewView(from, to, stride))
  <2> HIDE DEF NewView
  <2> QED BY <1>3
<1>5. from \in 1 .. n /\ to \in from .. n
  <2>1. DOMAIN view.ty.shape = 1 .. n
    BY <1>2, RowIsSeq DEF Stated
  <2> QED BY <1>3, <2>1
<1>6. Described(NewView(from, to, stride), size)
  BY <1>2, <1>4, <1>5, FuseDescribed
<1> HIDE DEF NewView
<1> QED BY <1>4, <1>6, ShowKnown

(* The modes a subview keeps, in order.                                    *)
LEMMA KeptUptoUnfold ==
    ASSUME NEW n \in Nat, NEW slices, DOMAIN slices = 1 .. n, Len(slices) = n
    PROVE  /\ KeptUpto(slices)[0] = <<>>
           /\ \A k \in 1 .. n : KeptUpto(slices)[k] = IF slices[k].size = 0 THEN KeptUpto(slices)[k - 1]
                                                      ELSE Append(KeptUpto(slices)[k - 1], k)
           /\ \A k \in 0 .. n : KeptUpto(slices)[k] \in Seq(1 .. n)
<1> DEFINE S == Seq(1 .. n)
           step(k, v) == IF slices[k].size = 0 THEN v ELSE Append(v, k)
           G == [k \in 1 .. n |-> [v \in S |-> step(k, v)]]
           Solves(f) == f = [k \in 0 .. n |-> IF k = 0 THEN <<>>
                                              ELSE IF slices[k].size = 0 THEN f[k - 1]
                                              ELSE Append(f[k - 1], k)]
<1>1. <<>> \in S
  OBVIOUS
<1>2. ASSUME NEW k \in 1 .. n, NEW v \in S PROVE step(k, v) \in S
  BY AppendProperties
<1>3. G \in [1 .. n -> [S -> S]]
  <2> HIDE DEF step, S
  <2> QED BY <1>2
<1>4. PICK f : Solution(f, n, S, <<>>, G)
  <2> HIDE DEF G, S
  <2> QED BY <1>1, <1>3, RecursionExists DEF Rules
<1>5. f \in [0 .. n -> S] /\ f[0] = <<>> /\ \A k \in 1 .. n : f[k] = G[k][f[k - 1]]
  BY <1>4 DEF Solution
<1>6. ASSUME NEW k \in 0 .. n, k # 0 PROVE f[k] = step(k, f[k - 1])
  <2>1. k \in 1 .. n /\ k - 1 \in 0 .. n
    BY <1>6
  <2>2. f[k - 1] \in S /\ f[k] = G[k][f[k - 1]]
    BY <1>5, <2>1
  <2> HIDE DEF step, S
  <2> QED BY <2>1, <2>2
<1>7. Solves(f)
  <2> HIDE DEF S, G
  <2>1. f = [k \in 0 .. n |-> f[k]]
    BY <1>5
  <2>2. \A k \in 0 .. n : f[k] = IF k = 0 THEN <<>> ELSE step(k, f[k - 1])
    <3> HIDE DEF step
    <3> QED BY <1>5, <1>6
  <2> QED BY <2>1, <2>2
<1>8. ASSUME NEW g, Solves(g)
      PROVE  g[0] = <<>> /\ \A k \in 1 .. n : g[k] = step(k, g[k - 1])
  <2>1. DOMAIN g = 0 .. n /\ g[0] = <<>>
    BY <1>8
  <2>2. ASSUME NEW k \in 1 .. n PROVE g[k] = step(k, g[k - 1])
    <3>1. k \in 0 .. n /\ k # 0
      OBVIOUS
    <3>2. \A i \in 0 .. n : g[i] = IF i = 0 THEN <<>> ELSE step(i, g[i - 1])
      <4> HIDE DEF S, G
      <4> QED BY <1>8, Zenon
    <3> HIDE DEF Solves, step
    <3> QED BY <3>1, <3>2
  <2> QED BY <2>1, <2>2
<1> DEFINE c == CHOOSE g : Solves(g)
<1>9. Solves(c)
  <2> HIDE DEF Solves
  <2> QED BY <1>7
<1>10. c[0] = <<>> /\ \A k \in 1 .. n : c[k] = step(k, c[k - 1])
  <2> HIDE DEF Solves, c
  <2> QED BY <1>8, <1>9
<1>11. c = KeptUpto(slices)
  BY DEF KeptUpto
<1> HIDE DEF c
<1>12. \A k \in 0 .. n : c[k] \in S
  <2> DEFINE T == {k \in 0 .. n : c[k] \in S}
  <2> HIDE DEF S
  <2>1. 0 \in T
    BY <1>1, <1>10
  <2>2. ASSUME NEW m \in T, m \in 0 .. n - 1 PROVE m + 1 \in T
    <3>1. m + 1 \in 1 .. n /\ (m + 1) - 1 = m
      BY <2>2
    <3>2. c[m + 1] = step(m + 1, c[m]) /\ c[m] \in S
      BY <1>10, <2>2, <3>1
    <3> HIDE DEF step
    <3> QED BY <1>2, <3>1, <3>2
  <2> HIDE DEF T
  <2>3. \A m \in 0 .. n : m \in T
    BY <2>1, <2>2, UpTo
  <2> QED BY <2>3 DEF T
<1> QED BY <1>10, <1>11, <1>12

LEMMA PickIsRow ==
    ASSUME NEW n \in Nat, NEW q \in Nat, NEW ks \in Row(q, 1 .. n), NEW S, NEW s \in Row(n, S)
    PROVE  Pick(s, ks) \in Row(q, S)
<1>1. DOMAIN ks = 1 .. q /\ (\A j \in 1 .. q : ks[j] \in 1 .. n) /\ \A k \in 1 .. n : s[k] \in S
  BY DEF Row
<1> QED BY <1>1 DEF Pick, Row

LEMMA PickRelated ==
    ASSUME NEW R, NEW n \in Nat, NEW q \in Nat, NEW ks \in Row(q, 1 .. n), NEW S, NEW T,
           NEW s \in Row(n, S), NEW t \in Row(n, T), Related(R, n, s, t)
    PROVE  Pick(s, ks) \in Row(q, S) /\ Pick(t, ks) \in Row(q, T) /\ Related(R, q, Pick(s, ks), Pick(t, ks))
<1>1. DOMAIN ks = 1 .. q /\ \A j \in 1 .. q : ks[j] \in 1 .. n
  BY DEF Row
<1>2. \A j \in 1 .. q : Pick(s, ks)[j] = s[ks[j]] /\ Pick(t, ks)[j] = t[ks[j]]
  BY <1>1 DEF Pick
<1>3. \A k \in 1 .. n : s[k] \in S /\ t[k] \in T
  BY DEF Row
<1>4. Pick(s, ks) \in Row(q, S) /\ Pick(t, ks) \in Row(q, T)
  BY <1>1, <1>3 DEF Pick, Row
<1> QED BY <1>1, <1>2, <1>4 DEF Related

(* The divisor claimed for the address of a subview.                       *)
LEMMA SubviewGcdDivides ==
    ASSUME Known, NEW n \in Nat, NEW slices \in Row(n, Slices), NEW g, g.offset \in Nat, g.stride \in Row(n, Nat),
           NEW stride \in Row(n, Int), Related(Dividing, n, g.stride, stride)
    PROVE  /\ SubviewGcd(g, slices) \in Nat /\ SubviewOffset(slices, stride) \in Int
           /\ Divides(SubviewGcd(g, slices), g.offset)
           /\ Divides(SubviewGcd(g, slices), SubviewOffset(slices, stride))
<1> DEFINE o == [k \in 1 .. n |-> Run(slices[k].offset)]
           factor == [k \in 1 .. n |-> GcdOf(slices[k].offset) * g.stride[k]]
           sums == Dots(o, stride)
           G == [k \in 1 .. n |-> [v \in Nat |-> Gcd(v, factor[k])]]
           Solves(f) == f = [k \in 0 .. n |-> IF k = 0 THEN g.offset
                                              ELSE Gcd(f[k - 1], GcdOf(slices[k].offset) * g.stride[k])]
<1>1. DOMAIN slices = 1 .. n /\ Len(slices) = n
  BY RowIsSeq
<1>2. ASSUME NEW k \in 1 .. n
      PROVE  /\ o[k] \in Int /\ factor[k] \in Nat
             /\ o[k] * stride[k] \in Int /\ Divides(factor[k], o[k] * stride[k])
  <2>1. slices[k].offset \in Extent
    <3>1. slices[k] \in Slices
      BY RowElement
    <3> QED BY <3>1, OperandsAssumption
  <2>2. o[k] = Run(slices[k].offset) /\ factor[k] = GcdOf(slices[k].offset) * g.stride[k]
    OBVIOUS
  <2>3. GcdOf(slices[k].offset) \in Nat /\ o[k] \in Int /\ Divides(GcdOf(slices[k].offset), o[k])
    BY <2>1, <2>2, RunClaimed DEF Dividing
  <2>4. g.stride[k] \in Nat /\ stride[k] \in Int /\ Divides(g.stride[k], stride[k])
    <3>1. <<g.stride[k], stride[k]>> \in Dividing
      BY RelatedElement
    <3> QED BY <3>1 DEF Dividing
  <2> HIDE DEF o, factor
  <2>5. Divides(GcdOf(slices[k].offset) * g.stride[k], o[k] * stride[k])
    BY <2>3, <2>4, DividesProduct
  <2> QED BY <2>2, <2>3, <2>4, <2>5
<1>3. o \in [1 .. n -> Int] /\ stride \in [1 .. n -> Int]
  <2> HIDE DEF factor
  <2>1. \A k \in 1 .. n : o[k] \in Int
    BY <1>2
  <2>2. o = [k \in 1 .. n |-> o[k]]
    OBVIOUS
  <2> HIDE DEF o
  <2> QED BY <2>1, <2>2 DEF Row
<1>4. SubviewOffset(slices, stride) = Dot(o, stride)
  BY <1>1 DEF SubviewOffset
<1> HIDE DEF o, factor
<1>5. /\ sums \in [0 .. n -> Int] /\ sums[0] = 0
      /\ \A k \in 1 .. n : sums[k] = sums[k - 1] + o[k] * stride[k]
      /\ Dot(o, stride) = sums[n] /\ Dot(o, stride) \in Int
  BY <1>3, DotsUnfold DEF Row
<1> HIDE DEF sums
<1>6. ASSUME NEW a \in Nat, NEW k \in 1 .. n
      PROVE  Gcd(a, factor[k]) \in Nat /\ Divides(Gcd(a, factor[k]), a) /\ Divides(Gcd(a, factor[k]), factor[k])
  <2>1. a \in Int /\ factor[k] \in Int
    BY <1>2
  <2> QED BY <2>1, GcdDivides
<1>7. G \in [1 .. n -> [Nat -> Nat]]
  BY <1>6
<1>8. PICK f : Solution(f, n, Nat, g.offset, G)
  <2> HIDE DEF G
  <2> QED BY <1>7, RecursionExists DEF Rules
<1>9. f \in [0 .. n -> Nat] /\ f[0] = g.offset /\ \A k \in 1 .. n : f[k] = G[k][f[k - 1]]
  BY <1>8 DEF Solution
<1>10. Solves(f)
  <2>1. ASSUME NEW k \in 0 .. n, k # 0
        PROVE  f[k] = Gcd(f[k - 1], GcdOf(slices[k].offset) * g.stride[k])
    <3>1. k \in 1 .. n /\ k - 1 \in 0 .. n
      BY <2>1
    <3>2. f[k - 1] \in Nat /\ f[k] = G[k][f[k - 1]]
      BY <1>9, <3>1
    <3>3. f[k] = Gcd(f[k - 1], factor[k])
      BY <3>1, <3>2
    <3> QED BY <3>1, <3>3 DEF factor
  <2>2. f = [k \in 0 .. n |-> f[k]]
    BY <1>9
  <2> HIDE DEF G
  <2> QED BY <1>9, <2>1, <2>2
<1>11. ASSUME NEW h, Solves(h)
       PROVE  h[0] = g.offset /\ \A k \in 1 .. n : h[k] = Gcd(h[k - 1], factor[k])
  BY <1>11 DEF factor
<1> DEFINE d == CHOOSE h : Solves(h)
<1>12. Solves(d)
  <2> HIDE DEF Solves
  <2> QED BY <1>10
<1>13. d[0] = g.offset /\ \A k \in 1 .. n : d[k] = Gcd(d[k - 1], factor[k])
  <2> HIDE DEF Solves, d
  <2> QED BY <1>11, <1>12
<1>14. SubviewGcd(g, slices) = d[n]
  BY <1>1 DEF SubviewGcd
<1> HIDE DEF d
<1> DEFINE T == {k \in 0 .. n : d[k] \in Nat /\ Divides(d[k], g.offset) /\ Divides(d[k], sums[k])}
<1>15. 0 \in T
  BY <1>5, <1>13, DividesItself
<1>16. ASSUME NEW m \in T, m \in 0 .. n - 1 PROVE m + 1 \in T
  <2>1. m + 1 \in 1 .. n /\ (m + 1) - 1 = m
    BY <1>16
  <2> DEFINE k == m + 1
             e == d[k]
  <2>2. e = Gcd(d[m], factor[k]) /\ sums[k] = sums[m] + o[k] * stride[k] /\ k \in 1 .. n
    BY <1>5, <1>13, <2>1
  <2>3. d[m] \in Nat /\ Divides(d[m], g.offset) /\ Divides(d[m], sums[m]) /\ sums[m] \in Int
    BY <1>5, <1>16
  <2> HIDE DEF k, e
  <2>4. e \in Nat /\ Divides(e, d[m]) /\ Divides(e, factor[k])
    BY <1>6, <2>2, <2>3
  <2>5. Divides(e, g.offset) /\ Divides(e, sums[m])
    BY <2>3, <2>4, DividesTransitive
  <2>6. Divides(e, o[k] * stride[k])
    BY <1>2, <2>2, <2>4, DividesTransitive
  <2>7. Divides(e, sums[m] + o[k] * stride[k])
    BY <1>2, <2>2, <2>3, <2>4, <2>5, <2>6, DividesSum
  <2> QED BY <2>1, <2>2, <2>4, <2>5, <2>7 DEF k, e
<1>17. \A m \in 0 .. n : m \in T
  <2> HIDE DEF T
  <2> QED BY <1>15, <1>16, UpTo
<1>18. n \in T
  <2> HIDE DEF T
  <2> QED BY <1>17
<1> QED BY <1>4, <1>5, <1>14, <1>18

LEMMA SubviewDescribed ==
    ASSUME Known, NEW n \in Nat,
           view.dope.shape \in Row(n, Nat), view.dope.stride \in Row(n, Int),
           Stated(Fitting, Extent, n, view.ty, view.dope),
           Stated(Dividing, Nat, n, view.gcd, view.dope),
           view.ptr \in Int, view.gcd.offset \in Nat, Divides(view.gcd.offset * size, view.ptr),
           NEW slices \in Row(n, Slices),
           NEW q \in Nat, NEW kept \in Row(q, 1 .. n),
           NEW sizes \in Row(q, Extent), NEW run \in Row(q, Nat), NEW claimed \in Row(q, Nat),
           \A j \in 1 .. q : run[j] = Run(sizes[j]) /\ claimed[j] = GcdOf(sizes[j]),
           NEW stride \in Accepted(Pick(view.ty.stride, kept))
    PROVE  Described([ty |-> [shape |-> sizes, stride |-> stride],
                      dope |-> [shape |-> run, stride |-> Pick(view.dope.stride, kept)],
                      ptr |-> view.ptr + size * SubviewOffset(slices, view.dope.stride),
                      gcd |-> [offset |-> SubviewGcd(view.gcd, slices),
                               shape |-> claimed,
                               stride |-> Pick(view.gcd.stride, kept)]],
                     size)
<1> DEFINE g == SubviewGcd(view.gcd, slices)
           o == SubviewOffset(slices, view.dope.stride)
           tst == Pick(view.ty.stride, kept)
           dst == Pick(view.dope.stride, kept)
           gst == Pick(view.gcd.stride, kept)
<1>1. /\ view.ty.stride \in Row(n, Extent) /\ Related(Fitting, n, view.ty.stride, view.dope.stride)
      /\ view.gcd.stride \in Row(n, Nat) /\ Related(Dividing, n, view.gcd.stride, view.dope.stride)
  BY DEF Stated
<1>2. tst \in Row(q, Extent) /\ dst \in Row(q, Int) /\ Related(Fitting, q, tst, dst)
  BY <1>1, PickRelated
<1>3. gst \in Row(q, Nat) /\ Related(Dividing, q, gst, dst)
  <2>1. gst \in Row(q, Nat)
    BY <1>1, PickIsRow
  <2>2. Related(Dividing, q, gst, dst)
    BY <1>1, PickRelated
  <2> QED BY <2>1, <2>2
<1>4. g \in Nat /\ o \in Int /\ Divides(g, view.gcd.offset) /\ Divides(g, o)
  BY <1>1, SubviewGcdDivides
<1> HIDE DEF g, o, dst, gst
<1>5. stride \in Row(q, Extent) /\ Related(Fitting, q, stride, dst)
  <2> HIDE DEF tst
  <2>1. stride \in Accepted(tst)
    BY DEF tst
  <2> QED BY <1>2, <2>1, AcceptedFits
<1>6. Related(Fitting, q, sizes, run) /\ Related(Dividing, q, claimed, run)
  <2>1. ASSUME NEW j \in 1 .. q PROVE <<sizes[j], run[j]>> \in Fitting /\ <<claimed[j], run[j]>> \in Dividing
    <3>1. sizes[j] \in Extent
      BY RowElement
    <3> QED BY <3>1, RunClaimed
  <2> QED BY <2>1 DEF Related
<1>7. Divides(g * size, view.ptr + size * o)
  <2>1. size \in Nat
    BY DEF Known
  <2>2. Divides(size, size)
    BY <2>1, DividesItself
  <2> DEFINE go == view.gcd.offset
  <2>3. go \in Nat /\ go \in Int /\ Divides(g, go) /\ size \in Int
    BY <1>4, <2>1
  <2> HIDE DEF go
  <2>4. Divides(g * size, go * size) /\ Divides(g * size, o * size)
    BY <1>4, <2>1, <2>2, <2>3, DividesProduct
  <2>5. g * size \in Nat /\ go * size \in Nat /\ o * size \in Int
    BY <1>4, <2>1, <2>3
  <2>6. Divides(g * size, view.ptr)
    BY <2>4, <2>5, DividesTransitive DEF go
  <2>7. Divides(g * size, view.ptr + o * size)
    BY <2>4, <2>5, <2>6, DividesSum
  <2>8. o * size = size * o
    BY <1>4, <2>1
  <2> QED BY <2>7, <2>8
<1>8. view.ptr + size * o \in Int
  <2>1. size \in Int
    BY DEF Known
  <2> QED BY <1>4, <2>1
<1> DEFINE v == [ty |-> [shape |-> sizes, stride |-> stride],
                 dope |-> [shape |-> run, stride |-> dst],
                 ptr |-> view.ptr + size * o,
                 gcd |-> [offset |-> g, shape |-> claimed, stride |-> gst]]
<1>9. Stated(Fitting, Extent, q, v.ty, v.dope) /\ Stated(Dividing, Nat, q, v.gcd, v.dope)
  BY <1>3, <1>5, <1>6 DEF Stated
<1>10. /\ v.dope.shape \in Row(q, Nat) /\ v.dope.stride \in Row(q, Int)
       /\ v.ptr = view.ptr + size * o /\ v.gcd.offset = g
  BY <1>2
<1>11. Described(v, size)
  <2> HIDE DEF v
  <2> QED BY <1>4, <1>7, <1>8, <1>9, <1>10 DEF Described
<1> QED BY <1>11 DEF g, o, dst, gst

LEMMA SubviewKnown ==
    ASSUME Known, Subview
    PROVE  Known'
<1>1. view # NoView
  BY DEF Subview
<1>2. PICK n \in Nat :
          /\ view.dope.shape \in Row(n, Nat) /\ view.dope.stride \in Row(n, Int)
          /\ Stated(Fitting, Extent, n, view.ty, view.dope)
          /\ Stated(Dividing, Nat, n, view.gcd, view.dope)
          /\ view.ptr \in Int /\ view.gcd.offset \in Nat /\ Divides(view.gcd.offset * size, view.ptr)
  BY <1>1 DEF Known, Described
<1> DEFINE SizesOf(slices) == [j \in DOMAIN Kept(slices) |-> slices[Kept(slices)[j]].size]
           RunOf(sizes) == [j \in DOMAIN sizes |-> Run(sizes[j])]
           ClaimOf(sizes) == [j \in DOMAIN sizes |-> GcdOf(sizes[j])]
           NewView(slices, kept, sizes, run, claimed, stride) ==
               [ty |-> [shape |-> sizes, stride |-> stride],
                dope |-> [shape |-> run, stride |-> Pick(view.dope.stride, kept)],
                ptr |-> view.ptr + size * SubviewOffset(slices, view.dope.stride),
                gcd |-> [offset |-> SubviewGcd(view.gcd, slices),
                         shape |-> claimed,
                         stride |-> Pick(view.gcd.stride, kept)]]
<1>3. PICK slices \in [DOMAIN view.ty.shape -> Slices] :
          /\ InBounds(slices)
          /\ \E stride \in Accepted(Pick(view.ty.stride, Kept(slices))) :
                 Show(NewView(slices, Kept(slices), SizesOf(slices), RunOf(SizesOf(slices)),
                              ClaimOf(SizesOf(slices)), stride))
  BY DEF Subview
<1>4. PICK stride \in Accepted(Pick(view.ty.stride, Kept(slices))) :
          Show(NewView(slices, Kept(slices), SizesOf(slices), RunOf(SizesOf(slices)),
                       ClaimOf(SizesOf(slices)), stride))
  BY <1>3
<1>5. slices \in Row(n, Slices) /\ DOMAIN slices = 1 .. n /\ Len(slices) = n
  <2>1. DOMAIN view.ty.shape = 1 .. n
    BY <1>2, RowIsSeq DEF Stated
  <2>2. slices \in Row(n, Slices)
    BY <2>1 DEF Row
  <2> QED BY <2>2, RowIsSeq
<1> DEFINE kept == Kept(slices)
           q == Len(kept)
           sizes == SizesOf(slices)
           run == RunOf(sizes)
           claimed == ClaimOf(sizes)
<1>6. kept \in Row(q, 1 .. n) /\ q \in Nat /\ DOMAIN kept = 1 .. q
  <2>1. kept \in Seq(1 .. n)
    BY <1>5, KeptUptoUnfold DEF Kept
  <2> HIDE DEF kept
  <2> QED BY <2>1, SeqIsRow
<1>7. \A j \in 1 .. q : sizes[j] = slices[kept[j]].size
  BY <1>6
<1>8. DOMAIN sizes = 1 .. q /\ sizes = [j \in 1 .. q |-> sizes[j]]
  BY <1>6
<1>9. run = [j \in 1 .. q |-> run[j]] /\ claimed = [j \in 1 .. q |-> claimed[j]]
  BY <1>8
<1>10. \A j \in 1 .. q : run[j] = Run(sizes[j]) /\ claimed[j] = GcdOf(sizes[j])
  BY <1>8
<1>11. Show(NewView(slices, kept, sizes, run, claimed, stride))
  BY <1>4
<1> HIDE DEF kept, q, sizes, run, claimed, NewView
<1>12. \A k \in 1 .. n : slices[k].size \in Extent /\ (IsDynamic(slices[k].size) => x.run > 0)
  <2>1. ASSUME NEW k \in 1 .. n PROVE slices[k].size \in Extent
    <3>1. slices[k] \in Slices
      BY <1>5, RowElement
    <3> QED BY <3>1, OperandsAssumption
  <2> QED BY <1>3, <1>5, <2>1 DEF InBounds
<1>13. \A j \in 1 .. q : sizes[j] \in Extent /\ (IsDynamic(sizes[j]) => x.run > 0)
  <2>1. \A j \in 1 .. q : kept[j] \in 1 .. n
    BY <1>6, RowElement
  <2> QED BY <1>7, <1>12, <2>1
<1>14. \A j \in 1 .. q : run[j] \in Nat /\ claimed[j] \in Nat
  <2>1. ASSUME NEW j \in 1 .. q PROVE run[j] \in Nat /\ claimed[j] \in Nat
    <3>1. Run(sizes[j]) \in Int /\ GcdOf(sizes[j]) \in Nat
      BY <1>13, RunClaimed DEF Fitting, Dividing
    <3>2. x.run \in Int
      BY DEF Known, Claimed
    <3>3. Run(sizes[j]) \in Nat
      BY <1>13, <3>2 DEF Run, IsDynamic, Extent
    <3> QED BY <1>10, <3>1, <3>3
  <2> QED BY <2>1
<1>15. sizes \in Row(q, Extent) /\ run \in Row(q, Nat) /\ claimed \in Row(q, Nat)
  BY <1>8, <1>9, <1>13, <1>14 DEF Row
<1>16. stride \in Accepted(Pick(view.ty.stride, kept))
  BY <1>4 DEF kept
<1>17. Described(NewView(slices, kept, sizes, run, claimed, stride), size)
  BY <1>2, <1>5, <1>6, <1>10, <1>15, <1>16, SubviewDescribed DEF NewView
<1> QED BY <1>11, <1>17, ShowKnown

LEMMA NextKnown == Known /\ [Next]_vars => Known'
<1> SUFFICES ASSUME Known, [Next]_vars PROVE Known'
  OBVIOUS
<1>1. CASE Take \/ Combine \/ TakeAbs \/ Loop
  BY <1>1, IndexSteps
<1>2. CASE Subview
  BY <1>2, SubviewKnown
<1>3. CASE Expand
  BY <1>3, ExpandKnown
<1>4. CASE Fuse
  BY <1>4, FuseKnown
<1>5. CASE LoadGroup
  BY <1>5, LoadGroupKnown
<1>6. CASE UNCHANGED vars
  BY <1>6 DEF vars, Known
<1> QED BY <1>1, <1>2, <1>3, <1>4, <1>5, <1>6 DEF Next

LEMMA KnownAlways == Spec => []Known
<1>1. Init => Known
  BY InitKnown
<1>2. Known /\ [Next]_vars => Known'
  BY NextKnown
<1> QED BY <1>1, <1>2, PTL DEF Spec

-----------------------------------------------------------------------------
(* What a type states of a view is so at run time, whatever views and      *)
(* index values led there: the static strides and extents that             *)
(* memref_type::get of subviews, expands and fuses works out and           *)
(* check_memref_stride accepts.                                            *)
THEOREM TypesAreTrue == Spec => []TypesTellTheTruth
<1>1. Known => TypesTellTheTruth
  <2> SUFFICES ASSUME Known, view # NoView
               PROVE  Fits(view.ty.shape, view.dope.shape) /\ Fits(view.ty.stride, view.dope.stride)
    BY DEF TypesTellTheTruth
  <2>1. PICK n \in Nat :
            /\ view.dope.shape \in Row(n, Nat) /\ view.dope.stride \in Row(n, Int)
            /\ Stated(Fitting, Extent, n, view.ty, view.dope)
    BY DEF Known, Described
  <2>2. view.dope.shape \in Row(n, Int)
    BY <2>1, RowGrows, Nat \subseteq Int
  <2> QED BY <2>1, <2>2, FittingMeans DEF Stated
<1> QED BY <1>1, KnownAlways, PTL

(* Every divisor gcd_analysis claims, of an index, of the address of a     *)
(* view, of its sizes and strides, divides what the kernel computes.       *)
THEOREM ClaimsDivide == Spec => []DivisorsHold
<1>1. Known => DivisorsHold
  <2> SUFFICES ASSUME Known PROVE DivisorsHold
    OBVIOUS
  <2>1. Divides(x.gcd, x.run)
    BY DEF Known, Claimed
  <2>2. ASSUME view # NoView
        PROVE  /\ Divides(view.gcd.offset * size, view.ptr)
               /\ \A k \in DOMAIN view.dope.shape :
                      /\ Divides(view.gcd.shape[k], view.dope.shape[k])
                      /\ Divides(view.gcd.stride[k], view.dope.stride[k])
    <3>1. PICK n \in Nat :
              /\ view.dope.shape \in Row(n, Nat) /\ view.dope.stride \in Row(n, Int)
              /\ Stated(Dividing, Nat, n, view.gcd, view.dope)
              /\ Divides(view.gcd.offset * size, view.ptr)
      BY <2>2 DEF Known, Described
    <3>2. view.dope.shape \in Row(n, Int)
      BY <3>1, RowGrows, Nat \subseteq Int
    <3>3. DOMAIN view.dope.shape = 1 .. n
      BY <3>1, RowIsSeq
    <3> QED BY <3>1, <3>2, <3>3, DividingMeans DEF Stated
  <2> QED BY <2>1, <2>2 DEF DivisorsHold
<1> QED BY <1>1, KnownAlways, PTL

(* A claim that is a multiple of what is asked for makes what it is about  *)
(* a multiple too.                                                         *)
LEMMA ClaimSuffices ==
    ASSUME NEW al \in Nat \ {0}, NEW g \in Nat, NEW v \in Int, Divides(g, v), NEW sz \in Nat,
           (g * sz) % al = 0
    PROVE  Divides(al, v * sz) /\ (v * sz) % al = 0
<1>1. g * sz \in Nat /\ v * sz \in Int
  OBVIOUS
<1>2. Divides(al, g * sz)
  BY DEF Divides
<1>3. Divides(sz, sz)
  BY DividesItself
<1>4. Divides(g * sz, v * sz)
  BY <1>3, DividesProduct
<1>5. Divides(al, v * sz)
  BY <1>1, <1>2, <1>4, DividesTransitive
<1> QED BY <1>5 DEF Divides

(* Where the matrix generators choose block access, every column starts at *)
(* an aligned address, and a 2d block access finds base, pitch, width and  *)
(* position as the instruction asks.                                       *)
THEOREM BlocksAreAligned == Spec => []BlockAccessesAligned
<1>1. ASSUME Known, view # NoView, Len(view.dope.shape) = 2
      PROVE  /\ size \in {2, 4} /\ Claimed(x)
             /\ view.dope.stride[2] \in Int /\ view.gcd.stride[2] \in Nat
             /\ Divides(view.gcd.stride[2], view.dope.stride[2])
             /\ view.dope.shape[1] \in Nat /\ view.gcd.shape[1] \in Nat
             /\ Divides(view.gcd.shape[1], view.dope.shape[1])
             /\ view.dope.shape[2] \in Nat
             /\ view.ptr \in Int /\ view.gcd.offset \in Nat /\ Divides(view.gcd.offset * size, view.ptr)
  <2>1. PICK n \in Nat :
            /\ view.dope.shape \in Row(n, Nat) /\ view.dope.stride \in Row(n, Int)
            /\ Stated(Dividing, Nat, n, view.gcd, view.dope)
            /\ view.ptr \in Int /\ view.gcd.offset \in Nat /\ Divides(view.gcd.offset * size, view.ptr)
    BY <1>1 DEF Known, Described
  <2>2. n = 2
    BY <1>1, <2>1, RowIsSeq
  <2>3. 1 \in 1 .. n /\ 2 \in 1 .. n
    BY <2>2
  <2>4. /\ <<view.gcd.stride[2], view.dope.stride[2]>> \in Dividing
        /\ <<view.gcd.shape[1], view.dope.shape[1]>> \in Dividing
    BY <2>1, <2>3 DEF Stated, Related
  <2>5. view.dope.shape[1] \in Nat /\ view.dope.shape[2] \in Nat
    BY <2>1, <2>3, RowElement
  <2> QED BY <1>1, <2>1, <2>4, <2>5 DEF Known, Dividing
<1>2. ASSUME NEW p \in Int, NEW o \in Nat, NEW sz \in {2, 4}, Divides(o * sz, p),
             NEW al \in Nat \ {0}, Divides(al, o * sz)
      PROVE  Divides(al, p) /\ p % al = 0
  <2>1. o * sz \in Nat
    OBVIOUS
  <2>2. Divides(al, p)
    BY <1>2, <2>1, DividesTransitive
  <2> QED BY <2>2 DEF Divides
<1>3. ASSUME Known, view # NoView, Len(view.dope.shape) = 2,
             NEW al \in {4, 16}, IsAligned(al, x), NEW col \in 0 .. view.dope.shape[2] - 1
      PROVE  (view.ptr + size * (x.run + col * view.dope.stride[2])) % al = 0
  <2> DEFINE p == view.ptr
             o == view.gcd.offset
             d == view.dope.stride[2]
             g == view.gcd.stride[2]
             r == x.run
  <2>1. /\ size \in {2, 4} /\ r \in Int /\ x.gcd \in Nat /\ Divides(x.gcd, r)
        /\ d \in Int /\ g \in Nat /\ Divides(g, d)
        /\ p \in Int /\ o \in Nat /\ Divides(o * size, p) /\ col \in Int
    BY <1>1, <1>3 DEF Claimed
  <2>2. size >= al \/ ((o * size) % al = 0 /\ (x.gcd * size) % al = 0 /\ (g * size) % al = 0)
    BY <1>3 DEF IsAligned
  <2> HIDE DEF p, o, d, g, r
  <2>3. al \in Nat \ {0} /\ size \in Nat /\ o * size \in Nat
    BY <2>1
  <2>4. Divides(al, p) /\ Divides(al, r * size) /\ Divides(al, d * size)
    <3>1. CASE size >= al
      <4>1. size = al
        BY <2>1, <3>1
      <4>2. Divides(al, size)
        BY <2>3, <4>1, DividesItself
      <4>3. Divides(al, o * size) /\ Divides(al, r * size) /\ Divides(al, d * size)
        <5>1. size \in Int /\ al \in Nat /\ o \in Int
          BY <2>1, <2>3
        <5>2. Divides(al, size * o) /\ Divides(al, size * r) /\ Divides(al, size * d)
          BY <2>1, <4>2, <5>1, DividesMultiple
        <5>3. size * o = o * size /\ size * r = r * size /\ size * d = d * size
          BY <2>1, <5>1
        <5> QED BY <5>2, <5>3
      <4> QED BY <1>2, <2>1, <2>3, <4>3
    <3>2. CASE (o * size) % al = 0 /\ (x.gcd * size) % al = 0 /\ (g * size) % al = 0
      <4>1. Divides(al, o * size)
        BY <2>3, <3>2 DEF Divides
      <4>2. Divides(al, r * size) /\ Divides(al, d * size)
        BY <2>1, <2>3, <3>2, ClaimSuffices
      <4> QED BY <1>2, <2>1, <2>3, <4>1, <4>2
    <3> QED BY <2>2, <3>1, <3>2
  <2>5. Divides(al, (d * size) * col)
    <3>1. d * size \in Int /\ al \in Nat
      BY <2>1, <2>3
    <3> QED BY <2>1, <2>4, <3>1, DividesMultiple
  <2>6. Divides(al, p + (r * size + (d * size) * col))
    <3>1. al \in Nat /\ r * size \in Int /\ (d * size) * col \in Int
      BY <2>1, <2>3
    <3>2. Divides(al, r * size + (d * size) * col)
      BY <2>4, <2>5, <3>1, DividesSum
    <3>3. r * size + (d * size) * col \in Int
      BY <3>1
    <3> QED BY <2>1, <2>4, <3>1, <3>2, <3>3, DividesSum
  <2>7. r * size + (d * size) * col = size * (r + col * d)
    <3>1. size = 2 \/ size = 4
      BY <2>1
    <3>2. (d * size) * col = size * (col * d)
      <4>1. d * size = size * d /\ (size * d) * col = size * (d * col) /\ d * col = col * d
        BY <2>1, <2>3
      <4> QED BY <4>1
    <3> DEFINE e == col * d
    <3>3. e \in Int
      BY <2>1
    <3> HIDE DEF e
    <3>4. r * size + size * e = size * (r + e)
      BY <2>1, <3>1, <3>3
    <3> QED BY <3>2, <3>4 DEF e
  <2>8. (p + size * (r + col * d)) % al = 0
    BY <2>3, <2>6, <2>7 DEF Divides
  <2> QED BY <2>8 DEF p, r, d
<1>4. ASSUME Known, view # NoView, Len(view.dope.shape) = 2, BlockIo2d(x)
      PROVE  /\ view.ptr % 64 = 0
             /\ (view.dope.stride[2] * size) % 8 = 0
             /\ (view.dope.shape[1] * size) % 4 = 0 /\ (x.run * size) % 4 = 0
  <2>1. /\ (view.gcd.offset * size) % 64 = 0 /\ (x.gcd * size) % 4 = 0
        /\ (view.gcd.stride[2] * size) % 8 = 0 /\ (view.gcd.shape[1] * size) % 4 = 0
    BY <1>4 DEF BlockIo2d
  <2>2. /\ size \in {2, 4} /\ size \in Nat /\ 64 \in Nat \ {0} /\ 8 \in Nat \ {0} /\ 4 \in Nat \ {0}
        /\ view.dope.shape[1] \in Int
        /\ x.run \in Int /\ x.gcd \in Nat /\ Divides(x.gcd, x.run)
    BY <1>1, <1>4 DEF Claimed
  <2>3. Divides(64, view.gcd.offset * size)
    BY <2>1 DEF Divides
  <2>4. view.ptr % 64 = 0
    BY <1>1, <1>2, <1>4, <2>2, <2>3
  <2>5. (view.dope.stride[2] * size) % 8 = 0
    <3> DEFINE g == view.gcd.stride[2]
               v == view.dope.stride[2]
    <3>1. v \in Int /\ g \in Nat /\ Divides(g, v) /\ (g * size) % 8 = 0
      BY <1>1, <1>4, <2>1, <2>2
    <3> HIDE DEF g, v
    <3>2. (v * size) % 8 = 0
      BY <2>2, <3>1, ClaimSuffices, ZenonT(60)
    <3> QED BY <3>2 DEF v
  <2>6. (view.dope.shape[1] * size) % 4 = 0
    <3> DEFINE g == view.gcd.shape[1]
               v == view.dope.shape[1]
    <3>1. v \in Int /\ g \in Nat /\ Divides(g, v) /\ (g * size) % 4 = 0
      BY <1>1, <1>4, <2>1, <2>2
    <3> HIDE DEF g, v
    <3>2. (v * size) % 4 = 0
      BY <2>2, <3>1, ClaimSuffices, ZenonT(60)
    <3> QED BY <3>2 DEF v
  <2>7. (x.run * size) % 4 = 0
    BY <2>1, <2>2, ClaimSuffices, ZenonT(60)
  <2> QED BY <2>4, <2>5, <2>6, <2>7
<1>5. Known => BlockAccessesAligned
  BY <1>3, <1>4 DEF BlockAccessesAligned
<1> QED BY <1>5, KnownAlways, PTL

-----------------------------------------------------------------------------
(* Index tuples and positions: a tuple within a shape is the digits of its *)
(* position, which counts them.                                            *)
Box(n, s) == {t \in Row(n, Nat) : \A k \in 1 .. n : t[k] < s[k]}

LEMMA TimesGrows ==
    ASSUME NEW a \in Nat, NEW b \in Nat, NEW c \in Nat, a < b
    PROVE  a * c + c <= b * c
<1>1. b = a + 1 + (b - a - 1) /\ b - a - 1 \in Nat
  OBVIOUS
<1> DEFINE d == b - a - 1
<1>2. d \in Nat /\ b = a + 1 + d
  BY <1>1
<1> HIDE DEF d
<1>3. b * c = (a * c + c) + d * c
  BY <1>2
<1>4. d * c \in Nat /\ a * c + c \in Nat
  BY <1>2
<1> QED BY <1>3, <1>4

(* The digits of a: the last ones, and the next one.                       *)
LEMMA NextDigit ==
    ASSUME NEW a \in Nat, NEW b \in Nat \ {0}, NEW c \in Nat \ {0}
    PROVE  a % (b * c) = (a % b) + ((a \div b) % c) * b
<1> DEFINE q == a \div b
           r == a % b
           e == q \div c
           d == q % c
<1>1. q \in Int /\ r \in Nat /\ r < b /\ a = b * q + r
  BY Division
<1>2. e \in Int /\ d \in Nat /\ d < c /\ q = c * e + d
  BY <1>1, Division
<1> HIDE DEF q, r, e, d
<1>3. a = (b * c) * e + (d * b + r)
  <2>1. b * (c * e + d) = b * (c * e) + b * d
    BY <1>2
  <2>2. b * (c * e) = (b * c) * e /\ b * d = d * b
    BY <1>2
  <2>3. (b * c) * e \in Int /\ d * b \in Int
    BY <1>2
  <2> QED BY <1>1, <1>2, <2>1, <2>2, <2>3
<1>4. d * b + r \in Nat /\ d * b + r < b * c
  <2>1. d * b + b <= c * b
    BY <1>2, TimesGrows
  <2>2. c * b = b * c /\ d * b \in Nat /\ b * c \in Nat
    BY <1>2
  <2> QED BY <1>1, <2>1, <2>2
<1>5. b * c \in Nat \ {0}
  OBVIOUS
<1> DEFINE bc == b * c
           low == d * b + r
<1>6. bc \in Nat \ {0} /\ low \in Nat /\ low < bc /\ a = bc * e + low
  BY <1>3, <1>4, <1>5
<1> HIDE DEF bc, low
<1>7. (bc * e + low) % bc = low
  BY <1>2, <1>6, DivisionUnique
<1>8. low = r + d * b
  BY <1>1, <1>2 DEF low
<1> QED BY <1>6, <1>7, <1>8 DEF bc, q, r, d

(* The products of sizes.                                                  *)
LEMMA SizeProducts ==
    ASSUME NEW n \in Nat, NEW s \in Row(n, Nat)
    PROVE  /\ Products(s) \in [0 .. n -> Nat] /\ Products(s)[0] = 1
           /\ \A k \in 1 .. n : Products(s)[k] = Products(s)[k - 1] * s[k]
           /\ Product(s) = Products(s)[n] /\ Product(s) \in Nat
<1>1. s \in Row(n, Number) /\ s \in Row(n, Int)
  BY RowGrows, Nat \subseteq Int DEF Number
<1>2. s \in [1 .. n -> Number]
  BY <1>1 DEF Row
<1> DEFINE p == Products(s)
<1>3. p \in [0 .. n -> Number] /\ p[0] = 1 /\ \A k \in 1 .. n : p[k] = Times(p[k - 1], s[k])
  BY <1>2, ProductsUnfold DEF Row
<1>4. Related(Sizes, n, s, s)
  BY RowElement DEF Related, Sizes
<1>5. \A k \in 0 .. n : <<p[k], p[k]>> \in Sizes
  BY <1>1, <1>4, KindsOfPairs, RelatedProducts
<1>6. Product(s) = p[n]
  BY RowIsSeq DEF Product
<1> HIDE DEF p
<1>7. \A k \in 0 .. n : p[k] \in Nat
  BY <1>5 DEF Sizes
<1>8. p \in [0 .. n -> Nat]
  BY <1>3, <1>7
<1>9. ASSUME NEW k \in 1 .. n PROVE p[k] = p[k - 1] * s[k]
  <2>1. k - 1 \in 0 .. n /\ s[k] \in Nat
    BY RowElement
  <2>2. p[k - 1] \in Int /\ s[k] \in Int
    BY <1>7, <2>1
  <2> QED BY <1>3, <2>2, TimesFacts
<1> QED BY <1>3, <1>6, <1>7, <1>8, <1>9 DEF p

LEMMA PositionUnfold ==
    ASSUME NEW n \in Nat, NEW s \in Row(n, Nat), NEW t \in Row(n, Nat)
    PROVE  \E d \in [0 .. n -> Int] :
               /\ d[0] = 0 /\ Position(t, s) = d[n]
               /\ \A k \in 1 .. n : d[k] = d[k - 1] + t[k] * Products(s)[k - 1]
<1> DEFINE c == Canonical(1, s)
           d == Dots(t, c)
<1>1. \A k \in 1 .. n : Products(s)[k - 1] \in Int
  <2>1. \A k \in 1 .. n : k - 1 \in 0 .. n
    OBVIOUS
  <2> QED BY <2>1, SizeProducts
<1>2. c = [k \in 1 .. n |-> Times(1, Products(s)[k - 1])]
  BY RowIsSeq DEF Canonical
<1>3. \A k \in 1 .. n : c[k] = Products(s)[k - 1]
  <2>1. ASSUME NEW k \in 1 .. n PROVE c[k] = Products(s)[k - 1]
    <3> DEFINE e == Products(s)[k - 1]
    <3>1. e \in Int /\ 1 \in Int /\ c[k] = Times(1, e)
      BY <1>1, <1>2
    <3> HIDE DEF c, e
    <3>2. Times(1, e) = 1 * e /\ 1 * e = e
      BY <3>1, TimesFacts
    <3> QED BY <3>1, <3>2 DEF e
  <2> QED BY <2>1
<1>4. c \in [1 .. n -> Int]
  <2> HIDE DEF c
  <2> QED BY <1>1, <1>2, <1>3
<1>5. t \in [1 .. n -> Int]
  BY DEF Row
<1> HIDE DEF c
<1>6. /\ d \in [0 .. n -> Int] /\ d[0] = 0 /\ Dot(t, c) = d[n]
      /\ \A k \in 1 .. n : d[k] = d[k - 1] + t[k] * c[k]
  BY <1>4, <1>5, DotsUnfold DEF Row
<1>7. Position(t, s) = Dot(t, c)
  BY DEF Position, c
<1> HIDE DEF d
<1>8. \A k \in 1 .. n : d[k] = d[k - 1] + t[k] * Products(s)[k - 1]
  BY <1>3, <1>6
<1> QED BY <1>6, <1>7, <1>8

LEMMA PositionInBox ==
    ASSUME NEW n \in Nat, NEW s \in Row(n, Nat), NEW t \in Box(n, s)
    PROVE  Position(t, s) \in 0 .. Product(s) - 1 /\ Tuple(Position(t, s), s) = t
<1> DEFINE p == Products(s)
<1>1. p \in [0 .. n -> Nat] /\ p[0] = 1 /\ (\A k \in 1 .. n : p[k] = p[k - 1] * s[k]) /\ Product(s) = p[n]
  BY SizeProducts
<1>2. t \in Row(n, Nat) /\ \A k \in 1 .. n : t[k] \in Nat /\ s[k] \in Nat /\ t[k] < s[k]
  BY RowElement DEF Box
<1>3. PICK d \in [0 .. n -> Int] :
          /\ d[0] = 0 /\ Position(t, s) = d[n]
          /\ \A k \in 1 .. n : d[k] = d[k - 1] + t[k] * p[k - 1]
  BY <1>2, PositionUnfold
<1> HIDE DEF p
<1> DEFINE T == {k \in 0 .. n : d[k] \in Nat /\ d[k] < p[k]}
<1>4. \A k \in 0 .. n : k \in T
  <2>1. 0 \in T
    BY <1>1, <1>3
  <2>2. ASSUME NEW m \in T, m \in 0 .. n - 1 PROVE m + 1 \in T
    <3>1. m + 1 \in 1 .. n /\ (m + 1) - 1 = m
      BY <2>2
    <3> DEFINE a == t[m + 1]
               b == s[m + 1]
               c == p[m]
    <3>2. d[m + 1] = d[m] + a * c /\ p[m + 1] = c * b /\ d[m] \in Nat /\ d[m] < c
      BY <1>1, <1>3, <2>2, <3>1
    <3>3. a \in Nat /\ b \in Nat /\ c \in Nat /\ a < b
      BY <1>1, <1>2, <2>2, <3>1
    <3> HIDE DEF a, b, c
    <3>4. a * c + c <= b * c
      BY <3>3, TimesGrows
    <3>5. a * c \in Nat /\ b * c \in Nat /\ c * b = b * c
      BY <3>3
    <3>6. d[m + 1] \in Nat /\ d[m + 1] < p[m + 1]
      <4> DEFINE ac == a * c
                 bc == b * c
                 e == d[m]
      <4>1. ac \in Nat /\ bc \in Nat /\ e \in Nat /\ e < c /\ ac + c <= bc
        BY <3>2, <3>4, <3>5
      <4>2. d[m + 1] = e + ac /\ p[m + 1] = bc
        BY <3>2, <3>5
      <4> HIDE DEF ac, bc, e
      <4> QED BY <3>3, <4>1, <4>2
    <3> QED BY <3>1, <3>6
  <2> HIDE DEF T
  <2> QED BY <2>1, <2>2, UpTo
<1>5. Position(t, s) \in 0 .. Product(s) - 1
  <2>1. d[n] \in Nat /\ d[n] < p[n] /\ p[n] \in Nat
    BY <1>1, <1>4
  <2> QED BY <1>1, <1>3, <2>1
<1>6. ASSUME NEW k \in 1 .. n PROVE (Position(t, s) \div p[k - 1]) % s[k] = t[k]
  <2> DEFINE U == {j \in 0 .. n - k : \E q \in Nat, r \in Nat :
                       d[k + j] = d[k] + p[k] * q /\ p[k + j] = p[k] * r}
  <2>1. n - k \in Nat /\ k \in 0 .. n /\ k - 1 \in 0 .. n
    OBVIOUS
  <2>2. d[k] \in Nat /\ p[k] \in Nat /\ d[k - 1] \in Nat /\ p[k - 1] \in Nat /\ d[k - 1] < p[k - 1]
    BY <1>1, <1>4, <2>1
  <2>3. 0 \in U
    <3>1. k + 0 = k /\ 0 \in 0 .. n - k
      BY <2>1
    <3>2. d[k] = d[k] + p[k] * 0 /\ p[k] = p[k] * 1
      BY <2>2
    <3> QED BY <3>1, <3>2
  <2>4. ASSUME NEW j \in U, j \in 0 .. (n - k) - 1 PROVE j + 1 \in U
    <3>1. k + (j + 1) \in 1 .. n /\ (k + (j + 1)) - 1 = k + j /\ j + 1 \in 0 .. n - k
      BY <2>4
    <3>2. PICK q \in Nat, r \in Nat : d[k + j] = d[k] + p[k] * q /\ p[k + j] = p[k] * r
      BY <2>4
    <3> DEFINE a == t[k + (j + 1)]
               b == s[k + (j + 1)]
    <3>3. /\ d[k + (j + 1)] = (d[k] + p[k] * q) + a * (p[k] * r)
          /\ p[k + (j + 1)] = (p[k] * r) * b
          /\ a \in Nat /\ b \in Nat
      BY <1>1, <1>2, <1>3, <3>1, <3>2
    <3> HIDE DEF a, b
    <3>4. \A u, v \in Nat : (u + v * q) + a * (v * r) = u + v * (q + a * r) /\ (v * r) * b = v * (r * b)
      <4>1. TAKE u, v \in Nat
      <4>2. v * (q + a * r) = v * q + v * (a * r)
        BY <3>3
      <4>3. v * (a * r) = a * (v * r)
        BY <3>3
      <4>4. (v * r) * b = v * (r * b)
        BY <3>3
      <4>5. v * q \in Nat /\ a * (v * r) \in Nat
        BY <3>3
      <4> QED BY <4>2, <4>3, <4>5, <4>4
    <3>5. q + a * r \in Nat /\ r * b \in Nat
      <4>1. a \in Nat /\ b \in Nat
        BY <3>3
      <4> QED BY <4>1
    <3>6. d[k + (j + 1)] = d[k] + p[k] * (q + a * r) /\ p[k + (j + 1)] = p[k] * (r * b)
      BY <2>2, <3>3, <3>4
    <3> QED BY <3>1, <3>5, <3>6
  <2>5. n - k \in U
    <3> HIDE DEF U
    <3>1. \A j \in 0 .. n - k : j \in U
      BY <2>1, <2>3, <2>4, UpTo
    <3> QED BY <2>1, <3>1
  <2>6. k + (n - k) = n
    OBVIOUS
  <2>7. PICK q \in Nat : d[n] = d[k] + p[k] * q
    BY <2>5, <2>6
  <2> DEFINE a == t[k]
             b == s[k]
             c == p[k - 1]
             e == d[k - 1]
  <2>8. /\ d[k] = e + a * c /\ p[k] = c * b
        /\ a \in Nat /\ b \in Nat /\ c \in Nat /\ e \in Nat /\ e < c /\ a < b
    BY <1>1, <1>2, <1>3, <2>2
  <2> HIDE DEF a, b, c, e
  <2> DEFINE f == b * q + a
  <2>9. f \in Int /\ d[n] = c * f + e
    <3>1. c * (b * q + a) = c * (b * q) + c * a
      BY <2>8
    <3>2. c * (b * q) = (c * b) * q /\ c * a = a * c /\ (c * b) * q \in Nat /\ a * c \in Nat
      BY <2>8
    <3> QED BY <2>7, <2>8, <3>1, <3>2
  <2>10. f % b = a
    <3>1. b \in Nat \ {0} /\ q \in Int
      BY <2>8
    <3> QED BY <2>8, <3>1, DivisionUnique
  <2> HIDE DEF f
  <2>11. c \in Nat \ {0}
    BY <2>8
  <2>12. (c * f + e) \div c = f
    BY <2>8, <2>9, <2>11, DivisionUnique
  <2> QED BY <1>3, <2>9, <2>10, <2>12 DEF a, b, c
<1>7. Tuple(Position(t, s), s) = [k \in 1 .. n |-> (Position(t, s) \div p[k - 1]) % s[k]]
  BY RowIsSeq DEF Tuple, p
<1>8. t = [k \in 1 .. n |-> t[k]]
  BY <1>2 DEF Row
<1>9. Tuple(Position(t, s), s) = t
  BY <1>6, <1>7, <1>8
<1> QED BY <1>5, <1>9

LEMMA TupleInBox ==
    ASSUME NEW n \in Nat, NEW s \in Row(n, Nat), NEW a \in 0 .. Product(s) - 1
    PROVE  Tuple(a, s) \in Box(n, s) /\ Position(Tuple(a, s), s) = a
<1> DEFINE p == Products(s)
           t == Tuple(a, s)
<1>1. p \in [0 .. n -> Nat] /\ p[0] = 1 /\ (\A k \in 1 .. n : p[k] = p[k - 1] * s[k]) /\ Product(s) = p[n]
  BY SizeProducts
<1>2. \A k \in 1 .. n : s[k] \in Nat
  BY RowElement
<1>3. t = [k \in 1 .. n |-> (a \div p[k - 1]) % s[k]]
  BY RowIsSeq DEF Tuple
<1> HIDE DEF p, t
<1>4. a \in Nat /\ a < p[n] /\ p[n] \in Nat
  BY <1>1
<1>5. \A k \in 0 .. n : p[k] # 0
  <2> DEFINE U == {j \in 0 .. n : p[n - j] # 0}
  <2>1. 0 \in U
    BY <1>4
  <2>2. ASSUME NEW j \in U, j \in 0 .. n - 1 PROVE j + 1 \in U
    <3>1. n - j \in 1 .. n /\ (n - j) - 1 = n - (j + 1) /\ n - (j + 1) \in 0 .. n
      BY <2>2
    <3>2. p[n - j] = p[n - (j + 1)] * s[n - j] /\ s[n - j] \in Nat
      BY <1>1, <1>2, <3>1
    <3>3. p[n - (j + 1)] # 0
      BY <2>2, <3>2
    <3> QED BY <2>2, <3>3
  <2>3. \A j \in 0 .. n : j \in U
    <3> HIDE DEF U
    <3> QED BY <2>1, <2>2, UpTo
  <2>4. ASSUME NEW k \in 0 .. n PROVE p[k] # 0
    <3>1. n - k \in 0 .. n /\ n - (n - k) = k
      OBVIOUS
    <3> QED BY <2>3, <3>1
  <2> QED BY <2>4
<1>6. ASSUME NEW k \in 1 .. n
      PROVE  /\ p[k - 1] \in Nat \ {0} /\ s[k] \in Nat \ {0}
             /\ t[k] = (a \div p[k - 1]) % s[k]
             /\ t[k] \in Nat /\ t[k] < s[k]
  <2>1. k - 1 \in 0 .. n /\ k \in 0 .. n
    OBVIOUS
  <2>2. p[k - 1] \in Nat \ {0} /\ p[k] # 0 /\ p[k] = p[k - 1] * s[k] /\ s[k] \in Nat
    BY <1>1, <1>2, <1>5, <2>1
  <2>3. s[k] \in Nat \ {0}
    BY <2>2
  <2>4. t[k] = (a \div p[k - 1]) % s[k]
    BY <1>3
  <2>5. a \div p[k - 1] \in Int
    BY <1>4, <2>2, Division
  <2>6. t[k] \in Nat /\ t[k] < s[k]
    BY <2>3, <2>4, <2>5, Division
  <2> QED BY <2>2, <2>3, <2>4, <2>6
<1>7. t \in Row(n, Nat)
  BY <1>3, <1>6 DEF Row
<1>8. t \in Box(n, s)
  BY <1>6, <1>7 DEF Box
<1>9. PICK d \in [0 .. n -> Int] :
          /\ d[0] = 0 /\ Position(t, s) = d[n]
          /\ \A k \in 1 .. n : d[k] = d[k - 1] + t[k] * p[k - 1]
  BY <1>7, PositionUnfold DEF p
<1> DEFINE T == {k \in 0 .. n : d[k] = a % p[k]}
<1>10. \A k \in 0 .. n : k \in T
  <2>1. 0 \in T
    <3>1. a % 1 = 0
      BY <1>4
    <3> QED BY <1>1, <1>9, <3>1
  <2>2. ASSUME NEW m \in T, m \in 0 .. n - 1 PROVE m + 1 \in T
    <3>1. m + 1 \in 1 .. n /\ (m + 1) - 1 = m
      BY <2>2
    <3> DEFINE b == p[m]
               c == s[m + 1]
    <3>2. /\ b \in Nat \ {0} /\ c \in Nat \ {0} /\ p[m + 1] = b * c
          /\ t[m + 1] = (a \div b) % c /\ d[m + 1] = d[m] + t[m + 1] * b /\ d[m] = a % b
      BY <1>1, <1>6, <1>9, <2>2, <3>1
    <3> HIDE DEF b, c
    <3>3. a % (b * c) = (a % b) + ((a \div b) % c) * b
      BY <1>4, <3>2, NextDigit
    <3>4. d[m + 1] = a % p[m + 1]
      BY <3>2, <3>3
    <3> QED BY <3>1, <3>4
  <2> HIDE DEF T
  <2> QED BY <2>1, <2>2, UpTo
<1>11. d[n] = a % p[n]
  BY <1>10
<1>12. a % p[n] = a
  <2> DEFINE b == p[n]
  <2>1. a \in Nat /\ b \in Nat /\ a < b
    BY <1>4
  <2> HIDE DEF b
  <2>2. a % b = a
    BY <2>1
  <2> QED BY <2>2 DEF b
<1> QED BY <1>8, <1>9, <1>11, <1>12 DEF t

(* The index tuples of a shape are those within it.                        *)
LEMMA TuplesAreBox ==
    ASSUME NEW n \in Nat, NEW s \in Row(n, Nat)
    PROVE  Tuples(s) = Box(n, s)
<1>1. ASSUME NEW t \in Tuples(s) PROVE t \in Box(n, s)
  <2>1. PICK a \in 0 .. Product(s) - 1 : t = Tuple(a, s)
    BY DEF Tuples
  <2> QED BY <2>1, TupleInBox
<1>2. ASSUME NEW t \in Box(n, s) PROVE t \in Tuples(s)
  <2>1. Position(t, s) \in 0 .. Product(s) - 1 /\ t = Tuple(Position(t, s), s)
    BY PositionInBox
  <2> QED BY <2>1 DEF Tuples
<1> QED BY <1>1, <1>2

-----------------------------------------------------------------------------
(* The address of an element, when modes are replaced by others.           *)

LEMMA DotOfPart ==
    ASSUME NEW n \in Nat, NEW a \in Row(n, Int), NEW b \in Row(n, Int), NEW from \in 1 .. n, NEW to \in from .. n
    PROVE  Dot(SubSeq(a, from, to), SubSeq(b, from, to)) = Dots(a, b)[to] - Dots(a, b)[from - 1]
<1> DEFINE w == to - from + 1
           c == SubSeq(a, from, to)
           d == SubSeq(b, from, to)
           m == from - 1
<1>1. c \in Row(w, Int) /\ w \in Nat /\ \A i \in 1 .. w : c[i] = a[from + i - 1]
  BY PartIsSeq
<1>2. d \in Row(w, Int) /\ \A i \in 1 .. w : d[i] = b[from + i - 1]
  BY PartIsSeq
<1>3. m \in 0 .. n /\ m + w <= n /\ 0 \in 0 .. w /\ 0 + w <= w /\ m + w = to
  OBVIOUS
<1>4. \A i \in 1 .. w : m + i = from + i - 1 /\ 0 + i = i
  OBVIOUS
<1> HIDE DEF c, d, w, m
<1>5. SameProducts(a, b, m, c, d, 0, w)
  BY <1>1, <1>2, <1>4 DEF SameProducts
<1>6. Dots(a, b)[m + w] - Dots(a, b)[m] = Dots(c, d)[0 + w] - Dots(c, d)[0]
  BY <1>1, <1>2, <1>3, <1>5, DotsShift
<1>7. Dots(c, d)[0] = 0 /\ Dot(c, d) = Dots(c, d)[w] /\ Dot(c, d) \in Int
  BY <1>1, <1>2, DotsUnfold
<1>8. Dots(a, b)[to] - Dots(a, b)[m] = Dots(c, d)[w] - 0
  <2>1. w \in 0 .. w /\ 0 + w = w
    BY <1>1
  <2> QED BY <1>3, <1>6, <1>7, <2>1
<1> QED BY <1>7, <1>8 DEF c, d, m

LEMMA DotReplaced ==
    ASSUME NEW n \in Nat, NEW a \in Row(n, Int), NEW b \in Row(n, Int), NEW from \in 1 .. n, NEW to \in from .. n,
           NEW w \in Nat, NEW u \in Row(w, Int), NEW v \in Row(w, Int)
    PROVE  Dot(Replaced(a, from, to, u), Replaced(b, from, to, v))
               = (Dot(a, b) - Dot(SubSeq(a, from, to), SubSeq(b, from, to))) + Dot(u, v)
<1> DEFINE l == After(n, from, to, w)
           c == Replaced(a, from, to, u)
           d == Replaced(b, from, to, v)
           f == Dots(a, b)
           g == Dots(c, d)
           m == from - 1
           r == n - to
<1>1. /\ l = m + w + r /\ l \in Nat /\ m \in Nat /\ r \in Nat
      /\ m \in 0 .. n /\ to \in 0 .. n /\ m + w \in 0 .. l /\ m \in 0 .. l
  BY DEF After
<1>2. c \in Row(l, Int)
  BY ReplacedFacts
<1>3. d \in Row(l, Int)
  BY ReplacedFacts
<1>4. ASSUME NEW i \in 1 .. l
      PROVE  /\ i < from => c[i] = a[i] /\ d[i] = b[i]
             /\ from <= i /\ i < from + w => c[i] = u[i - from + 1] /\ d[i] = v[i - from + 1]
             /\ from + w <= i => c[i] = a[i - w + (to - from + 1)] /\ d[i] = b[i - w + (to - from + 1)]
  <2>1. /\ i < from => c[i] = a[i]
        /\ from <= i /\ i < from + w => c[i] = u[i - from + 1]
        /\ from + w <= i => c[i] = a[i - w + (to - from + 1)]
    BY ReplacedFacts
  <2>2. /\ i < from => d[i] = b[i]
        /\ from <= i /\ i < from + w => d[i] = v[i - from + 1]
        /\ from + w <= i => d[i] = b[i - w + (to - from + 1)]
    BY ReplacedFacts
  <2> QED BY <2>1, <2>2
<1> HIDE DEF l, c, d
<1>5. SameProducts(c, d, 0, a, b, 0, m)
  <2>1. ASSUME NEW i \in 1 .. m PROVE 0 + i \in 1 .. l /\ 0 + i < from /\ 0 + i = i
    BY <1>1
  <2> QED BY <1>4, <2>1 DEF SameProducts
<1>6. SameProducts(c, d, m, u, v, 0, w)
  <2>1. ASSUME NEW i \in 1 .. w
        PROVE  m + i \in 1 .. l /\ from <= m + i /\ m + i < from + w /\ (m + i) - from + 1 = 0 + i
    BY <1>1
  <2> QED BY <1>4, <2>1 DEF SameProducts
<1>7. SameProducts(c, d, m + w, a, b, to, r)
  <2>1. ASSUME NEW i \in 1 .. r
        PROVE  /\ (m + w) + i \in 1 .. l /\ from + w <= (m + w) + i
               /\ ((m + w) + i) - w + (to - from + 1) = to + i
    BY <1>1
  <2> QED BY <1>4, <2>1 DEF SameProducts
<1> HIDE DEF f, g, m, r
<1>8. g[m] - g[0] = f[m] - f[0]
  <2>1. 0 \in 0 .. l /\ 0 \in 0 .. n /\ 0 + m <= l /\ 0 + m <= n /\ m \in 0 .. m /\ 0 + m = m
    BY <1>1
  <2>2. g[0 + m] - g[0] = f[0 + m] - f[0]
    BY <1>1, <1>2, <1>3, <1>5, <2>1, DotsShift DEF f, g
  <2> QED BY <2>1, <2>2
<1>9. g[m + w] - g[m] = Dots(u, v)[w] - Dots(u, v)[0]
  <2>1. 0 \in 0 .. w /\ 0 + w <= w /\ m + w <= l /\ w \in 0 .. w /\ 0 + w = w
    BY <1>1
  <2>2. g[m + w] - g[m] = Dots(u, v)[0 + w] - Dots(u, v)[0]
    BY <1>1, <1>2, <1>3, <1>6, <2>1, DotsShift DEF g
  <2> QED BY <2>1, <2>2
<1>10. g[l] - g[m + w] = f[n] - f[to]
  <2>1. (m + w) + r <= l /\ to + r <= n /\ r \in 0 .. r /\ (m + w) + r = l /\ to + r = n
    BY <1>1 DEF r
  <2>2. g[(m + w) + r] - g[m + w] = f[to + r] - f[to]
    BY <1>1, <1>2, <1>3, <1>7, <2>1, DotsShift DEF f, g
  <2> QED BY <2>1, <2>2
<1>11. f \in [0 .. n -> Int] /\ f[0] = 0 /\ Dot(a, b) = f[n]
  BY DotsUnfold DEF f, Row
<1>12. g \in [0 .. l -> Int] /\ g[0] = 0 /\ Dot(c, d) = g[l]
  BY <1>1, <1>2, <1>3, DotsUnfold, ZenonT(60) DEF g, Row
<1>13. Dots(u, v)[0] = 0 /\ Dot(u, v) = Dots(u, v)[w] /\ Dot(u, v) \in Int
  BY DotsUnfold DEF Row
<1>14. Dot(SubSeq(a, from, to), SubSeq(b, from, to)) = f[to] - f[m]
  BY DotOfPart DEF f, m
<1>15. /\ f[to] \in Int /\ f[m] \in Int /\ f[n] \in Int
       /\ g[m] \in Int /\ g[m + w] \in Int /\ g[l] \in Int
  <2>1. n \in 0 .. n /\ l \in 0 .. l
    BY <1>1
  <2> QED BY <1>1, <1>11, <1>12, <2>1
<1>16. g[l] = (f[n] - (f[to] - f[m])) + Dot(u, v)
  <2> DEFINE f1 == f[to]  f2 == f[m]  f3 == f[n]  g1 == g[m]  g2 == g[m + w]  g3 == g[l]  e == Dot(u, v)
  <2>1. /\ f1 \in Int /\ f2 \in Int /\ f3 \in Int /\ g1 \in Int /\ g2 \in Int /\ g3 \in Int /\ e \in Int
        /\ g1 - 0 = f2 - 0 /\ g2 - g1 = e - 0 /\ g3 - g2 = f3 - f1
    BY <1>8, <1>9, <1>10, <1>11, <1>12, <1>13, <1>15
  <2> HIDE DEF f1, f2, f3, g1, g2, g3, e
  <2>2. g3 = (f3 - (f1 - f2)) + e
    BY <2>1
  <2> QED BY <2>2 DEF f1, f2, f3, g3, e
<1> QED BY <1>11, <1>12, <1>14, <1>16 DEF c, d

(* What was replaced, put back.                                            *)
LEMMA ReplacedBack ==
    ASSUME NEW n \in Nat, NEW S, NEW s \in Row(n, S), NEW from \in 1 .. n, NEW to \in from .. n,
           NEW w \in Nat \ {0}, NEW u \in Row(w, S)
    PROVE  /\ Replaced(Replaced(s, from, to, u), from, from + w - 1, SubSeq(s, from, to)) = s
           /\ SubSeq(Replaced(s, from, to, u), from, from + w - 1) = u
           /\ from \in 1 .. After(n, from, to, w) /\ from + w - 1 \in from .. After(n, from, to, w)
           /\ After(After(n, from, to, w), from, from + w - 1, to - from + 1) = n
<1> DEFINE l == After(n, from, to, w)
           r == Replaced(s, from, to, u)
           k == from + w - 1
           h == to - from + 1
           p == SubSeq(s, from, to)
           q == Replaced(r, from, k, p)
           y == SubSeq(r, from, k)
<1>1. /\ l \in Nat /\ from \in 1 .. l /\ k \in from .. l /\ After(l, from, k, h) = n
      /\ l = n - h + w /\ h \in Nat /\ w \in Nat /\ k - from + 1 = w
  BY DEF After
<1>2. r \in Row(l, S)
  BY <1>1, ReplacedFacts
<1>3. ASSUME NEW i \in 1 .. l
      PROVE  /\ i < from => r[i] = s[i]
             /\ from <= i /\ i < from + w => r[i] = u[i - from + 1]
             /\ from + w <= i => r[i] = s[i - w + h]
  BY <1>1, ReplacedFacts
<1>4. p \in Row(h, S) /\ \A i \in 1 .. h : p[i] = s[from + i - 1]
  BY PartIsSeq
<1> HIDE DEF l, r, p
<1>5. q \in Row(n, S)
  <2>1. q \in Row(After(l, from, k, h), S)
    <3> HIDE DEF k, h
    <3> QED BY <1>1, <1>2, <1>4, ReplacedFacts
  <2> QED BY <1>1, <2>1
<1>6. ASSUME NEW i \in 1 .. n
      PROVE  /\ i < from => q[i] = r[i]
             /\ from <= i /\ i < from + h => q[i] = p[i - from + 1]
             /\ from + h <= i => q[i] = r[i - h + (k - from + 1)]
  <2>1. i \in 1 .. After(l, from, k, h)
    BY <1>1
  <2> HIDE DEF k, h
  <2> QED BY <1>1, <1>2, <1>4, <2>1, ReplacedFacts
<1>7. ASSUME NEW i \in 1 .. n PROVE q[i] = s[i]
  <2>1. CASE i < from
    <3>1. i \in 1 .. l
      BY <1>1, <2>1
    <3> QED BY <1>3, <1>6, <2>1, <3>1
  <2>2. CASE from <= i /\ i < from + h
    <3>1. i - from + 1 \in 1 .. h /\ from + (i - from + 1) - 1 = i
      BY <2>2
    <3> QED BY <1>4, <1>6, <2>2, <3>1
  <2>3. CASE from + h <= i
    <3>1. /\ i - h + (k - from + 1) \in 1 .. l /\ from + w <= i - h + (k - from + 1)
          /\ (i - h + (k - from + 1)) - w + h = i
      BY <1>1, <2>3
    <3> HIDE DEF q, h, k
    <3> QED BY <1>3, <1>6, <2>3, <3>1
  <2> QED BY <2>1, <2>2, <2>3
<1>8. q = s
  <2> HIDE DEF q
  <2> QED BY <1>5, <1>7 DEF Row
<1>9. y \in Row(w, S) /\ \A i \in 1 .. w : y[i] = r[from + i - 1]
  <2>1. y \in Row(k - from + 1, S)
    <3> HIDE DEF k
    <3> QED BY <1>1, <1>2, PartIsSeq
  <2>2. ASSUME NEW i \in 1 .. w PROVE y[i] = r[from + i - 1]
    <3>1. i \in 1 .. k - from + 1
      BY <1>1
    <3> HIDE DEF k
    <3> QED BY <1>1, <1>2, <3>1, PartIsSeq
  <2> HIDE DEF k, y
  <2> QED BY <1>1, <2>1, <2>2
<1>10. ASSUME NEW i \in 1 .. w PROVE y[i] = u[i]
  <2>1. from + i - 1 \in 1 .. l /\ from <= from + i - 1 /\ from + i - 1 < from + w /\ (from + i - 1) - from + 1 = i
    BY <1>1
  <2> HIDE DEF y
  <2> QED BY <1>3, <1>9, <2>1
<1>11. y = u
  <2> HIDE DEF y
  <2> QED BY <1>9, <1>10 DEF Row
<1> QED BY <1>1, <1>8, <1>11 DEF l, r, p

LEMMA PutBack ==
    ASSUME NEW n \in Nat, NEW S, NEW s \in Row(n, S), NEW from \in 1 .. n, NEW to \in from .. n,
           NEW w \in Nat \ {0}, NEW u \in Row(w, S), NEW k, k = from + w - 1
    PROVE  Replaced(Replaced(s, from, to, u), from, k, SubSeq(s, from, to)) = s
BY ReplacedBack

LEMMA PartPut ==
    ASSUME NEW n \in Nat, NEW S, NEW s \in Row(n, S), NEW from \in 1 .. n, NEW to \in from .. n,
           NEW w \in Nat \ {0}, NEW u \in Row(w, S), NEW k, k = from + w - 1
    PROVE  SubSeq(Replaced(s, from, to, u), from, k) = u
BY ReplacedBack

Less == {r \in Nat \X Nat : r[1] < r[2]}

LEMMA BoxMeans ==
    ASSUME NEW n \in Nat, NEW s \in Row(n, Nat), NEW t
    PROVE  t \in Box(n, s) <=> t \in Row(n, Nat) /\ Related(Less, n, t, s)
<1>1. ASSUME t \in Row(n, Nat)
      PROVE  (\A k \in 1 .. n : t[k] < s[k]) <=> Related(Less, n, t, s)
  <2>1. \A k \in 1 .. n : t[k] \in Nat /\ s[k] \in Nat
    BY <1>1, RowElement
  <2> QED BY <2>1 DEF Related, Less
<1> QED BY <1>1 DEF Box

LEMMA SwapModes ==
    ASSUME NEW n \in Nat, NEW a \in Row(n, Int), NEW b \in Row(n, Int), NEW from \in 1 .. n, NEW to \in from .. n,
           NEW w \in Nat, NEW u \in Row(w, Int), NEW v \in Row(w, Int),
           Dot(SubSeq(a, from, to), SubSeq(b, from, to)) = Dot(u, v)
    PROVE  Dot(Replaced(a, from, to, u), Replaced(b, from, to, v)) = Dot(a, b)
<1>1. Dot(Replaced(a, from, to, u), Replaced(b, from, to, v))
          = (Dot(a, b) - Dot(SubSeq(a, from, to), SubSeq(b, from, to))) + Dot(u, v)
  BY DotReplaced
<1>2. Dot(a, b) \in Int /\ Dot(u, v) \in Int
  BY DotsUnfold
<1> DEFINE x1 == Dot(a, b)
           x2 == Dot(u, v)
<1> HIDE DEF x1, x2
<1>3. (x1 - x2) + x2 = x1
  BY <1>2 DEF x1, x2
<1> QED BY <1>1, <1>3 DEF x1, x2

LEMMA OnePut ==
    ASSUME NEW n \in Nat, NEW S, NEW s \in Row(n, S), NEW from \in 1 .. n, NEW to \in from .. n, NEW v \in S
    PROVE  /\ Replaced(Replaced(s, from, to, <<v>>), from, from, SubSeq(s, from, to)) = s
           /\ SubSeq(Replaced(s, from, to, <<v>>), from, from) = <<v>>
<1> DEFINE h == 1
           u == <<v>>
<1>1. u \in Row(h, S) /\ h \in Nat \ {0} /\ from = from + h - 1
  BY RowOfOne
<1> HIDE DEF h, u
<1>2. Replaced(Replaced(s, from, to, u), from, from, SubSeq(s, from, to)) = s
  BY <1>1, PutBack
<1>3. SubSeq(Replaced(s, from, to, u), from, from + h - 1) = u
  BY <1>1, ReplacedBack
<1>4. SubSeq(Replaced(s, from, to, u), from, from) = u
  BY <1>1, <1>3
<1> QED BY <1>2, <1>4 DEF u

LEMMA SwapToOne ==
    ASSUME NEW n \in Nat, NEW a \in Row(n, Int), NEW b \in Row(n, Int), NEW from \in 1 .. n, NEW to \in from .. n,
           NEW c, NEW d, <<c>> \in Row(1, Int), <<d>> \in Row(1, Int),
           Dot(SubSeq(a, from, to), SubSeq(b, from, to)) = Dot(<<c>>, <<d>>)
    PROVE  Dot(Replaced(a, from, to, <<c>>), Replaced(b, from, to, <<d>>)) = Dot(a, b)
<1> DEFINE h == 1
           u == <<c>>
           v == <<d>>
<1>1. u \in Row(h, Int) /\ v \in Row(h, Int) /\ h \in Nat
  OBVIOUS
<1>2. Dot(SubSeq(a, from, to), SubSeq(b, from, to)) = Dot(u, v)
  OBVIOUS
<1> HIDE DEF h, u, v
<1>3. Dot(Replaced(a, from, to, u), Replaced(b, from, to, v)) = Dot(a, b)
  BY <1>1, <1>2, SwapModes
<1> QED BY <1>3 DEF u, v

LEMMA DotOfOne ==
    ASSUME NEW a \in Int, NEW b \in Int
    PROVE  Dot(<<a>>, <<b>>) = a * b
<1>1. <<a>> \in Row(1, Int) /\ <<b>> \in Row(1, Int) /\ <<a>>[1] = a /\ <<b>>[1] = b
  BY RowOfOne
<1> DEFINE d == Dots(<<a>>, <<b>>)
<1>2. d[0] = 0 /\ Dot(<<a>>, <<b>>) = d[1] /\ \A k \in 1 .. 1 : d[k] = d[k - 1] + <<a>>[k] * <<b>>[k]
  BY <1>1, DotsUnfold
<1> HIDE DEF d
<1>3. d[1] = d[1 - 1] + a * b
  BY <1>1, <1>2
<1>4. 1 - 1 = 0 /\ 0 + a * b = a * b
  OBVIOUS
<1> QED BY <1>2, <1>3, <1>4

LEMMA PartOfOne ==
    ASSUME NEW n \in Nat, NEW S, NEW s \in Row(n, S), NEW m \in 1 .. n
    PROVE  SubSeq(s, m, m) = <<s[m]>>
<1>1. m \in m .. n /\ m - m + 1 = 1 /\ m + 1 - 1 = m
  OBVIOUS
<1>2. SubSeq(s, m, m) \in Row(1, S) /\ SubSeq(s, m, m)[1] = s[m]
  BY <1>1, PartIsSeq
<1>3. <<s[m]>> \in Row(1, S) /\ <<s[m]>>[1] = s[m]
  BY RowElement, RowOfOne
<1> DEFINE p == SubSeq(s, m, m)
           o == <<s[m]>>
<1>4. p \in Row(1, S) /\ o \in Row(1, S) /\ p[1] = o[1]
  BY <1>2, <1>3
<1> HIDE DEF p, o
<1>5. p = o
  BY <1>4 DEF Row
<1> QED BY <1>5 DEF p, o

(* Strides without gaps count positions. *)
LEMMA DotCanonical ==
    ASSUME NEW n \in Nat, NEW s \in Row(n, Nat), NEW t \in Row(n, Nat), NEW f \in Int
    PROVE  Canonical(f, s) \in Row(n, Int) /\ Dot(t, Canonical(f, s)) = f * Position(t, s)
           /\ \A k \in 1 .. n : Canonical(f, s)[k] = f * Products(s)[k - 1]
<1> DEFINE b == Canonical(1, s)
           c == Canonical(f, s)
<1>1. \A k \in 1 .. n : Products(s)[k - 1] \in Int
  <2>1. \A k \in 1 .. n : k - 1 \in 0 .. n
    OBVIOUS
  <2> QED BY <2>1, SizeProducts
<1>2. /\ b = [k \in 1 .. n |-> Times(1, Products(s)[k - 1])]
      /\ c = [k \in 1 .. n |-> Times(f, Products(s)[k - 1])]
  BY RowIsSeq DEF Canonical
<1>3. ASSUME NEW k \in 1 .. n
      PROVE  b[k] \in Int /\ c[k] \in Int /\ b[k] = Products(s)[k - 1] /\ c[k] = f * b[k]
  <2> DEFINE e == Products(s)[k - 1]
  <2>1. e \in Int /\ b[k] = Times(1, e) /\ c[k] = Times(f, e)
    BY <1>1, <1>2
  <2> HIDE DEF b, c, e
  <2>2. Times(1, e) = 1 * e
    <3>1. 1 \in Int
      OBVIOUS
    <3> QED BY <2>1, <3>1, TimesFacts
  <2>3. Times(f, e) = f * e
    BY <2>1, TimesFacts
  <2>4. 1 * e = e /\ f * e \in Int
    BY <2>1
  <2> QED BY <2>1, <2>2, <2>3, <2>4 DEF e
<1>4. b \in Row(n, Int) /\ c \in Row(n, Int)
  <2> HIDE DEF b, c
  <2>1. b = [k \in 1 .. n |-> b[k]] /\ c = [k \in 1 .. n |-> c[k]]
    BY <1>2
  <2> QED BY <1>3, <2>1 DEF Row
<1>5. t \in Row(n, Int)
  BY RowGrows, Nat \subseteq Int
<1>6. Position(t, s) = Dot(t, b)
  BY DEF Position
<1> HIDE DEF b, c
<1>7. Dot(t, c) = f * Dot(t, b)
  BY <1>3, <1>4, <1>5, DotScales
<1> QED BY <1>3, <1>4, <1>6, <1>7 DEF c

(* expand: the element an element of the new view is.                      *)
LEMMA ExpandElement ==
    ASSUME NEW n \in Nat, NEW shape \in Row(n, Nat), NEW stride \in Row(n, Int), NEW m \in 1 .. n,
           NEW w \in Nat \ {0}, NEW run \in Row(w, Nat), Product(run) = shape[m],
           NEW t \in Box(After(n, m, m, w), Replaced(shape, m, m, run)),
           NEW e, e = Replaced(t, m, m + w - 1, <<Position(SubSeq(t, m, m + w - 1), run)>>)
    PROVE  /\ e \in Box(n, shape)
           /\ Dot(t, Replaced(stride, m, m, Canonical(stride[m], run))) = Dot(e, stride)
<1> DEFINE l == After(n, m, m, w)
           sh == Replaced(shape, m, m, run)
           k == m + w - 1
           digits == SubSeq(t, m, k)
           pos == Position(digits, run)
           c == Canonical(stride[m], run)
<1>1. m \in m .. n /\ m - m + 1 = 1 /\ l \in Nat
  BY DEF After
<1>2. sh \in Row(l, Nat)
  BY <1>1, ReplacedFacts
<1>3. /\ SubSeq(sh, m, k) = run
      /\ Replaced(sh, m, k, SubSeq(shape, m, m)) = shape
      /\ m \in 1 .. l /\ k \in m .. l /\ After(l, m, k, 1) = n
  BY <1>1, ReplacedBack
<1>4. t \in Row(l, Nat) /\ Related(Less, l, t, sh)
  BY <1>1, <1>2, BoxMeans
<1>5. k - m + 1 = w /\ w \in Nat
  BY <1>1
<1> HIDE DEF l, sh, k
<1>6. digits \in Row(w, Nat)
  BY <1>1, <1>3, <1>4, <1>5, PartIsSeq
<1>7. Related(Less, w, digits, run)
  BY <1>1, <1>2, <1>3, <1>4, <1>5, RelatedPart
<1> HIDE DEF digits
<1>8. digits \in Box(w, run)
  BY <1>5, <1>6, <1>7, BoxMeans
<1>9. pos \in 0 .. Product(run) - 1
  BY <1>5, <1>8, PositionInBox
<1>10. shape[m] \in Nat
  BY RowElement
<1> HIDE DEF pos
<1>11. pos \in Nat /\ <<pos, shape[m]>> \in Less
  BY <1>9, <1>10 DEF Less
<1>12. SubSeq(shape, m, m) = <<shape[m]>>
  BY PartOfOne
<1>13. e = Replaced(t, m, k, <<pos>>)
  BY DEF pos, digits, k
<1>14. e \in Row(n, Nat)
  <2>1. Replaced(t, m, k, <<pos>>) \in Row(After(l, m, k, 1), Nat)
    BY <1>1, <1>2, <1>3, <1>4, <1>10, <1>11, RelatedOne
  <2> QED BY <1>3, <1>13, <2>1
<1>15. Related(Less, n, e, shape)
  <2>1. Related(Less, After(l, m, k, 1), Replaced(t, m, k, <<pos>>), Replaced(sh, m, k, <<shape[m]>>))
    BY <1>1, <1>2, <1>3, <1>4, <1>10, <1>11, RelatedOne
  <2> QED BY <1>3, <1>12, <1>13, <2>1
<1>16. e \in Box(n, shape)
  BY <1>14, <1>15, BoxMeans
<1>17. t = Replaced(e, m, m, digits) /\ SubSeq(e, m, m) = <<pos>>
  <2>1. 1 \in Nat \ {0} /\ <<pos>> \in Row(1, Nat) /\ m = m + 1 - 1
    BY <1>11, RowOfOne
  <2>2. l \in Nat /\ t \in Row(l, Nat) /\ m \in 1 .. l /\ k \in m .. l
    BY <1>1, <1>3, <1>4
  <2> DEFINE u == <<pos>>
  <2>3. u \in Row(1, Nat)
    BY <2>1
  <2> HIDE DEF u
  <2>4. Replaced(Replaced(t, m, k, u), m, m, SubSeq(t, m, k)) = t
    BY <2>1, <2>2, <2>3, PutBack
  <2>5. SubSeq(Replaced(t, m, k, u), m, m) = u
    BY <2>1, <2>2, <2>3, PartPut, SMTT(60)
  <2> QED BY <1>13, <2>4, <2>5 DEF digits, u
<1>18. stride[m] \in Int /\ SubSeq(stride, m, m) = <<stride[m]>>
  BY RowElement, PartOfOne
<1>19. c \in Row(w, Int) /\ Dot(digits, c) = stride[m] * pos
  <2>1. c \in Row(w, Int)
    BY <1>5, <1>6, <1>18, DotCanonical
  <2>2. Dot(digits, c) = stride[m] * pos
    BY <1>5, <1>6, <1>18, DotCanonical DEF pos
  <2> QED BY <2>1, <2>2
<1>20. Dot(SubSeq(e, m, m), SubSeq(stride, m, m)) = Dot(digits, c)
  <2>1. Dot(<<pos>>, <<stride[m]>>) = pos * stride[m]
    BY <1>11, <1>18, DotOfOne
  <2>2. pos * stride[m] = stride[m] * pos
    BY <1>11, <1>18
  <2> QED BY <1>17, <1>18, <1>19, <2>1, <2>2
<1> HIDE DEF c
<1>21. e \in Row(n, Int) /\ digits \in Row(w, Int)
  BY <1>5, <1>6, <1>14, RowGrows, Nat \subseteq Int
<1>22. Dot(Replaced(e, m, m, digits), Replaced(stride, m, m, c)) = Dot(e, stride)
  BY <1>1, <1>5, <1>19, <1>20, <1>21, SwapModes
<1> QED BY <1>16, <1>17, <1>22 DEF c

(* Contiguous modes have canonical strides.                                *)
Gapless(shape, stride, from, to) ==
    SubSeq(stride, from, to) = Canonical(stride[from], SubSeq(shape, from, to))

LEMMA ContiguousCanonical ==
    ASSUME NEW n \in Nat, NEW dope, dope.shape \in Row(n, Nat), dope.stride \in Row(n, Int),
           NEW from \in 1 .. n, NEW to \in from .. n, Contiguous(dope, from, to)
    PROVE  Gapless(dope.shape, dope.stride, from, to)
<1> DEFINE w == to - from + 1
           s == SubSeq(dope.shape, from, to)
           d == SubSeq(dope.stride, from, to)
           f == dope.stride[from]
           c == Canonical(f, s)
           p == Products(s)
<1>1. s \in Row(w, Nat) /\ w \in Nat
  BY PartIsSeq
<1>2. \A i \in 1 .. w : s[i] = dope.shape[from + i - 1]
  BY PartIsSeq
<1>3. d \in Row(w, Int)
  BY PartIsSeq
<1>4. \A i \in 1 .. w : d[i] = dope.stride[from + i - 1]
  BY PartIsSeq
<1>5. f \in Int
  BY RowElement
<1> HIDE DEF s, d, f
<1>6. c \in Row(w, Int)
  <2>1. [i \in 1 .. w |-> 0] \in Row(w, Nat)
    BY DEF Row
  <2> QED BY <1>1, <1>5, <2>1, DotCanonical
<1>7. \A k \in 1 .. w : c[k] = f * p[k - 1]
  <2>1. [i \in 1 .. w |-> 0] \in Row(w, Nat)
    BY DEF Row
  <2> QED BY <1>1, <1>5, <2>1, DotCanonical
<1>8. p \in [0 .. w -> Nat] /\ p[0] = 1 /\ \A k \in 1 .. w : p[k] = p[k - 1] * s[k]
  BY <1>1, SizeProducts
<1> HIDE DEF c, p
<1> DEFINE T == {j \in 0 .. w - 1 : d[j + 1] = f * p[j]}
<1>9. 0 \in T
  <2>1. from + 1 - 1 = from /\ 1 \in 1 .. w /\ 0 \in 0 .. w - 1
    BY <1>1
  <2>2. d[1] = f
    BY <1>4, <2>1 DEF f
  <2> QED BY <1>5, <1>8, <2>1, <2>2
<1>10. ASSUME NEW j \in T, j \in 0 .. (w - 1) - 1 PROVE j + 1 \in T
  <2> DEFINE k == from + j
  <2>1. /\ j + 1 \in 1 .. w /\ (j + 1) + 1 \in 1 .. w /\ k \in from .. to - 1 /\ j + 1 \in 0 .. w - 1
        /\ from + (j + 1) - 1 = k /\ from + ((j + 1) + 1) - 1 = k + 1 /\ (j + 1) - 1 = j /\ j \in 0 .. w
    BY <1>10
  <2> HIDE DEF k, w
  <2>2. dope.stride[k] * dope.shape[k] = dope.stride[k + 1]
    BY <2>1 DEF Contiguous
  <2>3. d[j + 1] * s[j + 1] = d[(j + 1) + 1]
    BY <1>2, <1>4, <2>1, <2>2
  <2>4. d[j + 1] = f * p[j] /\ p[j + 1] = p[j] * s[j + 1]
    BY <1>8, <1>10, <2>1
  <2>5. p[j] \in Nat /\ s[j + 1] \in Nat
    BY <1>1, <1>8, <2>1, RowElement
  <2> DEFINE a == p[j]
             b == s[j + 1]
  <2>6. a \in Nat /\ b \in Nat
    BY <2>5
  <2> HIDE DEF a, b
  <2>7. (f * a) * b = f * (a * b)
    BY <1>5, <2>6
  <2>8. d[(j + 1) + 1] = f * p[j + 1]
    BY <2>3, <2>4, <2>7 DEF a, b
  <2> QED BY <2>1, <2>8 DEF w
<1>11. \A j \in 0 .. w - 1 : d[j + 1] = f * p[j]
  <2>1. w - 1 \in Nat
    OBVIOUS
  <2>2. \A j \in 0 .. w - 1 : j \in T
    <3> HIDE DEF T, w
    <3> QED BY <1>9, <1>10, <2>1, UpTo
  <2> QED BY <2>2
<1>12. ASSUME NEW i \in 1 .. w PROVE d[i] = c[i]
  <2>1. i - 1 \in 0 .. w - 1 /\ (i - 1) + 1 = i
    OBVIOUS
  <2>2. d[(i - 1) + 1] = f * p[i - 1]
    BY <1>11, <2>1
  <2> HIDE DEF w
  <2> QED BY <1>7, <2>1, <2>2
<1> HIDE DEF w
<1>13. d = c
  BY <1>1, <1>3, <1>6, <1>12, RowEqual
<1> QED BY <1>13 DEF d, c, f, s, Gapless


(* fuse: the element an element of the new view is.                        *)
LEMMA FuseElement ==
    ASSUME NEW n \in Nat, NEW shape \in Row(n, Nat), NEW stride \in Row(n, Int),
           NEW from \in 1 .. n, NEW to \in from .. n,
           Gapless(shape, stride, from, to),
           NEW t \in Box(After(n, from, to, 1), Replaced(shape, from, to, <<Product(SubSeq(shape, from, to))>>)),
           NEW e, e = Replaced(t, from, from, Tuple(t[from], SubSeq(shape, from, to)))
    PROVE  /\ e \in Box(n, shape)
           /\ Dot(t, Replaced(stride, from, to, <<stride[from]>>)) = Dot(e, stride)
<1> DEFINE w == to - from + 1
           l == After(n, from, to, 1)
           modes == SubSeq(shape, from, to)
           one == <<Product(modes)>>
           sh == Replaced(shape, from, to, one)
           a == t[from]
           digits == Tuple(a, modes)
           f == stride[from]
           c == Canonical(f, modes)
<1>1. /\ w \in Nat /\ w \in Nat \ {0} /\ l \in Nat /\ from \in 1 .. l /\ from \in from .. l
      /\ After(l, from, from, w) = n /\ 1 \in Nat /\ 1 \in Nat \ {0}
      /\ from = from + 1 - 1 /\ to = from + w - 1
  BY DEF After
<1>2. modes \in Row(w, Nat)
  BY PartIsSeq
<1> HIDE DEF modes
<1>3. Product(modes) \in Nat
  <2>1. w \in 0 .. w
    BY <1>1
  <2> HIDE DEF w
  <2> QED BY <1>1, <1>2, <2>1, SizeProducts
<1>4. one \in Row(1, Nat) /\ one[1] = Product(modes)
  BY <1>3, RowOfOne
<1> HIDE DEF one
<1>5. sh \in Row(l, Nat)
  BY <1>1, <1>4, ReplacedFacts
<1>6. Replaced(sh, from, from, modes) = shape
  <2> DEFINE v == Product(modes)
  <2>1. v \in Nat
    BY <1>3
  <2> HIDE DEF v
  <2>2. Replaced(Replaced(shape, from, to, <<v>>), from, from, SubSeq(shape, from, to)) = shape
    BY <2>1, OnePut
  <2> QED BY <2>2 DEF modes, v, one
<1>7. SubSeq(sh, from, from) = one
  <2> DEFINE v == Product(modes)
  <2>1. v \in Nat
    BY <1>3
  <2> HIDE DEF v
  <2>2. SubSeq(Replaced(shape, from, to, <<v>>), from, from) = <<v>>
    BY <2>1, OnePut
  <2> QED BY <2>2 DEF v, one
<1>8. t \in Row(l, Nat) /\ Related(Less, l, t, sh)
  <2>1. t \in Box(l, sh)
    BY DEF one, modes
  <2> HIDE DEF l, sh
  <2> QED BY <1>1, <1>5, <2>1, BoxMeans
<1> HIDE DEF l, sh, w
<1>9. sh[from] = Product(modes)
  <2>1. SubSeq(sh, from, from) = <<sh[from]>>
    BY <1>1, <1>5, PartOfOne
  <2> QED BY <1>4, <1>7, <2>1
<1>10. a \in 0 .. Product(modes) - 1
  <2>1. a \in Nat
    BY <1>1, <1>8, RowElement
  <2>2. <<a, sh[from]>> \in Less
    BY <1>1, <1>8 DEF Related
  <2> QED BY <1>3, <1>9, <2>1, <2>2 DEF Less
<1>11. a \in Nat /\ a \in Int
  BY <1>3, <1>10
<1> HIDE DEF a
<1>12. digits \in Box(w, modes) /\ Position(digits, modes) = a
  BY <1>1, <1>2, <1>10, TupleInBox
<1> HIDE DEF digits
<1>13. digits \in Row(w, Nat) /\ Related(Less, w, digits, modes)
  BY <1>1, <1>2, <1>12, BoxMeans
<1>14. e = Replaced(t, from, from, digits)
  BY DEF digits, a, modes
<1>15. e \in Row(n, Nat)
  <2>1. Replaced(t, from, from, digits) \in Row(After(l, from, from, w), Nat)
    BY <1>1, <1>8, <1>13, ReplacedFacts
  <2> QED BY <1>1, <1>14, <2>1
<1>16. Related(Less, n, e, shape)
  <2>1. Related(Less, After(l, from, from, w), Replaced(t, from, from, digits), Replaced(sh, from, from, modes))
    BY <1>1, <1>2, <1>5, <1>8, <1>13, RelatedReplaced
  <2> QED BY <1>1, <1>6, <1>14, <2>1
<1>17. e \in Box(n, shape)
  BY <1>15, <1>16, BoxMeans
<1>18. SubSeq(t, from, from) = <<a>>
  BY <1>1, <1>8, PartOfOne DEF a
<1>19. Replaced(e, from, to, <<a>>) = t
  <2>1. Replaced(Replaced(t, from, from, digits), from, to, SubSeq(t, from, from)) = t
    BY <1>1, <1>8, <1>13, PutBack
  <2> QED BY <1>14, <1>18, <2>1
<1>20. SubSeq(e, from, to) = digits
  <2>1. SubSeq(Replaced(t, from, from, digits), from, to) = digits
    BY <1>1, <1>8, <1>13, PartPut
  <2> QED BY <1>14, <2>1
<1>21. f \in Int
  BY RowElement
<1>22. SubSeq(stride, from, to) = c
  BY DEF c, f, modes, Gapless
<1>23. Dot(digits, c) = f * a
  <2> HIDE DEF f
  <2>1. Dot(digits, c) = f * Position(digits, modes)
    BY <1>1, <1>2, <1>13, <1>21, DotCanonical
  <2> QED BY <1>12, <2>1
<1>24. Dot(<<a>>, <<f>>) = f * a
  <2> HIDE DEF f
  <2>1. Dot(<<a>>, <<f>>) = a * f
    BY <1>11, <1>21, DotOfOne
  <2>2. a * f = f * a
    BY <1>11, <1>21
  <2> QED BY <2>1, <2>2
<1>25. e \in Row(n, Int) /\ <<a>> \in Row(1, Int)
  <2>1. Nat \subseteq Int
    OBVIOUS
  <2>2. e \in Row(n, Int)
    BY <1>15, <2>1, RowGrows
  <2> QED BY <1>11, <2>2, RowOfOne
<1>26. <<f>> \in Row(1, Int)
  BY <1>21, RowOfOne
<1> HIDE DEF f, c
<1>27. Dot(SubSeq(e, from, to), SubSeq(stride, from, to)) = Dot(<<a>>, <<f>>)
  BY <1>20, <1>22, <1>23, <1>24
<1>28. Dot(Replaced(e, from, to, <<a>>), Replaced(stride, from, to, <<f>>)) = Dot(e, stride)
  <2>1. /\ e \in Row(n, Int) /\ <<a>> \in Row(1, Int) /\ <<f>> \in Row(1, Int)
        /\ Dot(SubSeq(e, from, to), SubSeq(stride, from, to)) = Dot(<<a>>, <<f>>)
    BY <1>25, <1>26, <1>27
  <2> QED BY <2>1, SwapToOne
<1> QED BY <1>17, <1>19, <1>28 DEF f


(* Where a subview keeps a mode.                                           *)
LEMMA KeptPlaces ==
    ASSUME NEW n \in Nat, NEW slices, DOMAIN slices = 1 .. n, Len(slices) = n
    PROVE  LET c == KeptUpto(slices)
           IN  /\ Len(c[0]) = 0 /\ c[n] = Kept(slices)
               /\ \A k \in 0 .. n : Len(c[k]) \in 0 .. Len(Kept(slices))
               /\ \A k \in 1 .. n : IF slices[k].size = 0 THEN Len(c[k]) = Len(c[k - 1])
                                    ELSE Len(c[k]) = Len(c[k - 1]) + 1 /\ Kept(slices)[Len(c[k])] = k
<1> DEFINE c == KeptUpto(slices)
           l(k) == Len(c[k])
           BeginsWith(j, k) == l(k) <= l(j) /\ \A i \in 1 .. l(k) : c[j][i] = c[k][i]
           T == {j \in 0 .. n : \A k \in 0 .. j : BeginsWith(j, k)}
<1>1. /\ c[0] = <<>> /\ \A k \in 0 .. n : c[k] \in Seq(1 .. n)
      /\ \A k \in 1 .. n : c[k] = IF slices[k].size = 0 THEN c[k - 1] ELSE Append(c[k - 1], k)
  BY KeptUptoUnfold
<1>2. c[n] = Kept(slices) /\ n \in 0 .. n /\ n \in 0 .. n
  BY DEF Kept
<1> HIDE DEF c
<1>3. l(0) = 0 /\ \A k \in 0 .. n : l(k) \in Nat
  BY <1>1
<1>4. ASSUME NEW k \in 1 .. n, slices[k].size # 0
      PROVE  l(k) = l(k - 1) + 1 /\ c[k][l(k)] = k /\ \A i \in 1 .. l(k - 1) : c[k][i] = c[k - 1][i]
  <2>1. k - 1 \in 0 .. n
    OBVIOUS
  <2> DEFINE d == c[k - 1]
  <2>2. c[k] = Append(d, k) /\ d \in Seq(1 .. n)
    BY <1>1, <1>4, <2>1
  <2> HIDE DEF d
  <2> QED BY <2>2 DEF d
<1>5. ASSUME NEW k \in 1 .. n, slices[k].size = 0
      PROVE  c[k] = c[k - 1]
  BY <1>1, <1>5
<1>6. 0 \in T
  BY <1>3
<1>7. ASSUME NEW j \in T, j \in 0 .. n - 1 PROVE j + 1 \in T
  <2>1. j + 1 \in 1 .. n /\ (j + 1) - 1 = j /\ j + 1 \in 0 .. n /\ j \in 0 .. n
    BY <1>7
  <2>2. BeginsWith(j + 1, j)
    <3>1. CASE slices[j + 1].size = 0
      BY <1>3, <1>5, <2>1, <3>1
    <3>2. CASE slices[j + 1].size # 0
      BY <1>3, <1>4, <2>1, <3>2
    <3> QED BY <3>1, <3>2
  <2>3. ASSUME NEW k \in 0 .. j + 1 PROVE BeginsWith(j + 1, k)
    <3>1. CASE k = j + 1
      BY <1>3, <2>1, <3>1
    <3>2. CASE k # j + 1
      <4>1. k \in 0 .. j /\ k \in 0 .. n
        BY <2>1, <3>2
      <4>2. BeginsWith(j, k)
        BY <1>7, <4>1
      <4>3. l(k) \in Nat /\ l(j) \in Nat /\ l(j + 1) \in Nat
        BY <1>3, <2>1, <4>1
      <4>4. l(k) <= l(j + 1) /\ l(k) <= l(j)
        BY <2>2, <4>2, <4>3
      <4>5. ASSUME NEW i \in 1 .. l(k) PROVE c[j + 1][i] = c[k][i]
        <5>1. i \in 1 .. l(j)
          BY <4>3, <4>4
        <5> QED BY <2>2, <4>2, <5>1
      <4> QED BY <4>4, <4>5
    <3> QED BY <3>1, <3>2
  <2> HIDE DEF BeginsWith
  <2> QED BY <2>1, <2>3
<1>8. \A k \in 0 .. n : BeginsWith(n, k)
  <2>1. \A j \in 0 .. n : j \in T
    <3> HIDE DEF T
    <3> QED BY <1>6, <1>7, UpTo
  <2> HIDE DEF BeginsWith
  <2> QED BY <1>2, <2>1
<1>9. ASSUME NEW k \in 0 .. n PROVE l(k) \in 0 .. l(n)
  BY <1>2, <1>3, <1>8
<1>10. ASSUME NEW k \in 1 .. n, slices[k].size = 0 PROVE l(k) = l(k - 1)
  BY <1>5, <1>10
<1>11. ASSUME NEW k \in 1 .. n, slices[k].size # 0 PROVE l(k) = l(k - 1) + 1 /\ c[n][l(k)] = k
  <2>1. k - 1 \in 0 .. n /\ k \in 0 .. n
    OBVIOUS
  <2>2. l(k) = l(k - 1) + 1 /\ c[k][l(k)] = k /\ l(k - 1) \in Nat
    BY <1>3, <1>4, <1>11, <2>1
  <2>3. l(k) \in 1 .. l(k)
    BY <2>2
  <2>4. c[n][l(k)] = c[k][l(k)]
    BY <1>8, <2>1, <2>3
  <2> QED BY <2>2, <2>4
<1> HIDE DEF l
<1> USE <1>2
<1> QED BY <1>3, <1>9, <1>10, <1>11 DEF c, l

LEMMA DotOfKept ==
    ASSUME NEW n \in Nat, NEW slices, DOMAIN slices = 1 .. n, Len(slices) = n,
           NEW q, q = Len(Kept(slices)), q \in Nat, NEW kept \in Row(q, 1 .. n), kept = Kept(slices),
           NEW t \in Row(q, Int), NEW stride \in Row(n, Int), NEW inner \in Row(n, Int),
           \A k \in 1 .. n : inner[k] = IF slices[k].size = 0 THEN 0 ELSE t[Len(KeptUpto(slices)[k])]
    PROVE  Dot(inner, stride) = Dot(t, Pick(stride, kept))
<1> DEFINE c == KeptUpto(slices)
           l(k) == Len(c[k])
           pick == Pick(stride, kept)
           f == Dots(inner, stride)
           g == Dots(t, pick)
           T == {k \in 0 .. n : f[k] = g[l(k)]}
<1>1. /\ l(0) = 0 /\ l(n) = q /\ \A k \in 0 .. n : l(k) \in 0 .. q
  BY KeptPlaces
<1>2. \A k \in 1 .. n : IF slices[k].size = 0 THEN l(k) = l(k - 1)
                        ELSE l(k) = l(k - 1) + 1 /\ kept[l(k)] = k
  BY KeptPlaces
<1>3. \A k \in 1 .. n : inner[k] = IF slices[k].size = 0 THEN 0 ELSE t[l(k)]
  OBVIOUS
<1>4. pick \in Row(q, Int)
  BY PickIsRow
<1>5. \A j \in 1 .. q : pick[j] = stride[kept[j]]
  <2>1. DOMAIN kept = 1 .. q
    BY RowIsSeq
  <2> QED BY <2>1 DEF Pick
<1> HIDE DEF l, pick
<1>6. /\ f \in [0 .. n -> Int] /\ f[0] = 0 /\ Dot(inner, stride) = f[n]
      /\ \A k \in 1 .. n : f[k] = f[k - 1] + inner[k] * stride[k]
  BY DotsUnfold, ZenonT(60)
<1>7. /\ g \in [0 .. q -> Int] /\ g[0] = 0 /\ Dot(t, pick) = g[q]
      /\ \A k \in 1 .. q : g[k] = g[k - 1] + t[k] * pick[k]
  BY <1>4, DotsUnfold, ZenonT(60)
<1> HIDE DEF f, g
<1>8. 0 \in T
  BY <1>1, <1>6, <1>7
<1>9. ASSUME NEW m \in T, m \in 0 .. n - 1 PROVE m + 1 \in T
  <2>1. m + 1 \in 1 .. n /\ (m + 1) - 1 = m /\ m + 1 \in 0 .. n /\ m \in 0 .. n
    <3> HIDE DEF T
    <3> QED BY <1>9
  <2>2. f[m + 1] = f[m] + inner[m + 1] * stride[m + 1] /\ f[m] = g[l(m)] /\ f[m] \in Int
    BY <1>6, <1>9, <2>1
  <2>3. stride[m + 1] \in Int
    BY <2>1, RowElement
  <2>4. CASE slices[m + 1].size = 0
    <3>1. l(m + 1) = l(m) /\ inner[m + 1] = 0
      BY <1>2, <1>3, <2>1, <2>4
    <3>2. f[m + 1] = g[l(m + 1)]
      BY <2>2, <2>3, <3>1
    <3> QED BY <2>1, <3>2
  <2>5. CASE slices[m + 1].size # 0
    <3>1. l(m + 1) = l(m) + 1 /\ kept[l(m + 1)] = m + 1 /\ inner[m + 1] = t[l(m + 1)]
      BY <1>2, <1>3, <2>1, <2>5
    <3>2. l(m) \in 0 .. q /\ l(m + 1) \in 0 .. q
      BY <1>1, <2>1
    <3>3. l(m + 1) \in 1 .. q /\ l(m + 1) - 1 = l(m)
      <4> DEFINE a == l(m)
                 b == l(m + 1)
      <4>1. a \in 0 .. q /\ b \in 0 .. q /\ b = a + 1
        BY <3>1, <3>2
      <4> HIDE DEF a, b
      <4>2. b \in 1 .. q /\ b - 1 = a
        BY <4>1
      <4> QED BY <4>2 DEF a, b
    <3>4. g[l(m + 1)] = g[l(m)] + t[l(m + 1)] * stride[m + 1]
      BY <1>5, <1>7, <3>1, <3>3
    <3> QED BY <2>1, <2>2, <3>1, <3>4
  <2> QED BY <2>4, <2>5
<1>10. \A k \in 0 .. n : k \in T
  <2> HIDE DEF T
  <2> QED BY <1>8, <1>9, UpTo
<1>11. f[n] = g[l(n)]
  BY <1>10
<1> QED BY <1>1, <1>6, <1>7, <1>11 DEF pick

(* subview: the element an element of the new view is.                     *)
LEMMA SubviewElement ==
    ASSUME NEW n \in Nat, NEW shape \in Row(n, Nat), NEW stride \in Row(n, Int),
           NEW slices, DOMAIN slices = 1 .. n, Len(slices) = n,
           NEW q, q = Len(Kept(slices)), q \in Nat, NEW kept \in Row(q, 1 .. n), kept = Kept(slices),
           NEW o \in Row(n, Nat), \A k \in 1 .. n : o[k] = Run(slices[k].offset),
           NEW run \in Row(q, Nat), \A j \in 1 .. q : run[j] = Run(slices[kept[j]].size),
           \A k \in 1 .. n : o[k] + (IF slices[k].size = 0 THEN 1 ELSE Run(slices[k].size)) <= shape[k],
           NEW t \in Box(q, run)
    PROVE  /\ Whole(slices, t) \in Box(n, shape)
           /\ Dot(Whole(slices, t), stride) = SubviewOffset(slices, stride) + Dot(t, Pick(stride, kept))
<1> DEFINE c == KeptUpto(slices)
           l(k) == Len(c[k])
           inner == [k \in 1 .. n |-> IF slices[k].size = 0 THEN 0 ELSE t[l(k)]]
           e == Whole(slices, t)
<1>1. l(0) = 0 /\ \A k \in 0 .. n : l(k) \in 0 .. q
  BY KeptPlaces
<1>2. \A k \in 1 .. n : IF slices[k].size = 0 THEN l(k) = l(k - 1)
                        ELSE l(k) = l(k - 1) + 1 /\ kept[l(k)] = k
  BY KeptPlaces
<1>3. \A k \in 1 .. n : inner[k] = IF slices[k].size = 0 THEN 0 ELSE t[Len(KeptUpto(slices)[k])]
  OBVIOUS
<1>4. e = [k \in 1 .. n |-> Run(slices[k].offset) + IF slices[k].size = 0 THEN 0 ELSE t[l(k)]]
  BY DEF Whole
<1>5. t \in Row(q, Nat) /\ \A j \in 1 .. q : t[j] < run[j]
  BY DEF Box
<1> HIDE DEF l
<1>6. ASSUME NEW k \in 1 .. n
      PROVE  /\ e[k] = o[k] + inner[k] /\ o[k] \in Nat /\ inner[k] \in Nat /\ shape[k] \in Nat
             /\ e[k] \in Nat /\ e[k] < shape[k]
  <2>1. o[k] \in Nat /\ shape[k] \in Nat
    BY RowElement
  <2>2. e[k] = o[k] + (IF slices[k].size = 0 THEN 0 ELSE t[l(k)])
    BY <1>4
  <2>3. inner[k] = IF slices[k].size = 0 THEN 0 ELSE t[l(k)]
    OBVIOUS
  <2>4. o[k] + (IF slices[k].size = 0 THEN 1 ELSE Run(slices[k].size)) <= shape[k]
    OBVIOUS
  <2> HIDE DEF e, inner
  <2>5. CASE slices[k].size = 0
    <3>1. o[k] + 1 <= shape[k] /\ inner[k] = 0 /\ e[k] = o[k] + 0
      BY <2>2, <2>3, <2>4, <2>5
    <3> QED BY <2>1, <3>1
  <2>6. CASE slices[k].size # 0
    <3>1. k - 1 \in 0 .. n /\ k \in 0 .. n
      OBVIOUS
    <3>2. l(k) = l(k - 1) + 1 /\ kept[l(k)] = k /\ l(k) \in 0 .. q /\ l(k - 1) \in 0 .. q
      BY <1>1, <1>2, <2>6, <3>1
    <3>3. l(k) \in 1 .. q
      BY <3>2
    <3>4. t[l(k)] < run[l(k)] /\ run[l(k)] = Run(slices[k].size) /\ t[l(k)] \in Nat /\ run[l(k)] \in Nat
      BY <1>5, <3>2, <3>3, RowElement
    <3>5. inner[k] = t[l(k)] /\ e[k] = o[k] + t[l(k)] /\ o[k] + Run(slices[k].size) <= shape[k]
      BY <2>2, <2>3, <2>4, <2>6
    <3> QED BY <2>1, <3>4, <3>5
  <2> QED BY <2>5, <2>6
<1>7. e = [k \in 1 .. n |-> e[k]] /\ inner = [k \in 1 .. n |-> inner[k]]
  BY <1>4
<1> HIDE DEF e, inner
<1>8. e \in Row(n, Nat) /\ inner \in Row(n, Nat)
  BY <1>6, <1>7 DEF Row
<1>9. e \in Box(n, shape)
  BY <1>6, <1>8 DEF Box
<1>10. e \in Row(n, Int) /\ inner \in Row(n, Int) /\ o \in Row(n, Int) /\ t \in Row(q, Int)
  <2>1. Nat \subseteq Int
    OBVIOUS
  <2> QED BY <1>5, <1>8, <2>1, RowGrows
<1>11. Dot(e, stride) = Dot(o, stride) + Dot(inner, stride)
  BY <1>6, <1>10, DotAdds
<1>12. Dot(inner, stride) = Dot(t, Pick(stride, kept))
  BY <1>3, <1>10, DotOfKept
<1>13. SubviewOffset(slices, stride) = Dot(o, stride)
  <2>1. [k \in DOMAIN slices |-> Run(slices[k].offset)] = [k \in 1 .. n |-> o[k]]
    OBVIOUS
  <2>2. o = [k \in 1 .. n |-> o[k]]
    BY DEF Row
  <2> QED BY <2>1, <2>2 DEF SubviewOffset
<1> QED BY <1>9, <1>11, <1>12, <1>13 DEF e


-----------------------------------------------------------------------------
(* The inductive invariant: the elements the text means are those at the   *)
(* strides the kernel holds.                                               *)
Exact == view # NoView => means = Elements(view.ptr, size, view.dope)

LEMMA ElementsOverBox ==
    ASSUME NEW n \in Nat, NEW dope, dope.shape \in Row(n, Nat), NEW ptr, NEW sz
    PROVE  Elements(ptr, sz, dope) = [t \in Box(n, dope.shape) |-> ptr + sz * Dot(t, dope.stride)]
<1>1. Tuples(dope.shape) = Box(n, dope.shape)
  BY TuplesAreBox
<1> QED BY <1>1 DEF Elements

(* A step whose elements are elements of the view before.                  *)
FromView(n, q, dope, ptr, m) ==
    \A t \in Box(q, dope.shape) : \E e \in Box(n, view.dope.shape) :
        /\ m[t] = means[e]
        /\ ptr + size * Dot(t, dope.stride) = view.ptr + size * Dot(e, view.dope.stride)

LEMMA ElementsOfView ==
    ASSUME Exact, view # NoView, NEW n \in Nat, view.dope.shape \in Row(n, Nat),
           NEW ptr, NEW dope, NEW q \in Nat, dope.shape \in Row(q, Nat),
           NEW m, m = [t \in Tuples(dope.shape) |-> m[t]],
           FromView(n, q, dope, ptr, m)
    PROVE  m = Elements(ptr, size, dope)
<1>1. means = [e \in Box(n, view.dope.shape) |-> view.ptr + size * Dot(e, view.dope.stride)]
  BY ElementsOverBox DEF Exact
<1>2. Elements(ptr, size, dope) = [t \in Box(q, dope.shape) |-> ptr + size * Dot(t, dope.stride)]
  BY ElementsOverBox
<1>3. m = [t \in Box(q, dope.shape) |-> m[t]]
  BY TuplesAreBox
<1>4. ASSUME NEW t \in Box(q, dope.shape) PROVE m[t] = ptr + size * Dot(t, dope.stride)
  <2>1. PICK e \in Box(n, view.dope.shape) :
            /\ m[t] = means[e]
            /\ ptr + size * Dot(t, dope.stride) = view.ptr + size * Dot(e, view.dope.stride)
    BY DEF FromView
  <2>2. means[e] = view.ptr + size * Dot(e, view.dope.stride)
    BY <1>1
  <2> QED BY <2>1, <2>2
<1> QED BY <1>2, <1>3, <1>4

(* A view of a parameter.                                                  *)
LEMMA ParameterExact ==
    ASSUME NEW p \in Params, NEW sz, Legal(p, sz), NEW k \in DOMAIN p.members
    PROVE  LET m == p.members[k]
               v == ViewOf(p, m, sz)
           IN  Elements(m.ptr, sz, m) = Elements(v.ptr, sz, v.dope)
<1> DEFINE m == p.members[k]
           v == ViewOf(p, m, sz)
<1>1. v.ptr = m.ptr /\ v.dope.shape = m.shape /\ v.dope.stride = m.stride
  <2>1. DopeOf(p.ty, m) = [shape |-> m.shape, stride |-> m.stride]
    BY DopeOfMember
  <2> HIDE DEF m
  <2> QED BY <2>1 DEF ViewOf
<1> HIDE DEF m, v
<1>2. Elements(m.ptr, sz, m) = Elements(v.ptr, sz, v.dope)
  BY <1>1 DEF Elements
<1> QED BY <1>2 DEF m, v

LEMMA InitExact == Init => Exact
<1> SUFFICES ASSUME Init PROVE Exact
  OBVIOUS
<1>1. CASE \E p \in {q \in Params : Legal(q, size)} :
              IF Len(p.members) = 1
              THEN /\ view = ViewOf(p, p.members[1], size)
                   /\ means = Elements(p.members[1].ptr, size, p.members[1])
                   /\ group = <<>>
              ELSE view = NoView /\ means = <<>> /\ group = <<p>>
  <2>1. PICK p \in Params :
            /\ Legal(p, size)
            /\ IF Len(p.members) = 1
               THEN /\ view = ViewOf(p, p.members[1], size)
                    /\ means = Elements(p.members[1].ptr, size, p.members[1])
               ELSE view = NoView
    BY <1>1
  <2>2. CASE Len(p.members) = 1
    <3>1. 1 \in DOMAIN p.members
      <4>1. p.members \in Seq([ptr : Nat, shape : Seq(Nat), stride : Seq(Int)])
        BY ParamsAssumption
      <4> QED BY <2>2, <4>1, SeqIsRow
    <3> DEFINE m == p.members[1]
               v == ViewOf(p, m, size)
    <3>2. Elements(m.ptr, size, m) = Elements(v.ptr, size, v.dope)
      BY <2>1, <3>1, ParameterExact
    <3>3. view = v /\ means = Elements(m.ptr, size, m)
      BY <2>1, <2>2
    <3> HIDE DEF m, v
    <3> QED BY <3>2, <3>3 DEF Exact
  <2>3. CASE Len(p.members) # 1
    BY <2>1, <2>3 DEF Exact
  <2> QED BY <2>2, <2>3
<1>2. CASE \E a \in {b \in Allocas : b.stack_ptr % size = 0} :
              /\ view = AllocaView(a, size)
              /\ means = Elements(a.stack_ptr, size, a.ty)
              /\ group = <<>>
  <2>1. PICK a \in Allocas : view = AllocaView(a, size) /\ means = Elements(a.stack_ptr, size, a.ty)
    BY <1>2
  <2>2. view.ptr = a.stack_ptr /\ view.dope = a.ty
    BY <2>1 DEF AllocaView
  <2> QED BY <2>1, <2>2 DEF Exact
<1> QED BY <1>1, <1>2 DEF Init

LEMMA IndexStepsExact ==
    ASSUME Exact, Take \/ Combine \/ TakeAbs \/ Loop
    PROVE  Exact'
<1>1. view' = view /\ means' = means /\ size' = size
  BY DEF Take, Combine, TakeAbs, Loop, Assign
<1> QED BY <1>1 DEF Exact

LEMMA LoadGroupExact ==
    ASSUME Known, LoadGroup, GroupOffsets \subseteq {0}
    PROVE  Exact'
<1>1. PICK p \in Params : group = <<p>> /\ Legal(p, size)
  BY DEF Known, LoadGroup
<1>2. group[1] = p
  BY <1>1
<1>3. PICK offset \in GroupOffsets :
          /\ x.run + offset + 1 \in DOMAIN p.members
          /\ x.run + 1 \in DOMAIN p.members
          /\ Show(ViewOf(p, p.members[x.run + offset + 1], size))
          /\ means' = Elements(p.members[x.run + 1].ptr + size * offset, size, p.members[x.run + 1])
  BY <1>2 DEF LoadGroup
<1> DEFINE k == x.run + 1
           m == p.members[k]
           v == ViewOf(p, m, size)
<1>4. x.run \in Int /\ size \in Int
  BY DEF Known, Claimed, LoadGroup
<1>5. k \in DOMAIN p.members /\ Show(v) /\ means' = Elements(m.ptr + size * 0, size, m)
  <2>1. offset = 0
    OBVIOUS
  <2>2. x.run + offset + 1 = k
    BY <1>4, <2>1
  <2> QED BY <1>3, <2>1, <2>2
<1>6. m.ptr \in Int
  BY <1>5, MemberIsTyped
<1>7. m.ptr + size * 0 = m.ptr
  BY <1>4, <1>6
<1>8. Elements(m.ptr, size, m) = Elements(v.ptr, size, v.dope)
  BY <1>1, <1>5, ParameterExact
<1>9. view' = v /\ size' = size /\ means' = Elements(m.ptr, size, m)
  BY <1>5, <1>7 DEF Show
<1> HIDE DEF m, v
<1> QED BY <1>8, <1>9 DEF Exact


LEMMA ShapesKnown ==
    ASSUME Known, view # NoView
    PROVE  \E n \in Nat :
               /\ DOMAIN view.ty.shape = 1 .. n
               /\ view.dope.shape \in Row(n, Nat) /\ view.dope.stride \in Row(n, Int)
               /\ view.ty.stride \in Row(n, Extent) /\ Fits(view.ty.stride, view.dope.stride)
               /\ view.ptr \in Int
<1>1. PICK n \in Nat :
          /\ view.dope.shape \in Row(n, Nat) /\ view.dope.stride \in Row(n, Int)
          /\ Stated(Fitting, Extent, n, view.ty, view.dope)
          /\ view.ptr \in Int
  BY DEF Known, Described
<1>2. DOMAIN view.ty.shape = 1 .. n
  BY <1>1, RowIsSeq DEF Stated
<1>3. view.ty.stride \in Row(n, Extent) /\ Related(Fitting, n, view.ty.stride, view.dope.stride)
  BY <1>1 DEF Stated
<1>4. Fits(view.ty.stride, view.dope.stride)
  BY <1>1, <1>3, FittingMeans
<1> QED BY <1>1, <1>2, <1>3, <1>4

LEMMA ExpandExact ==
    ASSUME Known, Exact, Expand
    PROVE  Exact'
<1>1. view # NoView
  BY DEF Expand
<1>2. PICK n \in Nat :
          /\ DOMAIN view.ty.shape = 1 .. n
          /\ view.dope.shape \in Row(n, Nat) /\ view.dope.stride \in Row(n, Int)
  BY <1>1, ShapesKnown
<1> DEFINE RunOf(shape) == [j \in DOMAIN shape |-> Run(shape[j])]
           Shape(m, run) == Replaced(view.dope.shape, m, m, run)
           Stride(m, run) == Replaced(view.dope.stride, m, m, Canonical(view.dope.stride[m], run))
           Source(t, m, run) == Replaced(t, m, m + Len(run) - 1,
                                    <<Position(SubSeq(t, m, m + Len(run) - 1), run)>>)
           ClaimOf(shape) == [j \in DOMAIN shape |-> GcdOf(shape[j])]
           NewView(m, shape, run, claimed, stride) ==
               [ty |-> [shape |-> Replaced(view.ty.shape, m, m, shape), stride |-> stride],
                dope |-> [shape |-> Shape(m, run), stride |-> Stride(m, run)],
                ptr |-> view.ptr,
                gcd |-> [offset |-> view.gcd.offset,
                         shape |-> Replaced(view.gcd.shape, m, m, claimed),
                         stride |-> Replaced(view.gcd.stride, m, m, Canonical(view.gcd.stride[m], claimed))]]
<1>3. PICK m \in DOMAIN view.ty.shape, shape \in ExpandShapes :
          /\ \A j \in DOMAIN RunOf(shape) : RunOf(shape)[j] > 0
          /\ Product(RunOf(shape)) = view.dope.shape[m]
          /\ \E stride \in Accepted(Replaced(view.ty.stride, m, m, Canonical(view.ty.stride[m], shape))) :
                 Show(NewView(m, shape, RunOf(shape), ClaimOf(shape), stride))
          /\ means' = [t \in Tuples(Shape(m, RunOf(shape))) |-> means[Source(t, m, RunOf(shape))]]
  BY ZenonT(60) DEF Expand
<1>4. /\ \A j \in DOMAIN RunOf(shape) : RunOf(shape)[j] > 0
      /\ Product(RunOf(shape)) = view.dope.shape[m]
      /\ view'.dope = [shape |-> Shape(m, RunOf(shape)), stride |-> Stride(m, RunOf(shape))]
      /\ view'.ptr = view.ptr /\ size' = size
      /\ means' = [t \in Tuples(Shape(m, RunOf(shape))) |-> means[Source(t, m, RunOf(shape))]]
  <2>1. PICK stride : Show(NewView(m, shape, RunOf(shape), ClaimOf(shape), stride))
    BY <1>3
  <2> HIDE DEF RunOf, ClaimOf, Shape, Stride, Source
  <2> QED BY <1>3, <2>1 DEF Show
<1> DEFINE w == Len(shape)
           run == RunOf(shape)
           sh == Shape(m, run)
           st == Stride(m, run)
           l == After(n, m, m, w)
<1>5. shape \in Row(w, Extent) /\ w \in Nat \ {0} /\ DOMAIN shape = 1 .. w
  <2>1. shape \in Seq(Extent) /\ shape # <<>>
    BY OperandsAssumption
  <2> QED BY <2>1, SeqIsRow, EmptySeq
<1>6. m \in 1 .. n
  BY <1>2
<1> HIDE DEF w
<1>7. \A j \in 1 .. w : run[j] \in Nat
  <2>1. ASSUME NEW j \in 1 .. w PROVE run[j] \in Nat
    <3>1. shape[j] \in Extent
      BY <1>5, RowElement
    <3>2. Run(shape[j]) \in Int
      BY <3>1, RunClaimed DEF Fitting
    <3>3. run[j] = Run(shape[j]) /\ run[j] > 0
      BY <1>4, <1>5
    <3> QED BY <3>2, <3>3
  <2> QED BY <2>1
<1>8. run \in Row(w, Nat) /\ Len(run) = w
  <2>1. run = [j \in 1 .. w |-> run[j]]
    BY <1>5
  <2> HIDE DEF run
  <2>2. run \in Row(w, Nat)
    BY <1>7, <2>1 DEF Row
  <2> QED BY <1>5, <2>2, RowIsSeq
<1>9. /\ Product(run) = view.dope.shape[m]
      /\ view'.dope = [shape |-> sh, stride |-> st] /\ view'.ptr = view.ptr /\ size' = size
      /\ means' = [t \in Tuples(sh) |-> means[Source(t, m, run)]]
  BY <1>4
<1> HIDE DEF run
<1>10. sh \in Row(l, Nat) /\ l \in Nat
  <2>1. m \in m .. n /\ l \in Nat
    BY <1>5, <1>6 DEF After
  <2> QED BY <1>2, <1>5, <1>6, <1>8, <2>1, ReplacedFacts
<1>11. ASSUME NEW t \in Box(l, sh)
       PROVE  Source(t, m, run) \in Box(n, view.dope.shape) /\ Dot(t, st) = Dot(Source(t, m, run), view.dope.stride)
  <2> DEFINE e == Replaced(t, m, m + w - 1, <<Position(SubSeq(t, m, m + w - 1), run)>>)
  <2>1. Source(t, m, run) = e
    BY <1>8
  <2> HIDE DEF e, Source
  <2>2. e \in Box(n, view.dope.shape) /\ Dot(t, st) = Dot(e, view.dope.stride)
    BY <1>2, <1>5, <1>6, <1>8, <1>9, ExpandElement DEF e
  <2> QED BY <2>1, <2>2
<1> DEFINE dope == [shape |-> sh, stride |-> st]
           mm == means'
<1>12. dope.shape = sh /\ dope.stride = st
  OBVIOUS
<1>13. mm = [t \in Tuples(sh) |-> mm[t]]
  BY <1>9
<1>14. ASSUME NEW t \in Box(l, sh)
       PROVE  \E e \in Box(n, view.dope.shape) :
                  /\ mm[t] = means[e]
                  /\ view.ptr + size * Dot(t, st) = view.ptr + size * Dot(e, view.dope.stride)
  <2>1. t \in Tuples(sh)
    BY <1>10, TuplesAreBox
  <2>2. mm[t] = means[Source(t, m, run)]
    BY <1>9, <2>1
  <2> HIDE DEF Source, mm
  <2> QED BY <1>11, <2>2
<1> HIDE DEF dope, mm, sh, st, l
<1>15. mm = Elements(view.ptr, size, dope)
  <2>1. FromView(n, l, dope, view.ptr, mm)
    BY <1>12, <1>14 DEF FromView
  <2>2. l \in Nat /\ dope.shape \in Row(l, Nat) /\ mm = [t \in Tuples(dope.shape) |-> mm[t]]
    BY <1>10, <1>12, <1>13
  <2> QED BY <1>1, <1>2, <2>1, <2>2, ElementsOfView
<1>16. view'.dope = dope
  BY <1>9 DEF dope
<1> QED BY <1>9, <1>15, <1>16 DEF Exact, mm

LEMMA FuseExact ==
    ASSUME Known, Exact, Fuse
    PROVE  Exact'
<1>1. view # NoView
  BY DEF Fuse
<1>2. PICK n \in Nat :
          /\ DOMAIN view.ty.shape = 1 .. n
          /\ view.dope.shape \in Row(n, Nat) /\ view.dope.stride \in Row(n, Int)
  BY <1>1, ShapesKnown
<1> DEFINE Modes(from, to) == SubSeq(view.dope.shape, from, to)
           Shape(from, to) == Replaced(view.dope.shape, from, to, <<Product(Modes(from, to))>>)
           Stride(from, to) == Replaced(view.dope.stride, from, to, <<view.dope.stride[from]>>)
           Source(t, from, to) == Replaced(t, from, from, Tuple(t[from], Modes(from, to)))
<1>3. PICK from \in DOMAIN view.ty.shape, to \in DOMAIN view.ty.shape :
          /\ from < to /\ Contiguous(view.dope, from, to)
          /\ view'.dope = [shape |-> Shape(from, to), stride |-> Stride(from, to)]
          /\ view'.ptr = view.ptr /\ size' = size
          /\ means' = [t \in Tuples(Shape(from, to)) |-> means[Source(t, from, to)]]
  BY DEF Fuse, Show
<1> DEFINE sh == Shape(from, to)
           st == Stride(from, to)
           l == After(n, from, to, 1)
<1>4. from \in 1 .. n /\ to \in from .. n
  BY <1>2, <1>3
<1>5. Gapless(view.dope.shape, view.dope.stride, from, to)
  BY <1>2, <1>3, <1>4, ContiguousCanonical
<1>6. sh \in Row(l, Nat) /\ l \in Nat
  <2> DEFINE modes == Modes(from, to)
             w == to - from + 1
  <2>1. modes \in Row(w, Nat) /\ w \in Nat
    BY <1>2, <1>4, PartIsSeq
  <2> HIDE DEF modes, w
  <2>2. Product(modes) \in Nat
    BY <2>1, SizeProducts
  <2> DEFINE one == <<Product(modes)>>
  <2>3. one \in Row(1, Nat) /\ 1 \in Nat
    BY <2>2, RowOfOne
  <2>4. sh = Replaced(view.dope.shape, from, to, one)
    BY DEF modes
  <2> HIDE DEF one, sh
  <2>5. sh \in Row(l, Nat)
    BY <1>2, <1>4, <2>3, <2>4, ReplacedFacts
  <2>6. l \in Nat
    BY <1>4 DEF After
  <2> QED BY <2>5, <2>6
<1>7. ASSUME NEW t \in Box(l, sh)
      PROVE  /\ Source(t, from, to) \in Box(n, view.dope.shape)
             /\ Dot(t, st) = Dot(Source(t, from, to), view.dope.stride)
  <2> DEFINE e == Source(t, from, to)
  <2>1. e = Replaced(t, from, from, Tuple(t[from], SubSeq(view.dope.shape, from, to)))
    OBVIOUS
  <2> HIDE DEF e
  <2>2. e \in Box(n, view.dope.shape) /\ Dot(t, st) = Dot(e, view.dope.stride)
    BY <1>2, <1>4, <1>5, <2>1, FuseElement
  <2> QED BY <2>2 DEF e
<1> DEFINE dope == [shape |-> sh, stride |-> st]
           mm == means'
<1>8. /\ view'.dope = dope /\ view'.ptr = view.ptr /\ size' = size
      /\ mm = [t \in Tuples(sh) |-> means[Source(t, from, to)]]
  BY <1>3
<1>9. dope.shape = sh /\ dope.stride = st
  OBVIOUS
<1>10. mm = [t \in Tuples(sh) |-> mm[t]]
  BY <1>8
<1>11. ASSUME NEW t \in Box(l, sh)
       PROVE  \E e \in Box(n, view.dope.shape) :
                  /\ mm[t] = means[e]
                  /\ view.ptr + size * Dot(t, st) = view.ptr + size * Dot(e, view.dope.stride)
  <2>1. t \in Tuples(sh)
    BY <1>6, TuplesAreBox
  <2>2. mm[t] = means[Source(t, from, to)]
    BY <1>8, <2>1
  <2> HIDE DEF Source, mm
  <2> QED BY <1>7, <2>2
<1> HIDE DEF dope, mm, sh, st, l
<1>12. mm = Elements(view.ptr, size, dope)
  <2>1. FromView(n, l, dope, view.ptr, mm)
    BY <1>9, <1>11 DEF FromView
  <2>2. l \in Nat /\ dope.shape \in Row(l, Nat) /\ mm = [t \in Tuples(dope.shape) |-> mm[t]]
    BY <1>6, <1>9, <1>10
  <2> QED BY <1>1, <1>2, <2>1, <2>2, ElementsOfView
<1> QED BY <1>8, <1>12 DEF Exact, mm


LEMMA SubviewExact ==
    ASSUME Known, Exact, Subview
    PROVE  Exact'
<1>1. view # NoView
  BY DEF Subview
<1>2. PICK n \in Nat :
          /\ DOMAIN view.ty.shape = 1 .. n
          /\ view.dope.shape \in Row(n, Nat) /\ view.dope.stride \in Row(n, Int) /\ view.ptr \in Int
  BY <1>1, ShapesKnown
<1> DEFINE SizesOf(slices) == [j \in DOMAIN Kept(slices) |-> slices[Kept(slices)[j]].size]
           RunOf(sizes) == [j \in DOMAIN sizes |-> Run(sizes[j])]
           ClaimOf(sizes) == [j \in DOMAIN sizes |-> GcdOf(sizes[j])]
           Address(slices) == view.ptr + size * SubviewOffset(slices, view.dope.stride)
           NewView(slices, kept, sizes, run, claimed, stride) ==
               [ty |-> [shape |-> sizes, stride |-> stride],
                dope |-> [shape |-> run, stride |-> Pick(view.dope.stride, kept)],
                ptr |-> Address(slices),
                gcd |-> [offset |-> SubviewGcd(view.gcd, slices),
                         shape |-> claimed,
                         stride |-> Pick(view.gcd.stride, kept)]]
<1>3. PICK slices \in [DOMAIN view.ty.shape -> Slices] :
          /\ InBounds(slices)
          /\ \E stride \in Accepted(Pick(view.ty.stride, Kept(slices))) :
                 Show(NewView(slices, Kept(slices), SizesOf(slices), RunOf(SizesOf(slices)),
                              ClaimOf(SizesOf(slices)), stride))
          /\ means' = [t \in Tuples(RunOf(SizesOf(slices))) |-> means[Whole(slices, t)]]
  BY DEF Subview
<1> DEFINE kept == Kept(slices)
           q == Len(kept)
           sizes == SizesOf(slices)
           run == RunOf(sizes)
           st == Pick(view.dope.stride, kept)
           dope == [shape |-> run, stride |-> st]
           ptr == Address(slices)
           mm == means'
<1>4. /\ view'.dope = dope /\ view'.ptr = ptr /\ size' = size
      /\ mm = [t \in Tuples(run) |-> means[Whole(slices, t)]]
  <2>1. PICK stride : Show(NewView(slices, kept, sizes, run, ClaimOf(sizes), stride))
    BY <1>3
  <2> HIDE DEF kept, sizes, run, ClaimOf, Address
  <2>2. mm = [t \in Tuples(run) |-> means[Whole(slices, t)]]
    BY <1>3 DEF run, sizes
  <2> HIDE DEF mm
  <2> QED BY <2>1, <2>2 DEF Show
<1>5. slices \in Row(n, Slices) /\ DOMAIN slices = 1 .. n /\ Len(slices) = n
  <2>1. slices \in Row(n, Slices)
    BY <1>2 DEF Row
  <2> QED BY <2>1, RowIsSeq
<1>6. kept \in Row(q, 1 .. n) /\ q \in Nat /\ DOMAIN kept = 1 .. q
  <2>1. kept \in Seq(1 .. n)
    BY <1>5, KeptUptoUnfold DEF Kept
  <2> HIDE DEF kept
  <2> QED BY <2>1, SeqIsRow
<1>7. run = [j \in 1 .. q |-> run[j]] /\ \A j \in 1 .. q : run[j] = Run(slices[kept[j]].size)
  BY <1>6
<1> HIDE DEF run, kept, q, sizes
<1>8. x.run \in Int
  BY DEF Known, Claimed
<1>9. ASSUME NEW k \in 1 .. n
      PROVE  /\ Run(slices[k].size) \in Nat /\ Run(slices[k].offset) \in Nat
             /\ Run(slices[k].offset) + (IF slices[k].size = 0 THEN 1 ELSE Run(slices[k].size)) <= view.dope.shape[k]
  <2>1. slices[k] \in [offset : Extent, size : Extent]
    BY <1>5, RowElement, OperandsAssumption
  <2>2. /\ Run(slices[k].offset) >= 0 /\ (IsDynamic(slices[k].size) => x.run > 0)
        /\ Run(slices[k].offset) + (IF slices[k].size = 0 THEN 1 ELSE Run(slices[k].size)) <= view.dope.shape[k]
    BY <1>3, <1>5 DEF InBounds
  <2>3. Run(slices[k].size) \in Nat
    BY <1>8, <2>1, <2>2 DEF Run, IsDynamic, Extent
  <2>4. Run(slices[k].offset) \in Nat
    BY <1>8, <2>1, <2>2 DEF Run, IsDynamic, Extent
  <2> QED BY <2>2, <2>3, <2>4
<1>10. run \in Row(q, Nat)
  <2>1. \A j \in 1 .. q : kept[j] \in 1 .. n
    BY <1>6, RowElement
  <2> QED BY <1>7, <1>9, <2>1 DEF Row
<1> DEFINE o == [k \in 1 .. n |-> Run(slices[k].offset)]
<1>11. o \in Row(n, Nat) /\ \A k \in 1 .. n : o[k] = Run(slices[k].offset)
  BY <1>9 DEF Row
<1> HIDE DEF o
<1>12. \A k \in 1 .. n : o[k] + (IF slices[k].size = 0 THEN 1 ELSE Run(slices[k].size)) <= view.dope.shape[k]
  BY <1>9, <1>11
<1>13. q = Len(Kept(slices)) /\ kept = Kept(slices)
  BY DEF q, kept
<1>14. ASSUME NEW t \in Box(q, run)
       PROVE  /\ Whole(slices, t) \in Box(n, view.dope.shape)
              /\ Dot(Whole(slices, t), view.dope.stride) = SubviewOffset(slices, view.dope.stride) + Dot(t, st)
  <2> DEFINE shape == view.dope.shape
             stride == view.dope.stride
  <2>1. shape \in Row(n, Nat) /\ stride \in Row(n, Int)
    BY <1>2
  <2>2. \A k \in 1 .. n : o[k] + (IF slices[k].size = 0 THEN 1 ELSE Run(slices[k].size)) <= shape[k]
    BY <1>12
  <2> HIDE DEF shape, stride
  <2>3. /\ \A j \in 1 .. q : run[j] = Run(slices[kept[j]].size)
        /\ DOMAIN slices = 1 .. n /\ Len(slices) = n /\ q \in Nat
    BY <1>5, <1>6, <1>7
  <2>4. /\ Whole(slices, t) \in Box(n, shape)
        /\ Dot(Whole(slices, t), stride) = SubviewOffset(slices, stride) + Dot(t, Pick(stride, kept))
    <3> USE <1>6, <1>10, <1>11, <1>13, <2>1, <2>2, <2>3
    <3>1. Whole(slices, t) \in Box(n, shape)
      BY SubviewElement, SMTT(60)
    <3>2. Dot(Whole(slices, t), stride) = SubviewOffset(slices, stride) + Dot(t, Pick(stride, kept))
      BY SubviewElement, SMTT(60)
    <3> QED BY <3>1, <3>2
  <2> QED BY <2>4 DEF shape, stride
<1>15. SubviewOffset(slices, view.dope.stride) \in Int
  <2>1. SubviewOffset(slices, view.dope.stride) = Dot(o, view.dope.stride)
    BY <1>5 DEF SubviewOffset, o
  <2>2. o \in Row(n, Int)
    BY <1>11, RowGrows, Nat \subseteq Int
  <2> QED BY <1>2, <2>1, <2>2, DotsUnfold
<1>16. st \in Row(q, Int)
  BY <1>2, <1>6, PickIsRow
<1>17. dope.shape = run /\ dope.stride = st
  OBVIOUS
<1>18. mm = [t \in Tuples(run) |-> mm[t]]
  BY <1>4
<1>19. ptr = view.ptr + size * SubviewOffset(slices, view.dope.stride)
  OBVIOUS
<1> HIDE DEF dope, mm, st, ptr
<1>20. ASSUME NEW t \in Box(q, run)
       PROVE  \E e \in Box(n, view.dope.shape) :
                  mm[t] = means[e] /\ ptr + size * Dot(t, st) = view.ptr + size * Dot(e, view.dope.stride)
  <2> DEFINE e == Whole(slices, t)
             d == Dot(e, view.dope.stride)
             b == SubviewOffset(slices, view.dope.stride)
             a == Dot(t, st)
             p == view.ptr
  <2>1. t \in Tuples(run)
    BY <1>6, <1>10, TuplesAreBox
  <2>2. mm[t] = means[e]
    BY <1>4, <2>1
  <2>3. a \in Int
    <3>1. t \in Row(q, Nat)
      BY DEF Box
    <3>2. t \in Row(q, Int)
      BY <1>6, <3>1, RowGrows, Nat \subseteq Int
    <3> QED BY <1>6, <1>16, <3>2, DotsUnfold
  <2>4. e \in Box(n, view.dope.shape) /\ d = b + a /\ b \in Int /\ p \in Int /\ ptr = p + size * b
    BY <1>2, <1>14, <1>15, <1>19
  <2>5. size \in Int
    BY DEF Known
  <2> HIDE DEF a, b, d, p
  <2>6. ptr + size * a = p + size * d
    <3>1. size * (b + a) = size * b + size * a
      BY <2>3, <2>4, <2>5
    <3>2. size * b \in Int /\ size * a \in Int
      BY <2>3, <2>4, <2>5
    <3> QED BY <2>4, <3>1, <3>2
  <2> QED BY <2>2, <2>4, <2>6 DEF a, d, p
<1>21. mm = Elements(ptr, size, dope)
  <2>1. FromView(n, q, dope, ptr, mm)
    BY <1>17, <1>20 DEF FromView
  <2>2. q \in Nat /\ dope.shape \in Row(q, Nat) /\ mm = [t \in Tuples(dope.shape) |-> mm[t]]
    BY <1>6, <1>10, <1>17, <1>18
  <2> QED BY <1>1, <1>2, <2>1, <2>2, ElementsOfView
<1> QED BY <1>4, <1>21 DEF Exact, mm

LEMMA ExactAlways ==
    ASSUME GroupOffsets \subseteq {0}
    PROVE  Spec => [](Known /\ Exact)
<1>1. Init => Known /\ Exact
  BY InitKnown, InitExact
<1>2. Known /\ Exact /\ [Next]_vars => (Known /\ Exact)'
  <2> SUFFICES ASSUME Known, Exact, [Next]_vars PROVE Known' /\ Exact'
    OBVIOUS
  <2>1. Known'
    BY NextKnown
  <2>2. CASE Take \/ Combine \/ TakeAbs \/ Loop
    BY <2>1, <2>2, IndexStepsExact
  <2>3. CASE Subview
    BY <2>1, <2>3, SubviewExact
  <2>4. CASE Expand
    BY <2>1, <2>4, ExpandExact
  <2>5. CASE Fuse
    BY <2>1, <2>5, FuseExact
  <2>6. CASE LoadGroup
    BY <2>1, <2>6, LoadGroupExact
  <2>7. CASE UNCHANGED vars
    BY <2>1, <2>7 DEF vars, Exact
  <2> QED BY <2>2, <2>3, <2>4, <2>5, <2>6, <2>7 DEF Next
<1> QED BY <1>1, <1>2, PTL DEF Spec

(* The address get_pointer_helper computes for an index is that of the     *)
(* element the text means, through any sequence of views: subview moves    *)
(* the base by every offset and drops modes, expand and fuse rewrite       *)
(* indices in mixed radix, a group's memref is loaded with its own         *)
(* strides, and a static first stride of one is not multiplied by. Groups  *)
(* have no offset: the code adds it to the index, the text to the pointer. *)
THEOREM AddressesExact ==
    ASSUME GroupOffsets \subseteq {0}
    PROVE  Spec => []ElementsExact
<1>1. Known /\ Exact => ElementsExact
  <2> SUFFICES ASSUME Known, Exact, view # NoView
               PROVE  /\ DOMAIN means = Tuples(view.dope.shape)
                      /\ \A idx \in DOMAIN means : Pointer(idx) = means[idx]
    BY DEF ElementsExact
  <2>1. PICK n \in Nat :
            /\ view.dope.shape \in Row(n, Nat) /\ view.dope.stride \in Row(n, Int)
            /\ view.ty.stride \in Row(n, Extent) /\ Fits(view.ty.stride, view.dope.stride)
    BY ShapesKnown
  <2>2. means = [t \in Box(n, view.dope.shape) |-> view.ptr + size * Dot(t, view.dope.stride)]
    BY <2>1, ElementsOverBox DEF Exact
  <2>3. DOMAIN means = Tuples(view.dope.shape)
    BY <2>1, <2>2, TuplesAreBox
  <2>4. ASSUME NEW idx \in DOMAIN means PROVE Pointer(idx) = means[idx]
    <3> DEFINE s == view.dope.stride
               Used(i) == [k \in DOMAIN i |-> IF k = 1 /\ view.ty.stride[1] = 1 THEN 1 ELSE s[k]]
    <3>1. idx \in Row(n, Nat)
      BY <2>2 DEF Box
    <3>2. DOMAIN idx = 1 .. n /\ s = [k \in 1 .. n |-> s[k]] /\ DOMAIN s = 1 .. n
      BY <2>1, <3>1 DEF Row
    <3>3. ASSUME 1 \in 1 .. n, view.ty.stride[1] = 1 PROVE s[1] = 1
      BY <2>1, <3>2, <3>3, DynamicAssumption DEF Fits, IsDynamic
    <3>4. \A k \in 1 .. n : (IF k = 1 /\ view.ty.stride[1] = 1 THEN 1 ELSE s[k]) = s[k]
      BY <3>3
    <3>5. Used(idx) = s
      BY <3>2, <3>4
    <3>6. Pointer(idx) = view.ptr + size * Dot(idx, Used(idx))
      BY DEF Pointer
    <3>7. means[idx] = view.ptr + size * Dot(idx, s)
      BY <2>2
    <3> HIDE DEF Used, s
    <3> QED BY <3>5, <3>6, <3>7
  <2> QED BY <2>3, <2>4
<1> QED BY <1>1, ExactAlways, PTL

=============================================================================
