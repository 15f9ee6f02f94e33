------------------------ MODULE StackLifetimeProofs ------------------------
(***************************************************************************)
(* Proofs about the two stack passes.  First about the first fit allocator *)
(* of set-stack-ptr alone, for any buffers, any sizes (zero included), any *)
(* positive alignments and any order of the handlers.  Then about the walk *)
(* of a region tree, for any programs: a lifetime_stop, one that           *)
(* insert-lifetime-stop puts in or one of the program, erases its own      *)
(* buffer or fails, no buffer outlives its block, and every execution      *)
(* finds its buffers intact.                                               *)
(***************************************************************************)
EXTENDS StackLifetime, Lemmas, SequenceTheorems

-----------------------------------------------------------------------------
(* What the list operations of std::list do to the elements. *)

(* list::insert: what is behind the new element moves up by one.           *)
LEMMA InsertAtProperties ==
    ASSUME NEW S, NEW s \in Seq(S), NEW k \in 1 .. Len(s) + 1, NEW e \in S
    PROVE  /\ SA!InsertAt(s, k, e) \in Seq(S)
           /\ Len(SA!InsertAt(s, k, e)) = Len(s) + 1
           /\ \A i \in 1 .. Len(s) + 1 :
                  SA!InsertAt(s, k, e)[i] =
                      IF i < k THEN s[i] ELSE IF i = k THEN e ELSE s[i - 1]
<1> DEFINE f == SubSeq(s, 1, k - 1)
           b == SubSeq(s, k, Len(s))
<1>1. /\ f \in Seq(S) /\ Len(f) = k - 1
      /\ \A i \in 1 .. k - 1 : f[i] = s[i]
  <2>1. \A i \in 1 .. k - 1 : s[i] \in S
    BY ElementOfSeq
  <2> QED BY <2>1, SubSeqProperties
<1>2. /\ b \in Seq(S) /\ Len(b) = Len(s) + 1 - k
      /\ \A i \in 1 .. Len(s) + 1 - k : b[i] = s[k + i - 1]
  <2>1. \A i \in k .. Len(s) : s[i] \in S
    BY ElementOfSeq
  <2> QED BY <2>1, SubSeqProperties, LenProperties
<1> HIDE DEF f, b
<1> DEFINE g == f \o <<e>>
           h == g \o b
<1>3. /\ g \in Seq(S) /\ Len(g) = k
      /\ \A i \in 1 .. k : g[i] = IF i < k THEN s[i] ELSE e
  <2>1. <<e>> \in Seq(S) /\ Len(<<e>>) = 1 /\ <<e>>[1] = e
    OBVIOUS
  <2>2. /\ g \in Seq(S) /\ Len(g) = k
        /\ \A i \in 1 .. k : g[i] = IF i <= k - 1 THEN f[i] ELSE <<e>>[i - (k - 1)]
    BY <1>1, <2>1, ConcatProperties
  <2> QED BY <1>1, <2>1, <2>2
<1> HIDE DEF g
<1>4. /\ h \in Seq(S) /\ Len(h) = Len(g) + Len(b)
      /\ \A i \in 1 .. Len(g) + Len(b) : h[i] = IF i <= Len(g) THEN g[i] ELSE b[i - Len(g)]
  BY <1>2, <1>3, ConcatProperties
<1>5. SA!InsertAt(s, k, e) = h
  BY DEF SA!InsertAt, f, b, g
<1> HIDE DEF h
<1>6. Len(s) \in Nat /\ Len(g) + Len(b) = Len(s) + 1
  BY <1>2, <1>3, LenProperties
<1>7. ASSUME NEW i \in 1 .. Len(s) + 1
      PROVE  h[i] = IF i < k THEN s[i] ELSE IF i = k THEN e ELSE s[i - 1]
  <2>1. CASE i <= k
    BY <1>3, <1>4, <1>6, <2>1
  <2>2. CASE i > k
    <3>1. i - k \in 1 .. Len(s) + 1 - k /\ k + (i - k) - 1 = i - 1
      BY <1>6, <2>2
    <3>2. h[i] = b[i - k]
      BY <1>3, <1>4, <1>6, <2>2
    <3> QED BY <1>2, <2>2, <3>1, <3>2
  <2> QED BY <2>1, <2>2
<1> QED
  BY <1>4, <1>5, <1>6, <1>7

(* list::erase: what is behind the erased element moves down by one.       *)
LEMMA RemoveAtProperties ==
    ASSUME NEW S, NEW s \in Seq(S), NEW k \in 1 .. Len(s)
    PROVE  /\ SA!RemoveAt(s, k) \in Seq(S)
           /\ Len(SA!RemoveAt(s, k)) = Len(s) - 1
           /\ \A i \in 1 .. Len(s) - 1 :
                  SA!RemoveAt(s, k)[i] = IF i < k THEN s[i] ELSE s[i + 1]
<1> DEFINE f == SubSeq(s, 1, k - 1)
           b == SubSeq(s, k + 1, Len(s))
<1>1. /\ f \in Seq(S) /\ Len(f) = k - 1
      /\ \A i \in 1 .. k - 1 : f[i] = s[i]
  <2>1. \A i \in 1 .. k - 1 : s[i] \in S
    BY ElementOfSeq
  <2> QED BY <2>1, SubSeqProperties
<1>2. /\ b \in Seq(S) /\ Len(b) = Len(s) - k
      /\ \A i \in 1 .. Len(s) - k : b[i] = s[k + i]
  <2>1. \A i \in k + 1 .. Len(s) : s[i] \in S
    BY ElementOfSeq
  <2> QED BY <2>1, SubSeqProperties, LenProperties
<1> HIDE DEF f, b
<1> DEFINE h == f \o b
<1>3. /\ h \in Seq(S) /\ Len(h) = Len(f) + Len(b)
      /\ \A i \in 1 .. Len(f) + Len(b) : h[i] = IF i <= Len(f) THEN f[i] ELSE b[i - Len(f)]
  BY <1>1, <1>2, ConcatProperties
<1>4. SA!RemoveAt(s, k) = h
  BY DEF SA!RemoveAt, f, b
<1> HIDE DEF h
<1>5. Len(s) \in Nat /\ Len(f) + Len(b) = Len(s) - 1
  BY <1>1, <1>2, LenProperties
<1>6. ASSUME NEW i \in 1 .. Len(s) - 1
      PROVE  h[i] = IF i < k THEN s[i] ELSE s[i + 1]
  <2>1. CASE i < k
    BY <1>1, <1>3, <1>5, <2>1
  <2>2. CASE i >= k
    <3>1. i - (k - 1) \in 1 .. Len(s) - k /\ k + (i - (k - 1)) = i + 1
      BY <1>5, <2>2
    <3>2. h[i] = b[i - (k - 1)]
      BY <1>1, <1>3, <1>5, <2>2
    <3> DEFINE n == i - (k - 1)
    <3>3. n \in 1 .. Len(s) - k /\ k + n = i + 1 /\ h[i] = b[n]
      BY <3>1, <3>2
    <3> HIDE DEF n
    <3>4. b[n] = s[k + n]
      BY <1>2, <3>3
    <3>5. h[i] = s[i + 1]
      BY <3>3, <3>4
    <3>6. ~(i < k)
      BY <1>5, <2>2
    <3> QED BY <3>5, <3>6
  <2> QED BY <2>1, <2>2
<1> QED
  BY <1>3, <1>4, <1>5, <1>6

-----------------------------------------------------------------------------
(* Rounding up: the result is a multiple of the alignment and, for any end *)
(* address the list can hold, not below it.                                *)
LEMMA AlignUpProperties ==
    ASSUME NEW x \in Nat, NEW a \in Nat \ {0}
    PROVE  /\ SA!AlignUp(x, a) \in Nat
           /\ SA!AlignUp(x, a) >= x
           /\ \E m \in 0 .. SA!AlignUp(x, a) : SA!AlignUp(x, a) = m * a
<1>1. \A m \in Nat : m * a \in Nat /\ m * a >= m
  <2>1. SUFFICES ASSUME NEW m \in Nat PROVE m * a \in Nat /\ m * a >= m
    OBVIOUS
  <2>2. m * a = m * (a - 1) + m /\ m * (a - 1) \in Nat
    OBVIOUS
  <2> QED BY <2>2
<1>2. CASE x = 0
  <2>1. 1 + SA!CDiv(x - 1, a) \in {0, 1}
    <3>1. 1 \div a \in {0, 1}
      <4>1. CASE a = 1
        BY <4>1
      <4>2. CASE a > 1
        BY <4>2
      <4> QED BY <4>1, <4>2
    <3> QED BY <1>2, <3>1 DEF SA!CDiv
  <2> QED BY <1>1, <1>2, <2>1 DEF SA!AlignUp
<1>3. CASE x > 0
  <2> DEFINE q == (x - 1) \div a
             r == (x - 1) % a
  <2>1. q \in Nat /\ r \in 0 .. a - 1 /\ x - 1 = q * a + r
    BY <1>3
  <2>2. SA!AlignUp(x, a) = (1 + q) * a
    BY <1>3 DEF SA!AlignUp, SA!CDiv
  <2>3. (1 + q) * a = a + q * a
    BY <2>1
  <2>4. SA!AlignUp(x, a) >= x
    BY <2>1, <2>2, <2>3
  <2>5. 1 + q \in Nat
    BY <2>1
  <2>6. SA!AlignUp(x, a) \in Nat /\ SA!AlignUp(x, a) >= 1 + q
    BY <1>1, <2>2, <2>5
  <2> HIDE DEF q
  <2>7. \E m \in 0 .. SA!AlignUp(x, a) : SA!AlignUp(x, a) = m * a
    BY <2>2, <2>5, <2>6
  <2> QED BY <2>4, <2>6, <2>7
<1> QED BY <1>2, <1>3

-----------------------------------------------------------------------------
(* The inductive invariant: on top of the order of the list, every entry   *)
(* has an address (so an alloca that is visited is not yet in the list).   *)
Placed == \A i \in DOMAIN allocs : allocs[i].start \in Nat

IInv == SA!TypeOK /\ Placed /\ SA!EntriesOK /\ SA!OneEntry /\ SA!Sorted /\ SA!Aligned

(* The list as a function on its indices.                                  *)
LEMMA ListFacts ==
    ASSUME SA!TypeOK
    PROVE  /\ Len(allocs) \in Nat /\ DOMAIN allocs = 1 .. Len(allocs)
           /\ \A i \in 1 .. Len(allocs) : allocs[i] \in SA!Allocation
<1> allocs \in Seq(SA!Allocation)
  BY DEF SA!TypeOK
<1> QED
  BY LenProperties, ElementOfSeq

(* The address the search offers in front of entry k is aligned and not    *)
(* below the end of the entry before it.                                   *)
LEMMA CandidateProperties ==
    ASSUME IInv, NEW v \in Buffer, NEW k \in 1 .. Len(allocs) + 1
    PROVE  /\ SA!Candidate(v, k) \in Nat
           /\ k > 1 => SA!Candidate(v, k) >= allocs[k - 1].stop
           /\ \E m \in 0 .. SA!Candidate(v, k) : SA!Candidate(v, k) = m * Alignment[v]
<1>1. Alignment[v] \in Nat \ {0}
  BY AlignmentAssumption
<1>2. CASE k = 1
  <2>1. SA!Candidate(v, k) = 0 * Alignment[v] /\ SA!Candidate(v, k) = 0
    BY <1>1, <1>2 DEF SA!Candidate
  <2> QED BY <1>2, <2>1
<1>3. CASE k > 1
  <2>1. allocs[k - 1].stop \in Nat
    <3>1. k - 1 \in DOMAIN allocs /\ allocs[k - 1] \in SA!Allocation
      BY <1>3, ListFacts DEF IInv
    <3> QED BY <3>1, SizeAssumption DEF IInv, Placed, SA!EntriesOK, SA!Allocation
  <2>2. SA!Candidate(v, k) = SA!AlignUp(allocs[k - 1].stop, Alignment[v])
    BY <1>3 DEF SA!Candidate
  <2>3. /\ SA!Candidate(v, k) \in Nat
        /\ SA!Candidate(v, k) >= allocs[k - 1].stop
        /\ \E m \in 0 .. SA!Candidate(v, k) : SA!Candidate(v, k) = m * Alignment[v]
    BY <1>1, <2>1, <2>2, AlignUpProperties
  <2> QED BY <2>3
<1> QED BY <1>2, <1>3

-----------------------------------------------------------------------------
(* The empty list satisfies the invariant.                                 *)
LEMMA InitInvariant == SA!Init => IInv
<1> SUFFICES ASSUME SA!Init PROVE IInv
  OBVIOUS
<1>1. allocs = <<>> /\ DOMAIN allocs = {} /\ allocs \in Seq(SA!Allocation)
  BY DEF SA!Init
<1> QED
  BY <1>1 DEF SA!Init, IInv, SA!TypeOK, Placed, SA!EntriesOK, SA!OneEntry, SA!Sorted, SA!Aligned, SA!Unset

(* A new entry goes between two neighbours it clears, so that all parts of *)
(* the invariant survive the shift of the entries behind it.               *)
LEMMA AllocaInvariant ==
    ASSUME IInv, NEW v \in Buffer, SA!Alloca(v)
    PROVE  IInv'
<1> PICK k \in 1 .. Len(allocs) + 1 : SA!IsFirstFit(v, k) /\ SA!Place(v, k)
  BY DEF SA!Alloca
<1> DEFINE c == SA!Candidate(v, k)
           e == [value |-> v, start |-> c, stop |-> c + Size[v]]
<1>1. /\ Len(allocs) \in Nat /\ DOMAIN allocs = 1 .. Len(allocs)
      /\ \A i \in 1 .. Len(allocs) : allocs[i] \in SA!Allocation
  BY ListFacts DEF IInv
<1>2. /\ c \in Nat /\ (k > 1 => c >= allocs[k - 1].stop)
      /\ \E m \in 0 .. c : c = m * Alignment[v]
  BY CandidateProperties
<1>3. Size[v] \in Nat /\ e \in SA!Allocation
  BY <1>2, SizeAssumption DEF SA!Allocation
<1>4. k <= Len(allocs) => e.stop <= allocs[k].start
  <2>1. SA!Fits(v, k)
    BY DEF SA!IsFirstFit
  <2> QED BY <1>1, <1>2, <1>3, <2>1 DEF SA!Fits, SA!Allocation
<1>5. allocs' = SA!InsertAt(allocs, k, e) /\ stackPtr' = [stackPtr EXCEPT ![v] = c]
      /\ failed' = failed
  BY DEF SA!Place
<1> HIDE DEF c
<1>6. e.value = v /\ e.start = c /\ e.stop = c + Size[v]
  OBVIOUS
<1> HIDE DEF e
<1>7. /\ allocs' \in Seq(SA!Allocation)
      /\ Len(allocs') = Len(allocs) + 1
      /\ \A i \in 1 .. Len(allocs) + 1 :
             allocs'[i] = IF i < k THEN allocs[i] ELSE IF i = k THEN e ELSE allocs[i - 1]
  <2>1. allocs \in Seq(SA!Allocation)
    BY DEF IInv, SA!TypeOK
  <2>2. /\ SA!InsertAt(allocs, k, e) \in Seq(SA!Allocation)
        /\ Len(SA!InsertAt(allocs, k, e)) = Len(allocs) + 1
        /\ \A i \in 1 .. Len(allocs) + 1 : SA!InsertAt(allocs, k, e)[i] =
               IF i < k THEN allocs[i] ELSE IF i = k THEN e ELSE allocs[i - 1]
    <3>1. k \in 1 .. Len(allocs) + 1 /\ e \in SA!Allocation
      BY <1>3
    <3> HIDE DEF SA!Allocation
    <3> QED BY <2>1, <3>1, InsertAtProperties, SMTT(30)
  <2> QED BY <1>5, <2>2, Zenon
<1>8. DOMAIN allocs' = 1 .. Len(allocs) + 1
  BY <1>1, <1>7, LenProperties
<1>9. \A i \in 1 .. k - 1 : i \in 1 .. Len(allocs) /\ allocs'[i] = allocs[i]
  BY <1>1, <1>7
<1>10. allocs'[k] = e
  BY <1>7
<1>11. \A i \in k + 1 .. Len(allocs) + 1 : i - 1 \in k .. Len(allocs) /\ allocs'[i] = allocs[i - 1]
  BY <1>1, <1>7
<1>12. \A i \in 1 .. Len(allocs) + 1 : i \in 1 .. k - 1 \/ i = k \/ i \in k + 1 .. Len(allocs) + 1
  BY <1>1
<1>13. k .. Len(allocs) \subseteq 1 .. Len(allocs)
  OBVIOUS
<1>14. \A w \in Buffer : stackPtr'[w] = IF w = v THEN c ELSE stackPtr[w]
  BY <1>5 DEF IInv, SA!TypeOK
<1>15. \A i \in 1 .. Len(allocs) : allocs[i].value # v
  BY <1>1 DEF IInv, Placed, SA!EntriesOK, SA!Alloca, SA!Unset
<1>16. SA!TypeOK'
  BY <1>2, <1>5, <1>7 DEF IInv, SA!TypeOK
<1>17. Placed'
  <2>1. \A i \in 1 .. Len(allocs) : allocs[i].start \in Nat
    BY <1>1 DEF IInv, Placed
  <2> QED BY <1>2, <1>8, <1>6, <1>9, <1>10, <1>11, <1>12, <1>13, <2>1 DEF Placed
<1>18. SA!EntriesOK'
  <2>1. \A i \in 1 .. Len(allocs) :
            /\ allocs[i].start = stackPtr'[allocs[i].value]
            /\ allocs[i].stop = allocs[i].start + Size[allocs[i].value]
    BY <1>1, <1>14, <1>15 DEF IInv, SA!EntriesOK, SA!Allocation
  <2>2. /\ e.start = stackPtr'[e.value]
        /\ e.stop = e.start + Size[e.value]
    BY <1>6, <1>14
  <2>3. SUFFICES ASSUME NEW i \in 1 .. Len(allocs) + 1
                 PROVE  /\ allocs'[i].start = stackPtr'[allocs'[i].value]
                        /\ allocs'[i].stop = allocs'[i].start + Size[allocs'[i].value]
    BY <1>8 DEF SA!EntriesOK
  <2>4. CASE i \in 1 .. k - 1
    BY <1>9, <2>1, <2>4
  <2>5. CASE i = k
    BY <1>10, <2>2, <2>5
  <2>6. CASE i \in k + 1 .. Len(allocs) + 1
    BY <1>11, <1>13, <2>1, <2>6
  <2> QED BY <1>12, <2>4, <2>5, <2>6
<1>19. SA!OneEntry'
  <2>1. \A i, j \in 1 .. Len(allocs) : allocs[i].value = allocs[j].value => i = j
    BY <1>1 DEF IInv, SA!OneEntry
  <2>2. SUFFICES ASSUME NEW i \in 1 .. Len(allocs) + 1, NEW j \in 1 .. Len(allocs) + 1,
                        allocs'[i].value = allocs'[j].value
                 PROVE  i = j
    BY <1>8 DEF SA!OneEntry
  <2>3. CASE i = k \/ j = k
    BY <1>6, <1>15, <1>9, <1>10, <1>11, <1>12, <1>13, <2>2, <2>3
  <2>4. CASE i \in 1 .. k - 1 /\ j \in 1 .. k - 1
    BY <1>9, <2>1, <2>2, <2>4
  <2>5. CASE i \in 1 .. k - 1 /\ j \in k + 1 .. Len(allocs) + 1
    <3>1. i = j - 1
      BY <1>9, <1>11, <1>13, <2>1, <2>2, <2>5
    <3> QED BY <2>5, <3>1
  <2>6. CASE i \in k + 1 .. Len(allocs) + 1 /\ j \in 1 .. k - 1
    <3>1. i - 1 = j
      BY <1>9, <1>11, <1>13, <2>1, <2>2, <2>6
    <3> QED BY <2>6, <3>1
  <2>7. CASE i \in k + 1 .. Len(allocs) + 1 /\ j \in k + 1 .. Len(allocs) + 1
    <3>1. i - 1 = j - 1
      BY <1>11, <1>13, <2>1, <2>2, <2>7
    <3> QED BY <2>7, <3>1
  <2> QED BY <1>12, <2>3, <2>4, <2>5, <2>6, <2>7
<1>20. SA!Sorted'
  <2>1. \A i \in 1 .. Len(allocs) :
            allocs[i].start \in Int /\ allocs[i].stop \in Int /\ allocs[i].start <= allocs[i].stop
    <3>1. SUFFICES ASSUME NEW i \in 1 .. Len(allocs)
                   PROVE  /\ allocs[i].start \in Int /\ allocs[i].stop \in Int
                          /\ allocs[i].start <= allocs[i].stop
      OBVIOUS
    <3>2. allocs[i].value \in Buffer /\ allocs[i].start \in Int /\ allocs[i].stop \in Int
      BY <1>1 DEF SA!Allocation
    <3>3. Size[allocs[i].value] \in Nat
      BY <3>2, SizeAssumption
    <3>4. allocs[i].stop = allocs[i].start + Size[allocs[i].value]
      BY <1>1 DEF IInv, SA!EntriesOK
    <3> QED BY <3>2, <3>3, <3>4
  <2>2. \A i, j \in 1 .. Len(allocs) : i < j => allocs[i].stop <= allocs[j].start
    BY <1>1 DEF IInv, SA!Sorted
  <2>3. e.start \in Int /\ e.stop \in Int
    BY <1>2, <1>3, <1>6
  <2>4. \A i \in 1 .. k - 1 : allocs[i].stop <= e.start
    <3>1. SUFFICES ASSUME NEW i \in 1 .. k - 1 PROVE allocs[i].stop <= e.start
      OBVIOUS
    <3>2. i \in 1 .. Len(allocs) /\ k - 1 \in 1 .. Len(allocs) /\ k > 1
      BY <1>1
    <3>3. allocs[k - 1].stop <= e.start
      BY <1>2, <1>6, <2>1, <3>2
    <3>4. CASE i = k - 1
      BY <3>3, <3>4
    <3>5. CASE i < k - 1
      <4>1. allocs[i].stop <= allocs[k - 1].start
        BY <2>2, <3>2, <3>5
      <4> QED BY <2>1, <2>3, <3>2, <3>3, <4>1
    <3> QED BY <3>4, <3>5
  <2>5. \A i \in k .. Len(allocs) : e.stop <= allocs[i].start
    <3>1. SUFFICES ASSUME NEW i \in k .. Len(allocs) PROVE e.stop <= allocs[i].start
      OBVIOUS
    <3>2. i \in 1 .. Len(allocs) /\ k \in 1 .. Len(allocs) /\ k <= Len(allocs)
      BY <1>1
    <3>3. e.stop <= allocs[k].start
      BY <1>4, <3>2
    <3>4. CASE i = k
      BY <3>3, <3>4
    <3>5. CASE i > k
      <4>1. allocs[k].stop <= allocs[i].start
        BY <2>2, <3>2, <3>5
      <4> QED BY <2>1, <2>3, <3>2, <3>3, <4>1
    <3> QED BY <3>4, <3>5
  <2>6. SUFFICES ASSUME NEW i \in 1 .. Len(allocs) + 1, NEW j \in 1 .. Len(allocs) + 1, i < j
                 PROVE  allocs'[i].stop <= allocs'[j].start
    BY <1>8 DEF SA!Sorted
  <2>7. CASE i \in 1 .. k - 1 /\ j \in 1 .. k - 1
    BY <1>9, <2>2, <2>6, <2>7
  <2>8. CASE i \in 1 .. k - 1 /\ j = k
    BY <1>9, <1>10, <2>4, <2>8
  <2>9. CASE i \in 1 .. k - 1 /\ j \in k + 1 .. Len(allocs) + 1
    <3>1. i < j - 1
      BY <2>9
    <3> QED BY <1>9, <1>11, <1>13, <2>2, <2>9, <3>1
  <2>10. CASE i = k /\ j \in k + 1 .. Len(allocs) + 1
    BY <1>10, <1>11, <2>5, <2>10
  <2>11. CASE i \in k + 1 .. Len(allocs) + 1 /\ j \in k + 1 .. Len(allocs) + 1
    <3>1. i - 1 < j - 1
      BY <2>6
    <3> QED BY <1>11, <1>13, <2>2, <2>11, <3>1
  <2> QED BY <1>12, <2>6, <2>7, <2>8, <2>9, <2>10, <2>11
<1>21. SA!Aligned'
  <2>1. SUFFICES ASSUME NEW w \in Buffer, stackPtr'[w] # SA!Unset
                 PROVE  \E m \in 0 .. stackPtr'[w] : stackPtr'[w] = m * Alignment[w]
    BY DEF SA!Aligned
  <2>2. CASE w = v
    BY <1>2, <1>14, <2>2
  <2>3. CASE w # v
    BY <1>14, <2>1, <2>3 DEF IInv, SA!Aligned
  <2> QED BY <2>2, <2>3
<1> QED
  BY <1>16, <1>17, <1>18, <1>19, <1>20, <1>21 DEF IInv

(* Erasing an entry leaves a subsequence of the list.                      *)
LEMMA LifetimeStopInvariant ==
    ASSUME IInv, NEW v \in Buffer, SA!LifetimeStop(v)
    PROVE  IInv'
<1> PICK k \in SA!Entries(v) : SA!Entries(v) = {k} /\ allocs' = SA!RemoveAt(allocs, k)
  BY DEF SA!LifetimeStop
<1>1. /\ Len(allocs) \in Nat /\ DOMAIN allocs = 1 .. Len(allocs)
      /\ \A i \in 1 .. Len(allocs) : allocs[i] \in SA!Allocation
  BY ListFacts DEF IInv
<1>2. k \in 1 .. Len(allocs)
  BY <1>1 DEF SA!Entries
<1>3. stackPtr' = stackPtr /\ failed' = failed
  BY DEF SA!LifetimeStop
<1>4. /\ allocs' \in Seq(SA!Allocation)
      /\ Len(allocs') = Len(allocs) - 1
      /\ \A i \in 1 .. Len(allocs) - 1 :
             allocs'[i] = IF i < k THEN allocs[i] ELSE allocs[i + 1]
  BY <1>2, RemoveAtProperties DEF IInv, SA!TypeOK
<1>5. DOMAIN allocs' = 1 .. Len(allocs) - 1
  BY <1>1, <1>4, LenProperties
<1>6. PICK was \in [1 .. Len(allocs) - 1 -> 1 .. Len(allocs)] :
          /\ \A i \in 1 .. Len(allocs) - 1 : allocs'[i] = allocs[was[i]]
          /\ \A i, j \in 1 .. Len(allocs) - 1 : i < j => was[i] < was[j]
  <2> DEFINE f == [i \in 1 .. Len(allocs) - 1 |-> IF i < k THEN i ELSE i + 1]
  <2>1. \A i \in 1 .. Len(allocs) - 1 : f[i] \in 1 .. Len(allocs)
    BY <1>1
  <2>2. \A i \in 1 .. Len(allocs) - 1 : allocs'[i] = allocs[f[i]]
    BY <1>4
  <2>3. \A i, j \in 1 .. Len(allocs) - 1 : i < j => f[i] < f[j]
    BY <1>2
  <2>4. f \in [1 .. Len(allocs) - 1 -> 1 .. Len(allocs)]
    BY <2>1
  <2> HIDE DEF f
  <2> QED BY <2>2, <2>3, <2>4
<1>7. SA!TypeOK'
  BY <1>3, <1>4 DEF IInv, SA!TypeOK
<1>8. Placed' /\ SA!EntriesOK'
  <2>1. \A i \in 1 .. Len(allocs) :
            /\ allocs[i].start \in Nat
            /\ allocs[i].start = stackPtr[allocs[i].value]
            /\ allocs[i].stop = allocs[i].start + Size[allocs[i].value]
    BY <1>1 DEF IInv, Placed, SA!EntriesOK
  <2>2. ASSUME NEW i \in DOMAIN allocs'
        PROVE  /\ allocs'[i].start \in Nat
               /\ allocs'[i].start = stackPtr'[allocs'[i].value]
               /\ allocs'[i].stop = allocs'[i].start + Size[allocs'[i].value]
    <3>1. was[i] \in 1 .. Len(allocs) /\ allocs'[i] = allocs[was[i]]
      BY <1>5, <1>6
    <3> QED BY <1>3, <2>1, <3>1
  <2> QED BY <2>2 DEF Placed, SA!EntriesOK
<1>9. SA!OneEntry'
  <2>1. SUFFICES ASSUME NEW i \in DOMAIN allocs', NEW j \in DOMAIN allocs',
                        allocs'[i].value = allocs'[j].value
                 PROVE  i = j
    BY DEF SA!OneEntry
  <2>2. /\ i \in 1 .. Len(allocs) - 1 /\ j \in 1 .. Len(allocs) - 1
        /\ allocs'[i] = allocs[was[i]] /\ allocs'[j] = allocs[was[j]]
    BY <1>5, <1>6
  <2>3. was[i] \in DOMAIN allocs /\ was[j] \in DOMAIN allocs
    BY <1>1, <2>2
  <2>4. was[i] = was[j]
    BY <2>1, <2>2, <2>3 DEF IInv, SA!OneEntry
  <2> QED BY <1>1, <1>6, <2>2, <2>3, <2>4
<1>10. SA!Sorted'
  <2>1. SUFFICES ASSUME NEW i \in DOMAIN allocs', NEW j \in DOMAIN allocs', i < j
                 PROVE  allocs'[i].stop <= allocs'[j].start
    BY DEF SA!Sorted
  <2>2. /\ i \in 1 .. Len(allocs) - 1 /\ j \in 1 .. Len(allocs) - 1
        /\ allocs'[i] = allocs[was[i]] /\ allocs'[j] = allocs[was[j]]
    BY <1>5, <1>6
  <2>3. was[i] \in DOMAIN allocs /\ was[j] \in DOMAIN allocs /\ was[i] < was[j]
    BY <1>1, <1>6, <2>1, <2>2
  <2> QED BY <2>2, <2>3 DEF IInv, SA!Sorted
<1>11. SA!Aligned'
  BY <1>3 DEF IInv, SA!Aligned
<1> QED
  BY <1>7, <1>8, <1>9, <1>10, <1>11 DEF IInv

(* Every handler of the walk preserves the invariant.                      *)
LEMMA StepInvariant == IInv /\ [SA!Next]_SA!vars => IInv'
<1> SUFFICES ASSUME IInv, [SA!Next]_SA!vars PROVE IInv'
  OBVIOUS
<1>1. ASSUME NEW v \in Buffer, SA!Alloca(v) PROVE IInv'
  BY <1>1, AllocaInvariant
<1>2. ASSUME NEW v \in Buffer, SA!LifetimeStop(v) PROVE IInv'
  BY <1>2, LifetimeStopInvariant
<1>3. ASSUME NEW v \in Buffer, SA!LifetimeStopFails(v) PROVE IInv'
  BY <1>3 DEF SA!LifetimeStopFails, IInv, SA!TypeOK, Placed, SA!EntriesOK, SA!OneEntry, SA!Sorted, SA!Aligned
<1>4. CASE UNCHANGED SA!vars
  BY <1>4 DEF SA!vars, IInv, SA!TypeOK, Placed, SA!EntriesOK, SA!OneEntry, SA!Sorted, SA!Aligned
<1> QED
  BY <1>1, <1>2, <1>3, <1>4 DEF SA!Next

(* The invariant holds in every state of the walk.                         *)
LEMMA Invariance == SA!Spec => []IInv
<1> QED
  BY InitInvariant, StepInvariant, PTL DEF SA!Spec

-----------------------------------------------------------------------------
(* The variables of the pass keep their types. *)
THEOREM TypeCorrect == SA!Spec => []SA!TypeOK
<1>1. IInv => SA!TypeOK
  BY DEF IInv
<1> QED
  BY <1>1, Invariance, PTL

(* The allocation list of set_stack_ptr_pass::run_on_function stays in     *)
(* address order and free of overlaps.                                     *)
THEOREM ListSorted == SA!Spec => []SA!Sorted
<1>1. IInv => SA!Sorted
  BY DEF IInv
<1> QED
  BY <1>1, Invariance, PTL

(* In a list in address order, with the addresses of its allocas, no two   *)
(* buffers overlap.                                                        *)
LEMMA LiveApart == IInv => SA!LiveDisjoint
<1>1. SUFFICES ASSUME IInv, NEW v \in SA!Live, NEW w \in SA!Live, v # w
               PROVE  \/ stackPtr[v] + Size[v] <= stackPtr[w]
                      \/ stackPtr[w] + Size[w] <= stackPtr[v]
  BY DEF SA!LiveDisjoint
<1>2. PICK i \in DOMAIN allocs : allocs[i].value = v
  BY DEF SA!Live
<1>3. PICK j \in DOMAIN allocs : allocs[j].value = w
  BY DEF SA!Live
<1>4. /\ allocs[i].start = stackPtr[v] /\ allocs[i].stop = stackPtr[v] + Size[v]
      /\ allocs[j].start = stackPtr[w] /\ allocs[j].stop = stackPtr[w] + Size[w]
  BY <1>1, <1>2, <1>3 DEF IInv, SA!EntriesOK
<1>5. i < j \/ j < i
  BY <1>1, <1>2, <1>3, ListFacts DEF IInv
<1> QED
  BY <1>1, <1>4, <1>5 DEF IInv, SA!Sorted

(* The stack pointers written to two allocas that are live together denote *)
(* disjoint ranges of local memory.                                        *)
THEOREM NoOverlap == SA!Spec => []SA!LiveDisjoint
BY LiveApart, Invariance, PTL

(* Every alloca gets an address that is a multiple of its alignment.       *)
THEOREM StackAligned == SA!Spec => []SA!Aligned
<1>1. IInv => SA!Aligned
  BY DEF IInv
<1> QED
  BY <1>1, Invariance, PTL

(* No buffer is in the list twice, so a lifetime_stop never erases two.    *)
THEOREM StopErasesOne == SA!Spec => []SA!OneEntry
<1>1. IInv => SA!OneEntry
  BY DEF IInv
<1> QED
  BY <1>1, Invariance, PTL

-----------------------------------------------------------------------------
(* What the search does not skip.  A size of zero is left out: behind an   *)
(* end address of 0 the rounding skips a place (CDiv truncates).           *)
SizesPositive == \A v \in Buffer : Size[v] > 0

(* AlignUp is the least multiple that is not below a positive address.     *)
LEMMA AlignUpLeast ==
    ASSUME NEW x \in Nat \ {0}, NEW a \in Nat \ {0}, NEW p \in Nat, p % a = 0, x <= p
    PROVE  SA!AlignUp(x, a) <= p
<1> DEFINE q == (x - 1) \div a
           m == p \div a
<1>1. q \in Nat /\ q * a <= x - 1
  OBVIOUS
<1>2. m \in Nat /\ p = m * a
  OBVIOUS
<1>3. SA!AlignUp(x, a) = (1 + q) * a
  BY DEF SA!AlignUp, SA!CDiv
<1> HIDE DEF q, m
<1>4. \A d \in Nat : (q + d) * a = q * a + d * a /\ d * a >= 0
  BY <1>1
<1>5. q < m
  <2>1. SUFFICES ASSUME m <= q PROVE FALSE
    BY <1>1, <1>2
  <2>2. (m + (q - m)) * a = m * a + (q - m) * a /\ (q - m) * a >= 0
    BY <1>1, <1>2, <2>1
  <2>3. m + (q - m) = q
    BY <1>1, <1>2
  <2>4. q * a >= m * a
    BY <1>1, <1>2, <2>2, <2>3
  <2> QED BY <1>1, <1>2, <2>4
<1>6. m = q + 1 + (m - q - 1) /\ m - q - 1 \in Nat
  BY <1>1, <1>2, <1>5
<1>7. ((q + 1) + (m - q - 1)) * a = (q + 1) * a + (m - q - 1) * a /\ (m - q - 1) * a >= 0
  BY <1>1, <1>2, <1>6
<1> QED BY <1>1, <1>2, <1>3, <1>6, <1>7

(* If place p is clear, the first fit is not above it: every gap in front  *)
(* of the first entry that starts behind v at p offers a place up to p.    *)
LEMMA AllocaLowest ==
    ASSUME SizesPositive, IInv, NEW v \in Buffer, SA!Alloca(v),
           NEW p \in 0 .. stackPtr'[v] - 1, p % Alignment[v] = 0, SA!Clear(v, p)
    PROVE  FALSE
<1> PICK k \in 1 .. Len(allocs) + 1 : SA!IsFirstFit(v, k) /\ SA!Place(v, k)
  BY DEF SA!Alloca
<1>1. /\ Len(allocs) \in Nat /\ DOMAIN allocs = 1 .. Len(allocs)
      /\ \A i \in 1 .. Len(allocs) : allocs[i] \in SA!Allocation
  BY ListFacts DEF IInv
<1>2. Alignment[v] \in Nat \ {0} /\ Size \in [Buffer -> Nat]
  BY AlignmentAssumption, SizeAssumption
<1>3. stackPtr'[v] = SA!Candidate(v, k) /\ SA!Candidate(v, k) \in Nat
  BY CandidateProperties DEF SA!Place, IInv, SA!TypeOK
<1>4. \A i \in 1 .. Len(allocs) :
          /\ allocs[i].start \in Nat /\ allocs[i].stop \in Nat \ {0}
          /\ p + Size[v] <= allocs[i].start \/ allocs[i].stop <= p
  <2>1. TAKE i \in 1 .. Len(allocs)
  <2>2. /\ allocs[i].value \in Buffer /\ allocs[i].value \in SA!Live
        /\ allocs[i].start = stackPtr[allocs[i].value] /\ allocs[i].start \in Nat
        /\ allocs[i].stop = allocs[i].start + Size[allocs[i].value]
    BY <1>1 DEF IInv, SA!EntriesOK, Placed, SA!Allocation, SA!Live
  <2>3. Size[allocs[i].value] \in Nat \ {0}
    BY <1>2, <2>2 DEF SizesPositive
  <2>4. \/ p + Size[v] <= stackPtr[allocs[i].value]
        \/ stackPtr[allocs[i].value] + Size[allocs[i].value] <= p
    BY <2>2 DEF SA!Clear
  <2> QED BY <2>2, <2>3, <2>4
<1>5. p \in Nat /\ p < SA!Candidate(v, k)
  BY <1>3
(* Behind an entry that ends at p or below, the place offered is p at most. *)
<1>6. ASSUME NEW j \in 1 .. Len(allocs) + 1, j = 1 \/ allocs[j - 1].stop <= p
      PROVE  SA!Candidate(v, j) \in Nat /\ SA!Candidate(v, j) <= p
  <2>1. CASE j = 1
    BY <1>5, <2>1 DEF SA!Candidate
  <2>2. CASE j > 1
    <3>1. j - 1 \in 1 .. Len(allocs) /\ allocs[j - 1].stop <= p
      BY <1>1, <1>6, <2>2
    <3>2. SA!Candidate(v, j) = SA!AlignUp(allocs[j - 1].stop, Alignment[v])
      BY <2>2 DEF SA!Candidate
    <3> QED BY <1>2, <1>4, <1>5, <3>1, <3>2, AlignUpLeast, CandidateProperties
  <2> QED BY <2>1, <2>2
<1> DEFINE T == {i \in 1 .. Len(allocs) : p + Size[v] <= allocs[i].start}
<1>7. k - 1 \in T
  <2>1. k # 1 /\ ~(allocs[k - 1].stop <= p)
    BY <1>5, <1>6
  <2>2. k - 1 \in 1 .. Len(allocs)
    BY <1>1, <2>1
  <2> QED BY <1>4, <2>1, <2>2
<1>8. PICK j \in T : \A n \in T : j <= n
  <2>1. T \in SUBSET Nat
    BY <1>1
  <2> HIDE DEF T
  <2> QED BY <1>7, <2>1, LeastNumber
<1>9. j = 1 \/ allocs[j - 1].stop <= p
  <2>1. ASSUME j # 1 PROVE allocs[j - 1].stop <= p
    <3>1. j - 1 \in 1 .. Len(allocs) /\ j - 1 \notin T
      BY <1>1, <1>8, <2>1
    <3> QED BY <1>4, <3>1
  <2> QED BY <2>1
<1>10. j \in 1 .. k - 1 /\ j \in 1 .. Len(allocs)
  BY <1>1, <1>7, <1>8
<1>11. SA!Fits(v, j)
  <2>1. SA!Candidate(v, j) \in Nat /\ SA!Candidate(v, j) <= p
    BY <1>1, <1>6, <1>9, <1>10
  <2>2. p + Size[v] <= allocs[j].start /\ allocs[j].start \in Nat /\ Size[v] \in Nat
    BY <1>2, <1>4, <1>10
  <2> QED BY <1>5, <2>1, <2>2 DEF SA!Fits
<1> QED BY <1>10, <1>11 DEF SA!IsFirstFit

(* First fit of set_stack_ptr_pass::run_on_function finds the lowest place *)
(* there is, for any buffers of positive size.                             *)
THEOREM FirstFitIsLowest == SizesPositive => (SA!Spec => SA!LowestPlace)
<1>1. ASSUME SizesPositive, IInv, [SA!Next]_SA!vars
      PROVE  [\A v \in Buffer : SA!Alloca(v) =>
                 \A p \in 0 .. stackPtr'[v] - 1 : p % Alignment[v] = 0 => ~SA!Clear(v, p)]_SA!vars
  <2>1. ASSUME NEW v \in Buffer, SA!Alloca(v), NEW p \in 0 .. stackPtr'[v] - 1,
               p % Alignment[v] = 0, SA!Clear(v, p)
        PROVE  FALSE
    BY <1>1, <2>1, AllocaLowest
  <2> QED BY <2>1
<1>2. SizesPositive /\ IInv /\ [SA!Next]_SA!vars =>
          [\A v \in Buffer : SA!Alloca(v) =>
              \A p \in 0 .. stackPtr'[v] - 1 : p % Alignment[v] = 0 => ~SA!Clear(v, p)]_SA!vars
  BY <1>1
<1>3. SizesPositive => []SizesPositive
  OBVIOUS
<1> QED BY <1>2, <1>3, Invariance, PTL DEF SA!Spec, SA!LowestPlace

-----------------------------------------------------------------------------
(* The buffers in the list as a set, for the walks that drive the pass.    *)
LEMMA LiveAfterAlloca ==
    ASSUME IInv, NEW v \in Buffer, SA!Alloca(v)
    PROVE  SA!Live' = SA!Live \cup {v} /\ failed' = failed
<1> PICK k \in 1 .. Len(allocs) + 1 : SA!IsFirstFit(v, k) /\ SA!Place(v, k)
  BY DEF SA!Alloca
<1> DEFINE e == [value |-> v, start |-> SA!Candidate(v, k), stop |-> SA!Candidate(v, k) + Size[v]]
<1>1. /\ Len(allocs) \in Nat /\ DOMAIN allocs = 1 .. Len(allocs)
      /\ allocs \in Seq(SA!Allocation)
  BY ListFacts DEF IInv, SA!TypeOK
<1>2. e \in SA!Allocation /\ e.value = v
  <2>1. SA!Candidate(v, k) \in Nat /\ Size[v] \in Nat
    BY CandidateProperties, SizeAssumption
  <2> QED BY <2>1 DEF SA!Allocation
<1>3. allocs' = SA!InsertAt(allocs, k, e) /\ failed' = failed
  BY DEF SA!Place
<1> HIDE DEF e
<1>4. /\ allocs' \in Seq(SA!Allocation) /\ Len(allocs') = Len(allocs) + 1
      /\ \A i \in 1 .. Len(allocs) + 1 :
             allocs'[i] = IF i < k THEN allocs[i] ELSE IF i = k THEN e ELSE allocs[i - 1]
  <2> HIDE DEF SA!Allocation
  <2>1. /\ SA!InsertAt(allocs, k, e) \in Seq(SA!Allocation)
        /\ Len(SA!InsertAt(allocs, k, e)) = Len(allocs) + 1
        /\ \A i \in 1 .. Len(allocs) + 1 : SA!InsertAt(allocs, k, e)[i] =
               IF i < k THEN allocs[i] ELSE IF i = k THEN e ELSE allocs[i - 1]
    BY <1>1, <1>2, InsertAtProperties, SMTT(30)
  <2> QED BY <1>3, <2>1, Zenon
<1>5. DOMAIN allocs' = 1 .. Len(allocs) + 1
  BY <1>1, <1>4, LenProperties
<1>6. SA!Live' = {allocs'[i].value : i \in 1 .. Len(allocs) + 1}
      /\ SA!Live = {allocs[i].value : i \in 1 .. Len(allocs)}
  BY <1>1, <1>5 DEF SA!Live
<1>7. ASSUME NEW x \in SA!Live' PROVE x \in SA!Live \cup {v}
  <2>1. PICK i \in 1 .. Len(allocs) + 1 : x = allocs'[i].value
    BY <1>6
  <2>2. i < k => i \in 1 .. Len(allocs) /\ allocs'[i] = allocs[i]
    BY <1>1, <1>4
  <2>3. i > k => i - 1 \in 1 .. Len(allocs) /\ allocs'[i] = allocs[i - 1]
    BY <1>1, <1>4
  <2>4. i = k => allocs'[i] = e
    BY <1>4
  <2> QED BY <1>2, <1>6, <2>1, <2>2, <2>3, <2>4
<1>8. v \in SA!Live'
  <2>1. allocs'[k] = e
    BY <1>4
  <2> QED BY <1>2, <1>6, <2>1
<1>9. ASSUME NEW x \in SA!Live PROVE x \in SA!Live'
  <2>1. PICK i \in 1 .. Len(allocs) : x = allocs[i].value
    BY <1>6
  <2>2. CASE i < k
    <3>1. i \in 1 .. Len(allocs) + 1 /\ allocs'[i] = allocs[i]
      BY <1>1, <1>4, <2>2
    <3> QED BY <1>6, <2>1, <3>1
  <2>3. CASE i >= k
    <3>1. i + 1 \in 1 .. Len(allocs) + 1 /\ allocs'[i + 1] = allocs[i]
      BY <1>1, <1>4, <2>3
    <3> QED BY <1>6, <2>1, <3>1
  <2> QED BY <2>2, <2>3
<1> QED BY <1>3, <1>7, <1>8, <1>9

(* An alloca gets an address, the other ones keep theirs.                  *)
LEMMA AllocaPlaces ==
    ASSUME IInv, NEW v \in Buffer, SA!Alloca(v)
    PROVE  stackPtr'[v] \in Nat /\ \A w \in Buffer : w # v => stackPtr'[w] = stackPtr[w]
<1> PICK k \in 1 .. Len(allocs) + 1 : SA!IsFirstFit(v, k) /\ SA!Place(v, k)
  BY DEF SA!Alloca
<1>1. SA!Candidate(v, k) \in Nat
  BY CandidateProperties
<1> QED
  BY <1>1 DEF SA!Place, IInv, SA!TypeOK

(* A lifetime_stop takes its buffer out of the list.                       *)
LEMMA LiveAfterStop ==
    ASSUME IInv, NEW v \in Buffer, SA!LifetimeStop(v)
    PROVE  v \in SA!Live /\ SA!Live' = SA!Live \ {v} /\ failed' = failed
<1> PICK k \in SA!Entries(v) : SA!Entries(v) = {k} /\ allocs' = SA!RemoveAt(allocs, k)
  BY DEF SA!LifetimeStop
<1>1. /\ Len(allocs) \in Nat /\ DOMAIN allocs = 1 .. Len(allocs)
      /\ allocs \in Seq(SA!Allocation)
  BY ListFacts DEF IInv, SA!TypeOK
<1>2. k \in 1 .. Len(allocs) /\ allocs[k].value = v
      /\ \A i \in 1 .. Len(allocs) : allocs[i].value = v => i = k
  BY <1>1 DEF SA!Entries
<1>3. /\ allocs' \in Seq(SA!Allocation)
      /\ Len(allocs') = Len(allocs) - 1
      /\ \A i \in 1 .. Len(allocs) - 1 :
             allocs'[i] = IF i < k THEN allocs[i] ELSE allocs[i + 1]
  BY <1>1, <1>2, RemoveAtProperties
<1>4. DOMAIN allocs' = 1 .. Len(allocs) - 1
  BY <1>1, <1>3, LenProperties
<1>5. SA!Live' = {allocs'[i].value : i \in 1 .. Len(allocs) - 1}
      /\ SA!Live = {allocs[i].value : i \in 1 .. Len(allocs)}
  BY <1>1, <1>4 DEF SA!Live
<1>6. ASSUME NEW x \in SA!Live' PROVE x \in SA!Live /\ x # v
  <2>1. PICK i \in 1 .. Len(allocs) - 1 : x = allocs'[i].value
    BY <1>5
  <2>2. CASE i < k
    <3>1. i \in 1 .. Len(allocs) /\ allocs'[i] = allocs[i] /\ i # k
      BY <1>1, <1>3, <2>2
    <3> QED BY <1>2, <1>5, <2>1, <3>1
  <2>3. CASE i >= k
    <3>1. i + 1 \in 1 .. Len(allocs) /\ allocs'[i] = allocs[i + 1] /\ i + 1 # k
      BY <1>1, <1>2, <1>3, <2>3
    <3> QED BY <1>2, <1>5, <2>1, <3>1
  <2> QED BY <1>2, <2>2, <2>3
<1>7. ASSUME NEW x \in SA!Live, x # v PROVE x \in SA!Live'
  <2>1. PICK i \in 1 .. Len(allocs) : x = allocs[i].value
    BY <1>5
  <2>2. CASE i < k
    <3>1. i \in 1 .. Len(allocs) - 1 /\ allocs'[i] = allocs[i]
      BY <1>1, <1>2, <1>3, <2>2
    <3> QED BY <1>5, <2>1, <3>1
  <2>3. CASE i > k
    <3>1. i - 1 \in 1 .. Len(allocs) - 1 /\ allocs'[i - 1] = allocs[i]
      BY <1>1, <1>2, <1>3, <2>3
    <3> QED BY <1>5, <2>1, <3>1
  <2> QED BY <1>2, <1>7, <2>1, <2>2, <2>3
<1>8. failed' = failed
  BY DEF SA!LifetimeStop
<1>9. v \in SA!Live
  BY <1>2, <1>5
<1> QED BY <1>6, <1>7, <1>8, <1>9

(* A lifetime_stop of a live buffer does not fail.                         *)
LEMMA StopOfLive ==
    ASSUME IInv, NEW v \in SA!Live
    PROVE  ~SA!LifetimeStopFails(v)
<1>1. PICK k \in DOMAIN allocs : allocs[k].value = v
  BY DEF SA!Live
<1>2. k \in SA!Entries(v) /\ SA!Entries(v) = {k}
  BY <1>1 DEF SA!Entries, IInv, SA!OneEntry
<1> QED BY <1>2 DEF SA!LifetimeStopFails

-----------------------------------------------------------------------------
(* The walk drives the allocator. *)

Walks == /\ prog \in Programs
         /\ pc \in Nat \ {0}
         /\ stops \subseteq Allocas(prog)

(* The walk stays in one program and stops only its allocas.               *)
LEMMA WalksInvariant == Spec => []Walks
<1>1. Init => Walks
  BY DEF Init, Walks
<1>2. Walks /\ [Next]_vars => Walks'
  <2> SUFFICES ASSUME Walks, [Next]_vars PROVE Walks'
    OBVIOUS
  <2>1. CASE WalkStop
    BY <2>1 DEF WalkStop, Walks
  <2>2. CASE WalkInst
    BY <2>2 DEF WalkInst, Walks, StopsBehind
  <2>3. CASE Start \/ Execute \/ UNCHANGED vars
    BY <2>3 DEF Start, Execute, vars, walkVars, Walks
  <2> QED BY <2>1, <2>2, <2>3 DEF Next
<1> QED BY <1>1, <1>2, PTL DEF Spec

(* Every step of the walk, and every step of the program it is followed    *)
(* by, is one of the allocator or none.                                    *)
LEMMA StepAllocates == Walks /\ [Next]_vars => [SA!Next]_SA!vars
<1> SUFFICES ASSUME Walks, [Next]_vars PROVE [SA!Next]_SA!vars
  OBVIOUS
<1>1. Allocas(prog) \subseteq Buffer
  BY ProgramsAssumption DEF Walks, Allocas
<1>2. CASE WalkStop
  BY <1>1, <1>2 DEF WalkStop, Walks, SA!Next
<1>3. CASE WalkInst
  <2>1. pc \in Inst(prog)
    BY <1>3, ProgramsAssumption DEF WalkInst, Walks, Inst
  <2>2. CASE prog.op[pc] = "alloca"
    BY <1>3, <2>1, <2>2, ProgramsAssumption DEF WalkInst, Visit, Walks, SA!Next
  <2>3. CASE prog.op[pc] = "lifetime_stop"
    BY <1>3, <2>1, <2>3, ProgramsAssumption DEF WalkInst, Visit, Walks, SA!Next
  <2>4. CASE prog.op[pc] \notin {"alloca", "lifetime_stop"}
    BY <1>3, <2>4 DEF WalkInst, Visit, SA!vars
  <2> QED BY <2>2, <2>3, <2>4
<1>4. CASE Start \/ Execute \/ UNCHANGED vars
  BY <1>4 DEF Start, Execute, vars, walkVars, SA!vars
<1> QED BY <1>2, <1>3, <1>4 DEF Next

(* The walk of set-stack-ptr over any program is a behaviour of the        *)
(* allocator, so that what holds of every order of handlers holds of it.   *)
LEMMA WalkAllocates == Spec => SA!Spec
<1>1. Init => SA!Init
  BY DEF Init
<1> QED BY <1>1, WalksInvariant, StepAllocates, PTL DEF Spec, SA!Spec

(* What holds of the list in every behaviour of the allocator holds in     *)
(* the walk.                                                               *)
LEMMA AllocatorInvariant == Spec => []IInv
BY InitInvariant, StepInvariant, WalkAllocates, PTL DEF SA!Spec

-----------------------------------------------------------------------------
(* Where the stops are. *)

(* A bounded set of integers has a greatest one.                           *)
LEMMA MaxOfBounded ==
    ASSUME NEW n \in Int, NEW S \in SUBSET Int, NEW i \in S, \A x \in S : x <= n
    PROVE  Max(S) \in S /\ \A x \in S : x <= Max(S)
<1> DEFINE T == {n - x : x \in S}
<1>1. T \in SUBSET Nat /\ n - i \in T
  <2>1. \A x \in S : n - x \in Nat
    OBVIOUS
  <2> QED
    BY <2>1
<1>2. PICK j \in T : \A m \in T : j <= m
  <2> HIDE DEF T
  <2> QED
    BY <1>1, LeastNumber
<1>3. PICK y \in S : j = n - y
  OBVIOUS
<1>4. ASSUME NEW x \in S PROVE x <= y
  <2>1. n - x \in T /\ j <= n - x
    BY <1>2
  <2> QED
    BY <1>3, <2>1
<1>5. y \in S /\ \A x \in S : y >= x
  BY <1>4
<1>6. Max(S) \in S /\ \A x \in S : Max(S) >= x
  BY <1>5, Zenon DEF Max
<1> QED
  BY <1>6

(* So has a non-empty set of positions.                                    *)
LEMMA MaxProperties ==
    ASSUME NEW n \in Nat, NEW S \in SUBSET (1 .. n), S # {}
    PROVE  Max(S) \in S /\ \A x \in S : x <= Max(S)
<1>1. PICK i : i \in S
  OBVIOUS
<1>2. n \in Int /\ S \in SUBSET Int /\ \A x \in S : x <= n
  OBVIOUS
<1> QED
  BY <1>1, <1>2, MaxOfBounded

(* What the assumption says of one program.                                *)
LEMMA ProgramFacts ==
    ASSUME NEW p \in Programs
    PROVE  /\ IsTree(p)
           /\ \A n \in Inst(p) :
                  /\ Enclosing(p, n) \subseteq Inst(p)
                  /\ \A v : Visible(p, v, n) => v \in 1 .. n - 1
                  /\ p.op[n] \in Views => p.args[n][1] \in 1 .. n - 1
<1>1. IsTree(p)
  BY ProgramsAssumption DEF IsTree
<1>2. ASSUME NEW n \in Inst(p)
      PROVE  /\ Enclosing(p, n) \subseteq Inst(p)
             /\ \A v : Visible(p, v, n) => v \in 1 .. n - 1
  <2>1. Enclosing(p, n) \subseteq 1 .. n - 1 /\ Len(p.op) \in Nat /\ n \in 1 .. Len(p.op)
    BY <1>1, EnclosingFacts DEF IsTree, Inst
  <2>2. Enclosing(p, n) \subseteq Inst(p)
    BY <2>1 DEF Inst
  <2>3. ASSUME NEW v, Visible(p, v, n) PROVE v \in 1 .. n - 1
    <3>1. PICK k \in {n} \cup Enclosing(p, n) : v \in Siblings(p, k) /\ v < k
      BY <2>3 DEF Visible
    <3>2. v \in 1 .. Len(p.op) /\ k \in 1 .. n
      BY <2>1, <3>1 DEF Siblings, Region, Inst
    <3> QED
      BY <2>1, <3>1, <3>2
  <2> QED
    BY <2>2, <2>3
<1>3. ASSUME NEW n \in Inst(p), p.op[n] \in Views PROVE p.args[n][1] \in 1 .. n - 1
  BY <1>2, <1>3, ProgramsAssumption
<1> QED
  BY <1>1, <1>2, <1>3

(* Views are of values defined before them, so every chain of views has a  *)
(* root: the recursion of Root is well founded.                            *)
LEMMA RootUnfolds ==
    ASSUME NEW p \in Programs, NEW n \in Inst(p)
    PROVE  Root(p, n) = IF p.op[n] \in Views THEN Root(p, p.args[n][1]) ELSE n
<1> DEFINE R(f) == f = [w \in Inst(p) |-> IF p.op[w] \in Views THEN f[p.args[w][1]] ELSE w]
           root == CHOOSE f : R(f)
           E == {w \in Inst(p) : p.op[w] \notin Views}
           b == [w \in Inst(p) |-> w]
           d == [w \in Inst(p) |-> p.args[w][1]]
<1>1. PICK f : IsEnd(f, Len(p.op), E, b, d)
  <2>1. \A m \in 1 .. Len(p.op) : m \notin E => d[m] \in 1 .. m - 1
    BY ProgramFacts DEF Inst
  <2> HIDE DEF E, b, d
  <2> QED
    BY <2>1, ChainsEnd, ProgramsAssumption
<1>2. f = [w \in Inst(p) |-> IF w \in E THEN b[w] ELSE f[d[w]]]
  BY <1>1 DEF IsEnd, Inst
<1>3. R(f)
  <2>1. \A w \in Inst(p) : (IF w \in E THEN b[w] ELSE f[d[w]]) =
                             IF p.op[w] \in Views THEN f[p.args[w][1]] ELSE w
    OBVIOUS
  <2> HIDE DEF E, b, d
  <2> QED
    BY <1>2, <2>1
<1>4. R(root)
  <2> HIDE DEF R
  <2> QED
    BY <1>3
<1>5. \A w : Root(p, w) = root[w]
  BY DEF Root
<1> HIDE DEF root
<1>6. root[n] = IF p.op[n] \in Views THEN root[p.args[n][1]] ELSE n
  BY <1>4
<1> HIDE DEF R
<1> QED
  BY <1>5, <1>6

(* An alloca is its own root.                                              *)
LEMMA RootOfAlloca ==
    ASSUME NEW p \in Programs, NEW a \in Allocas(p)
    PROVE  Root(p, a) = a
BY RootUnfolds DEF Allocas, Views

(* The last instruction inside n is n or behind it.                        *)
LEMMA EndOfProperties ==
    ASSUME NEW p \in Programs, NEW n \in Inst(p)
    PROVE  /\ EndOf(p, n) \in Inst(p) /\ n <= EndOf(p, n)
           /\ EndOf(p, n) = n \/ n \in Enclosing(p, EndOf(p, n))
<1> DEFINE E == {n} \cup {k \in Inst(p) : n \in Enclosing(p, k)}
<1>1. Len(p.op) \in Nat /\ E \in SUBSET (1 .. Len(p.op)) /\ n \in E
  BY ProgramsAssumption DEF Inst
<1>2. Max(E) \in E /\ n <= Max(E)
  BY <1>1, MaxProperties
<1>3. EndOf(p, n) = Max(E)
  BY DEF EndOf
<1> QED BY <1>1, <1>2, <1>3 DEF Inst

(* A buffer is stopped behind its alloca, and inside the function.         *)
StopAt(p, a) == EndOf(p, StopAfter(p, a))

(* It is never in front of it, since the alloca itself counts as a use.    *)
LEMMA StopBehindAlloca ==
    ASSUME NEW p \in Programs, NEW a \in Allocas(p)
    PROVE  StopAt(p, a) \in Inst(p) /\ a <= StopAt(p, a)
<1>1. Len(p.op) \in Nat /\ a \in Inst(p) /\ p.op[a] = "alloca"
  BY ProgramsAssumption DEF Allocas
<1> DEFINE S == {n \in Siblings(p, a) : a \in RegionOps(p, n)}
           s == StopAfter(p, a)
<1>2. S \in SUBSET (1 .. Len(p.op)) /\ a \in S
  <2>1. a \in Siblings(p, a) /\ Siblings(p, a) \subseteq 1 .. Len(p.op)
    BY <1>1 DEF Siblings, Region, Inst
  <2>2. a \in RegionOps(p, a)
    BY <1>1, RootOfAlloca DEF RegionOps, IsMemref
  <2> QED BY <2>1, <2>2
<1>3. s \in S /\ a <= s
  <2>1. Max(S) \in S /\ \A x \in S : x <= Max(S)
    BY <1>1, <1>2, MaxProperties
  <2> QED BY <1>2, <2>1 DEF StopAfter
<1>4. s \in 1 .. Len(p.op)
  BY <1>2, <1>3
<1> HIDE DEF S, s
<1>5. EndOf(p, s) \in Inst(p) /\ s <= EndOf(p, s)
  BY <1>4, EndOfProperties DEF Inst
<1>6. a \in 1 .. Len(p.op) /\ EndOf(p, s) \in 1 .. Len(p.op)
  BY <1>1, <1>5 DEF Inst
<1>7. a <= EndOf(p, s)
  BY <1>1, <1>3, <1>4, <1>5, <1>6
<1> QED BY <1>5, <1>7 DEF StopAt, s

(* The stop of a buffer is no later than the end of its block.             *)
LEMMA StopInBlock ==
    ASSUME NEW p \in Programs, NEW a \in Allocas(p)
    PROVE  /\ StopAt(p, a) <= EndOf(p, Max(Siblings(p, a)))
           /\ EndOf(p, Max(Siblings(p, a))) \in Nat
<1> DEFINE B == Siblings(p, a)
           S == {n \in B : a \in RegionOps(p, n)}
           s == StopAfter(p, a)
           last == Max(B)
<1>1. Len(p.op) \in Nat /\ a \in B /\ B \in SUBSET (1 .. Len(p.op))
  BY ProgramsAssumption DEF Allocas, Inst, Siblings, Region
<1>2. a \in S
  BY <1>1, RootOfAlloca DEF Allocas, RegionOps, IsMemref
<1>3. s \in B
  <2>1. S \in SUBSET (1 .. Len(p.op)) /\ S # {}
    BY <1>1, <1>2
  <2>2. Max(S) \in S
    BY <1>1, <2>1, MaxProperties
  <2> QED BY <2>2 DEF StopAfter
<1>4. last \in B /\ s <= last
  BY <1>1, <1>3, MaxProperties
<1>5. s \in Inst(p) /\ last \in Inst(p)
  BY <1>1, <1>3, <1>4 DEF Inst
<1>6. Siblings(p, s) = B
  BY <1>3 DEF Siblings, Region
<1> HIDE DEF B, S, s, last
<1>7. /\ EndOf(p, s) \in Inst(p) /\ EndOf(p, last) \in Inst(p) /\ last <= EndOf(p, last)
      /\ EndOf(p, s) = s \/ s \in Enclosing(p, EndOf(p, s))
  BY <1>5, EndOfProperties
<1>8. s < last => EndOf(p, s) <= last
  <2>1. ASSUME s < last, s \in Enclosing(p, EndOf(p, s)) PROVE EndOf(p, s) < last
    BY <1>4, <1>5, <1>6, <1>7, <2>1, ProgramsAssumption
  <2>2. EndOf(p, s) \in Int /\ s \in Int /\ last \in Int
    BY <1>5, <1>7 DEF Inst
  <2> QED BY <1>7, <2>1, <2>2
<1>9. EndOf(p, s) <= EndOf(p, last)
  <2>1. /\ EndOf(p, s) \in Nat /\ EndOf(p, last) \in Nat /\ s \in Nat /\ last \in Nat
    BY <1>5, <1>7 DEF Inst
  <2>2. CASE s < last
    BY <1>7, <1>8, <2>1, <2>2
  <2>3. CASE s = last
    BY <2>1, <2>3
  <2> QED BY <1>4, <2>1, <2>2, <2>3
<1>10. StopAt(p, a) = EndOf(p, s) /\ EndOf(p, last) \in Nat
  BY <1>7 DEF StopAt, s, Inst
<1> QED BY <1>9, <1>10 DEF last, B

-----------------------------------------------------------------------------
(* What the list holds during the walk. *)

NoStops(p) == \A n \in Inst(p) : p.op[n] # "lifetime_stop"

(* The buffers whose alloca is behind the walk and whose stop is ahead.    *)
Ahead == {a \in Allocas(prog) : a < pc /\ (StopAt(prog, a) >= pc \/ a \in stops)}

(* The stops the walk visits next are due.                                 *)
StopsDue == \A a \in stops : StopAt(prog, a) = pc - 1

(* The list holds no other buffers, and without lifetime_stops of the      *)
(* program's own it holds all of them.                                     *)
Tracks ==
    /\ ~failed => SA!Live \subseteq Ahead /\ \A a \in stops : StopAt(prog, a) = pc - 1
    /\ NoStops(prog) => ~failed /\ Ahead \subseteq SA!Live

(* Allocas and their stops have positions, and the stop is not in front.   *)
LEMMA AllocaFacts ==
    ASSUME NEW p \in Programs, NEW a \in Allocas(p)
    PROVE  /\ a \in Buffer /\ a \in Nat
           /\ StopAt(p, a) \in Nat /\ a <= StopAt(p, a)
<1>1. a \in Buffer /\ a \in Nat
  BY ProgramsAssumption DEF Allocas, Inst
<1>2. StopAt(p, a) \in Nat
  BY StopBehindAlloca DEF Inst
<1> QED BY <1>1, <1>2, StopBehindAlloca

(* A stop that fails is one of a buffer that is not in the list.           *)
LEMMA FailsForOthers ==
    ASSUME IInv, NEW v, SA!LifetimeStopFails(v)
    PROVE  v \notin SA!Live /\ SA!Live' = SA!Live /\ failed' = TRUE
<1>1. v \notin SA!Live
  BY StopOfLive
<1>2. allocs' = allocs /\ failed' = TRUE
  BY DEF SA!LifetimeStopFails
<1> QED BY <1>1, <1>2 DEF SA!Live

(* The same with sets that the steps change.                               *)
Own == [v \in Inst(prog) |-> OwnStops(v)]
Ended == {a \in Allocas(prog) : Stopped(a)}

Exact ==
    /\ SA!Live = {a \in Allocas(prog) : a < pc /\ Own[a] = {} /\ a \notin Ended}
    /\ failed <=> \E v \in Inst(prog) : \E n \in Own[v] :
                      v \in Allocas(prog) => v \in Ended \/ Own[v] # {n}

LEMMA ExactMeans == ListExact <=> Exact
<1>1. \A v \in Inst(prog) : Own[v] = OwnStops(v)
  BY DEF Own
<1>2. \A a \in Allocas(prog) : a \in Inst(prog) /\ (a \in Ended <=> Stopped(a))
  BY DEF Ended, Allocas
<1> QED BY <1>1, <1>2 DEF ListExact, Exact

(* The visit of a stop that the pass has put in: it is not the first stop  *)
(* for the buffer, and an error, exactly if the program had one.           *)
LEMMA WalkStopExact ==
    ASSUME Walks, IInv, Exact, StopsDue, ~failed, WalkStop
    PROVE  Exact' /\ StopsDue'
<1>1. /\ prog \in Programs /\ pc \in Nat \ {0} /\ stops \subseteq Allocas(prog)
      /\ pc' = pc /\ prog' = prog
  BY DEF Walks, WalkStop
<1>2. PICK a \in stops : /\ SA!LifetimeStop(a) \/ SA!LifetimeStopFails(a)
                         /\ stops' = stops \ {a}
  BY DEF WalkStop
<1>3. a \in Allocas(prog) /\ a \in Buffer /\ a \in Inst(prog)
  BY <1>1, AllocaFacts DEF Allocas
<1>4. StopAt(prog, a) < pc /\ a < pc
  <2>1. a \in Nat /\ StopAt(prog, a) \in Nat /\ a <= StopAt(prog, a) /\ StopAt(prog, a) = pc - 1
    BY <1>1, <1>2, <1>3, AllocaFacts DEF StopsDue
  <2> QED BY <1>1, <2>1
<1>5. a \notin Ended /\ Ended' = Ended \cup {a}
  BY <1>1, <1>2, <1>3, <1>4 DEF Ended, Stopped, StopAt
<1>6. Own' = Own
  BY <1>1 DEF Own, OwnStops
<1>7. SA!Live = {b \in Allocas(prog) : b < pc /\ Own[b] = {} /\ b \notin Ended}
  BY DEF Exact
<1>8. \A v \in Inst(prog) : \A n \in Own[v] :
          v \in Allocas(prog) /\ v \notin Ended /\ Own[v] = {n}
  BY DEF Exact
<1>9. StopsDue'
  BY <1>1, <1>2 DEF StopsDue
<1>10. CASE SA!LifetimeStop(a)
  <2>1. a \in SA!Live /\ SA!Live' = SA!Live \ {a} /\ ~failed'
    BY <1>3, <1>10, LiveAfterStop
  <2>2. Own[a] = {}
    BY <1>7, <2>1
  <2> QED BY <1>1, <1>5, <1>6, <1>7, <1>8, <1>9, <2>1, <2>2 DEF Exact
<1>11. CASE SA!LifetimeStopFails(a)
  <2>1. a \notin SA!Live /\ SA!Live' = SA!Live /\ failed' = TRUE
    BY <1>11, FailsForOthers
  <2>2. Own[a] # {}
    BY <1>3, <1>4, <1>5, <1>7, <2>1
  <2> QED BY <1>1, <1>3, <1>5, <1>6, <1>7, <1>9, <2>1, <2>2 DEF Exact
<1> QED BY <1>2, <1>10, <1>11

(* The visit of an instruction of the program.                             *)
LEMMA WalkInstExact ==
    ASSUME Walks, IInv, Exact, ~failed, WalkInst
    PROVE  Exact' /\ StopsDue'
<1>1. /\ prog \in Programs /\ pc \in Nat \ {0} /\ prog' = prog
      /\ stops = {} /\ pc \in Inst(prog) /\ Visit(pc) /\ pc' = pc + 1
  BY ProgramsAssumption DEF Walks, WalkInst, Inst
<1>2. stops' = {a \in Allocas(prog) : StopAt(prog, a) = pc}
  BY DEF WalkInst, StopsBehind, StopAt
<1>3. StopsDue'
  BY <1>1, <1>2 DEF StopsDue
<1>4. Ended' = Ended
  <2>1. \A a \in Allocas(prog) : StopAt(prog, a) \in Nat
    BY <1>1, AllocaFacts
  <2>2. Ended = {a \in Allocas(prog) : StopAt(prog, a) < pc}
    BY <1>1 DEF Ended, Stopped, StopAt
  <2>3. Ended' = {a \in Allocas(prog) : StopAt(prog, a) < pc + 1 /\ StopAt(prog, a) # pc}
    BY <1>1, <1>2 DEF Ended, Stopped, StopAt
  <2> QED BY <1>1, <2>1, <2>2, <2>3
<1>5. Own' = [v \in Inst(prog) |-> Own[v] \cup
                 (IF prog.op[pc] = "lifetime_stop" /\ prog.args[pc][1] = v THEN {pc} ELSE {})]
  <2>1. \A v \in Inst(prog) : Own[v] = OwnStops(v)
    BY DEF Own
  <2>2. \A n \in Inst(prog) : n < pc + 1 <=> n < pc \/ n = pc
    BY <1>1 DEF Inst
  <2>3. Own' = [v \in Inst(prog) |->
                   {n \in Inst(prog) : n < pc + 1 /\ prog.op[n] = "lifetime_stop" /\ prog.args[n][1] = v}]
    BY <1>1 DEF Own, OwnStops
  <2>4. ASSUME NEW v \in Inst(prog)
        PROVE  {n \in Inst(prog) : n < pc + 1 /\ prog.op[n] = "lifetime_stop" /\ prog.args[n][1] = v}
                 = Own[v] \cup (IF prog.op[pc] = "lifetime_stop" /\ prog.args[pc][1] = v THEN {pc} ELSE {})
    <3>1. Own[v] = {n \in Inst(prog) : n < pc /\ prog.op[n] = "lifetime_stop" /\ prog.args[n][1] = v}
      BY <2>1 DEF OwnStops
    <3>2. pc \in Inst(prog)
      BY <1>1
    <3> HIDE DEF Own
    <3> QED BY <2>2, <3>1, <3>2
  <2> HIDE DEF Own
  <2> QED BY <2>3, <2>4
<1>6. \A a \in Allocas(prog) : a \in Inst(prog) /\ (a < pc' <=> a < pc \/ a = pc)
  BY <1>1 DEF Allocas, Inst
<1>7. SA!Live = {b \in Allocas(prog) : b < pc /\ Own[b] = {} /\ b \notin Ended}
  BY DEF Exact
<1>8. \A v \in Inst(prog) : \A n \in Own[v] :
          v \in Allocas(prog) /\ v \notin Ended /\ Own[v] = {n}
  BY DEF Exact
<1>9. CASE prog.op[pc] = "alloca"
  <2>1. pc \in Allocas(prog) /\ pc \in Buffer
    BY <1>1, <1>9, AllocaFacts DEF Allocas
  <2>2. SA!Alloca(pc)
    BY <1>1, <1>9, <2>1 DEF Visit
  <2>3. SA!Live' = SA!Live \cup {pc} /\ ~failed'
    BY <2>1, <2>2, LiveAfterAlloca
  <2>4. \A v \in Inst(prog) : Own'[v] = Own[v]
    BY <1>5, <1>9
  <2>5. pc \notin Ended
    <3>1. pc <= StopAt(prog, pc) /\ StopAt(prog, pc) \in Nat
      BY <1>1, <2>1, AllocaFacts
    <3> QED BY <1>1, <3>1 DEF Ended, Stopped, StopAt
  <2>6. ASSUME NEW n \in Own[pc] PROVE FALSE
    <3>1. n \in Inst(prog) /\ n < pc /\ prog.op[n] = "lifetime_stop" /\ prog.args[n][1] = pc
      BY <1>1, <2>6 DEF Own, OwnStops
    <3>2. pc \in 1 .. n - 1
      <4>1. Visible(prog, pc, n)
        BY <1>1, <3>1, ProgramsAssumption
      <4> QED BY <1>1, <3>1, <4>1, ProgramFacts
    <3> QED BY <1>1, <3>1, <3>2 DEF Inst
  <2>7. Own[pc] = {}
    BY <2>6
  <2>8. SA!Live' = {b \in Allocas(prog) : b < pc' /\ Own'[b] = {} /\ b \notin Ended'}
    BY <1>4, <1>6, <1>7, <2>1, <2>3, <2>4, <2>5, <2>7
  <2> QED BY <1>1, <1>3, <1>4, <1>8, <2>3, <2>4, <2>8 DEF Exact
<1>10. CASE prog.op[pc] = "lifetime_stop"
  <2> DEFINE v == prog.args[pc][1]
  <2>1. pc \notin Allocas(prog)
    BY <1>10 DEF Allocas
  <2>2. /\ v \in Buffer /\ v \in Inst(prog) /\ v < pc
        /\ SA!LifetimeStop(v) \/ SA!LifetimeStopFails(v)
    <3>1. v \in Buffer /\ Visible(prog, v, pc)
      BY <1>1, <1>10, ProgramsAssumption
    <3>2. v \in 1 .. pc - 1
      BY <1>1, <3>1, ProgramFacts
    <3>3. Len(prog.op) \in Nat /\ pc \in 1 .. Len(prog.op)
      BY <1>1, ProgramsAssumption DEF Inst
    <3>4. v \in Inst(prog) /\ v < pc
      BY <3>2, <3>3 DEF Inst
    <3> QED BY <1>1, <1>10, <3>1, <3>4 DEF Visit
  <2>3. \A w \in Inst(prog) : Own'[w] = Own[w] \cup (IF w = v THEN {pc} ELSE {})
    BY <1>5, <1>10
  <2> HIDE DEF v
  <2>4. CASE SA!LifetimeStop(v)
    <3>1. v \in SA!Live /\ SA!Live' = SA!Live \ {v} /\ ~failed'
      BY <2>2, <2>4, LiveAfterStop
    <3>2. v \in Allocas(prog) /\ Own[v] = {} /\ v \notin Ended
      BY <1>7, <3>1
    <3>3. SA!Live' = {b \in Allocas(prog) : b < pc' /\ Own'[b] = {} /\ b \notin Ended'}
      BY <1>4, <1>6, <1>7, <2>1, <2>3, <3>1, <3>2
    <3>4. \A w \in Inst(prog) : \A n \in Own'[w] :
              w \in Allocas(prog) /\ w \notin Ended' /\ Own'[w] = {n}
      BY <1>4, <1>8, <2>3, <3>2
    <3> QED BY <1>1, <1>3, <3>1, <3>3, <3>4 DEF Exact
  <2>5. CASE SA!LifetimeStopFails(v)
    <3>1. v \notin SA!Live /\ SA!Live' = SA!Live /\ failed' = TRUE
      BY <2>5, FailsForOthers
    <3>2. SA!Live' = {b \in Allocas(prog) : b < pc' /\ Own'[b] = {} /\ b \notin Ended'}
      BY <1>4, <1>6, <1>7, <2>1, <2>3, <3>1
    <3>3. v \in Allocas(prog) => v \in Ended' \/ Own'[v] # {pc}
      <4>1. SUFFICES ASSUME v \in Allocas(prog), v \notin Ended, Own'[v] = {pc} PROVE FALSE
        BY <1>4
      <4>2. pc \notin Own[v]
        BY <1>1, <2>2 DEF Own, OwnStops, Inst
      <4>3. Own[v] = {}
        BY <2>2, <2>3, <4>1, <4>2
      <4> QED BY <1>7, <2>2, <3>1, <4>1, <4>3
    <3>4. pc \in Own'[v]
      BY <2>2, <2>3
    <3> QED BY <1>1, <1>3, <2>2, <3>1, <3>2, <3>3, <3>4 DEF Exact
  <2> QED BY <2>2, <2>4, <2>5
<1>11. CASE prog.op[pc] \notin {"alloca", "lifetime_stop"}
  <2>1. allocs' = allocs /\ ~failed' /\ pc \notin Allocas(prog)
    BY <1>1, <1>11 DEF Visit, Allocas
  <2>2. SA!Live' = SA!Live
    BY <2>1 DEF SA!Live
  <2>3. \A v \in Inst(prog) : Own'[v] = Own[v]
    BY <1>5, <1>11
  <2>4. SA!Live' = {b \in Allocas(prog) : b < pc' /\ Own'[b] = {} /\ b \notin Ended'}
    BY <1>4, <1>6, <1>7, <2>1, <2>2, <2>3
  <2> QED BY <1>1, <1>3, <1>4, <1>8, <2>1, <2>3, <2>4 DEF Exact
<1> QED BY <1>9, <1>10, <1>11

LEMMA ListInvariant == Spec => [](Exact /\ StopsDue)
<1>1. Init => Exact /\ StopsDue
  <2> SUFFICES ASSUME Init PROVE Exact /\ StopsDue
    OBVIOUS
  <2>1. allocs = <<>> /\ ~failed /\ pc = 1 /\ stops = {} /\ prog \in Programs
    BY DEF Init, SA!Init
  <2>2. SA!Live = {}
    BY <2>1 DEF SA!Live
  <2>3. /\ \A v \in Inst(prog) : Own[v] = {}
        /\ \A a \in Allocas(prog) : ~(a < pc)
    BY <2>1 DEF Own, OwnStops, Allocas, Inst
  <2> QED BY <2>1, <2>2, <2>3 DEF Exact, StopsDue
<1>2. Walks /\ IInv /\ Exact /\ StopsDue /\ [Next]_vars => (Exact /\ StopsDue)'
  <2> SUFFICES ASSUME Walks, IInv, Exact, StopsDue, [Next]_vars
               PROVE  Exact' /\ StopsDue'
    OBVIOUS
  <2>1. CASE ~failed /\ WalkStop
    BY <2>1, WalkStopExact
  <2>2. CASE ~failed /\ WalkInst
    BY <2>2, WalkInstExact
  <2>3. CASE Start \/ Execute \/ UNCHANGED vars
    <3>1. UNCHANGED <<prog, pc, stops, allocs, failed>>
      BY <2>3 DEF Start, Execute, vars, walkVars
    <3>2. Own' = Own /\ Ended' = Ended /\ SA!Live' = SA!Live /\ StopsDue'
      BY <3>1 DEF Own, OwnStops, Ended, Stopped, SA!Live, StopsDue
    <3> QED BY <3>1, <3>2 DEF Exact
  <2> QED BY <2>1, <2>2, <2>3 DEF Next
<1> QED BY <1>1, <1>2, WalksInvariant, AllocatorInvariant, PTL DEF Spec

(* The list holds exactly what has been allocated and not stopped, and a   *)
(* lifetime_stop that should not be there is an error and takes no other   *)
(* buffer away, for all programs with any stops of their own.              *)
THEOREM StopsEraseTheirs == Spec => []ListExact
BY ListInvariant, ExactMeans, PTL

(* So the list holds only buffers whose stop is ahead, at every point of   *)
(* the walk.                                                               *)
LEMMA TracksInvariant == Spec => []Tracks
<1>1. Walks /\ Exact /\ StopsDue => Tracks
  <2> SUFFICES ASSUME Walks, ListExact, StopsDue PROVE Tracks
    BY ExactMeans
  <2>1. \A a \in Allocas(prog) : ~Stopped(a) <=> StopAt(prog, a) >= pc \/ a \in stops
    <3> SUFFICES ASSUME NEW a \in Allocas(prog)
                 PROVE  ~Stopped(a) <=> StopAt(prog, a) >= pc \/ a \in stops
      OBVIOUS
    <3>1. StopAt(prog, a) \in Nat /\ pc \in Nat
      BY AllocaFacts DEF Walks
    <3> QED BY <3>1 DEF Stopped, StopAt
  <2>2. SA!Live = {a \in Ahead : OwnStops(a) = {}}
    BY <2>1 DEF ListExact, Ahead
  <2>3. ASSUME NoStops(prog) PROVE \A v : OwnStops(v) = {}
    BY <2>3 DEF NoStops, OwnStops
  <2>4. ASSUME NoStops(prog) PROVE ~failed /\ Ahead \subseteq SA!Live
    BY <2>2, <2>3, <2>4 DEF ListExact
  <2> QED BY <2>2, <2>4 DEF Tracks, StopsDue
<1> QED BY <1>1, WalksInvariant, ListInvariant, PTL

(* Only a lifetime_stop the program has itself can fail: those that        *)
(* insert_lifetime_stop_pass puts in find their buffer in the list.        *)
THEOREM InsertedStopsMatch == Spec => []StopsMatch
<1>1. Tracks => StopsMatch
  BY DEF Tracks, StopsMatch, NoStops
<1> QED BY <1>1, TracksInvariant, PTL

(* Behind the last instruction of its block a buffer is in the list only   *)
(* until its own stop has been visited, and then in none of the blocks     *)
(* that follow: the stop is in the block, whatever views and nested        *)
(* regions the last use is hidden in.                                      *)
THEOREM FreedWithBlock == Spec => []FreedAtEndOfBlock
<1>1. Walks /\ Tracks => FreedAtEndOfBlock
  <2> SUFFICES ASSUME Walks, Tracks, ~failed, NEW i \in DOMAIN allocs
               PROVE  LET a == allocs[i].value
                      IN  pc <= EndOf(prog, Max(Siblings(prog, a))) \/ a \in stops
    BY DEF FreedAtEndOfBlock
  <2> DEFINE a == allocs[i].value
             last == Max(Siblings(prog, a))
  <2>1. a \in Ahead /\ prog \in Programs /\ pc \in Nat
    BY DEF Tracks, Walks, SA!Live
  <2>2. a \in Allocas(prog) /\ (a \in stops \/ StopAt(prog, a) >= pc)
    BY <2>1 DEF Ahead
  <2> HIDE DEF a
  <2>3. StopAt(prog, a) \in Nat
    BY <2>1, <2>2, AllocaFacts
  <2>4. StopAt(prog, a) <= EndOf(prog, last) /\ EndOf(prog, last) \in Nat
    BY <2>1, <2>2, StopInBlock
  <2> QED BY <2>1, <2>2, <2>3, <2>4 DEF a
<1> QED BY <1>1, WalksInvariant, TracksInvariant, PTL

(* So the walk has what the theorems about the allocator say.              *)
(* Buffers that are in the list at once are apart, whatever the program.   *)
THEOREM WalkKeepsApart == Spec => []LiveDisjoint
BY NoOverlap, WalkAllocates, PTL DEF LiveDisjoint

(* Every alloca the walk has visited has an address that is a multiple of  *)
(* its alignment, whatever the program.                                    *)
THEOREM WalkAligns == Spec => []Aligned
BY StackAligned, WalkAllocates, PTL DEF Aligned

(* Every alloca of the walk takes the lowest aligned place that keeps      *)
(* clear of the buffers in the list, if all of them have a positive size.  *)
THEOREM WalkTakesLowest == SizesPositive => (Spec => LowestPlace)
BY FirstFitIsLowest, WalkAllocates, PTL DEF LowestPlace

-----------------------------------------------------------------------------
(* Where control is while a buffer is in use. *)

(* n is s or inside s.                                                     *)
Inside(p, n, s) == n = s \/ s \in Enclosing(p, n)

(* n is behind the alloca of a, and no later than the stop of a: it is in  *)
(* what follows the alloca in its region, up to the last use.              *)
Within(p, a, n) ==
    \E s \in Siblings(p, a) : a < s /\ s <= StopAfter(p, a) /\ Inside(p, n, s)

(* A value visible where a view is made is visible where the view is.      *)
LEMMA VisibleThrough ==
    ASSUME NEW p \in Programs, NEW n \in Inst(p), NEW v \in Inst(p), NEW u,
           Visible(p, v, n), Visible(p, u, v)
    PROVE  Visible(p, u, n)
<1>1. IsTree(p) /\ Enclosing(p, n) \subseteq Inst(p)
  BY ProgramFacts
<1>2. PICK k \in {n} \cup Enclosing(p, n) : v \in Siblings(p, k) /\ v < k
  BY DEF Visible
<1>3. PICK j \in {v} \cup Enclosing(p, v) : u \in Siblings(p, j) /\ u < j
  BY DEF Visible
<1>4. k \in Inst(p)
  BY <1>1, <1>2
<1>5. Siblings(p, v) = Siblings(p, k) /\ Enclosing(p, v) = Enclosing(p, k)
  BY <1>1, <1>2, <1>4, SiblingFacts
<1>6. CASE j = v
  <2>1. u \in Siblings(p, k) /\ u < v /\ v < k
    BY <1>2, <1>3, <1>5, <1>6
  <2>2. u \in Int /\ v \in Int /\ k \in Int
    BY <1>4, <2>1 DEF Siblings, Region, Inst
  <2>3. u < k
    BY <2>1, <2>2
  <2> QED
    BY <1>2, <2>1, <2>3 DEF Visible
<1>7. CASE j \in Enclosing(p, v)
  <2>1. j \in Enclosing(p, n)
    BY <1>1, <1>2, <1>5, <1>7, EnclosingFacts
  <2> QED
    BY <1>3, <2>1 DEF Visible
<1> QED
  BY <1>3, <1>6, <1>7

(* The root of a view is visible where the view is defined.                *)
LEMMA RootVisible ==
    ASSUME NEW p \in Programs
    PROVE  \A n \in Inst(p) : Root(p, n) = n \/ Visible(p, Root(p, n), n)
<1> DEFINE T == {n \in Inst(p) : Root(p, n) = n \/ Visible(p, Root(p, n), n)}
<1>1. ASSUME NEW n \in 1 .. Len(p.op), \A k \in 1 .. n - 1 : k \in T PROVE n \in T
  <2>1. n \in Inst(p)
    BY DEF Inst
  <2>2. CASE p.op[n] \notin Views
    BY <2>1, <2>2, RootUnfolds
  <2>3. CASE p.op[n] \in Views
    <3> DEFINE v == p.args[n][1]
    <3>1. Root(p, n) = Root(p, v)
      BY <2>1, <2>3, RootUnfolds
    <3>2. Visible(p, v, n) /\ v \in 1 .. n - 1
      BY <2>1, <2>3, ProgramFacts, ProgramsAssumption
    <3>3. v \in T
      BY <1>1, <3>2
    <3> HIDE DEF v
    <3>4. v \in Inst(p) /\ (Root(p, v) = v \/ Visible(p, Root(p, v), v))
      BY <3>3
    <3>5. Visible(p, Root(p, n), n)
      BY <2>1, <3>1, <3>2, <3>4, VisibleThrough
    <3> QED
      BY <2>1, <3>5
  <2> QED
    BY <2>2, <2>3
<1>2. \A n \in 1 .. Len(p.op) : n \in T
  <2>1. Len(p.op) \in Nat
    BY ProgramsAssumption
  <2> HIDE DEF T
  <2> QED
    BY <1>1, <2>1, InPreOrder
<1> QED
  BY <1>2 DEF Inst

(* A buffer is visible wherever it or a view of it is an operand.          *)
LEMMA OperandVisible ==
    ASSUME NEW p \in Programs, NEW n \in Inst(p), NEW a \in Operands(p, n)
    PROVE  Visible(p, a, n)
<1>1. PICK i \in DOMAIN p.args[n] : a = Root(p, p.args[n][i])
  BY DEF Operands
<1> DEFINE v == p.args[n][i]
<1>2. Visible(p, v, n)
  BY ProgramsAssumption
<1>3. v \in Inst(p)
  <2>1. v \in 1 .. n - 1 /\ n \in 1 .. Len(p.op) /\ Len(p.op) \in Nat
    BY <1>2, ProgramFacts, ProgramsAssumption DEF Inst
  <2> QED
    BY <2>1 DEF Inst
<1> HIDE DEF v
<1>4. Root(p, v) = v \/ Visible(p, Root(p, v), v)
  BY <1>3, RootVisible
<1> QED
  BY <1>1, <1>2, <1>3, <1>4, VisibleThrough DEF v

(* A buffer is in use where it is an operand.                              *)
LEMMA UsesWithin ==
    ASSUME NEW p \in Programs, NEW n \in Inst(p), NEW a \in Allocas(p), a \in Operands(p, n)
    PROVE  Within(p, a, n)
<1>1. PICK k \in {n} \cup Enclosing(p, n) : a \in Siblings(p, k) /\ a < k
  BY OperandVisible DEF Visible
<1>2. k \in Inst(p) /\ IsTree(p) /\ a \in Inst(p) /\ Len(p.op) \in Nat
  BY <1>1, ProgramFacts, ProgramsAssumption DEF Allocas
<1>3. Siblings(p, a) = Siblings(p, k) /\ k \in Siblings(p, a)
  BY <1>1, <1>2, SiblingFacts
<1>4. a \in RegionOps(p, k)
  BY <1>1 DEF RegionOps
<1> DEFINE S == {m \in Siblings(p, a) : a \in RegionOps(p, m)}
<1>5. S \in SUBSET (1 .. Len(p.op)) /\ k \in S
  BY <1>3, <1>4 DEF Siblings, Region, Inst
<1>6. k <= StopAfter(p, a)
  BY <1>2, <1>5, MaxProperties DEF StopAfter
<1>7. Inside(p, n, k)
  BY <1>1 DEF Inside
<1> QED
  BY <1>1, <1>3, <1>6, <1>7 DEF Within

(* What is inside an instruction is inside what that one is in.            *)
LEMMA WithinParent ==
    ASSUME NEW p \in Programs, NEW n \in Inst(p), NEW a, p.parent[n] # 0,
           Within(p, a, p.parent[n])
    PROVE  Within(p, a, n)
<1>1. Enclosing(p, n) = {p.parent[n]} \cup Enclosing(p, p.parent[n])
  BY ProgramFacts, EnclosingUnfolds
<1>2. \A s : Inside(p, p.parent[n], s) => Inside(p, n, s)
  BY <1>1 DEF Inside
<1> QED
  BY <1>2 DEF Within

(* In the walk, it lies between the alloca and the stop.                   *)
LEMMA WithinInterval ==
    ASSUME NEW p \in Programs, NEW n \in Inst(p), NEW a \in Allocas(p), Within(p, a, n)
    PROVE  a < n /\ n <= StopAt(p, a)
<1>1. PICK s \in Siblings(p, a) : a < s /\ s <= StopAfter(p, a) /\ Inside(p, n, s)
  BY DEF Within
<1> DEFINE t == StopAfter(p, a)
           S == {m \in Siblings(p, a) : a \in RegionOps(p, m)}
<1>2. Len(p.op) \in Nat /\ IsTree(p) /\ a \in Inst(p) /\ Siblings(p, a) \subseteq Inst(p)
  BY ProgramsAssumption, ProgramFacts DEF Allocas, Siblings, Region
<1>3. a \in S
  BY <1>2, RootOfAlloca DEF RegionOps, IsMemref, Siblings, Region, Allocas
<1>4. t \in Siblings(p, a)
  <2>1. S \in SUBSET (1 .. Len(p.op)) /\ S # {}
    BY <1>2, <1>3 DEF Inst
  <2>2. Max(S) \in S
    BY <1>2, <2>1, MaxProperties
  <2> QED
    BY <2>2 DEF StopAfter
<1> HIDE DEF t, S
<1>5. s \in Inst(p) /\ t \in Inst(p)
  BY <1>2, <1>4
<1>6. s <= n
  <2>1. Enclosing(p, n) \subseteq 1 .. n - 1 /\ n \in Int /\ s \in Int
    BY <1>2, <1>5, EnclosingFacts DEF Inst
  <2> QED
    BY <1>1, <2>1 DEF Inside
<1>7. n <= EndOf(p, s) /\ EndOf(p, s) \in Inst(p)
  <2> DEFINE E == {s} \cup {k \in Inst(p) : s \in Enclosing(p, k)}
  <2>1. E \in SUBSET (1 .. Len(p.op)) /\ E # {} /\ n \in E
    BY <1>1, <1>5 DEF Inst, Inside
  <2>2. Max(E) \in E /\ n <= Max(E)
    BY <1>2, <2>1, MaxProperties
  <2> QED
    BY <2>1, <2>2 DEF EndOf, Inst
<1>8. EndOf(p, s) <= EndOf(p, t)
  <2>1. /\ EndOf(p, t) \in Inst(p) /\ t <= EndOf(p, t)
        /\ EndOf(p, s) = s \/ s \in Enclosing(p, EndOf(p, s))
    BY <1>5, EndOfProperties
  <2>2. s \in Int /\ t \in Int /\ EndOf(p, s) \in Int /\ EndOf(p, t) \in Int
    BY <1>5, <1>7, <2>1 DEF Inst
  <2>3. CASE s = t
    BY <2>2, <2>3
  <2>4. CASE s # t
    <3>1. s < t
      BY <1>1, <2>2, <2>4 DEF t
    <3>2. t \in Siblings(p, s)
      BY <1>2, <1>4, SiblingFacts
    <3>3. s \in Enclosing(p, EndOf(p, s)) => EndOf(p, s) < t
      BY <1>5, <1>7, <3>1, <3>2, ProgramsAssumption
    <3> QED
      BY <2>1, <2>2, <3>1, <3>3
  <2> QED
    BY <2>3, <2>4
<1> QED
  <2>1. /\ a \in Int /\ s \in Int /\ n \in Int /\ EndOf(p, s) \in Int
        /\ EndOf(p, t) \in Int
    BY <1>2, <1>5, <1>7, EndOfProperties DEF Inst
  <2>2. StopAt(p, a) = EndOf(p, t)
    BY DEF StopAt, t
  <2> QED
    BY <1>1, <1>6, <1>7, <1>8, <2>1, <2>2

-----------------------------------------------------------------------------
(* Control gets to where a buffer is in use only from there, or from the   *)
(* alloca of the buffer. *)

(* Into a child region: its first instruction is behind no other one.      *)
LEMMA EntersWithin ==
    ASSUME NEW p \in Programs, NEW m \in Inst(p), NEW a \in Allocas(p), NEW c,
           Region(p, m, c) # {}, Within(p, a, First(Region(p, m, c)))
    PROVE  Within(p, a, m)
<1> DEFINE n == First(Region(p, m, c))
<1>1. \A k \in Region(p, m, c) : n \in Region(p, m, c) /\ n <= k
  <2>1. Region(p, m, c) \in SUBSET Nat
    BY DEF Region, Inst
  <2> QED
    BY <2>1, FirstFacts
<1>2. n \in Inst(p) /\ p.parent[n] = m /\ p.branch[n] = c /\ m # 0
  <2>1. n \in Region(p, m, c)
    BY <1>1
  <2> HIDE DEF n
  <2> QED
    BY <2>1 DEF Region, Inst
<1>3. PICK s \in Siblings(p, a) : a < s /\ s <= StopAfter(p, a) /\ Inside(p, n, s)
  BY DEF Within
<1> HIDE DEF n
<1>4. s # n
  <2>1. ASSUME s = n PROVE FALSE
    <3>1. a \in Region(p, m, c)
      BY <1>2, <1>3, <2>1 DEF Siblings, Region, Allocas
    <3>2. n <= a /\ a < n /\ a \in Int /\ n \in Int
      BY <1>1, <1>2, <1>3, <2>1, <3>1 DEF Region, Inst
    <3> QED
      BY <3>2
  <2> QED
    BY <2>1
<1>5. s \in {m} \cup Enclosing(p, m)
  BY <1>2, <1>3, <1>4, ProgramFacts, EnclosingUnfolds DEF Inside
<1> QED
  BY <1>3, <1>5 DEF Within, Inside

(* On to what follows: the instruction before it in the region, or the     *)
(* loop, is in use of the buffer or the alloca.                            *)
LEMMA FollowsWithin ==
    ASSUME NEW p \in Programs, NEW a \in Allocas(p)
    PROVE  \A m \in Inst(p) :
               Follow(p, m) # 0 /\ Within(p, a, Follow(p, m)) => m = a \/ Within(p, a, m)
<1> DEFINE P(m) == Follow(p, m) # 0 /\ Within(p, a, Follow(p, m)) => m = a \/ Within(p, a, m)
           T == {m \in Inst(p) : P(m)}
<1>1. ASSUME NEW m \in 1 .. Len(p.op), \A k \in 1 .. m - 1 : k \in T PROVE m \in T
  <2>1. m \in Inst(p) /\ IsTree(p) /\ p.parent[m] \in 0 .. m - 1
    BY ProgramFacts DEF Inst, IsTree
  <2> SUFFICES ASSUME Follow(p, m) # 0, Within(p, a, Follow(p, m)) PROVE m = a \/ Within(p, a, m)
    BY <2>1
  <2> DEFINE n == Follow(p, m)
  <2>2. n = IF LaterSiblings(p, m) # {} THEN First(LaterSiblings(p, m))
            ELSE IF p.parent[m] = 0 THEN 0
            ELSE IF p.op[p.parent[m]] \in Loops THEN p.parent[m]
            ELSE Follow(p, p.parent[m])
    BY <2>1, FollowUnfolds
  <2> HIDE DEF n
  <2>3. CASE LaterSiblings(p, m) # {}
    <3>1. \A k \in LaterSiblings(p, m) : n \in LaterSiblings(p, m) /\ n <= k
      <4>1. LaterSiblings(p, m) \in SUBSET Nat
        BY DEF LaterSiblings, Siblings, Region, Inst
      <4> QED
        BY <2>2, <2>3, <4>1, FirstFacts
    <3>2. n \in Siblings(p, m) /\ n > m
      BY <2>3, <3>1 DEF LaterSiblings
    <3>3. /\ n \in Inst(p) /\ Enclosing(p, n) = Enclosing(p, m)
          /\ Siblings(p, n) = Siblings(p, m) /\ m \in Siblings(p, m)
      BY <2>1, <3>2, SiblingFacts
    <3>4. PICK s \in Siblings(p, a) : a < s /\ s <= StopAfter(p, a) /\ Inside(p, n, s)
      BY DEF Within, n
    <3>5. CASE s = n
      <4>1. a \in Inst(p) /\ Siblings(p, a) = Siblings(p, m)
        <5>1. a \in Inst(p) /\ n \in Siblings(p, a)
          BY <3>4, <3>5 DEF Allocas
        <5> QED
          BY <2>1, <3>3, <5>1, SiblingFacts
      <4>2. a \in Siblings(p, m) /\ m \in Siblings(p, a)
        BY <2>1, <3>3, <4>1 DEF Siblings, Region
      <4>3. a \in Int /\ m \in Int /\ n \in Int
        BY <2>1, <3>3, <4>1 DEF Inst
      <4>4. ~(m < a)
        <5>1. m < a => a \in LaterSiblings(p, m)
          BY <4>2, <4>3 DEF LaterSiblings
        <5> QED
          BY <3>1, <3>4, <3>5, <4>3, <5>1
      <4>5. m # a => a < m /\ m <= StopAfter(p, a)
        <5>1. StopAfter(p, a) \in Int
          <6> DEFINE S == {k \in Siblings(p, a) : a \in RegionOps(p, k)}
          <6>1. S \in SUBSET (1 .. Len(p.op)) /\ Len(p.op) \in Nat
            BY <2>1 DEF Siblings, Region, Inst, IsTree
          <6>2. a \in S
            BY <4>1, RootOfAlloca DEF RegionOps, IsMemref, Siblings, Region, Allocas
          <6>3. Max(S) \in S
            BY <6>1, <6>2, MaxProperties
          <6>4. Max(S) \in Int
            BY <6>1, <6>3
          <6> QED
            BY <6>4 DEF StopAfter
        <5> QED
          BY <3>2, <3>4, <3>5, <4>3, <4>4, <5>1
      <4> QED
        BY <4>2, <4>5 DEF Within, Inside
    <3>6. CASE s \in Enclosing(p, n)
      BY <3>3, <3>4, <3>6 DEF Within, Inside
    <3> QED
      BY <3>4, <3>5, <3>6 DEF Inside
  <2>4. CASE LaterSiblings(p, m) = {}
    <3>1. p.parent[m] \in 1 .. m - 1 /\ p.parent[m] # 0
      BY <2>1, <2>2, <2>4 DEF n
    <3>2. p.parent[m] \in T /\ p.parent[m] # a
      <4>1. p.op[p.parent[m]] # "alloca"
        BY <2>1, <3>1, ProgramsAssumption
      <4> QED
        BY <1>1, <3>1, <4>1 DEF Allocas
    <3>3. Within(p, a, p.parent[m])
      <4>1. n = p.parent[m] \/ n = Follow(p, p.parent[m])
        BY <2>2, <2>4, <3>1
      <4> QED
        BY <3>2, <4>1 DEF n
    <3> QED
      BY <2>1, <3>1, <3>3, WithinParent
  <2> QED
    BY <2>3, <2>4
<1>2. \A m \in 1 .. Len(p.op) : m \in T
  <2>1. Len(p.op) \in Nat
    BY ProgramsAssumption
  <2> HIDE DEF T
  <2> QED
    BY <1>1, <2>1, InPreOrder
<1> QED
  BY <1>2 DEF Inst

(* Along every edge of the control flow.                                   *)
LEMMA FlowsWithin ==
    ASSUME NEW p \in Programs, NEW m \in Inst(p), NEW n \in Inst(p), NEW a \in Allocas(p),
           FlowsTo(p, m, n), Within(p, a, n)
    PROVE  m = a \/ Within(p, a, m)
<1>1. CASE \E i \in DOMAIN Starts(p, m) : Starts(p, m)[i] = n
  <2>1. \E c : Region(p, m, c) # {} /\ n = First(Region(p, m, c))
    <3>1. PICK i \in DOMAIN Starts(p, m) : Starts(p, m)[i] = n
      BY <1>1
    <3> DEFINE start(c) == IF c \in Regions(p, m) THEN <<First(Region(p, m, c))>> ELSE <<>>
    <3>2. Starts(p, m) = start(1) \o start(2)
      BY DEF Starts
    <3>3. \A c : c \in Regions(p, m) => Region(p, m, c) # {}
      BY DEF Regions
    <3>4. CASE 1 \in Regions(p, m) /\ 2 \in Regions(p, m)
      <4> DEFINE x == First(Region(p, m, 1))
                 y == First(Region(p, m, 2))
      <4>1. Starts(p, m) = <<x>> \o <<y>>
        BY <3>2, <3>4
      <4> HIDE DEF x, y
      <4>2. <<x>> \o <<y>> \in Seq({x, y})
        OBVIOUS
      <4>3. n \in {x, y}
        BY <3>1, <4>1, <4>2
      <4> QED
        BY <3>3, <3>4, <4>3 DEF x, y
    <3>5. CASE 1 \in Regions(p, m) /\ 2 \notin Regions(p, m)
      <4>1. Starts(p, m) = <<First(Region(p, m, 1))>>
        BY <3>2, <3>5
      <4> QED
        BY <3>1, <3>3, <3>5, <4>1
    <3>6. CASE 1 \notin Regions(p, m) /\ 2 \in Regions(p, m)
      <4>1. Starts(p, m) = <<First(Region(p, m, 2))>>
        BY <3>2, <3>6
      <4> QED
        BY <3>1, <3>3, <3>6, <4>1
    <3>7. CASE 1 \notin Regions(p, m) /\ 2 \notin Regions(p, m)
      <4>1. Starts(p, m) = <<>>
        BY <3>2, <3>7
      <4> QED
        BY <3>1, <4>1
    <3> QED
      BY <3>4, <3>5, <3>6, <3>7
  <2> QED
    BY <2>1, EntersWithin
<1>2. CASE Skips(p, m) /\ Follow(p, m) = n
  <2>1. n # 0
    BY DEF Inst
  <2> QED
    BY <1>2, <2>1, FollowsWithin
<1> QED
  BY <1>1, <1>2 DEF FlowsTo

-----------------------------------------------------------------------------
(* Where the walk puts the buffers. *)

(* A buffer was stopped before its last use.  The stop that the pass has   *)
(* put in behind that use is ahead and will fail.                          *)
Doomed == \E a \in Ahead : a \notin SA!Live

(* The buffers that are in use at once are apart.                          *)
Apart ==
    \A a, b \in Allocas(prog) :
        a < b /\ b < pc /\ b <= StopAt(prog, a) =>
            \/ stackPtr[a] + Size[a] <= stackPtr[b]
            \/ stackPtr[b] + Size[b] <= stackPtr[a]

Given == \A a \in Allocas(prog) : a < pc => stackPtr[a] \in Nat

Keeps == ~failed => Given /\ (Doomed \/ Apart)

(* The visit of a stop that the pass has put in.                           *)
LEMMA WalkStopKeeps ==
    ASSUME Walks, IInv, Tracks, Keeps, ~failed, WalkStop
    PROVE  Keeps'
<1>1. PICK a \in stops : /\ SA!LifetimeStop(a) \/ SA!LifetimeStopFails(a)
                         /\ stops' = stops \ {a}
  BY DEF WalkStop
<1>2. /\ prog \in Programs /\ a \in Allocas(prog) /\ prog' = prog /\ pc' = pc
      /\ stackPtr' = stackPtr
  BY <1>1 DEF Walks, WalkStop, SA!LifetimeStop, SA!LifetimeStopFails
<1>3. a \in Buffer
  BY <1>2, AllocaFacts
<1>4. Given' /\ (Apart => Apart')
  BY <1>2 DEF Keeps, Given, Apart
<1>5. CASE SA!LifetimeStopFails(a)
  BY <1>5 DEF SA!LifetimeStopFails, Keeps
<1>6. CASE SA!LifetimeStop(a)
  <2>1. a \in SA!Live /\ SA!Live' = SA!Live \ {a}
    BY <1>3, <1>6, LiveAfterStop
  <2>2. \A b \in Ahead : b # a => b \in Ahead'
    BY <1>1, <1>2 DEF Ahead
  <2>3. Doomed => Doomed'
    BY <2>1, <2>2 DEF Doomed
  <2> QED
    BY <1>4, <2>3 DEF Keeps
<1> QED
  BY <1>1, <1>5, <1>6

(* The visit of an instruction of the program.                             *)
LEMMA WalkInstKeeps ==
    ASSUME Walks, IInv, SA!LiveDisjoint', Tracks, Keeps, ~failed, WalkInst
    PROVE  Keeps'
<1>1. /\ prog \in Programs /\ pc \in Nat \ {0} /\ prog' = prog
      /\ stops = {} /\ pc \in Inst(prog) /\ Visit(pc) /\ pc' = pc + 1
      /\ SA!Live \subseteq Ahead
  BY ProgramsAssumption DEF Walks, Tracks, WalkInst, Inst
<1>2. stops' = {a \in Allocas(prog) : StopAt(prog, a) = pc}
  BY DEF WalkInst, StopsBehind, StopAt
<1>3. \A a \in Allocas(prog) : a \in Buffer /\ a \in Nat /\ StopAt(prog, a) \in Nat
  BY <1>1, AllocaFacts
<1>4. Ahead \subseteq Ahead' /\ \A a \in Ahead : a < pc
  BY <1>1, <1>2, <1>3 DEF Ahead
<1>5. CASE prog.op[pc] = "alloca"
  <2>1. pc \in Allocas(prog)
    BY <1>1, <1>5 DEF Allocas
  <2>2. SA!Alloca(pc)
    BY <1>1, <1>3, <1>5, <2>1 DEF Visit
  <2>3. SA!Live' = SA!Live \cup {pc}
    BY <1>3, <2>1, <2>2, LiveAfterAlloca
  <2>4. stackPtr'[pc] \in Nat /\ \A w \in Buffer : w # pc => stackPtr'[w] = stackPtr[w]
    BY <1>3, <2>1, <2>2, AllocaPlaces
  <2>5. Given'
    <3> SUFFICES ASSUME NEW a \in Allocas(prog), a < pc + 1 PROVE stackPtr'[a] \in Nat
      BY <1>1 DEF Given
    <3>1. a = pc \/ a < pc
      BY <1>1, <1>3
    <3> QED
      BY <1>3, <2>4, <3>1 DEF Keeps, Given
  <2>6. CASE Doomed
    <3>1. PICK b \in Ahead : b \notin SA!Live
      BY <2>6 DEF Doomed
    <3>2. b # pc /\ b \in Ahead'
      BY <1>1, <1>4
    <3>3. Doomed'
      BY <2>3, <3>1, <3>2 DEF Doomed
    <3> QED
      BY <2>5, <3>3 DEF Keeps
  <2>7. CASE ~Doomed
    <3>1. Apart'
      <4> SUFFICES ASSUME NEW a \in Allocas(prog), NEW b \in Allocas(prog),
                          a < b, b < pc + 1, b <= StopAt(prog, a)
                   PROVE  \/ stackPtr'[a] + Size[a] <= stackPtr'[b]
                          \/ stackPtr'[b] + Size[b] <= stackPtr'[a]
        BY <1>1 DEF Apart
      <4>1. CASE b < pc
        <5>1. a # pc /\ b # pc
          BY <1>1, <1>3, <4>1
        <5>2. Apart
          BY <2>7 DEF Keeps
        <5> QED
          BY <1>3, <2>4, <4>1, <5>1, <5>2 DEF Apart
      <4>2. CASE b = pc
        <5>1. a \in Ahead
          BY <1>1, <1>3, <4>2 DEF Ahead
        <5>2. a \in SA!Live' /\ pc \in SA!Live' /\ a # pc
          BY <1>1, <1>3, <1>4, <2>3, <2>7, <5>1 DEF Doomed
        <5> QED
          BY <4>2, <5>2 DEF SA!LiveDisjoint, SA!Live
      <4> QED
        BY <1>1, <1>3, <4>1, <4>2
    <3> QED
      BY <2>5, <3>1 DEF Keeps
  <2> QED
    BY <2>6, <2>7
<1>6. CASE prog.op[pc] # "alloca"
  <2>1. stackPtr' = stackPtr /\ pc \notin Allocas(prog)
    <3>1. stackPtr' = stackPtr
      BY <1>1, <1>6 DEF Visit, SA!LifetimeStop, SA!LifetimeStopFails
    <3> QED
      BY <1>6, <3>1 DEF Allocas
  <2>2. \A a \in Allocas(prog) : a < pc + 1 => a < pc
    BY <1>1, <1>3, <2>1
  <2>3. Given'
    BY <1>1, <2>1, <2>2 DEF Keeps, Given
  <2>4. Apart => Apart'
    BY <1>1, <2>1, <2>2 DEF Apart
  <2>5. Doomed => Doomed' \/ failed'
    <3> SUFFICES ASSUME NEW b \in Ahead, b \notin SA!Live PROVE Doomed' \/ failed'
      BY DEF Doomed
    <3>1. SA!Live' \subseteq SA!Live \/ failed'
      <4>1. CASE prog.op[pc] = "lifetime_stop"
        <5> DEFINE v == prog.args[pc][1]
        <5>1. v \in Buffer /\ (SA!LifetimeStop(v) \/ SA!LifetimeStopFails(v))
          BY <1>1, <4>1, ProgramsAssumption DEF Visit
        <5> HIDE DEF v
        <5>2. CASE SA!LifetimeStop(v)
          BY <5>1, <5>2, LiveAfterStop
        <5> QED
          BY <5>1, <5>2 DEF SA!LifetimeStopFails
      <4>2. CASE prog.op[pc] # "lifetime_stop"
        <5>1. allocs' = allocs
          BY <1>1, <1>6, <4>2 DEF Visit
        <5> QED
          BY <5>1 DEF SA!Live
      <4> QED
        BY <4>1, <4>2
    <3> QED
      BY <1>4, <3>1 DEF Doomed
  <2> QED
    BY <2>3, <2>4, <2>5 DEF Keeps
<1> QED
  BY <1>5, <1>6

(* At every point of the walk, buffers in use at once are apart, or a      *)
(* stop is going to fail.                                                  *)
LEMMA KeepsInvariant == Spec => []Keeps
<1>1. Init => Keeps
  <2> SUFFICES ASSUME Init PROVE Keeps
    OBVIOUS
  <2>1. pc = 1 /\ prog \in Programs
    BY DEF Init
  <2>2. \A a \in Allocas(prog) : ~(a < pc)
    BY <2>1 DEF Allocas, Inst
  <2>3. Given /\ Apart
    <3>1. \A a, b \in Allocas(prog) : ~(b < pc)
      BY <2>2
    <3> QED
      BY <2>2, <3>1 DEF Given, Apart
  <2> QED
    BY <2>3 DEF Keeps
<1>2. Walks /\ IInv /\ SA!LiveDisjoint' /\ Tracks /\ Keeps /\ [Next]_vars => Keeps'
  <2> SUFFICES ASSUME Walks, IInv, SA!LiveDisjoint', Tracks, Keeps, [Next]_vars PROVE Keeps'
    OBVIOUS
  <2>1. CASE ~failed /\ WalkStop
    BY <2>1, WalkStopKeeps
  <2>2. CASE ~failed /\ WalkInst
    BY <2>2, WalkInstKeeps
  <2>3. CASE Start \/ Execute \/ UNCHANGED vars
    <3>1. UNCHANGED <<prog, pc, stops, allocs, stackPtr, failed>>
      BY <2>3 DEF Start, Execute, vars, walkVars
    <3>2. SA!Live' = SA!Live /\ Ahead' = Ahead
      BY <3>1 DEF SA!Live, Ahead
    <3> QED
      BY <3>1, <3>2 DEF Keeps, Given, Apart, Doomed
  <2> QED
    BY <2>1, <2>2, <2>3 DEF Next
<1>3. LiveDisjoint => SA!LiveDisjoint
  BY DEF LiveDisjoint
<1> QED
  BY <1>1, <1>2, <1>3, WalksInvariant, AllocatorInvariant, WalkKeepsApart, TracksInvariant,
     PTL DEF Spec

-----------------------------------------------------------------------------
(* The execution. *)

(* What a buffer that is in use was last written with is still there.      *)
Runs ==
    /\ holds \subseteq Allocas(prog)
    /\ at \in Inst(prog) \cup {0, 1}
    /\ at # 0 \/ holds # {} =>
           ~Walking /\ ~failed /\ DOMAIN memory = 0 .. HighWaterMark - 1
    /\ at # 0 => \A a \in holds : Within(prog, a, at) => \A x \in Bytes(a) : memory[x] = a

(* Once the walk is through, no stop is ahead and no buffer was doomed.    *)
LEMMA WalkIsThrough ==
    ASSUME Walks, Keeps, ~Walking, ~failed
    PROVE  /\ Apart /\ stops = {}
           /\ \A a \in Allocas(prog) : a < pc /\ stackPtr[a] \in Nat /\ Size[a] \in Nat
<1>1. /\ prog \in Programs /\ Len(prog.op) \in Nat /\ pc \in Nat /\ stops = {}
      /\ ~(pc <= Len(prog.op))
  BY ProgramsAssumption DEF Walking, Walks
<1>2. \A a \in Allocas(prog) :
          a \in Buffer /\ a \in 1 .. Len(prog.op) /\ StopAt(prog, a) \in 1 .. Len(prog.op)
  BY <1>1, AllocaFacts, StopBehindAlloca DEF Allocas, Inst
<1>3. \A a \in Allocas(prog) : a < pc /\ ~(StopAt(prog, a) >= pc)
  BY <1>1, <1>2
<1>4. ~Doomed
  BY <1>1, <1>3 DEF Doomed, Ahead
<1> QED
  BY <1>1, <1>2, <1>3, <1>4, SizeAssumption DEF Keeps, Given

(* The local memory reaches to the end of every buffer.                    *)
LEMMA HighWaterCovers ==
    ASSUME Walks, \A a \in Allocas(prog) : stackPtr[a] \in Nat /\ Size[a] \in Nat
    PROVE  /\ HighWaterMark \in Nat
           /\ \A a \in Allocas(prog) : stackPtr[a] + Size[a] <= HighWaterMark
<1> DEFINE end(a) == stackPtr[a] + Size[a]
           S == {0} \cup {end(a) : a \in Allocas(prog)}
           T == {m \in Nat : \E z \in Nat : \A a \in Allocas(prog) : a <= m => end(a) <= z}
<1>1. Len(prog.op) \in Nat /\ Allocas(prog) \subseteq 1 .. Len(prog.op)
  BY ProgramsAssumption DEF Walks, Allocas, Inst
<1>2. \A a \in Allocas(prog) : end(a) \in Nat
  OBVIOUS
<1> HIDE DEF end
<1>3. 0 \in T
  BY <1>1
<1>4. ASSUME NEW m \in 1 .. Len(prog.op), m - 1 \in T PROVE m \in T
  <2>1. PICK z \in Nat : \A a \in Allocas(prog) : a <= m - 1 => end(a) <= z
    BY <1>4
  <2>2. CASE m \in Allocas(prog)
    <3>1. \A a \in Allocas(prog) : a <= m => end(a) <= z + end(m)
      <4> SUFFICES ASSUME NEW a \in Allocas(prog), a <= m PROVE end(a) <= z + end(m)
        OBVIOUS
      <4>1. a = m \/ a <= m - 1
        BY <1>1
      <4>2. end(a) \in Nat /\ end(m) \in Nat
        BY <1>2, <2>2
      <4> QED
        BY <2>1, <4>1, <4>2
    <3>2. z + end(m) \in Nat /\ m \in Nat
      BY <1>2, <2>2
    <3> QED
      BY <3>1, <3>2
  <2>3. CASE m \notin Allocas(prog)
    <3>1. \A a \in Allocas(prog) : a <= m => a <= m - 1
      BY <1>1, <2>3
    <3> QED
      BY <2>1, <3>1
  <2> QED
    BY <2>2, <2>3
<1>5. Len(prog.op) \in T
  <2>1. ASSUME NEW m \in 1 .. Len(prog.op), \A k \in 1 .. m - 1 : k \in T PROVE m \in T
    <3>1. m - 1 = 0 \/ m - 1 \in 1 .. m - 1
      OBVIOUS
    <3> HIDE DEF T
    <3> QED
      BY <1>3, <1>4, <2>1, <3>1
  <2> HIDE DEF T
  <2>2. \A m \in 1 .. Len(prog.op) : m \in T
    BY <1>1, <2>1, InPreOrder
  <2> QED
    BY <1>1, <1>3, <2>2
<1>6. PICK z \in Nat : \A a \in Allocas(prog) : end(a) <= z
  <2>1. PICK z \in Nat : \A a \in Allocas(prog) : a <= Len(prog.op) => end(a) <= z
    BY <1>5
  <2> QED
    BY <1>1, <2>1
<1>7. Max(S) \in S /\ \A x \in S : x <= Max(S)
  <2>1. S \in SUBSET Int
    BY <1>2
  <2>2. 0 \in S /\ z \in Int /\ \A x \in S : x <= z
    BY <1>6
  <2> HIDE DEF S
  <2> QED
    BY <2>1, <2>2, MaxOfBounded
<1>8. HighWaterMark = Max(S)
  BY DEF HighWaterMark, end
<1>9. S \subseteq Nat
  BY <1>2
<1> QED
  BY <1>7, <1>8, <1>9 DEF end

(* Two buffers that are in use at one place have no byte in common.        *)
LEMMA ApartWithin ==
    ASSUME Walks, Keeps, ~Walking, ~failed, NEW n \in Inst(prog),
           NEW a \in Allocas(prog), NEW b \in Allocas(prog), a # b,
           Within(prog, a, n), Within(prog, b, n), NEW x \in Bytes(a)
    PROVE  x \notin Bytes(b)
<1>1. /\ Apart
      /\ \A c \in Allocas(prog) : c < pc /\ stackPtr[c] \in Nat /\ Size[c] \in Nat
  BY WalkIsThrough
<1>2. a < n /\ n <= StopAt(prog, a) /\ b < n /\ n <= StopAt(prog, b)
  BY WithinInterval DEF Walks
<1>3. /\ a \in Nat /\ b \in Nat /\ n \in Nat
      /\ StopAt(prog, a) \in Nat /\ StopAt(prog, b) \in Nat
  BY AllocaFacts DEF Walks, Inst
<1>4. \/ stackPtr[a] + Size[a] <= stackPtr[b]
      \/ stackPtr[b] + Size[b] <= stackPtr[a]
  <2>1. CASE a < b
    <3>1. b <= StopAt(prog, a)
      BY <1>2, <1>3
    <3> QED
      BY <1>1, <2>1, <3>1 DEF Apart
  <2>2. CASE b < a
    <3>1. a <= StopAt(prog, b)
      BY <1>2, <1>3
    <3> QED
      BY <1>1, <2>2, <3>1 DEF Apart
  <2> QED
    BY <1>3, <2>1, <2>2
<1> QED
  BY <1>1, <1>4 DEF Bytes

(* An execution starts with nothing written, in memory that holds every    *)
(* buffer.                                                                 *)
LEMMA StartRuns ==
    ASSUME Walks, Keeps, Runs, Start
    PROVE  Runs'
<1>1. /\ ~Walking /\ ~failed /\ memory = <<>> /\ at' = 1 /\ holds' = holds
      /\ memory' = [x \in 0 .. HighWaterMark - 1 |-> 0]
      /\ prog' = prog /\ pc' = pc /\ stops' = stops /\ failed' = failed
      /\ stackPtr' = stackPtr
  BY DEF Start, walkVars
<1>2. /\ ~Walking' /\ ~failed' /\ HighWaterMark' = HighWaterMark
      /\ DOMAIN memory' = 0 .. HighWaterMark - 1
  BY <1>1 DEF Walking, HighWaterMark
<1>3. ASSUME NEW a \in holds PROVE Bytes(a) = {}
  <2>1. a \in Allocas(prog) /\ DOMAIN memory = 0 .. HighWaterMark - 1
    BY DEF Runs
  <2>2. \A c \in Allocas(prog) : stackPtr[c] \in Nat /\ Size[c] \in Nat
    BY <1>1, WalkIsThrough
  <2>3. HighWaterMark \in Nat /\ stackPtr[a] + Size[a] <= HighWaterMark
    BY <2>1, <2>2, HighWaterCovers
  <2>4. HighWaterMark = 0
    <3>1. 0 .. HighWaterMark - 1 = {}
      BY <1>1, <2>1
    <3> QED
      BY <2>3, <3>1
  <2> QED
    BY <2>1, <2>2, <2>3, <2>4 DEF Bytes
<1>4. \A a \in holds' : Bytes(a)' = {}
  BY <1>1, <1>3 DEF Bytes
<1> QED
  BY <1>1, <1>2, <1>4 DEF Runs

(* An instruction writes its own operands, none of which shares a byte     *)
(* with another buffer in use, and control stays with the buffers in use   *)
(* or passes their alloca.                                                 *)
LEMMA ExecuteRuns ==
    ASSUME Walks, Keeps, Runs, Execute
    PROVE  Runs'
<1> DEFINE used == Operands(prog, at) \cap Allocas(prog)
<1>1. /\ at # 0
      /\ memory' = [x \in DOMAIN memory |->
                       IF \E a \in used : x \in Bytes(a)
                       THEN CHOOSE a \in used : x \in Bytes(a)
                       ELSE memory[x]]
      /\ holds' = (holds \cup used) \ (IF prog.op[at] = "alloca" THEN {at} ELSE {})
      /\ at' \in Inst(prog) \cup {0}
      /\ at' # 0 => FlowsTo(prog, at, at')
      /\ prog' = prog /\ pc' = pc /\ stops' = stops /\ failed' = failed
      /\ stackPtr' = stackPtr
  BY DEF Execute, walkVars
<1>2. /\ prog \in Programs /\ ~Walking /\ ~failed
      /\ DOMAIN memory = 0 .. HighWaterMark - 1 /\ holds \subseteq Allocas(prog)
  BY <1>1 DEF Runs, Walks
<1>3. /\ ~Walking' /\ ~failed' /\ HighWaterMark' = HighWaterMark
      /\ DOMAIN memory' = 0 .. HighWaterMark - 1
      /\ holds' \subseteq Allocas(prog) /\ \A a : Bytes(a)' = Bytes(a)
  BY <1>1, <1>2 DEF Walking, HighWaterMark, Bytes
<1> HIDE DEF used
<1>4. ASSUME at' # 0, NEW a \in holds', Within(prog, a, at'), NEW x \in Bytes(a)
      PROVE  memory'[x] = a
  <2>1. a \in Allocas(prog) /\ at' \in Inst(prog)
    BY <1>1, <1>3, <1>4
  <2>2. at \in Inst(prog)
    <3>1. at' \in 1 .. Len(prog.op) /\ Len(prog.op) \in Nat
      BY <1>2, <2>1, ProgramsAssumption DEF Inst
    <3> QED
      BY <1>1, <3>1 DEF Runs, Inst
  <2>3. a # at
    <3>1. prog.op[at] = "alloca" => at \notin holds'
      BY <1>1
    <3> QED
      BY <1>4, <2>1, <3>1 DEF Allocas
  <2>4. Within(prog, a, at)
    BY <1>1, <1>2, <1>4, <2>1, <2>2, <2>3, FlowsWithin
  <2>5. \A u \in used : u # a => x \notin Bytes(u)
    <3>1. ASSUME NEW u \in used, u # a PROVE x \notin Bytes(u)
      <4>1. u \in Allocas(prog) /\ u \in Operands(prog, at)
        BY DEF used
      <4>2. Within(prog, u, at)
        BY <1>2, <2>2, <4>1, UsesWithin
      <4> QED
        BY <1>2, <1>4, <2>1, <2>2, <2>4, <3>1, <4>1, <4>2, ApartWithin
    <3> QED
      BY <3>1
  <2>6. x \in DOMAIN memory
    <3>1. \A c \in Allocas(prog) : stackPtr[c] \in Nat /\ Size[c] \in Nat
      BY <1>2, WalkIsThrough
    <3>2. HighWaterMark \in Nat /\ stackPtr[a] + Size[a] <= HighWaterMark
      BY <2>1, <3>1, HighWaterCovers
    <3> QED
      BY <1>2, <1>4, <2>1, <3>1, <3>2 DEF Bytes
  <2>7. CASE a \in used
    <3>1. /\ (CHOOSE u \in used : x \in Bytes(u)) \in used
          /\ x \in Bytes(CHOOSE u \in used : x \in Bytes(u))
      BY <1>4, <2>7
    <3> QED
      BY <1>1, <1>4, <2>5, <2>6, <2>7, <3>1
  <2>8. CASE a \notin used
    <3>1. a \in holds
      BY <1>1, <1>4, <2>8
    <3>2. memory[x] = a
      BY <1>1, <1>4, <2>4, <3>1 DEF Runs
    <3>3. ~\E u \in used : x \in Bytes(u)
      BY <2>5, <2>8
    <3> QED
      BY <1>1, <2>6, <3>2, <3>3
  <2> QED
    BY <2>7, <2>8
<1> QED
  BY <1>1, <1>3, <1>4 DEF Runs, Within, Allocas

(* The contents of the buffers in use survive every step of the            *)
(* execution.                                                              *)
LEMMA RunsInvariant == Spec => []Runs
<1>1. Init => Runs
  BY DEF Init, Runs
<1>2. Walks /\ Keeps /\ Runs /\ [Next]_vars => Runs'
  <2> SUFFICES ASSUME Walks, Keeps, Runs, [Next]_vars PROVE Runs'
    OBVIOUS
  <2>1. CASE ~failed /\ (WalkStop \/ WalkInst)
    <3>1. Walking /\ prog' = prog /\ at' = at /\ holds' = holds
      BY <2>1 DEF WalkStop, WalkInst, Walking
    <3>2. at = 0 /\ holds = {}
      BY <3>1 DEF Runs
    <3> QED
      BY <3>1, <3>2 DEF Runs
  <2>2. CASE Start
    BY <2>2, StartRuns
  <2>3. CASE Execute
    BY <2>3, ExecuteRuns
  <2>4. CASE UNCHANGED vars
    <3>1. /\ prog' = prog /\ pc' = pc /\ stops' = stops /\ failed' = failed
          /\ stackPtr' = stackPtr /\ at' = at /\ memory' = memory /\ holds' = holds
      BY <2>4 DEF vars
    <3> QED
      BY <3>1 DEF Runs, Walking, HighWaterMark, Bytes, Within
  <2> QED
    BY <2>1, <2>2, <2>3, <2>4 DEF Next
<1> QED
  BY <1>1, <1>2, WalksInvariant, KeepsInvariant, PTL DEF Spec

(* Whatever branches an execution takes and however often it repeats its   *)
(* loops, a buffer has all of its bytes as they were last written at every *)
(* use: the passes put two buffers in one place only if control cannot get *)
(* from a write of the one to a use of the other.                          *)
THEOREM BuffersIntact == Spec => []Intact
<1>1. Walks /\ Runs => Intact
  <2> SUFFICES ASSUME Walks, Runs, at # 0, NEW a \in Operands(prog, at) \cap holds,
                      NEW x \in Bytes(a)
               PROVE  memory[x] = a
    BY DEF Intact
  <2>1. prog \in Programs /\ a \in Allocas(prog) /\ at \in Inst(prog) \cup {1}
    BY DEF Walks, Runs
  <2>2. at \in Inst(prog)
    BY <2>1, ProgramsAssumption DEF Allocas, Inst
  <2>3. Within(prog, a, at)
    BY <2>1, <2>2, UsesWithin
  <2> QED
    BY <2>3 DEF Runs
<1> QED
  BY <1>1, WalksInvariant, RunsInvariant, PTL
=============================================================================
