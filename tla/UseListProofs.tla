---------------------------- MODULE UseListProofs ----------------------------
(***************************************************************************)
(* Proofs about the lists of uses, for any uses and any values: whatever   *)
(* is set, destroyed and replaced, the pointers stay consistent in both    *)
(* directions, and a value whose first pointer is null has no uses.        *)
(*                                                                         *)
(* Well linked lists alone do not give the second: a cycle of uses that no *)
(* value leads to is well linked, too.  The inductive invariant adds that  *)
(* the uses can be numbered so that the numbers grow along next_.          *)
(* From the same invariant: the pointers implement sequences of uses.      *)
(***************************************************************************)
EXTENDS UseList, FiniteSetTheorems, SequenceTheorems, TLAPS

(* WellLinked of any three maps, to speak of the lists between the two     *)
(* halves of use::set.                                                     *)
Typed(val, l, p) ==
    /\ val \in [Use -> Value \cup {Null}]
    /\ l \in [Address -> Use \cup {Null}]
    /\ p \in [Use -> Address \cup {Null}]

Backward(val, l, p) ==
    \A u \in Use : val[u] # Null =>
        /\ p[u] \in Address
        /\ l[p[u]] = u
        /\ p[u] \in Value => p[u] = val[u]
        /\ p[u] \in Use => val[p[u]] = val[u]

Forward(val, l, p) ==
    /\ \A v \in Value : l[v] # Null => val[l[v]] = v /\ p[l[v]] = v
    /\ \A u \in Use : (val[u] # Null /\ l[u] # Null) =>
           val[l[u]] = val[u] /\ p[l[u]] = u

Numbers(rank, val, p) ==
    \A u \in Use : (val[u] # Null /\ p[u] \in Use) => rank[p[u]] < rank[u]

Acyclic(val, p) == \E rank \in [Use -> Nat] : Numbers(rank, val, p)

Lists3(val, l, p) ==
    Typed(val, l, p) /\ Backward(val, l, p) /\ Forward(val, l, p) /\ Acyclic(val, p)

IInv == TypeOK /\ WellLinked /\ Acyclic(value, prev)

(* The invariant gives every value a list of its uses.                     *)
LEMMA ListsOfInv ==
    ASSUME TypeOK
    PROVE  IInv <=> Lists3(value, link, prev)
BY DEF IInv, TypeOK, Typed, WellLinked, BackPointers, ForwardPointers, Lists3, Backward, Forward

-----------------------------------------------------------------------------
(* Taking a use out of its list.                                           *)
LEMMA RemoveKeepsLists ==
    ASSUME Lists3(value, link, prev), NEW u \in Use, value[u] # Null
    PROVE  Lists3([value EXCEPT ![u] = Null], LinkWithout(u), PrevWithout(u))
<1> DEFINE val == [value EXCEPT ![u] = Null]
           l == LinkWithout(u)
           p == PrevWithout(u)
           n == link[u]
           a == prev[u]
<1> USE NullAssumption, ApartAssumption DEF Address
<1>1. Typed(value, link, prev) /\ Backward(value, link, prev) /\ Forward(value, link, prev)
  BY DEF Lists3
<1>2. a \in Address /\ link[a] = u /\ n \in Use \cup {Null}
  BY <1>1 DEF Typed, Backward
<1>3. Typed(val, l, p)
  BY <1>1, <1>2 DEF Typed, LinkWithout, PrevWithout
<1>4. /\ l \in [Address -> Use \cup {Null}]
      /\ \A x \in Address : l[x] = IF x = a THEN n ELSE link[x]
      /\ \A w \in Use : p[w] = IF w = n THEN a ELSE prev[w]
      /\ \A w \in Use : val[w] = IF w = u THEN Null ELSE value[w]
  BY <1>1, <1>2 DEF Typed, LinkWithout, PrevWithout
<1> HIDE DEF val, l, p
<1>5. n # Null => value[n] = value[u] /\ prev[n] = u
  BY <1>1 DEF Forward
<1>6. Backward(val, l, p)
  <2> SUFFICES ASSUME NEW w \in Use, val[w] # Null
               PROVE  /\ p[w] \in Address
                      /\ l[p[w]] = w
                      /\ p[w] \in Value => p[w] = val[w]
                      /\ p[w] \in Use => val[p[w]] = val[w]
    BY DEF Backward
  <2>1. w # u /\ value[w] # Null /\ val[w] = value[w]
    BY <1>4
  <2>2. CASE w = n
    <3>1. a # u
      BY <1>1, <1>2, <2>1, <2>2
    <3> QED BY <1>1, <1>2, <1>4, <1>5, <2>1, <2>2, <3>1 DEF Backward
  <2>3. CASE w # n
    <3>1. /\ prev[w] \in Address /\ link[prev[w]] = w
          /\ prev[w] \in Value => prev[w] = value[w]
          /\ prev[w] \in Use => value[prev[w]] = value[w]
      BY <1>1, <2>1 DEF Backward
    <3>2. prev[w] # a /\ prev[w] # u
      BY <1>2, <2>1, <2>3, <3>1
    <3> QED BY <1>4, <2>1, <2>3, <3>1, <3>2
  <2> QED BY <2>2, <2>3
<1>7. Forward(val, l, p)
  <2>1. ASSUME NEW v \in Value, l[v] # Null
        PROVE  val[l[v]] = v /\ p[l[v]] = v
    <3>1. CASE v = a
      <4>1. l[v] = n /\ n \in Use
        BY <1>2, <1>4, <2>1, <3>1
      <4>2. value[u] = v
        BY <1>1, <3>1 DEF Backward
      <4>3. n # u
        <5> SUFFICES ASSUME n = u PROVE FALSE
          OBVIOUS
        <5>1. prev[u] = u
          BY <1>5, <4>1
        <5> QED BY <3>1, <5>1
      <4> QED BY <1>4, <1>5, <3>1, <4>1, <4>2, <4>3
    <3>2. CASE v # a
      <4>1. l[v] = link[v] /\ link[v] \in Use
        BY <1>1, <1>4, <2>1, <3>2 DEF Typed
      <4>2. value[link[v]] = v /\ prev[link[v]] = v
        BY <1>1, <4>1 DEF Forward
      <4>3. link[v] # u
        BY <3>2, <4>2
      <4>4. link[v] # n
        BY <1>5, <4>1, <4>2
      <4> QED BY <1>4, <4>1, <4>2, <4>3, <4>4
    <3> QED BY <3>1, <3>2
  <2>2. ASSUME NEW w \in Use, val[w] # Null, l[w] # Null
        PROVE  val[l[w]] = val[w] /\ p[l[w]] = w
    <3>1. w # u /\ value[w] # Null /\ val[w] = value[w]
      BY <1>4, <2>2
    <3>2. CASE w = a
      <4>1. l[w] = n /\ n \in Use
        BY <1>2, <1>4, <2>2, <3>2
      <4>2. value[u] = value[w]
        BY <1>1, <3>2 DEF Backward
      <4>3. n # u
        BY <1>5, <3>1, <3>2, <4>1
      <4> QED BY <1>4, <1>5, <3>1, <3>2, <4>1, <4>2, <4>3
    <3>3. CASE w # a
      <4>1. l[w] = link[w] /\ link[w] \in Use
        BY <1>1, <1>4, <2>2, <3>3 DEF Typed
      <4>2. value[link[w]] = value[w] /\ prev[link[w]] = w
        BY <1>1, <3>1, <4>1 DEF Forward
      <4>3. link[w] # u
        BY <3>3, <4>2
      <4>4. link[w] # n
        BY <1>5, <3>1, <4>1, <4>2
      <4> QED BY <1>4, <3>1, <4>1, <4>2, <4>3, <4>4
    <3> QED BY <3>2, <3>3
  <2> QED BY <2>1, <2>2 DEF Forward
<1>8. Acyclic(val, p)
  <2>1. PICK rank \in [Use -> Nat] : Numbers(rank, value, prev)
    BY DEF Lists3, Acyclic
  <2>2. Numbers(rank, val, p)
    <3> SUFFICES ASSUME NEW w \in Use, val[w] # Null, p[w] \in Use
                 PROVE  rank[p[w]] < rank[w]
      BY DEF Numbers
    <3>1. w # u /\ value[w] # Null
      BY <1>4
    <3>2. CASE w = n
      <4>1. rank[u] < rank[w]
        BY <1>5, <2>1, <3>1, <3>2 DEF Numbers
      <4>2. p[w] = a /\ rank[a] < rank[u]
        BY <1>4, <2>1, <3>2 DEF Numbers
      <4> QED BY <4>1, <4>2, <2>1
    <3>3. CASE w # n
      BY <1>4, <2>1, <3>1, <3>3 DEF Numbers
    <3> QED BY <3>2, <3>3
  <2> QED BY <2>2 DEF Acyclic
<1> QED BY <1>3, <1>6, <1>7, <1>8 DEF Lists3, val, l, p

-----------------------------------------------------------------------------
(* Adding a use that is in no list in front of the list of a value.        *)
LEMMA AddKeepsLists ==
    ASSUME NEW val, NEW l, NEW p, Lists3(val, l, p),
           NEW u \in Use, val[u] = Null, NEW v \in Value
    PROVE  Lists3([val EXCEPT ![u] = v], LinkWith(l, u, v), PrevWith(l, p, u, v))
<1> DEFINE val2 == [val EXCEPT ![u] = v]
           l2 == LinkWith(l, u, v)
           p2 == PrevWith(l, p, u, v)
           n == l[v]
<1> USE NullAssumption, ApartAssumption DEF Address
<1>1. Typed(val, l, p) /\ Backward(val, l, p) /\ Forward(val, l, p)
  BY DEF Lists3
<1>2. Typed(val2, l2, p2)
  BY <1>1 DEF Typed, LinkWith, PrevWith
<1>3. /\ \A x \in Address : l2[x] = IF x = v THEN u ELSE IF x = u THEN n ELSE l[x]
      /\ \A w \in Use : p2[w] = IF w = u THEN v ELSE IF w = n THEN u ELSE p[w]
      /\ \A w \in Use : val2[w] = IF w = u THEN v ELSE val[w]
  BY <1>1 DEF Typed, LinkWith, PrevWith
<1> HIDE DEF val2, l2, p2
<1>4. n \in Use \cup {Null}
  BY <1>1 DEF Typed
<1>5. n # Null => val[n] = v /\ p[n] = v /\ n # u
  BY <1>1 DEF Forward
<1>6. Backward(val2, l2, p2)
  <2> SUFFICES ASSUME NEW w \in Use, val2[w] # Null
               PROVE  /\ p2[w] \in Address
                      /\ l2[p2[w]] = w
                      /\ p2[w] \in Value => p2[w] = val2[w]
                      /\ p2[w] \in Use => val2[p2[w]] = val2[w]
    BY DEF Backward
  <2>1. CASE w = u
    BY <1>3, <2>1
  <2>2. CASE w # u /\ w = n
    BY <1>3, <1>5, <2>2
  <2>3. CASE w # u /\ w # n
    <3>1. val[w] # Null /\ p2[w] = p[w] /\ val2[w] = val[w]
      BY <1>3, <2>3
    <3>2. /\ p[w] \in Address /\ l[p[w]] = w
          /\ p[w] \in Value => p[w] = val[w]
          /\ p[w] \in Use => val[p[w]] = val[w]
      BY <1>1, <3>1 DEF Backward
    <3>3. p[w] # v
      BY <2>3, <3>2
    <3>4. p[w] # u
      BY <3>1, <3>2
    <3> QED BY <1>3, <3>1, <3>2, <3>3, <3>4
  <2> QED BY <2>1, <2>2, <2>3
<1>7. Forward(val2, l2, p2)
  <2>1. ASSUME NEW x \in Value, l2[x] # Null
        PROVE  val2[l2[x]] = x /\ p2[l2[x]] = x
    <3>1. CASE x = v
      BY <1>3, <3>1
    <3>2. CASE x # v
      <4>1. l2[x] = l[x] /\ l[x] \in Use
        BY <1>1, <1>3, <2>1, <3>2 DEF Typed
      <4>2. val[l[x]] = x /\ p[l[x]] = x
        BY <1>1, <4>1 DEF Forward
      <4>3. l[x] # u /\ l[x] # n
        BY <1>5, <3>2, <4>1, <4>2
      <4> QED BY <1>3, <4>1, <4>2, <4>3
    <3> QED BY <3>1, <3>2
  <2>2. ASSUME NEW w \in Use, val2[w] # Null, l2[w] # Null
        PROVE  val2[l2[w]] = val2[w] /\ p2[l2[w]] = w
    <3>1. CASE w = u
      <4>1. l2[w] = n /\ n \in Use
        BY <1>3, <1>4, <2>2, <3>1
      <4> QED BY <1>3, <1>5, <3>1, <4>1
    <3>2. CASE w # u
      <4>1. l2[w] = l[w] /\ l[w] \in Use /\ val[w] # Null /\ val2[w] = val[w]
        BY <1>1, <1>3, <2>2, <3>2 DEF Typed
      <4>2. val[l[w]] = val[w] /\ p[l[w]] = w
        BY <1>1, <4>1 DEF Forward
      <4>3. l[w] # u /\ l[w] # n
        BY <1>5, <4>1, <4>2
      <4> QED BY <1>3, <4>1, <4>2, <4>3
    <3> QED BY <3>1, <3>2
  <2> QED BY <2>1, <2>2 DEF Forward
<1>8. Acyclic(val2, p2)
  <2>1. PICK rank \in [Use -> Nat] : Numbers(rank, val, p)
    BY DEF Lists3, Acyclic
  <2> DEFINE rank2 == [w \in Use |-> IF w = u THEN 0 ELSE rank[w] + 1]
  <2>2. rank2 \in [Use -> Nat]
    BY <2>1
  <2>3. Numbers(rank2, val2, p2)
    <3> SUFFICES ASSUME NEW w \in Use, val2[w] # Null, p2[w] \in Use
                 PROVE  rank2[p2[w]] < rank2[w]
      BY DEF Numbers
    <3>1. w # u
      BY <1>3
    <3>2. CASE w = n
      BY <1>3, <2>1, <3>1, <3>2
    <3>3. CASE w # n
      <4>1. p2[w] = p[w] /\ val[w] # Null /\ rank[p[w]] < rank[w]
        BY <1>3, <2>1, <3>1, <3>3 DEF Numbers
      <4> QED BY <2>1, <3>1, <4>1
    <3> QED BY <3>2, <3>3
  <2> QED BY <2>2, <2>3 DEF Acyclic
<1> QED BY <1>2, <1>6, <1>7, <1>8 DEF Lists3, val2, l2, p2

(* use::set as a whole.                                                    *)
LEMMA EnterKeepsLists ==
    ASSUME Lists3(value, link, prev), NEW u \in Use, NEW v \in Value, Enter(u, v)
    PROVE  Lists3(value', link', prev')
<1>1. value \in [Use -> Value \cup {Null}] /\ value' = [value EXCEPT ![u] = v]
  BY DEF Lists3, Typed, Enter
<1>2. CASE value[u] # Null
  <2> DEFINE val == [value EXCEPT ![u] = Null]
  <2>1. Lists3(val, LinkWithout(u), PrevWithout(u))
    BY <1>2, RemoveKeepsLists
  <2>2. val[u] = Null /\ value' = [val EXCEPT ![u] = v]
    BY <1>1
  <2>3. /\ link' = LinkWith(LinkWithout(u), u, v)
        /\ prev' = PrevWith(LinkWithout(u), PrevWithout(u), u, v)
    BY <1>2 DEF Enter
  <2> HIDE DEF val
  <2> QED BY <2>1, <2>2, <2>3, AddKeepsLists
<1>3. CASE value[u] = Null
  <2>1. link' = LinkWith(link, u, v) /\ prev' = PrevWith(link, prev, u, v)
    BY <1>3 DEF Enter
  <2> QED BY <1>1, <1>3, <2>1, AddKeepsLists
<1> QED BY <1>2, <1>3

-----------------------------------------------------------------------------
(* At the start all lists are empty.                                       *)
LEMMA InitLists == Init => IInv
<1> SUFFICES ASSUME Init PROVE IInv
  OBVIOUS
<1> USE DEF Init
<1>1. TypeOK
  BY DEF TypeOK
<1>2. WellLinked
  BY NullAssumption, ApartAssumption DEF WellLinked, BackPointers, ForwardPointers, Address
<1>3. Acyclic(value, prev)
  <2>1. [w \in Use |-> 0] \in [Use -> Nat]
    OBVIOUS
  <2>2. Numbers([w \in Use |-> 0], value, prev)
    BY DEF Numbers
  <2> QED BY <2>1, <2>2 DEF Acyclic
<1> QED BY <1>1, <1>2, <1>3 DEF IInv

(* Every operation on uses leaves lists behind.                            *)
LEMMA StepKeepsLists == IInv /\ [Next]_vars => IInv'
<1> SUFFICES ASSUME IInv, [Next]_vars PROVE IInv'
  OBVIOUS
<1>1. TypeOK /\ Lists3(value, link, prev)
  BY ListsOfInv DEF IInv
<1>2. ASSUME Lists3(value', link', prev'), replacing' \in {Null} \cup (Value \X Value)
      PROVE  IInv'
  BY <1>2 DEF IInv, TypeOK, Typed, WellLinked, BackPointers, ForwardPointers, Lists3,
              Backward, Forward
<1>3. ASSUME NEW u \in Use, NEW v \in Value, Set(u, v)
      PROVE  IInv'
  <2>1. Lists3(value', link', prev')
    BY <1>1, <1>3, EnterKeepsLists DEF Set
  <2>2. replacing' \in {Null} \cup (Value \X Value)
    BY <1>1, <1>3 DEF Set, TypeOK
  <2> QED BY <1>2, <2>1, <2>2
<1>4. ASSUME NEW u \in Use, Destroy(u)
      PROVE  IInv'
  <2>1. /\ value[u] # Null /\ value' = [value EXCEPT ![u] = Null]
        /\ link' = LinkWithout(u) /\ prev' = PrevWithout(u) /\ replacing' = replacing
    BY <1>4 DEF Destroy, Release
  <2>2. Lists3(value', link', prev')
    BY <1>1, <2>1, RemoveKeepsLists
  <2> QED BY <1>1, <1>2, <2>1, <2>2 DEF TypeOK
<1>5. ASSUME NEW r \in Value, NEW w \in Value, Replace(r, w)
      PROVE  IInv'
  BY <1>1, <1>2, <1>5 DEF Replace
<1>6. CASE ReplaceNext
  <2>1. replacing \in Value \X Value
    BY <1>1, <1>6 DEF ReplaceNext, TypeOK
  <2>2. link[replacing[1]] \in Use
    BY <1>1, <1>6, <2>1 DEF ReplaceNext, HasUses, TypeOK, Address
  <2>3. Enter(link[replacing[1]], replacing[2]) /\ replacing[2] \in Value
    BY <1>6, <2>1 DEF ReplaceNext
  <2>4. Lists3(value', link', prev')
    BY <1>1, <2>2, <2>3, EnterKeepsLists
  <2>5. replacing' = replacing
    BY <1>6 DEF ReplaceNext
  <2> QED BY <1>2, <2>1, <2>4, <2>5
<1>7. CASE ReplaceDone
  BY <1>1, <1>2, <1>7 DEF ReplaceDone
<1>8. CASE UNCHANGED vars
  BY <1>1, <1>2, <1>8 DEF vars, TypeOK
<1> QED BY <1>3, <1>4, <1>5, <1>6, <1>7, <1>8 DEF Next

(* In every state the pointers of the uses make up disjoint lists, one     *)
(* for each value, of exactly the uses that refer to it.                   *)
THEOREM ListsConsistent == Spec => []IInv
BY InitLists, StepKeepsLists, PTL DEF Spec

-----------------------------------------------------------------------------
(* The first of some uses, by their numbers.                               *)
LEMMA FirstOfUses ==
    ASSUME NEW rank \in [Use -> Nat], NEW S \in SUBSET Use, S # {}
    PROVE  \E u \in S : \A w \in S : ~(rank[w] < rank[u])
<1> DEFINE T == {rank[u] : u \in S}
           R == OpToRel(<, Nat)
<1>1. T \in SUBSET Nat /\ T # {}
  OBVIOUS
<1>2. IsWellFoundedOn(R, Nat)
  BY NatLessThanWellFounded, Zenon
<1>3. \A k, m \in Nat : k < m => <<k, m>> \in R
  BY Zenon DEF OpToRel
<1> HIDE DEF R
<1>4. PICK m \in T : \A k \in T : ~(<<k, m>> \in R)
  BY <1>1, <1>2, WFMin
<1> QED BY <1>1, <1>3, <1>4

(* A value without a first use is the head of an empty list.               *)
LEMMA InvImpliesHasUsesExact == IInv => HasUsesExact
<1> SUFFICES ASSUME IInv, NEW v \in Value
             PROVE  HasUses(v) <=> \E u \in Use : value[u] = v
  BY DEF HasUsesExact
<1> USE NullAssumption, ApartAssumption DEF Address
<1>1. ASSUME HasUses(v)
      PROVE  \E u \in Use : value[u] = v
  <2>1. link[v] \in Use
    BY <1>1 DEF IInv, TypeOK, HasUses
  <2> QED BY <2>1 DEF IInv, WellLinked, ForwardPointers
<1>2. ASSUME NEW x \in Use, value[x] = v
      PROVE  HasUses(v)
  <2> DEFINE S == {w \in Use : value[w] = v}
  <2>1. PICK rank \in [Use -> Nat] : Numbers(rank, value, prev)
    BY DEF IInv, Acyclic
  <2>2. PICK u \in S : \A w \in S : ~(rank[w] < rank[u])
    BY <1>2, FirstOfUses
  <2>3. /\ prev[u] \in Address /\ link[prev[u]] = u
        /\ prev[u] \in Value => prev[u] = v
        /\ prev[u] \in Use => value[prev[u]] = v
    BY DEF IInv, WellLinked, BackPointers
  <2>4. prev[u] \notin Use
    BY <2>1, <2>2, <2>3 DEF Numbers
  <2> QED BY <2>3, <2>4 DEF HasUses
<1> QED BY <1>1, <1>2

(* Every pointer has its type.                                             *)
THEOREM TypeCorrect == Spec => []TypeOK
<1>1. IInv => TypeOK
  BY DEF IInv
<1> QED BY <1>1, ListsConsistent, PTL

(* Setting, destroying and replacing operands in any order, with stale     *)
(* pointers left in the uses that were released, keeps the pointers of all *)
(* the others consistent (value.cpp, set, add_use_to_list and              *)
(* remove_use_from_current_list).                                          *)
THEOREM AlwaysWellLinked == Spec => []WellLinked
<1>1. IInv => WellLinked
  BY DEF IInv
<1> QED BY <1>1, ListsConsistent, PTL

(* has_uses tells the truth, on which the destructor of a value and dead   *)
(* code elimination rely.                                                  *)
THEOREM HasUsesIsExact == Spec => []HasUsesExact
BY InvImpliesHasUsesExact, ListsConsistent, PTL
-----------------------------------------------------------------------------
(* The lists as sequences. *)

(* Where the pointer to element i + 1 of the list of a is.                 *)
Pointer(a, s, i) == IF i = 0 THEN a ELSE s[i]

(* The uses s follow each other from the pointer at a on.                  *)
Leads(l, a, s) ==
    /\ s \in Seq(Use)
    /\ \A i \in 0 .. Len(s) - 1 : l[Pointer(a, s, i)] = s[i + 1]

(* ... and are all there are.                                              *)
Follows(l, a, s) == Leads(l, a, s) /\ l[Pointer(a, s, Len(s))] = Null

(* Induction up to n, on the set of the numbers a fact is true of.         *)
LEMMA UpTo ==
    ASSUME NEW n \in Nat, NEW T, 0 \in T, \A m \in T : m \in 0 .. n - 1 => m + 1 \in T
    PROVE  \A m \in 0 .. n : m \in T
<1> DEFINE Bad == {m \in 0 .. n : m \notin T}
           R == OpToRel(<, Nat)
<1> SUFFICES ASSUME Bad # {} PROVE FALSE
  OBVIOUS
<1>1. IsWellFoundedOn(R, Nat)
  BY NatLessThanWellFounded
<1>2. PICK m \in Bad : \A y \in Bad : <<y, m>> \notin R
  <2>1. Bad \subseteq Nat
    OBVIOUS
  <2> HIDE DEF Bad, R
  <2> QED
    BY <1>1, <2>1, WFMin
<1>3. m \in 0 .. n /\ m \notin T /\ m # 0
  BY <1>2
<1>4. m - 1 \notin T
  BY <1>3
<1>5. m - 1 \in Bad /\ <<m - 1, m>> \in R
  BY <1>3, <1>4 DEF OpToRel
<1> QED
  BY <1>2, <1>5

(* Two lists that start at one pointer are the same.                       *)
LEMMA OneList ==
    ASSUME NEW l, NEW a, NEW s, NEW t, Follows(l, a, s), Follows(l, a, t)
    PROVE  s = t
<1>1. ASSUME NEW x, NEW y, Follows(l, a, x), Follows(l, a, y)
      PROVE  Len(x) <= Len(y) /\ \A i \in 1 .. Len(x) : x[i] = y[i]
  <2>1. /\ Len(x) \in Nat /\ Len(y) \in Nat
        /\ \A i \in 1 .. Len(x) : x[i] \in Use
        /\ \A i \in 1 .. Len(y) : y[i] \in Use
        /\ \A i \in 0 .. Len(x) - 1 : l[Pointer(a, x, i)] = x[i + 1]
        /\ \A i \in 0 .. Len(y) - 1 : l[Pointer(a, y, i)] = y[i + 1]
        /\ l[Pointer(a, y, Len(y))] = Null
    BY <1>1, LenProperties, ElementOfSeq DEF Follows, Leads
  <2> DEFINE T == {i \in Nat : i <= Len(y) /\ Pointer(a, x, i) = Pointer(a, y, i)}
  <2>2. 0 \in T
    BY <2>1 DEF Pointer
  <2>3. ASSUME NEW i \in T, i \in 0 .. Len(x) - 1 PROVE i + 1 \in T
    <3>1. l[Pointer(a, y, i)] = x[i + 1] /\ x[i + 1] \in Use
      BY <2>1, <2>3
    <3>2. i # Len(y)
      BY <2>1, <3>1, NullAssumption
    <3>3. i \in 0 .. Len(y) - 1
      BY <2>1, <2>3, <3>2
    <3>4. x[i + 1] = y[i + 1]
      BY <2>1, <3>1, <3>3
    <3> QED
      BY <2>1, <3>3, <3>4 DEF Pointer
  <2>4. \A i \in 0 .. Len(x) : i \in T
    <3> HIDE DEF T
    <3> QED
      BY <2>1, <2>2, <2>3, UpTo
  <2>5. Len(x) \in T
    <3> HIDE DEF T
    <3> QED
      BY <2>1, <2>4
  <2>6. ASSUME NEW i \in 1 .. Len(x) PROVE x[i] = y[i]
    <3>1. i \in T /\ i # 0
      <4> HIDE DEF T
      <4> QED
        BY <2>1, <2>4
    <3> QED
      BY <3>1 DEF Pointer
  <2> QED
    BY <2>5, <2>6
<1>2. s \in Seq(Use) /\ t \in Seq(Use) /\ Len(s) \in Nat /\ Len(t) \in Nat
  BY LenProperties DEF Follows, Leads
<1>3. Len(s) <= Len(t) /\ Len(t) <= Len(s) /\ \A i \in 1 .. Len(s) : s[i] = t[i]
  BY <1>1
<1> QED
  BY <1>2, <1>3, SeqEqual

(* What is found from a value on are uses of the value, each behind the    *)
(* pointer its prev_ holds, and with higher and higher numbers.            *)
LEMMA ElementFacts ==
    ASSUME NEW val, NEW l, NEW p, Lists3(val, l, p), NEW v \in Value, NEW s, Leads(l, v, s)
    PROVE  \A i \in 1 .. Len(s) :
               s[i] \in Use /\ val[s[i]] = v /\ p[s[i]] = Pointer(v, s, i - 1)
<1> USE NullAssumption, ApartAssumption DEF Address
<1>1. /\ Len(s) \in Nat
      /\ \A i \in 1 .. Len(s) : s[i] \in Use
      /\ \A i \in 0 .. Len(s) - 1 : l[Pointer(v, s, i)] = s[i + 1]
  BY LenProperties, ElementOfSeq DEF Leads
<1> DEFINE T == {i \in Nat : i # 0 => val[s[i]] = v /\ p[s[i]] = Pointer(v, s, i - 1)}
<1>2. ASSUME NEW i \in T, i \in 0 .. Len(s) - 1 PROVE i + 1 \in T
  <2>1. l[Pointer(v, s, i)] = s[i + 1] /\ s[i + 1] \in Use
    BY <1>1, <1>2
  <2>2. val[s[i + 1]] = v /\ p[s[i + 1]] = Pointer(v, s, i)
    <3>1. CASE i = 0
      BY <2>1, <3>1 DEF Lists3, Forward, Pointer
    <3>2. CASE i # 0
      <4>1. s[i] \in Use /\ val[s[i]] = v /\ l[s[i]] = s[i + 1]
        BY <1>1, <1>2, <2>1, <3>2 DEF Pointer
      <4> QED
        BY <2>1, <3>2, <4>1 DEF Lists3, Forward, Pointer
    <3> QED
      BY <3>1, <3>2
  <2> QED
    BY <2>2
<1>3. \A i \in 0 .. Len(s) : i \in T
  <2>1. 0 \in T
    OBVIOUS
  <2> HIDE DEF T
  <2> QED
    BY <1>1, <1>2, <2>1, UpTo
<1> SUFFICES ASSUME NEW i \in 1 .. Len(s)
             PROVE  s[i] \in Use /\ val[s[i]] = v /\ p[s[i]] = Pointer(v, s, i - 1)
  OBVIOUS
<1>4. i \in T /\ i # 0
  <2> HIDE DEF T
  <2> QED
    BY <1>1, <1>3
<1> QED
  BY <1>1, <1>4

(* No use is found twice, and no pointer is passed twice.                  *)
LEMMA ElementsApart ==
    ASSUME NEW val, NEW l, NEW p, Lists3(val, l, p), NEW v \in Value, NEW s, Leads(l, v, s)
    PROVE  \A i, j \in 0 .. Len(s) : Pointer(v, s, i) = Pointer(v, s, j) => i = j
<1> USE NullAssumption, ApartAssumption DEF Address
<1>1. PICK rank \in [Use -> Nat] : Numbers(rank, val, p)
  BY DEF Lists3, Acyclic
<1>2. \A i \in 1 .. Len(s) :
          s[i] \in Use /\ val[s[i]] = v /\ p[s[i]] = Pointer(v, s, i - 1)
  BY ElementFacts
<1>3. Len(s) \in Nat
  BY LenProperties DEF Leads
<1>4. ASSUME NEW i \in 1 .. Len(s), i # 1 PROVE rank[s[i - 1]] < rank[s[i]]
  <2>1. i - 1 \in 1 .. Len(s) /\ p[s[i]] = s[i - 1]
    BY <1>2, <1>3, <1>4 DEF Pointer
  <2> QED
    BY <1>1, <1>2, <2>1 DEF Numbers
<1>5. ASSUME NEW i \in 1 .. Len(s) PROVE \A j \in 1 .. Len(s) : i < j => rank[s[i]] < rank[s[j]]
  <2> DEFINE T == {k \in Nat : i < k /\ k <= Len(s) => rank[s[i]] < rank[s[k]]}
  <2>1. 0 \in T
    OBVIOUS
  <2>2. ASSUME NEW k \in T, k \in 0 .. Len(s) - 1 PROVE k + 1 \in T
    <3> SUFFICES ASSUME i < k + 1 PROVE rank[s[i]] < rank[s[k + 1]]
      BY <2>2
    <3>1. k \in 1 .. Len(s) /\ k + 1 \in 1 .. Len(s) /\ (k + 1) - 1 = k /\ k + 1 # 1
      BY <1>3, <2>2
    <3>2. rank[s[k]] < rank[s[k + 1]]
      BY <1>4, <3>1
    <3>3. rank[s[i]] \in Nat /\ rank[s[k]] \in Nat /\ rank[s[k + 1]] \in Nat
      BY <1>1, <1>2, <3>1
    <3>4. i = k \/ rank[s[i]] < rank[s[k]]
      BY <1>3, <2>2, <3>1
    <3> QED
      BY <3>2, <3>3, <3>4
  <2>3. \A k \in 0 .. Len(s) : k \in T
    <3> HIDE DEF T
    <3> QED
      BY <1>3, <2>1, <2>2, UpTo
  <2>4. ASSUME NEW j \in 1 .. Len(s), i < j PROVE rank[s[i]] < rank[s[j]]
    <3>1. j \in T
      <4> HIDE DEF T
      <4> QED
        BY <1>3, <2>3
    <3> QED
      BY <1>3, <2>4, <3>1
  <2> QED
    BY <2>4
<1>6. ASSUME NEW i \in 0 .. Len(s), NEW j \in 0 .. Len(s), i < j
      PROVE  Pointer(v, s, i) # Pointer(v, s, j)
  <2>1. j \in 1 .. Len(s) /\ j # 0 /\ s[j] \in Use
    BY <1>2, <1>3, <1>6
  <2>2. CASE i = 0
    BY <2>1, <2>2 DEF Pointer
  <2>3. CASE i # 0
    <3>1. i \in 1 .. Len(s) /\ rank[s[i]] < rank[s[j]]
      BY <1>3, <1>5, <1>6, <2>1, <2>3
    <3>2. rank[s[i]] \in Nat /\ rank[s[j]] \in Nat
      BY <1>1, <1>2, <2>1, <3>1
    <3> QED
      BY <2>1, <2>3, <3>1, <3>2 DEF Pointer
  <2> QED
    BY <2>2, <2>3
<1> SUFFICES ASSUME NEW i \in 0 .. Len(s), NEW j \in 0 .. Len(s),
                    Pointer(v, s, i) = Pointer(v, s, j)
             PROVE  i = j
  OBVIOUS
<1>7. i \in Nat /\ j \in Nat /\ ~(i < j) /\ ~(j < i)
  BY <1>3, <1>6
<1> QED
  BY <1>7
-----------------------------------------------------------------------------
(* What Chain finds. *)

(* What is found in n steps from every pointer on.                         *)
Finds(f, l, n) ==
    f = [m \in 0 .. n |->
            [a \in Address |->
                IF m = 0 \/ l[a] = Null THEN <<>> ELSE <<l[a]>> \o f[m - 1][l[a]]]]

(* There is such a function, for any number of steps.                      *)
LEMMA FindsExists ==
    ASSUME NEW l, NEW n \in Nat
    PROVE  \E f : Finds(f, l, n)
<1> DEFINE Row(g) == [a \in Address |-> IF l[a] = Null THEN <<>> ELSE <<l[a]>> \o g[l[a]]]
           R(f, m) == IF m = 0 THEN [a \in Address |-> <<>>] ELSE Row(f[m - 1])
           T == {k \in Nat : \E f : f = [m \in 0 .. k |-> R(f, m)]}
<1>1. 0 \in T
  <2> DEFINE f == [m \in 0 .. 0 |-> [a \in Address |-> <<>>]]
  <2>1. f = [m \in 0 .. 0 |-> R(f, m)]
    <3> HIDE DEF Row
    <3> QED
      OBVIOUS
  <2> HIDE DEF f, R
  <2> QED
    BY <2>1
<1>2. ASSUME NEW k \in T PROVE k + 1 \in T
  <2>1. PICK f : f = [m \in 0 .. k |-> R(f, m)]
    OBVIOUS
  <2> DEFINE g == [m \in 0 .. k + 1 |-> IF m = k + 1 THEN Row(f[k]) ELSE f[m]]
  <2> HIDE DEF Row
  <2>2. ASSUME NEW m \in 0 .. k + 1 PROVE g[m] = R(g, m)
    <3>1. CASE m = k + 1
      <4>1. m # 0 /\ m - 1 = k /\ k \in 0 .. k + 1 /\ k # k + 1
        BY <3>1
      <4>2. g[k] = f[k] /\ g[m] = Row(f[k])
        BY <3>1, <4>1
      <4> QED
        BY <4>1, <4>2
    <3>2. CASE m # k + 1
      <4>1. m \in 0 .. k /\ g[m] = f[m] /\ f[m] = R(f, m)
        BY <2>1, <3>2
      <4>2. m # 0 => m - 1 \in 0 .. k + 1 /\ m - 1 # k + 1
        BY <3>2
      <4>3. m # 0 => g[m - 1] = f[m - 1]
        BY <4>2
      <4> QED
        BY <4>1, <4>3
    <3> QED
      BY <3>1, <3>2
  <2>3. g = [m \in 0 .. k + 1 |-> R(g, m)]
    <3> HIDE DEF R
    <3> QED
      BY <2>2
  <2> HIDE DEF g, R
  <2> QED
    BY <2>3
<1>3. n \in T
  <2> HIDE DEF T
  <2> QED
    BY <1>1, <1>2, UpTo
<1>4. PICK f : f = [m \in 0 .. n |-> R(f, m)]
  BY <1>3
<1>5. \A m \in 0 .. n : R(f, m) =
          [a \in Address |-> IF m = 0 \/ l[a] = Null THEN <<>> ELSE <<l[a]>> \o f[m - 1][l[a]]]
  OBVIOUS
<1> HIDE DEF R
<1>6. Finds(f, l, n)
  BY <1>4, <1>5 DEF Finds
<1> QED
  BY <1>6

(* The uses found in m steps follow each other, and are fewer than m only  *)
(* at the end of the list.                                                 *)
LEMMA FindsLeads ==
    ASSUME NEW l \in [Address -> Use \cup {Null}], NEW n \in Nat, NEW f, Finds(f, l, n)
    PROVE  \A a \in Address : LET s == f[n][a] IN
               /\ Leads(l, a, s)
               /\ Len(s) <= n
               /\ Len(s) < n => l[Pointer(a, s, Len(s))] = Null
<1> DEFINE Good(m, a, s) == /\ Leads(l, a, s)
                            /\ Len(s) <= m
                            /\ Len(s) < m => l[Pointer(a, s, Len(s))] = Null
           T == {m \in Nat : \A a \in Address : Good(m, a, f[m][a])}
<1>1. \A m \in 0 .. n, a \in Address : f[m][a] =
          IF m = 0 \/ l[a] = Null THEN <<>> ELSE <<l[a]>> \o f[m - 1][l[a]]
  <2> DEFINE Row(m) == [a \in Address |->
                 IF m = 0 \/ l[a] = Null THEN <<>> ELSE <<l[a]>> \o f[m - 1][l[a]]]
  <2>1. f = [m \in 0 .. n |-> Row(m)]
    BY DEF Finds
  <2>2. \A m \in 0 .. n : f[m] = Row(m)
    <3> HIDE DEF Row
    <3> QED
      BY <2>1
  <2> QED
    BY <2>2
<1>2. ASSUME NEW a \in Address, NEW m \in Nat, m = 0 \/ l[a] = Null PROVE Good(m, a, <<>>)
  <2>1. <<>> \in Seq(Use) /\ Len(<<>>) = 0
    BY EmptySeq
  <2> QED
    BY <1>2, <2>1 DEF Leads, Pointer
<1>3. ASSUME NEW a \in Address, NEW m \in Nat, l[a] # Null, NEW s, Good(m, l[a], s)
      PROVE  Good(m + 1, a, <<l[a]>> \o s)
  <2> DEFINE u == l[a]
             t == <<u>> \o s
  <2>1. u \in Use /\ u \in Address
    BY <1>3 DEF Address
  <2>2. /\ s \in Seq(Use) /\ Len(s) \in Nat /\ Len(s) <= m
        /\ \A i \in 0 .. Len(s) - 1 : l[Pointer(u, s, i)] = s[i + 1]
        /\ Len(s) < m => l[Pointer(u, s, Len(s))] = Null
    BY <1>3, LenProperties DEF Leads
  <2>3. <<u>> \in Seq(Use) /\ Len(<<u>>) = 1 /\ <<u>>[1] = u
    BY <2>1
  <2> HIDE DEF u
  <2>4. /\ t \in Seq(Use) /\ Len(t) = Len(s) + 1
        /\ \A i \in 1 .. Len(s) + 1 : t[i] = IF i = 1 THEN u ELSE s[i - 1]
    <3>1. /\ t \in Seq(Use) /\ Len(t) = 1 + Len(s)
          /\ \A i \in 1 .. 1 + Len(s) : t[i] = IF i <= 1 THEN <<u>>[i] ELSE s[i - 1]
      BY <2>2, <2>3, ConcatProperties
    <3> HIDE DEF t
    <3> QED
      BY <2>2, <2>3, <3>1
  <2> HIDE DEF t
  <2>5. \A i \in 1 .. Len(t) : Pointer(a, t, i) = Pointer(u, s, i - 1)
    BY <2>2, <2>4 DEF Pointer
  <2>6. ASSUME NEW i \in 0 .. Len(t) - 1 PROVE l[Pointer(a, t, i)] = t[i + 1]
    <3>1. CASE i = 0
      BY <2>2, <2>4, <3>1 DEF Pointer, u
    <3>2. CASE i # 0
      <4>1. i \in 1 .. Len(t) /\ i - 1 \in 0 .. Len(s) - 1 /\ (i - 1) + 1 = i
            /\ i + 1 \in 1 .. Len(s) + 1 /\ i + 1 # 1 /\ (i + 1) - 1 = i
        BY <2>2, <2>4, <3>2
      <4>2. l[Pointer(u, s, i - 1)] = s[i]
        BY <2>2, <4>1
      <4>3. t[i + 1] = s[i]
        BY <2>4, <4>1
      <4> QED
        BY <2>5, <4>1, <4>2, <4>3
    <3> QED
      BY <3>1, <3>2
  <2>7. ASSUME Len(t) < m + 1 PROVE l[Pointer(a, t, Len(t))] = Null
    <3>1. Len(t) \in 1 .. Len(t) /\ Len(t) - 1 = Len(s) /\ Len(s) < m
      BY <2>2, <2>4, <2>7
    <3> QED
      BY <2>2, <2>5, <3>1
  <2>8. Len(t) <= m + 1
    BY <2>2, <2>4
  <2>9. Good(m + 1, a, t)
    BY <2>4, <2>6, <2>7, <2>8 DEF Leads
  <2> QED
    BY <2>9 DEF t, u
<1> HIDE DEF Good
<1>4. 0 \in T
  <2>1. ASSUME NEW a \in Address PROVE f[0][a] = <<>>
    <3>1. 0 \in 0 .. n
      OBVIOUS
    <3>2. f[0][a] = IF 0 = 0 \/ l[a] = Null THEN <<>> ELSE <<l[a]>> \o f[0 - 1][l[a]]
      BY <1>1, <3>1, Zenon
    <3> QED
      BY <3>2, Zenon
  <2> QED
    BY <1>2, <2>1
<1>5. ASSUME NEW m \in T, m \in 0 .. n - 1 PROVE m + 1 \in T
  <2>1. m + 1 \in 0 .. n /\ m + 1 # 0 /\ (m + 1) - 1 = m
    BY <1>5
  <2>2. ASSUME NEW a \in Address PROVE Good(m + 1, a, f[m + 1][a])
    <3>1. CASE l[a] = Null
      <4>1. f[m + 1][a] = <<>>
        BY <1>1, <2>1, <3>1
      <4> QED
        BY <1>2, <1>5, <3>1, <4>1
    <3>2. CASE l[a] # Null
      <4>1. f[m + 1][a] = <<l[a]>> \o f[m][l[a]]
        BY <1>1, <2>1, <3>2
      <4>2. l[a] \in Address
        BY <3>2 DEF Address
      <4> QED
        BY <1>3, <1>5, <3>2, <4>1, <4>2
    <3> QED
      BY <3>1, <3>2
  <2> QED
    BY <1>5, <2>2
<1>6. n \in T
  <2> HIDE DEF T
  <2> QED
    BY <1>4, <1>5, UpTo
<1> QED
  BY <1>6 DEF Good

(* Chain is all of the list: it has no more elements than there are uses.  *)
LEMMA ChainFollows ==
    ASSUME IInv, NEW v \in Value
    PROVE  Follows(link, v, Chain(v))
<1> DEFINE n == Cardinality(Use)
           found == CHOOSE f : Finds(f, link, n)
           s == Chain(v)
<1>1. n \in Nat
  BY FiniteAssumption, FS_CardinalityType
<1>2. Finds(found, link, n)
  <2> HIDE DEF n
  <2> QED
    BY <1>1, FindsExists
<1>3. s = found[n][v]
  BY DEF Chain, Finds
<1>4. link \in [Address -> Use \cup {Null}] /\ v \in Address /\ Lists3(value, link, prev)
  BY ListsOfInv DEF IInv, TypeOK, Address
<1> HIDE DEF found, s
<1>5. /\ Leads(link, v, s)
      /\ Len(s) <= n
      /\ Len(s) < n => link[Pointer(v, s, Len(s))] = Null
  <2> HIDE DEF n
  <2> QED
    BY <1>1, <1>2, <1>3, <1>4, FindsLeads
<1>6. /\ s \in Seq(Use) /\ Len(s) \in Nat
      /\ \A i \in 1 .. Len(s) : s[i] \in Use
      /\ \A i \in 0 .. Len(s) - 1 : link[Pointer(v, s, i)] = s[i + 1]
  BY <1>5, LenProperties, ElementOfSeq DEF Leads
<1>7. ASSUME Len(s) = n, link[Pointer(v, s, n)] # Null PROVE FALSE
  <2> DEFINE u == link[Pointer(v, s, n)]
             t == Append(s, u)
  <2>1. Pointer(v, s, n) \in Address
    BY <1>1, <1>4, <1>6, <1>7 DEF Pointer, Address
  <2>2. u \in Use
    BY <1>4, <1>7, <2>1
  <2> HIDE DEF u
  <2>3. /\ t \in Seq(Use) /\ Len(t) = n + 1
        /\ \A i \in 1 .. n + 1 : t[i] = IF i = n + 1 THEN u ELSE s[i]
    BY <1>6, <1>7, <2>2
  <2> HIDE DEF t
  <2>4. Leads(link, v, t)
    <3> SUFFICES ASSUME NEW i \in 0 .. n PROVE link[Pointer(v, t, i)] = t[i + 1]
      BY <1>1, <2>3 DEF Leads
    <3>1. Pointer(v, t, i) = Pointer(v, s, i)
      BY <1>1, <2>3 DEF Pointer
    <3>2. CASE i = n
      BY <1>1, <2>3, <3>1, <3>2 DEF u
    <3>3. CASE i # n
      <4>1. i \in 0 .. Len(s) - 1 /\ i + 1 \in 1 .. n + 1 /\ i + 1 # n + 1
        BY <1>1, <1>7, <3>3
      <4> QED
        BY <1>6, <2>3, <3>1, <4>1
    <3> QED
      BY <3>2, <3>3
  <2>5. \A i, j \in 0 .. n + 1 : Pointer(v, t, i) = Pointer(v, t, j) => i = j
    BY <1>4, <2>3, <2>4, ElementsApart
  <2> DEFINE g == [i \in 1 .. n + 1 |-> t[i]]
  <2>6. g \in Injection(1 .. n + 1, Use)
    <3>1. \A i \in 1 .. n + 1 : t[i] \in Use /\ t[i] = Pointer(v, t, i) /\ i \in 0 .. n + 1
      BY <1>1, <1>6, <1>7, <2>2, <2>3 DEF Pointer
    <3>2. g \in [1 .. n + 1 -> Use]
      BY <3>1
    <3>3. \A i, j \in 1 .. n + 1 : g[i] = g[j] => i = j
      BY <2>5, <3>1
    <3> QED
      BY <3>2, <3>3 DEF Injection, IsInjective
  <2>7. Cardinality(1 .. n + 1) <= n
    <3> HIDE DEF g
    <3> QED
      BY <2>6, FiniteAssumption, FS_Injection
  <2>8. Cardinality(1 .. n + 1) = n + 1
    <3> HIDE DEF n
    <3>1. Cardinality(1 .. n + 1) = IF 1 > n + 1 THEN 0 ELSE (n + 1) - 1 + 1
      BY <1>1, FS_Interval
    <3> QED
      BY <1>1, <3>1
  <2> QED
    BY <1>1, <2>7, <2>8
<1>8. link[Pointer(v, s, Len(s))] = Null
  BY <1>1, <1>5, <1>6, <1>7
<1>9. Follows(link, v, s)
  BY <1>5, <1>8 DEF Follows
<1> QED
  BY <1>9 DEF s
-----------------------------------------------------------------------------
(* What the operations do to the sequences. *)

(* A sequence without its k-th element: what is behind it moves down by    *)
(* one.                                                                    *)
LEMMA WithoutOneFacts ==
    ASSUME NEW S, NEW s \in Seq(S), NEW k \in 1 .. Len(s)
    PROVE  /\ Lists!RemoveAt(s, k) \in Seq(S)
           /\ Len(Lists!RemoveAt(s, k)) = Len(s) - 1
           /\ \A i \in 1 .. Len(s) - 1 :
                  Lists!RemoveAt(s, k)[i] = IF i < k THEN s[i] ELSE s[i + 1]
<1> DEFINE f == SubSeq(s, 1, k - 1)
           b == SubSeq(s, k + 1, Len(s))
<1>1. /\ f \in Seq(S) /\ Len(f) = k - 1
      /\ \A i \in 1 .. k - 1 : f[i] = s[i]
  <2>1. \A i \in 1 .. k - 1 : s[i] \in S
    BY ElementOfSeq
  <2> QED BY <2>1, SubSeqProperties
<1>2. /\ b \in Seq(S) /\ Len(b) = Len(s) - k
      /\ \A i \in 1 .. Len(s) - k : b[i] = s[k + i]
  <2>1. \A i \in k + 1 .. Len(s) : s[i] \in S
    BY ElementOfSeq
  <2> QED BY <2>1, SubSeqProperties, LenProperties
<1>3. Lists!RemoveAt(s, k) = f \o b
  BY DEF Lists!RemoveAt
<1> HIDE DEF f, b
<1> DEFINE g == f \o b
<1>4. /\ g \in Seq(S) /\ Len(g) = Len(f) + Len(b)
      /\ \A i \in 1 .. Len(f) + Len(b) : g[i] = IF i <= Len(f) THEN f[i] ELSE b[i - Len(f)]
  BY <1>1, <1>2, ConcatProperties
<1>5. Lists!RemoveAt(s, k) = g
  BY <1>3
<1> HIDE DEF g
<1>6. Len(s) \in Nat /\ Len(f) + Len(b) = Len(s) - 1
  BY <1>1, <1>2, LenProperties
<1>7. ASSUME NEW i \in 1 .. Len(s) - 1
      PROVE  g[i] = IF i < k THEN s[i] ELSE s[i + 1]
  <2>1. CASE i < k
    BY <1>1, <1>4, <1>6, <2>1
  <2>2. CASE i >= k
    <3>1. i - (k - 1) \in 1 .. Len(s) - k /\ k + (i - (k - 1)) = i + 1
      BY <1>6, <2>2
    <3>2. g[i] = b[i - (k - 1)]
      BY <1>1, <1>4, <1>6, <2>2
    <3> DEFINE n == i - (k - 1)
    <3>3. n \in 1 .. Len(s) - k /\ k + n = i + 1 /\ g[i] = b[n]
      BY <3>1, <3>2
    <3> HIDE DEF n
    <3>4. b[n] = s[k + n]
      BY <1>2, <3>3
    <3>5. g[i] = s[i + 1]
      BY <3>3, <3>4
    <3>6. ~(i < k)
      BY <1>6, <2>2
    <3> QED BY <3>5, <3>6
  <2> QED BY <2>1, <2>2
<1> QED
  BY <1>4, <1>5, <1>6, <1>7

(* A sequence without the use at position k, its only one.                 *)
LEMMA RemoveFirstFacts ==
    ASSUME NEW s \in Seq(Use), NEW u,
           \A i, j \in 1 .. Len(s) : s[i] = s[j] => i = j
    PROVE  /\ (\A i \in 1 .. Len(s) : s[i] # u) => Lists!RemoveFirst(s, u) = s
           /\ \A k \in 1 .. Len(s) : s[k] = u =>
                  /\ Lists!RemoveFirst(s, u) \in Seq(Use)
                  /\ Len(Lists!RemoveFirst(s, u)) = Len(s) - 1
                  /\ \A i \in 1 .. Len(s) - 1 :
                         Lists!RemoveFirst(s, u)[i] = IF i < k THEN s[i] ELSE s[i + 1]
<1>1. Len(s) \in Nat /\ \A i \in 1 .. Len(s) : s[i] \in Use
  BY LenProperties, ElementOfSeq
<1>2. ASSUME \A i \in 1 .. Len(s) : s[i] # u PROVE Lists!RemoveFirst(s, u) = s
  BY <1>2 DEF Lists!RemoveFirst
<1>3. ASSUME NEW k \in 1 .. Len(s), s[k] = u
      PROVE  /\ Lists!RemoveFirst(s, u) \in Seq(Use)
             /\ Len(Lists!RemoveFirst(s, u)) = Len(s) - 1
             /\ \A i \in 1 .. Len(s) - 1 :
                    Lists!RemoveFirst(s, u)[i] = IF i < k THEN s[i] ELSE s[i + 1]
  <2> DEFINE I == {i \in 1 .. Len(s) : s[i] = u}
  <2>1. I = {k}
    BY <1>3
  <2>2. Lists!Min(I) = k
    BY <2>1 DEF Lists!Min
  <2>3. Lists!RemoveFirst(s, u) = Lists!RemoveAt(s, k)
    <3>1. I # {} /\ \E i \in 1 .. Len(s) : s[i] = u
      BY <1>3
    <3>2. Lists!RemoveFirst(s, u) = Lists!RemoveAt(s, Lists!Min(I))
      BY <3>1 DEF Lists!RemoveFirst, Lists!SelectInSeq
    <3> QED
      BY <2>2, <3>2
  <2> QED
    BY <2>3, WithoutOneFacts
<1> QED
  BY <1>2, <1>3

(* A use that is taken out of its list is taken out of the sequence.       *)
LEMMA RemoveTakesOne ==
    ASSUME Lists3(value, link, prev), NEW u \in Use, value[u] # Null,
           NEW x \in Value, NEW s, Follows(link, x, s)
    PROVE  Follows(LinkWithout(u), x, Lists!RemoveFirst(s, u))
<1> USE NullAssumption, ApartAssumption DEF Address
<1> DEFINE l == LinkWithout(u)
           t == Lists!RemoveFirst(s, u)
           n == Len(s)
<1>1. /\ link \in [Address -> Use \cup {Null}]
      /\ prev[u] \in Address /\ link[prev[u]] = u
  BY DEF Lists3, Typed, Backward
<1>2. \A a \in Address : l[a] = IF a = prev[u] THEN link[u] ELSE link[a]
  BY <1>1 DEF LinkWithout
<1>3. /\ s \in Seq(Use) /\ n \in Nat
      /\ \A i \in 0 .. n - 1 : link[Pointer(x, s, i)] = s[i + 1]
      /\ link[Pointer(x, s, n)] = Null
  BY LenProperties DEF Follows, Leads
<1>4. \A i \in 1 .. n : s[i] \in Use /\ prev[s[i]] = Pointer(x, s, i - 1)
  BY ElementFacts DEF Follows
<1>5. \A i, j \in 0 .. n : Pointer(x, s, i) = Pointer(x, s, j) => i = j
  BY ElementsApart DEF Follows
<1>6. \A i \in 0 .. n : Pointer(x, s, i) \in Address
  BY <1>3, <1>4 DEF Pointer
<1>7. \A i, j \in 1 .. n : s[i] = s[j] => i = j
  <2> SUFFICES ASSUME NEW i \in 1 .. n, NEW j \in 1 .. n, s[i] = s[j] PROVE i = j
    OBVIOUS
  <2>1. i \in 0 .. n /\ j \in 0 .. n /\ Pointer(x, s, i) = Pointer(x, s, j)
    BY <1>3 DEF Pointer
  <2> QED
    BY <1>5, <2>1
<1> HIDE DEF l
<1>8. CASE \A i \in 1 .. n : s[i] # u
  <2>1. t = s
    BY <1>3, <1>7, <1>8, RemoveFirstFacts
  <2>2. ASSUME NEW i \in 0 .. n PROVE l[Pointer(x, s, i)] = link[Pointer(x, s, i)]
    <3>1. link[Pointer(x, s, i)] # u
      <4>1. CASE i = n
        BY <1>3, <4>1
      <4>2. CASE i # n
        <5>1. i \in 0 .. n - 1 /\ i + 1 \in 1 .. n
          BY <1>3, <4>2
        <5> QED
          BY <1>3, <1>8, <5>1
      <4> QED
        BY <4>1, <4>2
    <3> QED
      BY <1>1, <1>2, <1>6, <3>1
  <2>3. n \in 0 .. n /\ \A i \in 0 .. n - 1 : i \in 0 .. n
    BY <1>3
  <2>4. Leads(l, x, s)
    BY <1>3, <2>2, <2>3 DEF Leads
  <2> QED
    BY <1>3, <2>1, <2>2, <2>3, <2>4 DEF Follows, l
<1>9. ASSUME NEW k \in 1 .. n, s[k] = u
      PROVE  Follows(l, x, t)
  <2>1. /\ t \in Seq(Use) /\ Len(t) = n - 1
        /\ \A i \in 1 .. n - 1 : t[i] = IF i < k THEN s[i] ELSE s[i + 1]
    BY <1>3, <1>7, <1>9, RemoveFirstFacts
  <2> HIDE DEF t
  <2>2. prev[u] = Pointer(x, s, k - 1) /\ k - 1 \in 0 .. n /\ k \in 0 .. n
    BY <1>3, <1>4, <1>9
  <2>3. ASSUME NEW i \in 0 .. n, i # k - 1
        PROVE  l[Pointer(x, s, i)] = link[Pointer(x, s, i)]
    BY <1>2, <1>5, <1>6, <2>2, <2>3
  <2>4. l[Pointer(x, s, k - 1)] = link[Pointer(x, s, k)]
    BY <1>2, <1>3, <1>6, <1>9, <2>2 DEF Pointer
  <2>5. ASSUME NEW i \in 0 .. n - 1
        PROVE  l[Pointer(x, t, i)] = link[Pointer(x, s, IF i < k - 1 THEN i ELSE i + 1)]
    <3>1. CASE i < k - 1
      <4>1. i \in 0 .. n /\ i # k - 1 /\ Pointer(x, t, i) = Pointer(x, s, i)
        BY <1>3, <2>1, <3>1 DEF Pointer
      <4> QED
        BY <2>3, <3>1, <4>1
    <3>2. CASE i = k - 1
      <4>1. Pointer(x, t, i) = Pointer(x, s, k - 1)
        BY <1>3, <2>1, <3>2 DEF Pointer
      <4> QED
        BY <2>4, <3>2, <4>1
    <3>3. CASE i > k - 1
      <4>1. i \in 1 .. n - 1 /\ ~(i < k) /\ ~(i < k - 1) /\ i # 0 /\ i + 1 # 0
            /\ i + 1 \in 0 .. n /\ i + 1 # k - 1
        BY <1>3, <3>3
      <4>2. Pointer(x, t, i) = Pointer(x, s, i + 1)
        BY <2>1, <4>1 DEF Pointer
      <4> QED
        BY <2>3, <4>1, <4>2
    <3> QED
      BY <1>3, <3>1, <3>2, <3>3
  <2>6. ASSUME NEW i \in 0 .. (n - 1) - 1 PROVE l[Pointer(x, t, i)] = t[i + 1]
    <3>1. i \in 0 .. n - 1 /\ i + 1 \in 1 .. n - 1 /\ i + 1 \in 0 .. n - 1
      BY <1>3
    <3>2. CASE i < k - 1
      <4>1. i + 1 < k
        BY <1>3, <3>2
      <4> QED
        BY <1>3, <2>1, <2>5, <3>1, <3>2, <4>1
    <3>3. CASE ~(i < k - 1)
      <4>1. ~(i + 1 < k)
        BY <1>3, <3>3
      <4> QED
        BY <1>3, <2>1, <2>5, <3>1, <3>3, <4>1
    <3> QED
      BY <3>2, <3>3
  <2>7. l[Pointer(x, t, n - 1)] = Null
    <3>1. n - 1 \in 0 .. n - 1 /\ ~(n - 1 < k - 1) /\ (n - 1) + 1 = n
      BY <1>3
    <3> QED
      BY <1>3, <2>5, <3>1
  <2>8. Leads(l, x, t)
    BY <2>1, <2>6 DEF Leads
  <2> QED
    BY <2>1, <2>7, <2>8 DEF Follows
<1>10. (\E k \in 1 .. n : s[k] = u) => Follows(l, x, t)
  BY <1>9
<1> QED
  BY <1>8, <1>10 DEF l

(* A use that is in no list is not in the sequence of any value.           *)
LEMMA ReleasedNotFound ==
    ASSUME Lists3(value, link, prev), NEW u \in Use, value[u] = Null,
           NEW x \in Value, NEW s, Follows(link, x, s)
    PROVE  Lists!RemoveFirst(s, u) = s
<1> USE NullAssumption, ApartAssumption DEF Address
<1>1. s \in Seq(Use) /\ Len(s) \in Nat
  BY LenProperties DEF Follows, Leads
<1>2. \A i \in 1 .. Len(s) : value[s[i]] = x
  BY ElementFacts DEF Follows
<1>3. \A i, j \in 0 .. Len(s) : Pointer(x, s, i) = Pointer(x, s, j) => i = j
  BY ElementsApart DEF Follows
<1>4. \A i, j \in 1 .. Len(s) : s[i] = s[j] => i = j
  <2> SUFFICES ASSUME NEW i \in 1 .. Len(s), NEW j \in 1 .. Len(s), s[i] = s[j] PROVE i = j
    OBVIOUS
  <2>1. i \in 0 .. Len(s) /\ j \in 0 .. Len(s) /\ Pointer(x, s, i) = Pointer(x, s, j)
    BY <1>1 DEF Pointer
  <2> QED
    BY <1>3, <2>1
<1>5. \A i \in 1 .. Len(s) : s[i] # u
  BY <1>2
<1> QED
  BY <1>1, <1>4, <1>5, RemoveFirstFacts

(* A use that is added comes first at its value and is nowhere else.       *)
LEMMA AddPutsInFront ==
    ASSUME NEW val, NEW l, NEW p, Lists3(val, l, p), NEW u \in Use, val[u] = Null,
           NEW v \in Value, NEW x \in Value, NEW s, Follows(l, x, s)
    PROVE  Follows(LinkWith(l, u, v), x, IF x = v THEN <<u>> \o s ELSE s)
<1> USE NullAssumption, ApartAssumption DEF Address
<1> DEFINE l2 == LinkWith(l, u, v)
           n == Len(s)
<1>1. l \in [Address -> Use \cup {Null}]
  BY DEF Lists3, Typed
<1>2. \A a \in Address : l2[a] = IF a = v THEN u ELSE IF a = u THEN l[v] ELSE l[a]
  BY <1>1 DEF LinkWith
<1>3. /\ s \in Seq(Use) /\ n \in Nat
      /\ \A i \in 0 .. n - 1 : l[Pointer(x, s, i)] = s[i + 1]
      /\ l[Pointer(x, s, n)] = Null
  BY LenProperties DEF Follows, Leads
<1>4. \A i \in 1 .. n : s[i] \in Use /\ val[s[i]] = x
  BY ElementFacts DEF Follows
<1>5. \A i \in 1 .. n : s[i] \in Address /\ l2[s[i]] = l[s[i]]
  BY <1>2, <1>4
<1> HIDE DEF l2
<1>6. CASE x # v
  <2>1. \A i \in 0 .. n : l2[Pointer(x, s, i)] = l[Pointer(x, s, i)]
    BY <1>2, <1>3, <1>5, <1>6 DEF Pointer
  <2>2. n \in 0 .. n /\ \A i \in 0 .. n - 1 : i \in 0 .. n
    BY <1>3
  <2>3. Follows(l2, x, s)
    BY <1>3, <2>1, <2>2 DEF Follows, Leads
  <2> QED
    BY <1>6, <2>3 DEF l2
<1>7. CASE x = v
  <2> DEFINE t == <<u>> \o s
  <2>1. /\ t \in Seq(Use) /\ Len(t) = n + 1
        /\ \A i \in 1 .. n + 1 : t[i] = IF i = 1 THEN u ELSE s[i - 1]
    <3>1. <<u>> \in Seq(Use) /\ Len(<<u>>) = 1 /\ <<u>>[1] = u
      OBVIOUS
    <3>2. /\ t \in Seq(Use) /\ Len(t) = 1 + n
          /\ \A i \in 1 .. 1 + n : t[i] = IF i <= 1 THEN <<u>>[i] ELSE s[i - 1]
      BY <1>3, <3>1, ConcatProperties
    <3> HIDE DEF t
    <3> QED
      BY <1>3, <3>1, <3>2
  <2> HIDE DEF t
  <2>2. l2[v] = u /\ l2[u] = l[v]
    BY <1>2
  <2>3. ASSUME NEW i \in 1 .. n + 1
        PROVE  l2[Pointer(x, t, i)] = l[Pointer(x, s, i - 1)]
    <3>1. CASE i = 1
      BY <1>3, <1>7, <2>1, <2>2, <3>1 DEF Pointer
    <3>2. CASE i # 1
      <4>1. i - 1 \in 1 .. n /\ i # 0 /\ i - 1 # 0
        BY <1>3, <3>2
      <4> QED
        BY <1>5, <2>1, <3>2, <4>1 DEF Pointer
    <3> QED
      BY <3>1, <3>2
  <2>4. ASSUME NEW i \in 0 .. n PROVE l2[Pointer(x, t, i)] = t[i + 1]
    <3>1. CASE i = 0
      BY <1>3, <1>7, <2>1, <2>2, <3>1 DEF Pointer
    <3>2. CASE i # 0
      <4>1. i \in 1 .. n + 1 /\ i - 1 \in 0 .. n - 1 /\ (i - 1) + 1 = i
            /\ i + 1 \in 1 .. n + 1 /\ i + 1 # 1 /\ (i + 1) - 1 = i
        BY <1>3, <3>2
      <4>2. t[i + 1] = s[i] /\ l[Pointer(x, s, i - 1)] = s[i]
        BY <1>3, <2>1, <4>1
      <4> QED
        BY <2>3, <4>1, <4>2
    <3> QED
      BY <3>1, <3>2
  <2>5. l2[Pointer(x, t, n + 1)] = Null
    <3>1. n + 1 \in 1 .. n + 1 /\ (n + 1) - 1 = n
      BY <1>3
    <3> QED
      BY <1>3, <2>3, <3>1
  <2>6. Leads(l2, x, t)
    <3>1. (n + 1) - 1 = n
      BY <1>3
    <3> QED
      BY <2>1, <2>4, <3>1 DEF Leads
  <2>7. Follows(l2, x, t)
    BY <2>1, <2>5, <2>6 DEF Follows
  <2> QED
    BY <1>7, <2>7 DEF t, l2
<1> QED
  BY <1>6, <1>7

(* use::set as a whole.                                                    *)
LEMMA EnterMoves ==
    ASSUME Lists3(value, link, prev), NEW u \in Use, NEW v \in Value, Enter(u, v),
           NEW x \in Value, NEW s, Follows(link, x, s)
    PROVE  Follows(link', x, IF x = v THEN <<u>> \o Lists!RemoveFirst(s, u)
                             ELSE Lists!RemoveFirst(s, u))
<1> DEFINE t == Lists!RemoveFirst(s, u)
<1>1. value \in [Use -> Value \cup {Null}]
  BY DEF Lists3, Typed
<1>2. CASE value[u] # Null
  <2> DEFINE val == [value EXCEPT ![u] = Null]
  <2>1. Lists3(val, LinkWithout(u), PrevWithout(u)) /\ Follows(LinkWithout(u), x, t)
    BY <1>2, RemoveKeepsLists, RemoveTakesOne
  <2>2. val[u] = Null
    BY <1>1
  <2>3. link' = LinkWith(LinkWithout(u), u, v)
    BY <1>2 DEF Enter
  <2> HIDE DEF val, t
  <2>4. Follows(link', x, IF x = v THEN <<u>> \o t ELSE t)
    BY <2>1, <2>2, <2>3, AddPutsInFront
  <2> QED
    BY <2>4 DEF t
<1>3. CASE value[u] = Null
  <2>1. t = s
    BY <1>3, ReleasedNotFound
  <2>2. link' = LinkWith(link, u, v)
    BY <1>3 DEF Enter
  <2>3. Follows(link', x, IF x = v THEN <<u>> \o s ELSE s)
    BY <1>3, <2>2, AddPutsInFront
  <2> QED
    BY <2>1, <2>3
<1> QED
  BY <1>2, <1>3

-----------------------------------------------------------------------------
(* The refinement. *)

Sequenced == \A v \in Value : Follows(link, v, Chain(v))

(* At the start all sequences are empty.                                   *)
LEMMA StartsEmpty == Init /\ Sequenced => Lists!Init
<1> SUFFICES ASSUME Init, Sequenced, NEW v \in Value PROVE Chain(v) = <<>>
  BY DEF Lists!Init
<1>1. Follows(link, v, <<>>)
  <2>1. <<>> \in Seq(Use) /\ Len(<<>>) = 0
    BY EmptySeq
  <2> QED
    BY <2>1 DEF Init, Follows, Leads, Pointer, Address
<1> QED
  BY <1>1, OneList DEF Sequenced

(* Every operation is one on the sequences, or none.                       *)
LEMMA StepOnSequences ==
    IInv /\ Sequenced /\ Sequenced' /\ [Next]_vars =>
        [Lists!Next]_[v \in Value |-> Chain(v)]
<1> SUFFICES ASSUME IInv, Sequenced, Sequenced', [Next]_vars
             PROVE  [Lists!Next]_[v \in Value |-> Chain(v)]
  OBVIOUS
<1> DEFINE uses == [v \in Value |-> Chain(v)]
<1>1. TypeOK /\ Lists3(value, link, prev)
  BY ListsOfInv DEF IInv
<1>2. ASSUME NEW u \in Use, NEW v \in Value, Enter(u, v) PROVE Lists!SetTo(u, v)
  <2>1. ASSUME NEW x \in Value
        PROVE  Chain(x)' = IF x = v THEN <<u>> \o Lists!RemoveFirst(Chain(x), u)
                           ELSE Lists!RemoveFirst(Chain(x), u)
    <3>1. Follows(link, x, Chain(x)) /\ Follows(link', x, Chain(x)')
      BY DEF Sequenced
    <3>2. Follows(link', x, IF x = v THEN <<u>> \o Lists!RemoveFirst(Chain(x), u)
                            ELSE Lists!RemoveFirst(Chain(x), u))
      BY <1>1, <1>2, <3>1, EnterMoves
    <3> QED
      BY <3>1, <3>2, OneList
  <2> QED
    BY <2>1 DEF Lists!SetTo
<1>3. ASSUME link' = link PROVE uses' = uses
  <2>1. ASSUME NEW x \in Value PROVE Chain(x)' = Chain(x)
    BY <1>3, OneList DEF Sequenced
  <2> QED
    BY <2>1
<1>4. ASSUME NEW u \in Use, NEW v \in Value, Set(u, v) PROVE Lists!Next
  BY <1>2, <1>4 DEF Set, Lists!Next
<1>5. ASSUME NEW u \in Use, Destroy(u) PROVE Lists!Next
  <2>1. value[u] # Null /\ link' = LinkWithout(u)
    BY <1>5 DEF Destroy, Release
  <2>2. ASSUME NEW x \in Value PROVE Chain(x)' = Lists!RemoveFirst(Chain(x), u)
    <3>1. Follows(link, x, Chain(x)) /\ Follows(link', x, Chain(x)')
      BY DEF Sequenced
    <3>2. Follows(link', x, Lists!RemoveFirst(Chain(x), u))
      BY <1>1, <2>1, <3>1, RemoveTakesOne
    <3> QED
      BY <3>1, <3>2, OneList
  <2>3. Lists!Drop(u)
    BY <2>2 DEF Lists!Drop
  <2> QED
    BY <2>3 DEF Lists!Next
<1>6. CASE ReplaceNext
  <2>1. replacing \in Value \X Value
    BY <1>1, <1>6 DEF ReplaceNext, TypeOK
  <2>2. link[replacing[1]] \in Use
    BY <1>1, <1>6, <2>1 DEF ReplaceNext, HasUses, TypeOK, Address
  <2>3. Enter(link[replacing[1]], replacing[2]) /\ replacing[2] \in Value
    BY <1>6, <2>1 DEF ReplaceNext
  <2>4. Lists!SetTo(link[replacing[1]], replacing[2])
    BY <1>2, <2>2, <2>3
  <2> QED
    BY <2>2, <2>3, <2>4 DEF Lists!Next
<1>7. CASE (\E r, w \in Value : Replace(r, w)) \/ ReplaceDone \/ UNCHANGED vars
  BY <1>3, <1>7 DEF Replace, ReplaceDone, vars
<1> QED
  BY <1>4, <1>5, <1>6, <1>7 DEF Next

(* Pointer by pointer, use::set, ~use and the loops that replace all uses  *)
(* of a result do to the lists what the passes take for granted: a use is  *)
(* first at the value it is set to, leaves the others in their order, and  *)
(* is in one list at a time.                                               *)
THEOREM RefinesSequences == Spec => ImplementsUses
<1>1. IInv => Sequenced
  BY ChainFollows DEF Sequenced
<1> QED
  BY <1>1, StartsEmpty, StepOnSequences, ListsConsistent, PTL DEF Spec, ImplementsUses, Lists!Spec
=============================================================================
