------------------------------ MODULE UseList ------------------------------
(***************************************************************************)
(* The intrusive lists of the uses of a value (node/value.cpp), pointer by *)
(* pointer.  A use is in the list of the value it refers to; the list is   *)
(* singly linked, and every use holds the address of the pointer that      *)
(* points to it: first_use_ of the value or next_ of the use in front.     *)
(* A value stands for the address of its first_use_, a use for the address *)
(* of its next_.                                                           *)
(***************************************************************************)
EXTENDS Naturals, Sequences, FiniteSets

CONSTANTS
    Use,        \* the use objects (operands of instructions)
    Value,      \* the values
    Null        \* the null pointer

ASSUME NullAssumption == Null \notin Use \cup Value
ASSUME ApartAssumption == Use \cap Value = {}
ASSUME FiniteAssumption == IsFiniteSet(Use)

VARIABLES
    value,      \* value_ of every use
    link,       \* what the pointer at an address points to: first_use_ or next_
    prev,       \* prev_ of every use, an address
    replacing   \* <<r, w>> while a pass replaces the uses of r by w, or Null

vars == <<value, link, prev, replacing>>

Address == Use \cup Value

TypeOK ==
    /\ value \in [Use -> Value \cup {Null}]
    /\ link \in [Address -> Use \cup {Null}]
    /\ prev \in [Use -> Address \cup {Null}]
    /\ replacing \in {Null} \cup (Value \X Value)

Init ==
    /\ value = [u \in Use |-> Null]
    /\ link = [a \in Address |-> Null]
    /\ prev = [u \in Use |-> Null]
    /\ replacing = Null

-----------------------------------------------------------------------------
(* remove_use_from_current_list, on a pair of pointer maps.                *)
LinkWithout(u) == [link EXCEPT ![prev[u]] = link[u]]
\* Mutant: the use behind keeps pointing to the pointer of the removed use.
PrevWithoutStale(u) == prev

PrevWithout(u) == [w \in Use |-> IF w = link[u] THEN prev[u] ELSE prev[w]]

HasUses(v) == link[v] # Null

(* ~use, and set(nullptr): the use is no longer in a list.  Its own        *)
(* pointers keep what they held.                                           *)
Release(u) ==
    /\ value[u] # Null
    /\ link' = LinkWithout(u)
    /\ prev' = PrevWithout(u)
    /\ value' = [value EXCEPT ![u] = Null]
    /\ UNCHANGED replacing

\* Mutant: inserts behind the first use as if there always were one.
LinkWithLost(l, u, v) == [l EXCEPT ![u] = Null, ![v] = u]

(* add_use_to_list: the use becomes the first of the list at address v.    *)
LinkWith(l, u, v) == [l EXCEPT ![u] = l[v], ![v] = u]
PrevWith(l, p, u, v) ==
    [w \in Use |-> IF w = u THEN v ELSE IF w = l[v] THEN u ELSE p[w]]

\* Mutant: links a use into the new list without leaving the old one.
EnterTwice(u, v) ==
    /\ link' = LinkWith(link, u, v)
    /\ prev' = PrevWith(link, prev, u, v)
    /\ value' = [value EXCEPT ![u] = v]

(* use::set to a value: out of the current list first, if any, then into   *)
(* the other; what is removed may itself be the first use of that value.   *)
Enter(u, v) ==
    LET l == IF value[u] # Null THEN LinkWithout(u) ELSE link
        p == IF value[u] # Null THEN PrevWithout(u) ELSE prev
    IN  /\ link' = LinkWith(l, u, v)
        /\ prev' = PrevWith(l, p, u, v)
        /\ value' = [value EXCEPT ![u] = v]

(* A pass or the builder sets an operand.                                  *)
Set(u, v) ==
    /\ replacing = Null
    /\ Enter(u, v)
    /\ UNCHANGED replacing

(* An instruction is erased: its operands leave their lists.               *)
Destroy(u) ==
    /\ replacing = Null
    /\ Release(u)

(* update_uses of constant propagation and its like: as long as r has uses *)
(* the first one is set to w.  A result is replaced by another value.      *)
Replace(r, w) ==
    /\ replacing = Null
    /\ r # w
    /\ replacing' = <<r, w>>
    /\ UNCHANGED <<value, link, prev>>

ReplaceNext ==
    /\ replacing # Null
    /\ HasUses(replacing[1])
    /\ Enter(link[replacing[1]], replacing[2])
    /\ UNCHANGED replacing

ReplaceDone ==
    /\ replacing # Null
    /\ ~HasUses(replacing[1])
    /\ replacing' = Null
    /\ UNCHANGED <<value, link, prev>>

Next ==
    \/ \E u \in Use, v \in Value : Set(u, v)
    \/ \E u \in Use : Destroy(u)
    \/ \E r, w \in Value : Replace(r, w)
    \/ ReplaceNext
    \/ ReplaceDone

Spec == Init /\ [][Next]_vars /\ WF_vars(ReplaceNext \/ ReplaceDone)

-----------------------------------------------------------------------------
(* The pointer at prev_ of a linked use points to that use, and that       *)
(* pointer belongs to the same list.                                       *)
BackPointers ==
    \A u \in Use : value[u] # Null =>
        /\ prev[u] \in Address
        /\ link[prev[u]] = u
        /\ prev[u] \in Value => prev[u] = value[u]
        /\ prev[u] \in Use => value[prev[u]] = value[u]

(* What is reached from a value is a linked use of that value whose prev_  *)
(* is where it was reached from: no list leads to a use that was destroyed *)
(* or that refers to another value.                                        *)
ForwardPointers ==
    /\ \A v \in Value : link[v] # Null =>
           value[link[v]] = v /\ prev[link[v]] = v
    /\ \A u \in Use : (value[u] # Null /\ link[u] # Null) =>
           value[link[u]] = value[u] /\ prev[link[u]] = u

(* The two directions together: the list of a value is well linked.        *)
WellLinked == BackPointers /\ ForwardPointers

(* has_uses, which dead code elimination and the destructor of a value     *)
(* trust, looks at one pointer: it is null exactly if no use refers to the *)
(* value.                                                                  *)
HasUsesExact == \A v \in Value : HasUses(v) <=> \E u \in Use : value[u] = v

(* Replacing the uses of a result ends, and leaves it without uses.        *)
ReplacementEnds ==
    \A r \in Value : (replacing # Null /\ replacing[1] = r)
                         ~> (replacing = Null /\ ~HasUses(r))

-----------------------------------------------------------------------------
(* The list of a value, first use first: what is found from first_use_ on, *)
(* along next_, in as many steps as there are uses.                        *)
Chain(v) ==
    LET found[n \in 0 .. Cardinality(Use)] ==
            [a \in Address |->
                IF n = 0 \/ link[a] = Null THEN <<>>
                ELSE <<link[a]>> \o found[n - 1][link[a]]]
    IN  found[Cardinality(Use)][v]

(* The lists behave as sequences to which a use is added in front and from *)
(* which it is taken wherever it is.                                       *)
Lists == INSTANCE Uses WITH uses <- [v \in Value |-> Chain(v)]
ImplementsUses == Lists!Spec
=============================================================================
