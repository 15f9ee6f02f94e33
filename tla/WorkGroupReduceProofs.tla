----------------------- MODULE WorkGroupReduceProofs -----------------------
(***************************************************************************)
(* Proofs about sums with scalar results, for any number of subgroups of   *)
(* any size, any number of sums with operands of any length, and any       *)
(* garbage in local memory.                                                *)
(*                                                                         *)
(* Sums into different results have no barrier between them, and the model *)
(* checker finds the next sum overwriting tmp while it is read, so the     *)
(* theorems are about the launches that are left: one subgroup, or sums    *)
(* that all go into one result, which insert-barrier fences.               *)
(***************************************************************************)
EXTENDS WorkGroupReduce, Lemmas

Separated(l) ==
    \/ l.tiles = 1
    \/ \A i, j \in 1 .. Len(l.sums) : l.sums[i].b = l.sums[j].b

Labels == {"fence", "accumulate", "publish", "barrier", "gather", "update", "done"}

(* The operand of sum s, and what it sums up to.                           *)
Operand(s) == launch.sums[s].A

TypeOK ==
    /\ launch \in Launches
    /\ pc \in [Subgroup -> Labels]
    /\ at \in [Subgroup -> Nat \ {0}]
    /\ partial \in [Subgroup -> Int]
    /\ acc \in Int
    /\ round \in Nat
    /\ tmp \in [Subgroup -> Int]
    /\ result \in [Result -> Int]
    /\ \A g \in Subgroup : pc[g] # "done" => at[g] \in Sums

Alone == launch.tiles = 1

Several == launch.tiles > 1 /\ \A i, j \in Sums : launch.sums[i].b = launch.sums[j].b

(* All subgroups are on their way to the barrier of one sum ...            *)
Sharing ==
    \A g \in Subgroup : at[g] = at[1] /\ pc[g] \in {"accumulate", "publish", "barrier"}

(* ... or behind it, and all but the first wait for the next one.          *)
Gathering ==
    /\ \A g \in Subgroup : g # 0 => at[g] = at[1] /\ pc[g] = Entry(at[1])
    /\ Entry(at[1]) \in {"fence", "done"}
    /\ \/ at[0] = at[1] /\ pc[0] = Entry(at[1])
       \/ at[0] + 1 = at[1] /\ pc[0] \in {"gather", "update"}

(* What the subgroups before m have to add to a sum.                       *)
Below(m, A) ==
    Total([i \in DOMAIN A |->
              IF ((i - 1) \div launch.sgs) % launch.tiles < m THEN A[i] ELSE 0])

Shared ==
    \A g \in Subgroup :
        (pc[g] \in {"publish", "barrier"} \/ (Alone /\ pc[g] = "update")) =>
            partial[g] = Share(g, Operand(at[g]))

Published ==
    \A g \in Subgroup : (pc[g] = "barrier" \/ pc[0] = "gather") => tmp[g] = Share(g, Operand(at[0]))

Gathered ==
    /\ pc[0] = "gather" => acc = Below(round * launch.sgs, Operand(at[0]))
    /\ (pc[0] = "update" /\ ~ Alone) => acc = Total(Operand(at[0]))

Unshared == pc[0] \notin {"publish", "barrier", "gather"}

-----------------------------------------------------------------------------
(* What the assumption on the launches says of the one that runs.          *)
LEMMA LaunchFacts ==
    ASSUME launch \in Launches
    PROVE  /\ launch.tiles \in Nat \ {0}
           /\ launch.sgs \in Nat \ {0}
           /\ Len(launch.sums) \in Nat
           /\ 0 \in Subgroup
           /\ \A g \in Subgroup : g \in Nat /\ g < launch.tiles
           /\ \A s \in Sums : Operand(s) \in Seq(Int) /\ launch.sums[s].b \in Result
<1>1. /\ launch.tiles \in Nat \ {0} /\ launch.sgs \in Nat \ {0}
      /\ launch.sums \in Seq([A : Seq(Int), b : Result])
  BY LaunchesAssumption
<1>2. \A s \in Sums : launch.sums[s] \in [A : Seq(Int), b : Result]
  <2> DEFINE R == [A : Seq(Int), b : Result]
  <2>1. launch.sums \in Seq(R)
    BY <1>1
  <2> HIDE DEF R
  <2>2. \A s \in Sums : launch.sums[s] \in R
    BY <2>1 DEF Sums
  <2> QED
    BY <2>2 DEF R
<1> QED
  BY <1>1, <1>2 DEF Subgroup, Operand

(* Nothing that is a matter of the launch changes.                         *)
LEMMA LaunchStays ==
    ASSUME launch' = launch
    PROVE  /\ Subgroup' = Subgroup
           /\ Sums' = Sums
           /\ \A s : Operand(s)' = Operand(s)
           /\ \A g, A : Share(g, A)' = Share(g, A)
           /\ \A m, A : Below(m, A)' = Below(m, A)
           /\ Several' = Several
           /\ Alone' = Alone
BY DEF Subgroup, Sums, Operand, Share, Below, Several, Alone

(* Where a sum begins, with a fence or without, is a matter of the         *)
(* launch.                                                                 *)
LEMMA FencesStay ==
    ASSUME launch' = launch, NEW s
    PROVE  Entry(s)' = Entry(s)
BY DEF Entry, Fenced

(* A sum into the result of the sum before it is fenced.                   *)
LEMMA ChainsAreFenced ==
    ASSUME launch \in Launches, \A i, j \in Sums : launch.sums[i].b = launch.sums[j].b,
           NEW s \in Sums, s # 1
    PROVE  Fenced(s)
<1> DEFINE Rule(f, i) == \E j \in 1 .. i - 1 : /\ launch.sums[j].b = launch.sums[i].b
                                               /\ \A x \in j + 1 .. i - 1 : ~f[x]
           Settles(f) == f = [i \in 1 .. s |-> Rule(f, i)]
           fenced == CHOOSE f : Settles(f)
           f2 == [i \in 1 .. s |-> i >= 2]
<1>1. Len(launch.sums) \in Nat /\ s \in Nat /\ s > 1 /\ 1 .. s \subseteq Sums
  BY LaunchFacts DEF Sums
<1>2. \A i \in 1 .. s : i >= 2 =>
          /\ i - 1 \in 1 .. i - 1
          /\ launch.sums[i - 1].b = launch.sums[i].b
          /\ (i - 1) + 1 .. i - 1 = {}
  <2> SUFFICES ASSUME NEW i \in 1 .. s, i >= 2
               PROVE  /\ i - 1 \in 1 .. i - 1
                      /\ launch.sums[i - 1].b = launch.sums[i].b
                      /\ (i - 1) + 1 .. i - 1 = {}
    OBVIOUS
  <2>1. i - 1 \in 1 .. i - 1 /\ i - 1 \in Sums /\ i \in Sums /\ (i - 1) + 1 .. i - 1 = {}
    BY <1>1
  <2> QED
    BY <2>1
<1>3. \A i \in 1 .. s : i >= 2 <=> Rule(f2, i)
  <2>1. \A i \in 1 .. s : i >= 2 => Rule(f2, i)
    <3> SUFFICES ASSUME NEW i \in 1 .. s, i >= 2
                 PROVE  \E j \in 1 .. i - 1 : /\ launch.sums[j].b = launch.sums[i].b
                                             /\ \A x \in j + 1 .. i - 1 : ~f2[x]
      OBVIOUS
    <3> HIDE DEF f2
    <3> USE <1>2
    <3> WITNESS i - 1 \in 1 .. i - 1
    <3> QED
      OBVIOUS
  <2>2. \A i \in 1 .. s : ~ (i >= 2) => ~ Rule(f2, i)
    OBVIOUS
  <2> QED
    BY <2>1, <2>2
<1>4. Settles(f2)
  <2>1. \A i \in 1 .. s : Rule(f2, i) \in BOOLEAN /\ (i >= 2) \in BOOLEAN
    OBVIOUS
  <2> HIDE DEF Rule
  <2>2. \A i \in 1 .. s : (i >= 2) = Rule(f2, i)
    BY <1>3, <2>1
  <2> QED
    BY <2>2
<1>5. Settles(fenced)
  <2> HIDE DEF Settles, f2
  <2> QED
    BY <1>4
<1>6. fenced[s] = Rule(fenced, s)
  <2> HIDE DEF Rule, fenced
  <2> QED
    BY <1>1, <1>5
<1>7. Fenced(s) = fenced[s]
  BY DEF Fenced
<1>8. Rule(fenced, s)
  <2> HIDE DEF fenced
  <2> SUFFICES \E j \in 1 .. s - 1 : /\ launch.sums[j].b = launch.sums[s].b
                                    /\ \A x \in j + 1 .. s - 1 : ~fenced[x]
    OBVIOUS
  <2> USE <1>1, <1>2
  <2> WITNESS s - 1 \in 1 .. s - 1
  <2> QED
    OBVIOUS
<1> QED
  BY <1>6, <1>7, <1>8

-----------------------------------------------------------------------------
(* The subgroup that adds up the element with index i.                     *)
Owner(i) == ((i - 1) \div launch.sgs) % launch.tiles

(* Every element of an operand falls to one of the subgroups.              *)
LEMMA OwnerRange ==
    ASSUME launch \in Launches, NEW i \in Nat \ {0}
    PROVE  Owner(i) \in Nat /\ Owner(i) < launch.tiles
<1>1. launch.tiles \in Nat \ {0} /\ launch.sgs \in Nat \ {0}
  BY LaunchFacts
<1>2. (i - 1) \div launch.sgs \in Nat
  BY <1>1
<1> QED
  BY <1>1, <1>2 DEF Owner

(* The shares of the subgroups before m + 1 are those of the ones before   *)
(* m and the share of m; all shares together are the sum, and there are    *)
(* none behind the last subgroup.                                          *)
LEMMA BelowStep ==
    ASSUME launch \in Launches, NEW A \in Seq(Int)
    PROVE  /\ Below(0, A) = 0
           /\ \A m \in Nat : /\ Below(m, A) \in Int
                             /\ Share(m, A) \in Int
                             /\ Below(m + 1, A) = Below(m, A) + Share(m, A)
                             /\ m >= launch.tiles => Below(m, A) = Total(A) /\ Share(m, A) = 0
<1> DEFINE n == Len(A)
           s(m) == [i \in 1 .. n |-> IF Owner(i) = m THEN A[i] ELSE 0]
           t(m) == [i \in 1 .. n |-> IF Owner(i) < m THEN A[i] ELSE 0]
<1>1. n \in Nat /\ DOMAIN A = 1 .. n /\ A \in [1 .. n -> Int]
  OBVIOUS
<1>2. \A i \in 1 .. n : A[i] \in Int /\ Owner(i) \in Nat /\ Owner(i) < launch.tiles
  BY <1>1, OwnerRange
<1>3. launch.tiles \in Nat
  BY LaunchFacts
<1>4. \A m : Share(m, A) = Total(s(m)) /\ Below(m, A) = Total(t(m))
  BY <1>1 DEF Share, Below, Owner
<1>5. \A m : s(m) \in [1 .. n -> Int] /\ t(m) \in [1 .. n -> Int]
  BY <1>2
<1> HIDE DEF n
<1>6. Below(0, A) = 0
  <2>1. t(0) \in [1 .. n -> {0}]
    BY <1>2
  <2> HIDE DEF t
  <2> QED
    BY <1>1, <1>4, <2>1, TotalOfZeros
<1>7. ASSUME NEW m \in Nat
      PROVE  /\ Below(m, A) \in Int
             /\ Share(m, A) \in Int
             /\ Below(m + 1, A) = Below(m, A) + Share(m, A)
             /\ m >= launch.tiles => Below(m, A) = Total(A) /\ Share(m, A) = 0
  <2>1. \A i \in 1 .. n : t(m + 1)[i] = t(m)[i] + s(m)[i]
    BY <1>2
  <2>2. t(m + 1) = [i \in 1 .. n |-> t(m)[i] + s(m)[i]]
    BY <2>1
  <2>3. m >= launch.tiles => t(m) = A /\ s(m) \in [1 .. n -> {0}]
    <3> SUFFICES ASSUME m >= launch.tiles PROVE t(m) = A /\ s(m) \in [1 .. n -> {0}]
      OBVIOUS
    <3>1. \A i \in 1 .. n : Owner(i) < m /\ Owner(i) # m
      BY <1>2, <1>3
    <3>2. s(m) \in [1 .. n -> {0}]
      BY <3>1
    <3>3. t(m) = [i \in 1 .. n |-> A[i]]
      BY <3>1
    <3> QED
      BY <1>1, <3>2, <3>3
  <2> HIDE DEF s, t
  <2>4. Total(t(m + 1)) = Total(t(m)) + Total(s(m))
    <3>1. t(m) \in [1 .. n -> Int] /\ s(m) \in [1 .. n -> Int]
      BY <1>5
    <3>2. Total([i \in 1 .. n |-> t(m)[i] + s(m)[i]]) = Total(t(m)) + Total(s(m))
      BY <1>1, <3>1, TotalOfSums
    <3> QED
      BY <2>2, <3>2
  <2>5. Total(t(m)) \in Int /\ Total(s(m)) \in Int
    BY <1>1, <1>5, TotalType
  <2>6. m >= launch.tiles => Total(s(m)) = 0
    BY <1>1, <2>3, TotalOfZeros
  <2> QED
    BY <1>4, <2>3, <2>4, <2>5, <2>6
<1> QED
  BY <1>6, <1>7

(* The share of a single subgroup is the sum.                              *)
LEMMA ShareOfAll ==
    ASSUME launch \in Launches, Alone, NEW A \in Seq(Int)
    PROVE  Share(0, A) = Total(A)
<1>1. Below(0 + 1, A) = Below(0, A) + Share(0, A) /\ Below(0, A) = 0 /\ Share(0, A) \in Int
  BY BelowStep, 0 \in Nat
<1>2. Below(1, A) = Total(A)
  BY BelowStep, 1 \in Nat, 1 >= 1 DEF Alone
<1> QED
  BY <1>1, <1>2

(* What one iteration over tmp adds up.                                    *)
LEMMA GatherStep ==
    ASSUME launch \in Launches, NEW A \in Seq(Int), NEW r \in Nat,
           \A h \in Subgroup : tmp[h] = Share(h, A)
    PROVE  Total([l \in 1 .. launch.sgs |->
                     LET i == r * launch.sgs + l - 1
                     IN  IF i \in Subgroup THEN tmp[i] ELSE 0])
           = Below((r + 1) * launch.sgs, A) - Below(r * launch.sgs, A)
<1> DEFINE b == r * launch.sgs
           v(l) == IF b + l - 1 \in Subgroup THEN tmp[b + l - 1] ELSE 0
           s(m) == [l \in 1 .. m |-> v(l)]
           T == {m \in Nat : Total(s(m)) = Below(b + m, A) - Below(b, A)}
<1>1. /\ launch.sgs \in Nat /\ launch.tiles \in Nat /\ b \in Nat
      /\ (r + 1) * launch.sgs = b + launch.sgs
  BY LaunchFacts
<1> HIDE DEF b
<1>2. \A l \in Nat \ {0} : v(l) = Share(b + l - 1, A) /\ v(l) \in Int
  <2> SUFFICES ASSUME NEW l \in Nat \ {0} PROVE v(l) = Share(b + l - 1, A) /\ v(l) \in Int
    OBVIOUS
  <2>1. b + l - 1 \in Nat /\ Share(b + l - 1, A) \in Int
    BY <1>1, BelowStep
  <2>2. b + l - 1 \notin Subgroup => Share(b + l - 1, A) = 0
    <3>1. b + l - 1 \notin Subgroup => b + l - 1 >= launch.tiles
      BY <1>1, <2>1 DEF Subgroup
    <3>2. \A m \in Nat : m >= launch.tiles => Share(m, A) = 0
      BY BelowStep
    <3> QED
      BY <2>1, <3>1, <3>2
  <2> QED
    BY <2>1, <2>2
<1>3. \A m \in Nat : s(m) \in [1 .. m -> Int]
  BY <1>2
<1>4. 0 \in T
  <2>1. Total(s(0)) = 0
    BY TotalOfNone
  <2>2. b + 0 = b /\ Below(b, A) \in Int
    BY <1>1, BelowStep
  <2> QED
    BY <2>1, <2>2
<1>5. ASSUME NEW m \in T, m \in 0 .. launch.sgs - 1 PROVE m + 1 \in T
  <2>1. /\ m \in Nat /\ m + 1 \in Nat \ {0} /\ b + m \in Nat
        /\ b + (m + 1) = b + m + 1 /\ b + (m + 1) - 1 = b + m
    BY <1>1
  <2>2. s(m) \in [1 .. m -> Int] /\ s(m + 1) \in [1 .. m + 1 -> Int]
    BY <1>3, <2>1
  <2>3. \A l \in 1 .. m : s(m + 1)[l] = s(m)[l]
    BY <2>1
  <2>4. s(m + 1)[m + 1] = v(m + 1)
    BY <2>1
  <2>5. v(m + 1) = Share(b + m, A)
    <3> HIDE DEF v
    <3> QED
      BY <1>2, <2>1
  <2>6. Total(s(m)) = Below(b + m, A) - Below(b, A)
    BY <1>5
  <2> HIDE DEF s, v
  <2>7. Total(s(m + 1)) = Total(s(m)) + s(m + 1)[m + 1]
    BY <2>1, <2>2, <2>3, TotalOfOneMore
  <2>8. /\ Below(b, A) \in Int /\ Below(b + m, A) \in Int /\ Share(b + m, A) \in Int
        /\ Below(b + m + 1, A) = Below(b + m, A) + Share(b + m, A)
    BY <1>1, <2>1, BelowStep
  <2>9. Total(s(m + 1)) = Below(b + (m + 1), A) - Below(b, A)
    BY <2>1, <2>4, <2>5, <2>6, <2>7, <2>8
  <2> QED
    BY <2>1, <2>9
<1>6. Total(s(launch.sgs)) = Below(b + launch.sgs, A) - Below(b, A)
  <2> HIDE DEF T
  <2>1. \A m \in 0 .. launch.sgs : m \in T
    BY <1>1, <1>4, <1>5, UpTo
  <2>2. launch.sgs \in T
    BY <1>1, <2>1
  <2> QED
    BY <2>2 DEF T
<1> QED
  BY <1>1, <1>6 DEF b

-----------------------------------------------------------------------------
(* A sum begins with a fence or with the sharing out, and behind the last  *)
(* one is the end.                                                         *)
LEMMA EntryFacts ==
    ASSUME launch \in Launches, NEW s \in Nat \ {0}
    PROVE  /\ Entry(s) \in {"done", "fence", "accumulate"}
           /\ Entry(s) # "done" => s \in Sums
BY LaunchFacts DEF Entry, Sums

(* Shares and sums are integers.                                           *)
LEMMA ShareTyped ==
    ASSUME launch \in Launches, NEW s \in Sums, NEW g \in Subgroup
    PROVE  /\ Operand(s) \in Seq(Int)
           /\ Share(g, Operand(s)) \in Int
           /\ Total(Operand(s)) \in Int
<1>1. Operand(s) \in Seq(Int) /\ g \in Nat
  BY LaunchFacts
<1>2. Operand(s) \in [1 .. Len(Operand(s)) -> Int] /\ Len(Operand(s)) \in Nat
  BY <1>1
<1>3. Share(g, Operand(s)) \in Int
  BY <1>1, BelowStep
<1>4. Total(Operand(s)) \in Int
  <2> DEFINE A == Operand(s)
             n == Len(A)
  <2>1. A \in [1 .. n -> Int] /\ n \in Nat
    BY <1>2
  <2> HIDE DEF A, n
  <2>2. Total(A) \in Int
    BY <2>1, TotalType
  <2> QED
    BY <2>2 DEF A
<1> QED
  BY <1>1, <1>3, <1>4

(* The typing holds before any subgroup has started.                       *)
LEMMA InitTyped == Init => TypeOK
<1> SUFFICES ASSUME Init PROVE TypeOK
  OBVIOUS
<1>1. launch \in Launches /\ partial \in [Subgroup -> Int] /\ result \in [Result -> Int]
  BY DEF Init
<1>2. at \in [Subgroup -> Nat \ {0}] /\ \A g \in Subgroup : at[g] = 1
  BY DEF Init
<1>3. Entry(1) \in Labels /\ (Entry(1) # "done" => 1 \in Sums)
  BY <1>1, EntryFacts, 1 \in Nat \ {0} DEF Labels
<1>4. pc \in [Subgroup -> Labels] /\ \A g \in Subgroup : pc[g] = Entry(1)
  BY <1>3 DEF Init
<1>5. tmp \in [Subgroup -> Int]
  BY GarbageAssumption DEF Init
<1>6. acc \in Int /\ round \in Nat
  BY DEF Init
<1> QED
  BY <1>1, <1>2, <1>3, <1>4, <1>5, <1>6 DEF TypeOK

(* Every operation of a subgroup keeps the typing, the barrier too.        *)
LEMMA StepTyped == TypeOK /\ [Next]_vars => TypeOK'
<1> SUFFICES ASSUME TypeOK, [Next]_vars PROVE TypeOK'
  OBVIOUS
<1>1. launch' = launch
  BY DEF Next, vars, Barrier, Run, Accumulate, Publish, Gather, Update
<1>2. Subgroup' = Subgroup /\ Sums' = Sums /\ Labels' = Labels
  BY <1>1, LaunchStays DEF Labels
<1>3. launch \in Launches /\ 0 \in Subgroup
  BY LaunchFacts DEF TypeOK
<1>4. \A s \in Nat \ {0} : Entry(s) \in Labels /\ (Entry(s) # "done" => s \in Sums)
  BY <1>3, EntryFacts DEF Labels
<1> USE <1>1, <1>2 DEF TypeOK
<1>5. CASE Barrier
  <2>1. \A g \in Subgroup : pc[g] \in {"barrier", "fence"} /\ at[g] + 1 \in Nat \ {0}
    BY <1>5 DEF Barrier
  <2>2. \A g \in Subgroup : at'[g] = IF pc[g] = "barrier" /\ g # 0 THEN at[g] + 1 ELSE at[g]
    BY <1>5 DEF Barrier
  <2>3. \A g \in Subgroup : pc'[g] = IF pc[g] = "fence" THEN "accumulate"
                                     ELSE IF g = 0 THEN "gather" ELSE Entry(at[g] + 1)
    BY <1>5 DEF Barrier
  <2>4. at' \in [Subgroup -> Nat \ {0}]
    BY <1>5, <2>1 DEF Barrier
  <2>5. pc' \in [Subgroup -> Labels]
    BY <1>4, <1>5, <2>1 DEF Barrier, Labels
  <2>6. \A g \in Subgroup : pc'[g] # "done" => at'[g] \in Sums
    BY <1>4, <2>1, <2>2, <2>3
  <2> QED
    BY <1>5, <2>4, <2>5, <2>6 DEF Barrier
<1>6. ASSUME NEW g \in Subgroup, Accumulate(g) PROVE TypeOK'
  <2>1. pc[g] = "accumulate" /\ at[g] \in Sums
    BY <1>6 DEF Accumulate
  <2>2. Share(g, launch.sums[at[g]].A) \in Int
    BY <1>3, <2>1, ShareTyped DEF Operand
  <2>3. partial' \in [Subgroup -> Int]
    BY <1>6, <2>2 DEF Accumulate
  <2>4. AfterShare(g) \in Labels
    BY DEF AfterShare, Labels
  <2> QED
    BY <1>6, <2>1, <2>3, <2>4 DEF Accumulate, Goto
<1>7. ASSUME NEW g \in Subgroup, Publish(g) PROVE TypeOK'
  BY <1>7 DEF Publish, Goto, Labels
<1>8. CASE Gather
  <2> DEFINE s == [l \in 1 .. launch.sgs |->
                      LET i == round * launch.sgs + l - 1
                      IN  IF i \in Subgroup THEN tmp[i] ELSE 0]
  <2>1. launch.sgs \in Nat
    BY <1>3, LaunchFacts
  <2>2. s \in [1 .. launch.sgs -> Int]
    OBVIOUS
  <2>3. acc' = acc + Total(s)
    BY <1>8 DEF Gather
  <2> HIDE DEF s
  <2>4. acc' \in Int
    BY <2>1, <2>2, <2>3, TotalType
  <2>5. pc' \in [Subgroup -> Labels] /\ round' \in Nat
    <3>1. round' = round + 1 /\ round \in Nat
      BY <1>8 DEF Gather
    <3>2. PICK label \in Labels : pc' = [pc EXCEPT ![0] = label]
      BY <1>8 DEF Gather, Goto, Labels
    <3>3. pc' \in [Subgroup -> Labels]
      BY <3>2
    <3>4. round' \in Nat
      BY <3>1
    <3> QED
      BY <3>3, <3>4
  <2>6. \A g \in Subgroup : pc'[g] # "done" => pc[g] # "done"
    BY <1>8 DEF Gather, Goto
  <2> QED
    BY <1>8, <2>4, <2>5, <2>6 DEF Gather
<1>9. CASE Update
  <2>1. pc[0] = "update" /\ at[0] \in Sums /\ at[0] + 1 \in Nat \ {0}
    BY <1>3, <1>9 DEF Update
  <2>2. launch.sums[at[0]].b \in Result
    BY <1>3, <2>1, LaunchFacts
  <2>3. result' \in [Result -> Int]
    <3>1. partial[0] \in Int
      BY <1>3
    <3>2. result[launch.sums[at[0]].b] + (IF launch.tiles > 1 THEN acc ELSE partial[0]) \in Int
      BY <2>2, <3>1
    <3> QED
      BY <1>9, <3>2 DEF Update
  <2>4. at' = [at EXCEPT ![0] = at[0] + 1] /\ pc' = [pc EXCEPT ![0] = Entry(at[0] + 1)]
    BY <1>9 DEF Update, Goto
  <2>5. at' \in [Subgroup -> Nat \ {0}] /\ pc' \in [Subgroup -> Labels]
    BY <1>4, <2>1, <2>4
  <2>6. \A g \in Subgroup : pc'[g] # "done" => at'[g] \in Sums
    BY <1>4, <2>1, <2>4
  <2> QED
    BY <1>9, <2>3, <2>5, <2>6 DEF Update
<1>10. CASE UNCHANGED vars
  BY <1>10 DEF vars
<1> QED
  BY <1>5, <1>6, <1>7, <1>8, <1>9, <1>10 DEF Next, Run

(* Every variable of the reduction keeps its type, whatever the launch,    *)
(* and a subgroup that is not done is at one of the sums.                  *)
THEOREM Typing == Spec => []TypeOK
BY InitTyped, StepTyped, PTL DEF Spec

-----------------------------------------------------------------------------
(* A subgroup by itself goes past no barrier of the reduction.             *)
LEMMA StepAlone ==
    ASSUME TypeOK, Alone, Unshared, [Next]_vars
    PROVE  Unshared'
<1>1. Subgroup = {0} /\ launch \in Launches
  BY DEF Subgroup, Alone, TypeOK
<1>2. at[0] + 1 \in Nat \ {0}
  BY <1>1 DEF TypeOK
<1>3. Entry(at[0] + 1) \in {"done", "fence", "accumulate"}
  BY <1>1, <1>2, EntryFacts
<1>4. CASE Barrier
  BY <1>1, <1>4 DEF Barrier, Unshared
<1>5. CASE Accumulate(0)
  BY <1>1, <1>5 DEF Accumulate, Goto, AfterShare, Unshared, Alone, TypeOK
<1>6. CASE Update
  BY <1>1, <1>3, <1>6 DEF Update, Goto, Unshared, TypeOK
<1>7. CASE UNCHANGED vars
  BY <1>7 DEF vars, Unshared
<1> QED
  BY <1>1, <1>4, <1>5, <1>6, <1>7 DEF Next, Run, Publish, Gather, Unshared

(* Where several subgroups go past the barriers together.                  *)
LEMMA EntrySeveral ==
    ASSUME launch \in Launches, Several, NEW s \in Nat \ {0}, s # 1
    PROVE  Entry(s) \in {"fence", "done"}
<1>1. CASE s \in Sums
  BY <1>1, ChainsAreFenced DEF Several, Entry
<1>2. CASE s \notin Sums
  BY <1>2, LaunchFacts DEF Entry, Sums
<1> QED
  BY <1>1, <1>2

(* All subgroups start at the first sum.                                   *)
LEMMA InitControl ==
    ASSUME Init, Several
    PROVE  Sharing \/ Gathering
<1>1. 0 \in Subgroup /\ 1 \in Subgroup /\ launch \in Launches
  BY LaunchFacts DEF Init, Several, Subgroup
<1>2. \A g \in Subgroup : at[g] = 1 /\ pc[g] = Entry(1)
  BY DEF Init
<1>3. Entry(1) \in {"done", "fence", "accumulate"}
  BY <1>1, EntryFacts, 1 \in Nat \ {0}
<1>4. CASE Entry(1) = "accumulate"
  BY <1>1, <1>2, <1>4 DEF Sharing
<1>5. CASE Entry(1) # "accumulate"
  BY <1>1, <1>2, <1>3, <1>5 DEF Gathering
<1> QED
  BY <1>4, <1>5

(* The barrier of a sum and the fence before the next one keep the         *)
(* subgroups at one sum, but for the first, which may still be gathering   *)
(* the one before.                                                         *)
LEMMA StepControl ==
    ASSUME TypeOK, Several, Sharing \/ Gathering, [Next]_vars
    PROVE  (Sharing \/ Gathering)'
<1>1. launch' = launch
  BY DEF Next, vars, Barrier, Run, Accumulate, Publish, Gather, Update
<1>2. Subgroup' = Subgroup /\ launch \in Launches /\ 0 \in Subgroup /\ 1 \in Subgroup
  BY <1>1, LaunchStays, LaunchFacts DEF TypeOK, Several, Subgroup
<1>3. \A s : Entry(s)' = Entry(s)
  BY <1>1, FencesStay
<1>4. \A g \in Subgroup : at[g] \in Nat \ {0} /\ at[g] + 1 \in Nat \ {0} /\ at[g] + 1 # 1
  BY DEF TypeOK
<1>5. \A g \in Subgroup : Entry(at[g] + 1) \in {"fence", "done"}
  BY <1>2, <1>4, EntrySeveral
<1>6. CASE Barrier
  <2>1. \A g \in Subgroup : pc[g] \in {"barrier", "fence"}
    BY <1>6 DEF Barrier
  <2>2. \A g \in Subgroup : /\ at'[g] = IF pc[g] = "barrier" /\ g # 0 THEN at[g] + 1 ELSE at[g]
                            /\ pc'[g] = IF pc[g] = "fence" THEN "accumulate"
                                        ELSE IF g = 0 THEN "gather" ELSE Entry(at[g] + 1)
    BY <1>6 DEF Barrier
  <2>3. CASE Sharing
    <3>1. \A g \in Subgroup : pc[g] = "barrier" /\ at[g] = at[1]
      BY <2>1, <2>3 DEF Sharing
    <3>2. /\ at'[1] = at[1] + 1 /\ at'[0] = at[1] /\ pc'[0] = "gather"
          /\ \A g \in Subgroup : g # 0 => at'[g] = at'[1] /\ pc'[g] = Entry(at'[1])
      BY <1>2, <2>2, <3>1
    <3>3. Gathering'
      BY <1>2, <1>3, <1>5, <3>2 DEF Gathering
    <3> QED
      BY <3>3
  <2>4. CASE Gathering
    <3>1. \A g \in Subgroup : pc[g] = "fence" /\ at[g] = at[1]
      BY <1>2, <2>1, <2>4 DEF Gathering
    <3>2. \A g \in Subgroup : at'[g] = at'[1] /\ pc'[g] = "accumulate"
      BY <1>2, <2>2, <3>1
    <3>3. Sharing'
      BY <1>2, <3>2 DEF Sharing
    <3> QED
      BY <3>3
  <2> QED
    BY <2>3, <2>4
<1>7. ASSUME NEW g \in Subgroup, Accumulate(g) PROVE (Sharing \/ Gathering)'
  <2>1. pc[g] = "accumulate" /\ pc' = [pc EXCEPT ![g] = "publish"] /\ at' = at
    BY <1>7 DEF Accumulate, Goto, AfterShare, Several
  <2>2. Sharing
    BY <1>2, <2>1 DEF Gathering
  <2>3. Sharing'
    BY <1>2, <2>1, <2>2 DEF Sharing, TypeOK
  <2> QED
    BY <2>3
<1>8. ASSUME NEW g \in Subgroup, Publish(g) PROVE (Sharing \/ Gathering)'
  <2>1. pc[g] = "publish" /\ pc' = [pc EXCEPT ![g] = "barrier"] /\ at' = at
    BY <1>8 DEF Publish, Goto
  <2>2. Sharing
    BY <1>2, <2>1 DEF Gathering
  <2>3. Sharing'
    BY <1>2, <2>1, <2>2 DEF Sharing, TypeOK
  <2> QED
    BY <2>3
<1>9. CASE Gather
  <2>1. /\ pc[0] = "gather" /\ at' = at /\ pc'[0] \in {"gather", "update"}
        /\ \A g \in Subgroup : g # 0 => pc'[g] = pc[g]
    BY <1>2, <1>9 DEF Gather, Goto, TypeOK
  <2>2. Gathering
    BY <1>2, <2>1 DEF Sharing
  <2>3. at[0] + 1 = at[1]
    BY <2>1, <2>2 DEF Gathering
  <2>4. Gathering'
    BY <1>2, <1>3, <2>1, <2>2, <2>3 DEF Gathering
  <2> QED
    BY <2>4
<1>10. CASE Update
  <2>1. pc[0] = "update"
    BY <1>10 DEF Update
  <2>2. Gathering
    BY <1>2, <2>1 DEF Sharing
  <2>3. at[0] + 1 = at[1]
    BY <2>1, <2>2 DEF Gathering
  <2>4. /\ at'[0] = at[1] /\ pc'[0] = Entry(at[1]) /\ at'[1] = at[1]
        /\ \A g \in Subgroup : g # 0 => pc'[g] = pc[g] /\ at'[g] = at[g]
    BY <1>2, <1>10, <2>3 DEF Update, Goto, TypeOK
  <2>5. Gathering'
    BY <1>2, <1>3, <2>2, <2>4 DEF Gathering
  <2> QED
    BY <2>5
<1>11. CASE UNCHANGED vars
  BY <1>2, <1>3, <1>11 DEF vars, Sharing, Gathering
<1> QED
  BY <1>6, <1>7, <1>8, <1>9, <1>10, <1>11 DEF Next, Run

(* Whoever publishes a share has nobody behind the barrier.                *)
LEMMA ControlSuffices ==
    ASSUME TypeOK, (Several /\ (Sharing \/ Gathering)) \/ Alone
    PROVE  NoDataRace
<1>1. CASE Alone
  <2>1. Subgroup = {0}
    BY <1>1 DEF Subgroup, Alone
  <2> QED
    BY <2>1 DEF NoDataRace
<1>2. CASE Several /\ Sharing
  <2> SUFFICES ASSUME NEW g \in Subgroup, NEW h \in Subgroup, g # h
               PROVE  Writes(g) \cap (Reads(h) \cup Writes(h)) = {}
    BY DEF NoDataRace
  <2>1. Writes(g) \subseteq {g} /\ Writes(h) \subseteq {h}
    BY DEF Writes
  <2>2. Reads(h) = {}
    BY <1>2 DEF Reads, Sharing
  <2> QED
    BY <2>1, <2>2
<1>3. CASE Several /\ Gathering
  <2>1. \A g \in Subgroup : pc[g] # "publish"
    BY <1>3 DEF Gathering
  <2> QED
    BY <2>1 DEF NoDataRace, Writes
<1> QED
  BY <1>1, <1>2, <1>3

-----------------------------------------------------------------------------
(* What one more sum adds to the results.                                  *)
LEMMA ExpectedStep ==
    ASSUME launch \in Launches
    PROVE  /\ \A b \in Result : Expected(1)[b] = 0
           /\ \A s \in Sums, b \in Result :
                  /\ Expected(s)[b] \in Int
                  /\ Expected(s + 1)[b] =
                         Expected(s)[b] + (IF launch.sums[s].b = b THEN Total(Operand(s)) ELSE 0)
<1> DEFINE v(b, j) == IF launch.sums[j].b = b THEN Total(launch.sums[j].A) ELSE 0
           e(b, n) == [j \in 1 .. n |-> v(b, j)]
<1>1. \A s : \A b \in Result : Expected(s)[b] = Total(e(b, s - 1))
  BY DEF Expected
<1>2. ASSUME NEW b \in Result PROVE Expected(1)[b] = 0
  <2>1. DOMAIN e(b, 1 - 1) = 1 .. 0
    OBVIOUS
  <2> HIDE DEF e
  <2> QED
    BY <1>1, <2>1, TotalOfNone
<1>3. ASSUME NEW s \in Sums, NEW b \in Result
      PROVE  /\ Expected(s)[b] \in Int
             /\ Expected(s + 1)[b] =
                    Expected(s)[b] + (IF launch.sums[s].b = b THEN Total(Operand(s)) ELSE 0)
  <2>1. /\ s \in Nat \ {0} /\ s - 1 \in Nat
        /\ (s - 1) + 1 = s /\ s + 1 - 1 = s /\ 1 .. s \subseteq Sums
    BY LaunchFacts DEF Sums
  <2>2. \A j \in 1 .. s : v(b, j) \in Int
    <3>1. \A j \in Sums : Total(launch.sums[j].A) \in Int
      BY ShareTyped, LaunchFacts DEF Operand
    <3> QED
      BY <2>1, <3>1
  <2>3. e(b, s - 1) \in [1 .. s - 1 -> Int] /\ e(b, s) \in [1 .. s - 1 + 1 -> Int]
    BY <2>1, <2>2
  <2>4. /\ \A j \in 1 .. s - 1 : e(b, s)[j] = e(b, s - 1)[j]
        /\ e(b, s)[s - 1 + 1] = v(b, s)
    BY <2>1
  <2>5. v(b, s) = IF launch.sums[s].b = b THEN Total(Operand(s)) ELSE 0
    BY DEF Operand
  <2> HIDE DEF e, v
  <2>6. Total(e(b, s)) = Total(e(b, s - 1)) + v(b, s)
    BY <2>1, <2>3, <2>4, TotalOfOneMore
  <2>7. Total(e(b, s - 1)) \in Int
    BY <2>1, <2>3, TotalType
  <2> QED
    BY <1>1, <2>1, <2>5, <2>6, <2>7
<1> QED
  BY <1>2, <1>3

Right == Shared /\ Published /\ Gathered /\ SumsInOrder

Where == (Several /\ (Sharing \/ Gathering)) \/ (Alone /\ Unshared)

(* No result has been added to at the start.                               *)
LEMMA InitRight == Init => Right
<1> SUFFICES ASSUME Init PROVE Right
  OBVIOUS
<1>1. launch \in Launches /\ 0 \in Subgroup
  BY LaunchFacts DEF Init
<1>2. \A g \in Subgroup : pc[g] = Entry(1) /\ at[g] = 1
  BY DEF Init
<1>3. Entry(1) \in {"done", "fence", "accumulate"}
  BY <1>1, EntryFacts, 1 \in Nat \ {0}
<1>4. SumsInOrder
  <2>1. result = [b \in Result |-> 0] /\ at[0] = 1
    BY <1>1, <1>2 DEF Init
  <2>2. Expected(1) = [b \in Result |-> Expected(1)[b]]
    BY DEF Expected
  <2>3. \A b \in Result : Expected(1)[b] = 0
    BY <1>1, ExpectedStep
  <2> HIDE DEF Expected
  <2> QED
    BY <2>1, <2>2, <2>3 DEF SumsInOrder
<1> QED
  BY <1>1, <1>2, <1>3, <1>4 DEF Right, Shared, Published, Gathered

(* The results stay right while the first subgroup stays at its sum.       *)
LEMMA ResultsKept ==
    ASSUME SumsInOrder, launch' = launch, result' = result, at'[0] = at[0]
    PROVE  SumsInOrder'
BY DEF SumsInOrder, Expected

(* Behind the barrier of a sum all shares of it are in tmp, none of        *)
(* another.                                                                *)
LEMMA BarrierRight ==
    ASSUME TypeOK, Where, Right, Barrier
    PROVE  Right'
<1>1. launch' = launch /\ Subgroup' = Subgroup /\ Alone' = Alone
  BY LaunchStays DEF Barrier
<1>2. /\ \A s : Operand(s)' = Operand(s)
      /\ \A g, A : Share(g, A)' = Share(g, A)
      /\ \A m, A : Below(m, A)' = Below(m, A)
  BY <1>1, LaunchStays
<1>3. 0 \in Subgroup /\ launch \in Launches /\ launch.sgs \in Nat
  BY LaunchFacts DEF TypeOK
<1>4. /\ \A g \in Subgroup : pc[g] \in {"barrier", "fence"}
      /\ \A g \in Subgroup : pc'[g] = IF pc[g] = "fence" THEN "accumulate"
                                      ELSE IF g = 0 THEN "gather" ELSE Entry(at[g] + 1)
      /\ at'[0] = at[0] /\ acc' = 0 /\ round' = 0 /\ tmp' = tmp /\ result' = result
  BY <1>3 DEF Barrier
<1>5. SumsInOrder'
  BY <1>1, <1>4, ResultsKept DEF Right
<1>6. CASE \A g \in Subgroup : pc[g] = "fence"
  <2>1. \A g \in Subgroup : pc'[g] = "accumulate"
    BY <1>4, <1>6
  <2>2. Shared' /\ Published' /\ Gathered'
    BY <1>1, <1>3, <2>1 DEF Shared, Published, Gathered
  <2> QED
    BY <1>5, <2>2 DEF Right
<1>7. CASE Several /\ \A g \in Subgroup : pc[g] = "barrier"
  <2>1. \A g \in Subgroup : Entry(at[g] + 1) \in {"fence", "done"}
    <3>1. \A g \in Subgroup : at[g] + 1 \in Nat \ {0} /\ at[g] + 1 # 1
      BY DEF TypeOK
    <3> QED
      BY <1>3, <1>7, <3>1, EntrySeveral
  <2>2. pc'[0] = "gather" /\ \A g \in Subgroup : pc'[g] \in {"gather", "fence", "done"}
    BY <1>3, <1>4, <1>7, <2>1
  <2>3. ~ Alone
    BY <1>7 DEF Several, Alone
  <2>4. Shared'
    BY <1>1, <2>2, <2>3 DEF Shared
  <2>5. Published'
    BY <1>1, <1>2, <1>4, <1>7 DEF Published, Right
  <2>6. Gathered'
    <3>1. at[0] \in Sums /\ Operand(at[0]) \in Seq(Int)
      BY <1>3, <1>7, LaunchFacts DEF TypeOK
    <3>2. 0 * launch.sgs = 0 /\ Below(0, Operand(at[0])) = 0
      <4>1. 0 * launch.sgs = 0
        BY <1>3
      <4>2. Below(0, Operand(at[0])) = 0
        BY <1>3, <3>1, BelowStep
      <4> QED
        BY <4>1, <4>2
    <3>3. acc' = Below(round' * launch'.sgs, Operand(at'[0]))
      BY <1>1, <1>4, <3>2
    <3> QED
      BY <1>2, <2>2, <3>3 DEF Gathered
  <2> QED
    BY <1>5, <2>4, <2>5, <2>6 DEF Right
<1>8. CASE Alone /\ Unshared
  <2>1. Subgroup = {0}
    BY <1>8 DEF Subgroup, Alone
  <2> QED
    BY <1>4, <1>6, <1>8, <2>1 DEF Unshared
<1>9. CASE Several /\ Sharing
  BY <1>4, <1>7, <1>9 DEF Sharing
<1>10. CASE Several /\ Gathering
  <2>1. \A g \in Subgroup : pc[g] # "barrier"
    BY <1>10 DEF Gathering
  <2> QED
    BY <1>4, <1>6, <2>1
<1> QED
  BY <1>8, <1>9, <1>10 DEF Where

(* Each subgroup adds up its own share of the operand.                     *)
LEMMA AccumulateRight ==
    ASSUME TypeOK, Where, Right, NEW g \in Subgroup, Accumulate(g)
    PROVE  Right'
<1>1. launch' = launch /\ Subgroup' = Subgroup /\ Alone' = Alone
  BY LaunchStays DEF Accumulate
<1>2. /\ \A s : Operand(s)' = Operand(s)
      /\ \A h, A : Share(h, A)' = Share(h, A)
      /\ \A m, A : Below(m, A)' = Below(m, A)
  BY <1>1, LaunchStays
<1>3. /\ pc[g] = "accumulate" /\ pc' = [pc EXCEPT ![g] = AfterShare(g)]
      /\ partial' = [partial EXCEPT ![g] = Share(g, Operand(at[g]))]
      /\ at' = at /\ acc' = acc /\ round' = round /\ tmp' = tmp /\ result' = result
  BY DEF Accumulate, Goto, Operand
<1>4. AfterShare(g) = IF Alone THEN "update" ELSE "publish"
  BY DEF AfterShare, Alone, Where, Several
<1>5. \A h \in Subgroup : /\ pc'[h] = IF h = g THEN AfterShare(g) ELSE pc[h]
                          /\ partial'[h] = IF h = g THEN Share(g, Operand(at[g])) ELSE partial[h]
  BY <1>3 DEF TypeOK
<1>6. 0 \in Subgroup
  BY LaunchFacts DEF TypeOK
<1>7. SumsInOrder'
  BY <1>1, <1>3, ResultsKept DEF Right
<1>8. Shared'
  BY <1>1, <1>2, <1>3, <1>5 DEF Shared, Right
<1>9. Published'
  BY <1>1, <1>2, <1>3, <1>4, <1>5, <1>6 DEF Published, Right
<1>10. Gathered'
  BY <1>1, <1>2, <1>3, <1>4, <1>5, <1>6 DEF Gathered, Right
<1> QED
  BY <1>7, <1>8, <1>9, <1>10 DEF Right

(* It publishes that share while nobody reads tmp.                         *)
LEMMA PublishRight ==
    ASSUME TypeOK, Where, Right, NEW g \in Subgroup, Publish(g)
    PROVE  Right'
<1>1. launch' = launch /\ Subgroup' = Subgroup /\ Alone' = Alone
  BY LaunchStays DEF Publish
<1>2. /\ \A s : Operand(s)' = Operand(s)
      /\ \A h, A : Share(h, A)' = Share(h, A)
      /\ \A m, A : Below(m, A)' = Below(m, A)
  BY <1>1, LaunchStays
<1>3. /\ pc[g] = "publish" /\ pc' = [pc EXCEPT ![g] = "barrier"]
      /\ tmp' = [tmp EXCEPT ![g] = partial[g]]
      /\ at' = at /\ acc' = acc /\ round' = round /\ partial' = partial /\ result' = result
  BY DEF Publish, Goto
<1>4. 0 \in Subgroup
  BY LaunchFacts DEF TypeOK
<1>5. Sharing
  <2>1. ~ (Alone /\ Unshared)
    BY <1>3 DEF Subgroup, Alone, Unshared
  <2>2. ~ Gathering
    BY <1>3 DEF Gathering
  <2> QED
    BY <2>1, <2>2 DEF Where
<1>6. \A h \in Subgroup : /\ pc'[h] = IF h = g THEN "barrier" ELSE pc[h]
                          /\ tmp'[h] = IF h = g THEN partial[g] ELSE tmp[h]
  BY <1>3 DEF TypeOK
<1>7. SumsInOrder'
  BY <1>1, <1>3, ResultsKept DEF Right
<1>8. Shared'
  BY <1>1, <1>2, <1>3, <1>6 DEF Shared, Right
<1>9. partial[g] = Share(g, Operand(at[0]))
  <2>1. at[g] = at[0]
    BY <1>4, <1>5 DEF Sharing
  <2> QED
    BY <1>3, <2>1 DEF Shared, Right
<1>10. Published'
  <2>1. pc'[0] # "gather"
    BY <1>4, <1>5, <1>6 DEF Sharing
  <2> QED
    BY <1>1, <1>2, <1>3, <1>6, <1>9, <2>1 DEF Published, Right
<1>11. Gathered'
  BY <1>4, <1>5, <1>6 DEF Gathered, Sharing
<1> QED
  BY <1>7, <1>8, <1>10, <1>11 DEF Right

(* A round of the first subgroup adds the next entries of tmp, up to its   *)
(* end.                                                                    *)
LEMMA GatherRight ==
    ASSUME TypeOK, Where, Right, Gather
    PROVE  Right'
<1>1. launch' = launch /\ Subgroup' = Subgroup /\ Alone' = Alone
  BY LaunchStays DEF Gather
<1>2. /\ \A s : Operand(s)' = Operand(s)
      /\ \A h, A : Share(h, A)' = Share(h, A)
      /\ \A m, A : Below(m, A)' = Below(m, A)
  BY <1>1, LaunchStays
<1>3. 0 \in Subgroup /\ launch \in Launches /\ launch.sgs \in Nat /\ launch.tiles \in Nat
  BY LaunchFacts DEF TypeOK
<1>4. /\ pc[0] = "gather"
      /\ pc' = [pc EXCEPT ![0] = IF MoreRounds(round + 1) THEN "gather" ELSE "update"]
      /\ at' = at /\ round' = round + 1 /\ tmp' = tmp /\ partial' = partial /\ result' = result
  BY DEF Gather, Goto
<1>5. ~ Alone
  BY <1>4 DEF Where, Several, Alone, Unshared
<1>6. \A h \in Subgroup :
          pc'[h] = IF h # 0 THEN pc[h]
                   ELSE IF MoreRounds(round + 1) THEN "gather" ELSE "update"
  BY <1>4 DEF TypeOK
<1>7. SumsInOrder'
  BY <1>1, <1>4, ResultsKept DEF Right
<1>8. Shared'
  BY <1>1, <1>2, <1>4, <1>5, <1>6 DEF Shared, Right
<1>9. Published'
  BY <1>1, <1>2, <1>3, <1>4, <1>6 DEF Published, Right
<1>10. at[0] \in Sums /\ Operand(at[0]) \in Seq(Int) /\ round \in Nat
  BY <1>3, <1>4, LaunchFacts DEF TypeOK
<1>11. acc' = Below((round + 1) * launch.sgs, Operand(at[0]))
  <2> DEFINE A == Operand(at[0])
             s == [l \in 1 .. launch.sgs |->
                      LET i == round * launch.sgs + l - 1
                      IN  IF i \in Subgroup THEN tmp[i] ELSE 0]
  <2>1. \A h \in Subgroup : tmp[h] = Share(h, A)
    BY <1>4 DEF Published, Right
  <2>2. Total(s) = Below((round + 1) * launch.sgs, A) - Below(round * launch.sgs, A)
    <3> HIDE DEF A
    <3> QED
      BY <1>3, <1>10, <2>1, GatherStep DEF A
  <2>3. acc' = acc + Total(s) /\ acc = Below(round * launch.sgs, A)
    BY <1>4 DEF Gather, Gathered, Right
  <2>4. round * launch.sgs \in Nat /\ (round + 1) * launch.sgs \in Nat
    BY <1>3, <1>10
  <2>5. Below(round * launch.sgs, A) \in Int /\ Below((round + 1) * launch.sgs, A) \in Int
    BY <1>3, <1>10, <2>4, BelowStep
  <2> HIDE DEF A, s
  <2>6. acc' = Below((round + 1) * launch.sgs, A)
    BY <2>2, <2>3, <2>5
  <2> QED
    BY <2>6 DEF A
<1>12. Gathered'
  <2>1. CASE MoreRounds(round + 1)
    BY <1>1, <1>2, <1>3, <1>4, <1>6, <1>11, <2>1 DEF Gathered
  <2>2. CASE ~ MoreRounds(round + 1)
    <3>1. (round + 1) * launch.sgs \in Nat /\ (round + 1) * launch.sgs >= launch.tiles
      BY <1>3, <1>10, <2>2 DEF MoreRounds
    <3>2. Below((round + 1) * launch.sgs, Operand(at[0])) = Total(Operand(at[0]))
      BY <1>3, <1>10, <3>1, BelowStep
    <3> QED
      BY <1>1, <1>2, <1>3, <1>4, <1>6, <1>11, <2>2, <3>2 DEF Gathered
  <2> QED
    BY <2>1, <2>2
<1> QED
  BY <1>7, <1>8, <1>9, <1>12 DEF Right

(* The first subgroup adds the sum of the operand to the result of its     *)
(* sum.                                                                    *)
LEMMA UpdateRight ==
    ASSUME TypeOK, Where, Right, Update
    PROVE  Right'
<1>1. launch' = launch /\ Subgroup' = Subgroup /\ Alone' = Alone
  BY LaunchStays DEF Update
<1>2. \A s : Operand(s)' = Operand(s)
  BY <1>1, LaunchStays
<1>3. 0 \in Subgroup /\ launch \in Launches
  BY LaunchFacts DEF TypeOK
<1>4. /\ pc[0] = "update" /\ pc' = [pc EXCEPT ![0] = Entry(at[0] + 1)]
      /\ at' = [at EXCEPT ![0] = at[0] + 1] /\ tmp' = tmp /\ partial' = partial
      /\ result' = [result EXCEPT ![launch.sums[at[0]].b] =
                       @ + (IF launch.tiles > 1 THEN acc ELSE partial[0])]
  BY DEF Update, Goto
<1>5. at[0] \in Sums /\ at[0] \in Nat \ {0} /\ at[0] + 1 \in Nat \ {0}
  BY <1>3, <1>4 DEF TypeOK
<1>6. Entry(at[0] + 1) \in {"done", "fence", "accumulate"}
  BY <1>3, <1>5, EntryFacts
<1>7. \A g \in Subgroup : /\ pc'[g] = IF g = 0 THEN Entry(at[0] + 1) ELSE pc[g]
                          /\ at'[g] = IF g = 0 THEN at[0] + 1 ELSE at[g]
  BY <1>4 DEF TypeOK
<1>8. \A g \in Subgroup : /\ pc[g] \notin {"publish", "barrier"}
                          /\ pc'[g] \notin {"publish", "barrier"}
  <2>1. CASE Alone
    BY <1>4, <1>6, <1>7, <2>1 DEF Alone, Subgroup
  <2>2. CASE Several /\ Gathering
    BY <1>4, <1>6, <1>7, <2>2 DEF Gathering
  <2>3. CASE Several /\ Sharing
    BY <1>3, <1>4, <2>3 DEF Sharing
  <2> QED
    BY <2>1, <2>2, <2>3 DEF Where
<1>9. pc'[0] \notin {"gather", "update"}
  BY <1>3, <1>6, <1>7
<1>10. Shared'
  <2>1. Alone => \A g \in Subgroup : g = 0
    BY DEF Alone, Subgroup
  <2> QED
    BY <1>1, <1>8, <1>9, <2>1 DEF Shared
<1>11. Published' /\ Gathered'
  BY <1>1, <1>8, <1>9 DEF Published, Gathered
<1>12. (IF launch.tiles > 1 THEN acc ELSE partial[0]) = Total(Operand(at[0]))
  <2>1. CASE Alone
    <3>1. partial[0] = Share(0, Operand(at[0]))
      BY <1>3, <1>4, <2>1 DEF Shared, Right
    <3>2. Operand(at[0]) \in Seq(Int)
      BY <1>3, <1>5, LaunchFacts
    <3>3. ~ (launch.tiles > 1)
      BY <2>1 DEF Alone
    <3> QED
      BY <1>3, <2>1, <3>1, <3>2, <3>3, ShareOfAll
  <2>2. CASE Several
    <3>1. ~ Alone /\ launch.tiles > 1
      BY <2>2 DEF Several, Alone
    <3> QED
      BY <1>4, <3>1 DEF Gathered, Right
  <2> QED
    BY <2>1, <2>2 DEF Where
<1>13. SumsInOrder'
  <2> DEFINE s == at[0]
             v(b) == IF launch.sums[s].b = b THEN Total(Operand(s)) ELSE 0
  <2>1. \A b \in Result : Expected(s)[b] \in Int /\ Expected(s + 1)[b] = Expected(s)[b] + v(b)
    BY <1>3, <1>5, ExpectedStep
  <2>2. \A b \in Result : result'[b] = IF launch.sums[s].b = b
                                       THEN result[b] + Total(Operand(s)) ELSE result[b]
    BY <1>4, <1>12 DEF TypeOK
  <2>3. result = Expected(s)
    BY DEF SumsInOrder, Right
  <2>4. \A b \in Result : result'[b] = Expected(s + 1)[b]
    BY <2>1, <2>2, <2>3
  <2>5. result' = [b \in Result |-> result'[b]]
    BY <1>4 DEF TypeOK
  <2>6. Expected(s + 1) = [b \in Result |-> Expected(s + 1)[b]]
    BY DEF Expected
  <2>7. result' = Expected(s + 1)
    BY <2>4, <2>5, <2>6
  <2>8. at'[0] = s + 1
    BY <1>3, <1>7
  <2> QED
    BY <1>1, <2>7, <2>8 DEF SumsInOrder, Expected
<1> QED
  BY <1>10, <1>11, <1>13 DEF Right

-----------------------------------------------------------------------------
SInv == TypeOK /\ Where /\ Right

(* A separated launch has one subgroup, or one result for all of its       *)
(* sums.                                                                   *)
LEMMA SeparatedCases ==
    ASSUME launch \in Launches, \A l \in Launches : Separated(l)
    PROVE  Several \/ Alone
<1>1. launch.tiles \in Nat \ {0} /\ Separated(launch)
  BY LaunchFacts
<1> QED
  BY <1>1 DEF Separated, Several, Alone, Sums

(* The barriers, tmp and the results are as the invariant says in every    *)
(* state of a separated launch.                                            *)
LEMMA Invariance ==
    ASSUME \A l \in Launches : Separated(l)
    PROVE  Spec => []SInv
<1>1. Init => SInv
  <2> SUFFICES ASSUME Init PROVE SInv
    OBVIOUS
  <2>1. TypeOK /\ Right
    BY InitTyped, InitRight
  <2>2. CASE Several
    <3>1. Sharing \/ Gathering
      BY <2>2, InitControl
    <3> QED
      BY <2>1, <2>2, <3>1 DEF Where, SInv
  <2>3. CASE Alone
    <3>1. 0 \in Subgroup /\ pc[0] = Entry(1)
      BY LaunchFacts DEF Init
    <3>2. Entry(1) \in {"done", "fence", "accumulate"}
      BY EntryFacts, 1 \in Nat \ {0} DEF Init
    <3> QED
      BY <2>1, <2>3, <3>1, <3>2 DEF Where, Unshared, SInv
  <2> QED
    BY <2>1, <2>2, <2>3, SeparatedCases DEF TypeOK
<1>2. SInv /\ [Next]_vars => SInv'
  <2> SUFFICES ASSUME SInv, [Next]_vars PROVE SInv'
    OBVIOUS
  <2>1. TypeOK /\ Where /\ Right /\ TypeOK'
    BY StepTyped DEF SInv
  <2>2. launch' = launch
    BY DEF Next, vars, Barrier, Run, Accumulate, Publish, Gather, Update
  <2>3. (Several' <=> Several) /\ (Alone' <=> Alone)
    BY <2>2 DEF Several, Alone, Sums
  <2>4. Where'
    <3>1. CASE Several /\ (Sharing \/ Gathering)
      <4>1. (Sharing \/ Gathering)'
        BY <2>1, <3>1, StepControl
      <4> QED
        BY <2>3, <3>1, <4>1 DEF Where
    <3>2. CASE Alone /\ Unshared
      <4>1. Unshared'
        BY <2>1, <3>2, StepAlone
      <4> QED
        BY <2>3, <3>2, <4>1 DEF Where
    <3> QED
      BY <2>1, <3>1, <3>2 DEF Where
  <2>5. Right'
    <3>1. CASE UNCHANGED vars
      BY <2>1, <3>1
      DEF vars, Right, Shared, Published, Gathered, SumsInOrder, Expected, Subgroup,
          Alone, Operand, Share, Below
    <3> QED
      BY <2>1, <3>1, BarrierRight, AccumulateRight, PublishRight, GatherRight, UpdateRight
      DEF Next, Run
  <2> QED
    BY <2>1, <2>4, <2>5 DEF SInv
<1> QED
  BY <1>1, <1>2, PTL DEF Spec

(* No subgroup writes an element of tmp while another one accesses it: the *)
(* one barrier of the reduction and the fence that insert-barrier puts in  *)
(* front of the next sum keep the writers of two sums apart.               *)
THEOREM FencesSeparate ==
    ASSUME \A l \in Launches : Separated(l)
    PROVE  Spec => []NoDataRace
<1>1. SInv => NoDataRace
  BY ControlSuffices DEF SInv, Where
<1> QED
  BY <1>1, Invariance, PTL

(* At every moment the result holds the sums of the operands that subgroup *)
(* 0 is through with, whatever the sizes of subgroup, work-group and       *)
(* operands, also when subgroups go through the loop over tmp in several   *)
(* iterations or have nothing to add.                                      *)
THEOREM SumsAddUp ==
    ASSUME \A l \in Launches : Separated(l)
    PROVE  Spec => []SumsInOrder
<1>1. SInv => SumsInOrder
  BY DEF SInv, Right
<1> QED
  BY <1>1, Invariance, PTL
=============================================================================
