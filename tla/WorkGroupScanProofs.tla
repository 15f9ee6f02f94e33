------------------------ MODULE WorkGroupScanProofs ------------------------
(***************************************************************************)
(* Proofs about the work-group scan, for any number of subgroups of any    *)
(* size, any operand of integers and any garbage in local memory.          *)
(*                                                                         *)
(* The model checker refutes the cumulative sum where several subgroups    *)
(* iterate, so the theorems are about the launches that are left: a single *)
(* subgroup, or an operand no longer than the work-group is wide.          *)
(***************************************************************************)
EXTENDS WorkGroupScan, Lemmas

(* The sum of the first n elements, zeros behind the end of the operand.   *)
Prefix(n) == Total([j \in 1 .. n |-> Element(j - 1)])

(* The index at which the share of a subgroup begins.                      *)
Offset(g) == g * launch.sgs

(* The operand fits the work-group, or there is one subgroup.              *)
Fits(l) == l.tiles = 1 \/ Len(l.A) <= l.tiles * l.sgs

(* The three stretches of the loop body that the two barriers cut.         *)
Before == {"load", "publish", "barrier1"}
Between == {"addPrefix", "publishSum", "barrier2"}
Behind == {"update", "done"}

-----------------------------------------------------------------------------
TypeOK ==
    /\ launch \in Launches
    /\ pc \in [Subgroup -> Before \cup Between \cup Behind]
    /\ base \in [Subgroup -> Nat]
    /\ scan \in [Subgroup -> [Lane -> Int]]
    /\ k \in [Subgroup -> Nat]
    /\ prefix \in [Subgroup -> Int]
    /\ tmp \in [Subgroup -> Int]
    /\ B \in [1 .. Shape0 -> Int]
    /\ \A g \in Subgroup : pc[g] = "addPrefix" => k[g] < g

(* What the assumption on the launches says of the one that runs.          *)
LEMMA LaunchFacts ==
    ASSUME launch \in Launches
    PROVE  /\ launch.tiles \in Nat \ {0}
           /\ launch.sgs \in Nat \ {0}
           /\ Shape0 \in Nat
           /\ launch.A \in [1 .. Shape0 -> Int]
           /\ Step \in Nat \ {0}
           /\ LastTile \in Subgroup
           /\ LastLane \in Lane
           /\ \A i \in Nat : Element(i) \in Int
<1>1. launch.tiles \in Nat \ {0} /\ launch.sgs \in Nat \ {0} /\ launch.A \in Seq(Int)
  BY LaunchesAssumption
<1>2. Shape0 \in Nat /\ launch.A \in [1 .. Shape0 -> Int]
  BY <1>1 DEF Shape0
<1>3. Step \in Nat \ {0}
  BY <1>1 DEF Step
<1>4. \A i \in Nat : Element(i) \in Int
  BY <1>2 DEF Element
<1> QED
  BY <1>1, <1>2, <1>3, <1>4, SMTT(60) DEF LastTile, LastLane, Subgroup, Lane

(* Nothing that is a matter of the launch changes.                         *)
LEMMA LaunchStays ==
    ASSUME launch' = launch
    PROVE  /\ Subgroup' = Subgroup
           /\ Lane' = Lane
           /\ LastTile' = LastTile
           /\ Shape0' = Shape0
           /\ Step' = Step
           /\ TripCount' = TripCount
           /\ \A i : Element(i)' = Element(i)
           /\ \A n : Prefix(n)' = Prefix(n)
           /\ \A g : Offset(g)' = Offset(g)
BY DEF Subgroup, Lane, LastTile, Shape0, Step, TripCount, Element, Prefix, Offset

(* The scan of a subgroup gives every lane an integer.                     *)
LEMMA SubgroupScanType ==
    ASSUME launch \in Launches, NEW b \in Nat
    PROVE  SubgroupScan(b) \in [Lane -> Int]
<1> SUFFICES ASSUME NEW l \in Lane
             PROVE  Total([j \in 1 .. l + 1 |-> Element(b + j - 1)]) \in Int
  BY DEF SubgroupScan
<1> DEFINE s == [j \in 1 .. l + 1 |-> Element(b + j - 1)]
<1>1. l \in Nat /\ l + 1 \in Nat
  BY LaunchFacts DEF Lane
<1>2. \A j \in 1 .. l + 1 : Element(b + j - 1) \in Int
  BY <1>1, LaunchFacts
<1>3. s \in [1 .. l + 1 -> Int]
  BY <1>2
<1> HIDE DEF s
<1>4. Total(s) \in Int
  BY <1>1, <1>3, TotalType
<1> QED
  BY <1>4 DEF s

(* The typing holds before any subgroup has started.                       *)
LEMMA InitTyped == Init => TypeOK
<1> SUFFICES ASSUME Init PROVE TypeOK
  OBVIOUS
<1>1. base \in [Subgroup -> Nat]
  <2>1. launch.sgs \in Nat /\ \A g \in Subgroup : g \in Nat
    BY LaunchFacts DEF Init, Subgroup
  <2>2. \A g \in Subgroup : g * launch.sgs \in Nat
    BY <2>1
  <2> QED
    BY <2>2 DEF Init
<1>2. pc \in [Subgroup -> {"load", "done"}]
  BY DEF Init, AtLoop
<1>3. tmp \in [Subgroup -> Int]
  BY GarbageAssumption DEF Init
<1>4. scan \in [Subgroup -> [Lane -> Int]] /\ B \in [1 .. Shape0 -> Int]
  BY DEF Init
<1>5. k \in [Subgroup -> Nat] /\ prefix \in [Subgroup -> Int] /\ launch \in Launches
  BY DEF Init
<1> QED
  BY <1>1, <1>2, <1>3, <1>4, <1>5 DEF TypeOK, Before, Between, Behind

(* Every operation of a subgroup keeps the typing, the barrier too.        *)
LEMMA StepTyped == TypeOK /\ [Next]_vars => TypeOK'
<1> SUFFICES ASSUME TypeOK, [Next]_vars PROVE TypeOK'
  OBVIOUS
<1>1. launch' = launch
  BY DEF Next, vars, Barrier, Run, Load, Publish, AddPrefix, PublishSum, Update
<1>a. Subgroup' = Subgroup /\ Lane' = Lane /\ Shape0' = Shape0
  BY <1>1, LaunchStays
<1>b. /\ Step \in Nat
      /\ LastTile \in Subgroup
      /\ LastLane \in Lane
      /\ \A g \in Subgroup : g \in Nat
  BY LaunchFacts DEF TypeOK, Subgroup
<1> USE <1>1, <1>a, <1>b DEF TypeOK
<1>2. CASE Barrier
  <2>1. \A g \in Subgroup : AfterBarrier(g) \in Before \cup Between \cup Behind
    BY DEF AfterBarrier, AfterPrefix, Before, Between, Behind
  <2>2. \A g \in Subgroup : AfterBarrier(g) = "addPrefix" => 0 < g
    BY DEF AfterBarrier, AfterPrefix, Subgroup
  <2> QED
    BY <1>2, <2>1, <2>2 DEF Barrier
<1>3. ASSUME NEW g \in Subgroup, Load(g) PROVE TypeOK'
  <2>1. SubgroupScan(base[g]) \in [Lane -> Int]
    BY SubgroupScanType
  <2> QED
    BY <1>3, <2>1 DEF Load, Goto, Before, Between, Behind
<1>4. ASSUME NEW g \in Subgroup, Publish(g) PROVE TypeOK'
  BY <1>4 DEF Publish, Goto, Before, Between, Behind
<1>5. ASSUME NEW g \in Subgroup, AddPrefix(g) PROVE TypeOK'
  <2>1. k[g] \in Subgroup /\ k[g] \in Nat /\ g \in Nat
    <3>1. k[g] \in Nat /\ k[g] < g /\ g \in 0 .. launch.tiles - 1 /\ launch.tiles \in Nat
      BY <1>5, LaunchFacts DEF AddPrefix, Subgroup
    <3> QED
      BY <3>1 DEF Subgroup
  <2>2. tmp[k[g]] \in Int
    BY <2>1
  <2>3. scan' \in [Subgroup -> [Lane -> Int]]
    <3> DEFINE x == tmp[k[g]]
    <3>a. scan[g] \in [Lane -> Int] /\ x \in Int
      BY <2>2
    <3> HIDE DEF x
    <3>b. \A l \in Lane : scan[g][l] + x \in Int
      BY <3>a
    <3>1. [l \in Lane |-> scan[g][l] + tmp[k[g]]] \in [Lane -> Int]
      BY <3>b DEF x
    <3>2. scan' = [scan EXCEPT ![g] = [l \in Lane |-> scan[g][l] + tmp[k[g]]]]
      BY <1>5 DEF AddPrefix
    <3> QED
      BY <3>1, <3>2
  <2>4. k' \in [Subgroup -> Nat]
    BY <1>5 DEF AddPrefix
  <2>5. pc' \in [Subgroup -> Before \cup Between \cup Behind]
    BY <1>5 DEF AddPrefix, Goto, AfterPrefix, Before, Between, Behind
  <2>6. \A h \in Subgroup : pc'[h] = "addPrefix" => k'[h] < h
    BY <1>5, <2>1 DEF AddPrefix, Goto, AfterPrefix, MorePrefix
  <2> QED
    BY <1>5, <2>3, <2>4, <2>5, <2>6 DEF AddPrefix
<1>6. ASSUME NEW g \in Subgroup, PublishSum(g) PROVE TypeOK'
  BY <1>6 DEF PublishSum, Goto, Before, Between, Behind
<1>7. ASSUME NEW g \in Subgroup, Update(g) PROVE TypeOK'
  <2>1. Sum(g) \in Int
    BY DEF Sum
  <2>2. prefix' \in [Subgroup -> Int]
    BY <1>7, <2>1 DEF Update
  <2>3. \A i \in 1 .. Shape0 : i - 1 - base[g] \in Lane =>
            B[i] + prefix[g] + scan[g][i - 1 - base[g]] \in Int
    <3>1. prefix[g] \in Int /\ scan[g] \in [Lane -> Int] /\ \A i \in 1 .. Shape0 : B[i] \in Int
      OBVIOUS
    <3>2. ASSUME NEW i \in 1 .. Shape0, i - 1 - base[g] \in Lane
          PROVE  B[i] + prefix[g] + scan[g][i - 1 - base[g]] \in Int
      <4>1. B[i] \in Int /\ scan[g][i - 1 - base[g]] \in Int
        BY <3>1, <3>2
      <4> QED
        BY <3>1, <4>1, SMTT(60)
    <3> QED
      BY <3>2
  <2>4. B' \in [1 .. Shape0 -> Int]
    BY <1>7, <2>3 DEF Update
  <2>5. base' \in [Subgroup -> Nat]
    <3>1. base[g] \in Nat /\ Step \in Nat
      OBVIOUS
    <3>2. base[g] + Step \in Nat
      BY <3>1
    <3> QED
      BY <1>7, <3>2 DEF Update
  <2>6. pc' \in [Subgroup -> Before \cup Between \cup Behind]
    BY <1>7 DEF Update, Goto, AtLoop, Before, Between, Behind
  <2>7. \A h \in Subgroup : pc'[h] = "addPrefix" => pc[h] = "addPrefix"
    BY <1>7 DEF Update, Goto, AtLoop
  <2> QED
    BY <1>7, <2>2, <2>4, <2>5, <2>6, <2>7 DEF Update
<1>8. CASE UNCHANGED vars
  BY <1>8 DEF vars
<1> QED
  BY <1>2, <1>3, <1>4, <1>5, <1>6, <1>7, <1>8 DEF Next, Run

(* Every variable of the scan keeps its type, whatever the launch, and a   *)
(* subgroup that adds prefixes reads the sum of a subgroup before it,      *)
(* never its own or one behind the end of tmp.                             *)
THEOREM Typing == Spec => []TypeOK
BY InitTyped, StepTyped, PTL DEF Spec

-----------------------------------------------------------------------------
(* The work items of a work-group divide its indices among themselves.     *)
LEMMA Apart ==
    ASSUME NEW s \in Nat \ {0}, NEW g \in Nat, NEW h \in Nat, g < h
    PROVE  g * s + s <= h * s
<1>1. PICK d \in Nat : h = g + 1 + d
  <2>1. h - g - 1 \in Nat /\ h = g + 1 + (h - g - 1)
    OBVIOUS
  <2> QED
    BY <2>1
<1>2. h * s = g * s + s + d * s
  BY <1>1
<1>3. d * s \in Nat /\ g * s \in Nat
  OBVIOUS
<1> QED
  BY <1>2, <1>3

(* Every index of the work-group is that of a lane of some subgroup.       *)
LEMMA OwnerExists ==
    ASSUME NEW s \in Nat \ {0}, NEW t \in Nat, NEW i \in Nat, i < t * s
    PROVE  \E g \in 0 .. t - 1, l \in 0 .. s - 1 : i = g * s + l
<1> DEFINE T == {m \in Nat : \A j \in Nat : j < m * s =>
                      \E g \in 0 .. m - 1, l \in 0 .. s - 1 : j = g * s + l}
<1>1. 0 \in T
  <2>1. \A j \in Nat : ~ (j < 0 * s)
    OBVIOUS
  <2> QED
    BY <2>1
<1>2. ASSUME NEW m \in T, m \in 0 .. t - 1 PROVE m + 1 \in T
  <2> SUFFICES ASSUME NEW j \in Nat, j < (m + 1) * s 
                PROVE  \E g \in 0 .. m + 1 - 1, l \in 0 .. s - 1 : j = g * s + l
    BY <1>2
  <2>1. CASE j < m * s
    <3>1. PICK g \in 0 .. m - 1, l \in 0 .. s - 1 : j = g * s + l
      BY <2>1
    <3>2. g \in 0 .. m + 1 - 1
      OBVIOUS
    <3> WITNESS g \in 0 .. m + 1 - 1, l \in 0 .. s - 1
    <3> QED
      BY <3>1
  <2>2. CASE ~ (j < m * s)
    <3>1. (m + 1) * s = m * s + s /\ m * s \in Nat
      OBVIOUS
    <3>2. j - m * s \in 0 .. s - 1 /\ j = m * s + (j - m * s)
      BY <2>2, <3>1
    <3> USE <3>2
    <3> WITNESS m \in 0 .. m + 1 - 1, j - m * s \in 0 .. s - 1
    <3> QED
      OBVIOUS
  <2> QED
    BY <2>1, <2>2
<1>3. t \in T
  <2> HIDE DEF T
  <2>1. \A m \in 0 .. t : m \in T
    BY <1>1, <1>2, UpTo
  <2> QED
    BY <2>1
<1> QED
  BY <1>3

-----------------------------------------------------------------------------
(* The prefix sums begin with 0, and each adds one element to the one      *)
(* before it.                                                              *)
LEMMA PrefixStep ==
    ASSUME launch \in Launches
    PROVE  /\ Prefix(0) = 0
           /\ \A n \in Nat : /\ Prefix(n) \in Int
                             /\ Prefix(n + 1) = Prefix(n) + Element(n)
<1>1. Prefix(0) = 0
  BY TotalOfNone DEF Prefix
<1>2. ASSUME NEW n \in Nat
      PROVE  Prefix(n) \in Int /\ Prefix(n + 1) = Prefix(n) + Element(n)
  <2> DEFINE s == [j \in 1 .. n |-> Element(j - 1)]
             t == [j \in 1 .. n + 1 |-> Element(j - 1)]
  <2>1. \A j \in 1 .. n + 1 : Element(j - 1) \in Int
    BY LaunchFacts
  <2>2. s \in [1 .. n -> Int] /\ t \in [1 .. n + 1 -> Int]
    BY <2>1
  <2>3. t[n + 1] = Element(n) /\ \A j \in 1 .. n : t[j] = s[j]
    OBVIOUS
  <2>4. Prefix(n) = Total(s) /\ Prefix(n + 1) = Total(t)
    BY DEF Prefix
  <2> HIDE DEF s, t
  <2>5. Total(s) \in Int
    BY <2>2, TotalType
  <2>6. Total(t) = Total(s) + t[n + 1]
    BY <2>2, <2>3, TotalOfOneMore
  <2> QED
    BY <2>3, <2>4, <2>5, <2>6
<1> QED
  BY <1>1, <1>2

(* What lies between two indices is the difference of two prefix sums.     *)
LEMMA SumFrom ==
    ASSUME launch \in Launches, NEW b \in Nat, NEW n \in Nat
    PROVE  Total([j \in 1 .. n |-> Element(b + j - 1)]) = Prefix(b + n) - Prefix(b)
<1> DEFINE s(m) == [j \in 1 .. m |-> Element(b + j - 1)]
           T == {m \in 0 .. n : Total(s(m)) = Prefix(b + m) - Prefix(b)}
<1>1. 0 \in T
  <2>1. Total(s(0)) = 0
    BY TotalOfNone
  <2>2. Prefix(b + 0) - Prefix(b) = 0
    BY PrefixStep
  <2> QED
    BY <2>1, <2>2
<1>2. ASSUME NEW m \in T, m \in 0 .. n - 1 PROVE m + 1 \in T
  <2>1. m \in Nat /\ m + 1 \in 0 .. n /\ b + m \in Nat /\ b + (m + 1) = b + m + 1
    BY <1>2
  <2>2. Total(s(m)) = Prefix(b + m) - Prefix(b)
    BY <1>2
  <2>3. \A j \in 1 .. m + 1 : Element(b + j - 1) \in Int
    BY <2>1, LaunchFacts
  <2>4. s(m) \in [1 .. m -> Int] /\ s(m + 1) \in [1 .. m + 1 -> Int]
    <3>1. s(m + 1) \in [1 .. m + 1 -> Int]
      BY <2>3
    <3>2. \A j \in 1 .. m : Element(b + j - 1) \in Int
      BY <2>1, <2>3
    <3>3. s(m) \in [1 .. m -> Int]
      BY <3>2
    <3> QED
      BY <3>1, <3>3
  <2>5. \A j \in 1 .. m : s(m + 1)[j] = s(m)[j]
    BY <2>1
  <2>6. s(m + 1)[m + 1] = Element(b + m)
    BY <2>1
  <2> HIDE DEF s
  <2>7. Total(s(m + 1)) = Total(s(m)) + s(m + 1)[m + 1]
    BY <2>1, <2>4, <2>5, TotalOfOneMore
  <2>8. /\ Prefix(b) \in Int /\ Prefix(b + m) \in Int
        /\ Prefix(b + m + 1) = Prefix(b + m) + Element(b + m)
        /\ Element(b + m) \in Int
    BY <2>1, PrefixStep, LaunchFacts
  <2>9. Total(s(m + 1)) = Prefix(b + (m + 1)) - Prefix(b)
    BY <2>1, <2>2, <2>6, <2>7, <2>8
  <2> QED
    BY <2>1, <2>9
<1>3. n \in T
  <2> HIDE DEF T
  <2> QED
    BY <1>1, <1>2, UpTo
<1> QED
  BY <1>3

(* What the work items of a subgroup have after the scan in the subgroup.  *)
LEMMA SubgroupScanValue ==
    ASSUME launch \in Launches, NEW b \in Nat, NEW l \in Lane
    PROVE  SubgroupScan(b)[l] = Prefix(b + l + 1) - Prefix(b)
<1>1. l \in Nat /\ l + 1 \in Nat /\ b + (l + 1) = b + l + 1
  <2>1. launch.sgs \in Nat
    BY LaunchFacts
  <2> QED
    BY <2>1 DEF Lane
<1>2. SubgroupScan(b)[l] = Total([j \in 1 .. l + 1 |-> Element(b + j - 1)])
  BY DEF SubgroupScan
<1> QED
  BY <1>1, <1>2, SumFrom

(* The sum up to an element of the operand.                                *)
LEMMA PrefixIsTotal ==
    ASSUME launch \in Launches, NEW j \in 1 .. Shape0
    PROVE  Prefix(j) = Total(SubSeq(launch.A, 1, j))
<1>1. Shape0 \in Nat /\ launch.A \in [1 .. Shape0 -> Int]
  BY LaunchFacts
<1>2. SubSeq(launch.A, 1, j) = [i \in 1 .. j |-> launch.A[i]]
  BY <1>1
<1>3. \A i \in 1 .. j : Element(i - 1) = launch.A[i]
  BY <1>1 DEF Element
<1>4. [i \in 1 .. j |-> Element(i - 1)] = [i \in 1 .. j |-> launch.A[i]]
  BY <1>3
<1> QED
  BY <1>2, <1>4 DEF Prefix

-----------------------------------------------------------------------------
(* Several subgroups: where they are.  All of them are in one stretch of   *)
(* the loop body, and they run it once.                                    *)
Alone == launch.tiles = 1

Several == launch.tiles > 1 /\ Shape0 <= launch.tiles * launch.sgs

Together ==
    \/ \A g \in Subgroup : pc[g] \in Before
    \/ \A g \in Subgroup : pc[g] \in Between
    \/ \A g \in Subgroup : pc[g] \in Behind

LastPublishes == \A g \in Subgroup : pc[g] = "publishSum" => g = LastTile

OnceThrough == \A g \in Subgroup : pc[g] # "done" => base[g] = Offset(g)

Control == Together /\ LastPublishes /\ OnceThrough

(* Where the operand fits the work-group, every subgroup goes through the  *)
(* loop once.                                                              *)
LEMMA OneTrip ==
    ASSUME launch \in Launches, Several, NEW g \in Subgroup
    PROVE  AtLoop(Offset(g)) = "load" /\ AtLoop(Offset(g) + Step) = "done"
<1>1. /\ launch.tiles \in Nat \ {0, 1}
      /\ launch.sgs \in Nat \ {0}
      /\ Shape0 \in Nat
      /\ g \in Nat /\ g < launch.tiles
  BY LaunchFacts, SMTT(60) DEF Several, Subgroup
<1>2. Step \in Nat \ {0, 1} /\ Shape0 <= Step
  <2>1. launch.sgs * launch.tiles = launch.tiles * launch.sgs /\ launch.sgs * launch.tiles \in Nat
    BY <1>1
  <2>2. 1 * launch.sgs + launch.sgs <= launch.tiles * launch.sgs
    BY <1>1, Apart, 1 \in Nat, launch.tiles > 1
  <2> QED
    BY <1>1, <2>1, <2>2 DEF Several, Step
<1>3. TripCount = Step
  <2>1. CASE Shape0 = 0
    BY <1>2, <2>1 DEF TripCount
  <2>2. CASE Shape0 # 0
    <3>1. (Shape0 - 1) \div Step = 0
      BY <1>1, <1>2, <2>2
    <3> QED
      BY <1>2, <2>2, <3>1 DEF TripCount
  <2> QED
    BY <2>1, <2>2
<1>4. g * launch.sgs \in Nat /\ g * launch.sgs + launch.sgs <= Step
  <2>1. g * launch.sgs + launch.sgs <= launch.tiles * launch.sgs
    BY <1>1, Apart
  <2>2. launch.tiles * launch.sgs = Step /\ g * launch.sgs \in Nat
    BY <1>1 DEF Step
  <2> QED
    BY <2>1, <2>2
<1>5. Offset(g) \in Nat /\ Offset(g) + launch.sgs <= Step
  BY <1>4 DEF Offset
<1>6. 0 \in Lane /\ Offset(g) + 0 < TripCount
  BY <1>1, <1>2, <1>3, <1>5 DEF Lane
<1>7. \A l \in Lane : ~ (Offset(g) + Step + l < TripCount)
  BY <1>1, <1>2, <1>3, <1>5 DEF Lane
<1> QED
  BY <1>6, <1>7 DEF AtLoop

(* All subgroups start in the first stretch, at their own share.           *)
LEMMA InitControl == Init /\ Several => Control
<1> SUFFICES ASSUME Init, Several PROVE Control
  OBVIOUS
<1>1. \A g \in Subgroup : base[g] = Offset(g)
  BY DEF Init, Offset
<1>2. \A g \in Subgroup : pc[g] = AtLoop(base[g])
  BY DEF Init
<1>3. \A g \in Subgroup : AtLoop(Offset(g)) = "load"
  BY OneTrip DEF Init
<1> QED
  BY <1>1, <1>2, <1>3 DEF Control, Together, LastPublishes, OnceThrough, Before

(* A step of a subgroup that stays in its stretch keeps all of them        *)
(* together.                                                               *)
LEMMA StretchKept ==
    ASSUME TypeOK, Together, launch' = launch, NEW g \in Subgroup, NEW label,
           Goto(g, label),
           \/ pc[g] \in Before /\ label \in Before
           \/ pc[g] \in Between /\ label \in Between
           \/ pc[g] \in Behind /\ label \in Behind
    PROVE  Together'
<1>1. Subgroup' = Subgroup
  BY LaunchStays
<1>2. \A h \in Subgroup : pc'[h] = IF h = g THEN label ELSE pc[h]
  BY DEF TypeOK, Goto
<1>3. /\ Before \cap Between = {} /\ Before \cap Behind = {} /\ Between \cap Behind = {}
      /\ Before' = Before /\ Between' = Between /\ Behind' = Behind
  BY DEF Before, Between, Behind
<1>4. CASE pc[g] \in Before
  <2>1. \A h \in Subgroup : pc[h] \in Before
    BY <1>3, <1>4 DEF Together
  <2> QED
    BY <1>1, <1>2, <1>3, <1>4, <2>1 DEF Together
<1>5. CASE pc[g] \in Between
  <2>1. \A h \in Subgroup : pc[h] \in Between
    BY <1>3, <1>5 DEF Together
  <2> QED
    BY <1>1, <1>2, <1>3, <1>5, <2>1 DEF Together
<1>6. CASE pc[g] \in Behind
  <2>1. \A h \in Subgroup : pc[h] \in Behind
    BY <1>3, <1>6 DEF Together
  <2> QED
    BY <1>1, <1>2, <1>3, <1>6, <2>1 DEF Together
<1> QED
  BY <1>4, <1>5, <1>6

(* Whoever waits waits at the same barrier.                                *)
LEMMA SameBarrier ==
    ASSUME TypeOK, Together, Barrier
    PROVE  \/ \A g \in Subgroup : pc[g] = "barrier1"
           \/ \A g \in Subgroup : pc[g] = "barrier2"
<1>1. 0 \in Subgroup
  BY LaunchFacts DEF TypeOK, Subgroup
<1> QED
  BY <1>1 DEF Barrier, Together, Before, Between, Behind

(* The barriers keep the subgroups in one stretch, whatever order they     *)
(* run in.                                                                 *)
LEMMA StepControl == TypeOK /\ Several /\ Control /\ [Next]_vars => Control'
<1> SUFFICES ASSUME TypeOK, Several, Control, [Next]_vars PROVE Control'
  OBVIOUS
<1>1. launch' = launch
  BY DEF Next, vars, Barrier, Run, Load, Publish, AddPrefix, PublishSum, Update
<1>2. Subgroup' = Subgroup /\ LastTile' = LastTile /\ \A g \in Subgroup : Offset(g)' = Offset(g)
  BY <1>1, LaunchStays
<1>3. LastTile # 0 /\ launch.tiles > 1
  BY LaunchFacts DEF Several, LastTile, TypeOK
<1>4. CASE Barrier
  <2>1. CASE \A g \in Subgroup : pc[g] = "barrier1"
    <3>1. \A g \in Subgroup : pc'[g] = IF g = 0 THEN "barrier2" ELSE "addPrefix"
      BY <1>3, <1>4, <2>1 DEF Barrier, AfterBarrier, AfterPrefix
    <3> QED
      BY <1>2, <1>4, <2>1, <3>1
      DEF Control, Together, LastPublishes, OnceThrough, Barrier, Between
  <2>2. CASE \A g \in Subgroup : pc[g] = "barrier2"
    <3>1. \A g \in Subgroup : pc'[g] = "update"
      BY <1>4, <2>2 DEF Barrier, AfterBarrier
    <3> QED
      BY <1>2, <1>4, <2>2, <3>1
      DEF Control, Together, LastPublishes, OnceThrough, Barrier, Behind
  <2> QED
    BY <1>4, <2>1, <2>2, SameBarrier DEF Control
<1>5. ASSUME NEW g \in Subgroup, Load(g) PROVE Control'
  <2>1. pc[g] = "load" /\ Goto(g, "publish") /\ base' = base
    BY <1>3, <1>5 DEF Load
  <2>2. Together'
    BY <1>1, <2>1, StretchKept DEF Control, Before
  <2> QED
    BY <1>2, <2>1, <2>2 DEF Control, LastPublishes, OnceThrough, Goto, TypeOK
<1>6. ASSUME NEW g \in Subgroup, Publish(g) PROVE Control'
  <2>1. pc[g] = "publish" /\ Goto(g, "barrier1") /\ base' = base
    BY <1>6 DEF Publish
  <2>2. Together'
    BY <1>1, <2>1, StretchKept DEF Control, Before
  <2> QED
    BY <1>2, <2>1, <2>2 DEF Control, LastPublishes, OnceThrough, Goto, TypeOK
<1>7. ASSUME NEW g \in Subgroup, AddPrefix(g) PROVE Control'
  <2>1. PICK label \in {"addPrefix", "publishSum", "barrier2"} :
            /\ Goto(g, label)
            /\ label = "publishSum" => g = LastTile
    BY <1>7 DEF AddPrefix, AfterPrefix
  <2>2. pc[g] = "addPrefix" /\ base' = base
    BY <1>7 DEF AddPrefix
  <2>3. Together'
    BY <1>1, <2>1, <2>2, StretchKept DEF Control, Between
  <2> QED
    BY <1>2, <2>1, <2>2, <2>3 DEF Control, LastPublishes, OnceThrough, Goto, TypeOK
<1>8. ASSUME NEW g \in Subgroup, PublishSum(g) PROVE Control'
  <2>1. pc[g] = "publishSum" /\ Goto(g, "barrier2") /\ base' = base
    BY <1>8 DEF PublishSum
  <2>2. Together'
    BY <1>1, <2>1, StretchKept DEF Control, Between
  <2> QED
    BY <1>2, <2>1, <2>2 DEF Control, LastPublishes, OnceThrough, Goto, TypeOK
<1>9. ASSUME NEW g \in Subgroup, Update(g) PROVE Control'
  <2>1. pc[g] = "update" /\ base[g] = Offset(g)
    BY <1>9 DEF Update, Control, OnceThrough
  <2>2. Goto(g, "done") /\ base' = [base EXCEPT ![g] = @ + Step]
    BY <1>9, <2>1, OneTrip DEF Update, TypeOK
  <2>3. Together'
    BY <1>1, <2>1, <2>2, StretchKept DEF Control, Behind
  <2> QED
    BY <1>2, <2>1, <2>2, <2>3 DEF Control, LastPublishes, OnceThrough, Goto, TypeOK
<1>10. CASE UNCHANGED vars
  BY <1>2, <1>10
  DEF vars, Control, Together, LastPublishes, OnceThrough, Before, Between, Behind
<1> QED
  BY <1>4, <1>5, <1>6, <1>7, <1>8, <1>9, <1>10 DEF Next, Run

(* The races that the barriers exclude.                                    *)
LEMMA ControlSuffices == TypeOK /\ Several /\ Control => NoDataRace
<1> SUFFICES ASSUME TypeOK, Several, Control,
                    NEW g \in Subgroup, NEW h \in Subgroup, g # h
             PROVE  Writes(g) \cap (Reads(h) \cup Writes(h)) = {}
  BY DEF NoDataRace
<1>1. CASE pc[g] = "publish"
  <2>1. pc[h] \in Before
    BY <1>1 DEF Control, Together, Before, Between, Behind
  <2>2. Writes(g) = {g} /\ Reads(h) = {} /\ Writes(h) \subseteq {h}
    BY <1>1, <2>1 DEF Writes, Reads, Before
  <2> QED
    BY <2>2
<1>2. CASE pc[g] = "publishSum"
  <2>1. pc[h] \in Between /\ g = LastTile /\ pc[h] # "publishSum"
    BY <1>2 DEF Control, Together, LastPublishes, Before, Between, Behind
  <2>2. Writes(g) = {LastTile} /\ Writes(h) = {}
    BY <1>2, <2>1 DEF Writes, Between
  <2>3. CASE pc[h] = "addPrefix"
    <3>1. Reads(h) = {k[h]} /\ k[h] < h /\ k[h] \in Nat
      BY <2>3 DEF Reads, TypeOK
    <3>2. h \in Nat /\ LastTile \in Nat /\ h <= LastTile
      BY LaunchFacts DEF TypeOK, Subgroup, LastTile
    <3> QED
      BY <2>2, <3>1, <3>2
  <2>4. CASE pc[h] = "barrier2"
    BY <2>2, <2>4 DEF Reads
  <2> QED
    BY <2>1, <2>3, <2>4 DEF Between
<1>3. CASE pc[g] \notin {"publish", "publishSum"}
  BY <1>3 DEF Writes
<1> QED
  BY <1>1, <1>2, <1>3

(* A launch that fits has a single subgroup, or an operand the work-group  *)
(* covers.                                                                 *)
LEMMA FitsCases ==
    ASSUME launch \in Launches, \A l \in Launches : Fits(l)
    PROVE  Several \/ Alone
<1>1. launch.tiles \in Nat \ {0} /\ Fits(launch)
  BY LaunchFacts
<1> QED
  BY <1>1 DEF Fits, Several, Alone, Shape0

(* A subgroup by itself races with nobody.                                 *)
LEMMA SingleSuffices == TypeOK /\ launch.tiles = 1 => NoDataRace
<1> SUFFICES ASSUME TypeOK, launch.tiles = 1 PROVE NoDataRace
  OBVIOUS
<1>1. Subgroup = {0}
  BY DEF Subgroup
<1> QED
  BY <1>1 DEF NoDataRace

(* No two subgroups ever access one element of tmp at the same time, one   *)
(* of them to write it, when each runs the loop of the scan at most once   *)
(* or is alone: the barriers behind the shares and behind the sum keep     *)
(* every writer apart.                                                     *)
THEOREM BarriersSeparate ==
    ASSUME \A l \in Launches : Fits(l)
    PROVE  Spec => []NoDataRace
<1> DEFINE CInv == TypeOK /\ (Several => Control)
<1>1. Init => CInv
  BY InitTyped, InitControl
<1>2. CInv /\ [Next]_vars => CInv'
  <2> SUFFICES ASSUME CInv, [Next]_vars PROVE CInv'
    OBVIOUS
  <2>1. launch' = launch
    BY DEF Next, vars, Barrier, Run, Load, Publish, AddPrefix, PublishSum, Update
  <2>2. Several' <=> Several
    BY <2>1, LaunchStays DEF Several
  <2> QED
    BY <2>2, StepTyped, StepControl
<1>3. CInv => NoDataRace
  <2> SUFFICES ASSUME CInv PROVE NoDataRace
    OBVIOUS
  <2>1. launch.tiles = 1 \/ Several
    BY FitsCases DEF TypeOK, Alone
  <2> QED
    BY <2>1, ControlSuffices, SingleSuffices
<1> QED
  BY <1>1, <1>2, <1>3, PTL DEF Spec

-----------------------------------------------------------------------------
(* Several subgroups: what they have computed.  A subgroup has added what  *)
(* the subgroups before it, as far as it has read them, have published.    *)
Added(g) == CASE pc[g] \in {"publish", "barrier1"} -> 0
              [] pc[g] = "addPrefix"               -> Prefix(Offset(k[g]))
              [] OTHER                             -> Prefix(Offset(g))

Fresh(g) == pc[g] # "done" => prefix[g] = 0

Scanned(g) ==
    pc[g] \notin {"load", "done"} =>
        \A l \in Lane : scan[g][l] = Prefix(Offset(g) + l + 1) - Prefix(Offset(g)) + Added(g)

Published(g) ==
    (pc[g] = "barrier1" \/ (pc[g] \in Between /\ g # LastTile)) =>
        tmp[g] = Prefix(Offset(g + 1)) - Prefix(Offset(g))

Stored(g) ==
    \A l \in Lane : Offset(g) + l + 1 \in 1 .. Shape0 =>
        B[Offset(g) + l + 1] = IF pc[g] = "done" THEN Prefix(Offset(g) + l + 1) ELSE 0

Data == \A g \in Subgroup : Fresh(g) /\ Scanned(g) /\ Published(g) /\ Stored(g)

(* The shares follow each other without a gap and without overlap.         *)
LEMMA OffsetFacts ==
    ASSUME launch \in Launches
    PROVE  /\ Offset(0) = 0
           /\ \A g \in Nat : Offset(g) \in Nat /\ Offset(g + 1) = Offset(g) + launch.sgs
           /\ \A g, h \in Nat : g < h => Offset(g) + launch.sgs <= Offset(h)
           /\ \A g \in Subgroup : g \in Nat
<1>1. launch.sgs \in Nat \ {0}
  BY LaunchFacts
<1>2. \A g \in Nat : g * launch.sgs \in Nat /\ (g + 1) * launch.sgs = g * launch.sgs + launch.sgs
  BY <1>1
<1>3. \A g, h \in Nat : g < h => g * launch.sgs + launch.sgs <= h * launch.sgs
  BY <1>1, Apart
<1>4. 0 * launch.sgs = 0
  BY <1>1
<1>5. \A g \in Subgroup : g \in Nat
  BY LaunchFacts DEF Subgroup
<1> QED
  BY <1>2, <1>3, <1>4, <1>5 DEF Offset

(* The last lane of a subgroup holds the sum of its share.                 *)
LEMMA LaneFacts ==
    ASSUME launch \in Launches, NEW l \in Lane
    PROVE  l \in Nat /\ l < launch.sgs /\ LastLane \in Lane /\ LastLane + 1 = launch.sgs
BY LaunchFacts DEF Lane, LastLane

(* The share of a subgroup, the indices in it, and the prefix sums at      *)
(* them.                                                                   *)
LEMMA SubgroupFacts ==
    ASSUME TypeOK, NEW g \in Subgroup
    PROVE  /\ g \in Nat /\ LastTile \in Nat /\ g <= LastTile
           /\ Offset(g) \in Nat
           /\ Offset(g + 1) = Offset(g) + LastLane + 1
           /\ Prefix(Offset(g)) \in Int
           /\ Prefix(Offset(g + 1)) \in Int
           /\ LastLane \in Lane
           /\ \A l \in Lane : /\ l \in Nat
                              /\ Offset(g) + l + 1 \in Nat
                              /\ Prefix(Offset(g) + l + 1) \in Int
<1>1. launch \in Launches
  BY DEF TypeOK
<1>2. launch.tiles \in Nat \ {0} /\ launch.sgs \in Nat \ {0}
  BY <1>1, LaunchFacts
<1>3. g \in Nat /\ LastTile \in Nat /\ g <= LastTile /\ g + 1 \in Nat
  BY <1>2 DEF Subgroup, LastTile
<1>4. /\ Offset(g) \in Nat /\ Offset(g + 1) \in Nat
      /\ Offset(g + 1) = Offset(g) + launch.sgs
  BY <1>1, <1>3, OffsetFacts
<1>5. LastLane \in Lane /\ LastLane + 1 = launch.sgs /\ LastLane \in Nat
  BY <1>2 DEF LastLane, Lane
<1>6. Offset(g + 1) = Offset(g) + LastLane + 1
  BY <1>4, <1>5
<1>7. \A n \in Nat : Prefix(n) \in Int
  BY <1>1, PrefixStep
<1>8. \A l \in Lane : l \in Nat
  BY <1>2 DEF Lane
<1>9. \A l \in Lane : Offset(g) + l + 1 \in Nat
  BY <1>4, <1>8
<1> QED
  BY <1>3, <1>4, <1>5, <1>6, <1>7, <1>8, <1>9

(* Nothing has been read, published or stored at the start.                *)
LEMMA InitData == Init /\ Several => Data
<1> SUFFICES ASSUME Init, Several, NEW g \in Subgroup
             PROVE  Fresh(g) /\ Scanned(g) /\ Published(g) /\ Stored(g)
  BY DEF Data
<1>1. pc[g] = "load"
  BY OneTrip DEF Init, Offset
<1>2. prefix[g] = 0 /\ \A i \in 1 .. Shape0 : B[i] = 0
  BY DEF Init
<1> QED
  BY <1>1, <1>2 DEF Fresh, Scanned, Published, Stored, Between

(* A subgroup that no step of another one concerns.                        *)
LEMMA Bystander ==
    ASSUME TypeOK, Data, launch' = launch, NEW h \in Subgroup, pc'[h] = pc[h],
           k'[h] = k[h], scan'[h] = scan[h], prefix'[h] = prefix[h],
           tmp'[h] = tmp[h]
    PROVE  Fresh(h)' /\ Scanned(h)' /\ Published(h)'
<1>1. /\ Lane' = Lane /\ LastTile' = LastTile
      /\ \A n : Prefix(n)' = Prefix(n)
      /\ \A g : Offset(g)' = Offset(g)
  BY LaunchStays
<1>2. Fresh(h) /\ Scanned(h) /\ Published(h)
  BY DEF Data
<1>3. Added(h)' = Added(h)
  BY <1>1 DEF Added
<1>4. Scanned(h)'
  BY <1>1, <1>2, <1>3 DEF Scanned
<1>5. Published(h)'
  BY <1>1, <1>2 DEF Published, Between
<1>6. Fresh(h)'
  BY <1>2 DEF Fresh
<1> QED
  BY <1>4, <1>5, <1>6

(* A subgroup that keeps its place and finds B unchanged has its share of  *)
(* B as it was.                                                            *)
LEMMA StoredKept ==
    ASSUME TypeOK, Data, launch' = launch, B' = B, NEW h \in Subgroup,
           pc[h] = "done" <=> pc'[h] = "done"
    PROVE  Stored(h)'
<1>1. /\ Lane' = Lane /\ Shape0' = Shape0
      /\ \A n : Prefix(n)' = Prefix(n)
      /\ \A g : Offset(g)' = Offset(g)
  BY LaunchStays
<1> QED
  BY <1>1 DEF Stored, Data

(* Reading the share leaves its scan in the lanes of the subgroup.         *)
LEMMA LoadData ==
    ASSUME TypeOK, Several, Control, Data, NEW g \in Subgroup, Load(g)
    PROVE  Data'
<1>1. launch' = launch /\ Subgroup' = Subgroup
  BY LaunchStays DEF Load
<1>2. pc' = [pc EXCEPT ![g] = "publish"] /\ pc[g] = "load" /\ base[g] = Offset(g)
  BY LaunchFacts DEF Load, Goto, Several, Control, OnceThrough, TypeOK
<1> SUFFICES ASSUME NEW h \in Subgroup
             PROVE  Fresh(h)' /\ Scanned(h)' /\ Published(h)' /\ Stored(h)'
  BY <1>1 DEF Data
<1>3. Stored(h)'
  BY <1>1, <1>2, StoredKept DEF Load, TypeOK
<1>4. CASE h # g
  <2>1. /\ pc'[h] = pc[h] /\ k'[h] = k[h] /\ scan'[h] = scan[h]
        /\ prefix'[h] = prefix[h] /\ tmp'[h] = tmp[h]
    BY <1>2, <1>4 DEF Load, TypeOK
  <2> QED
    BY <1>1, <1>3, <2>1, Bystander
<1>5. CASE h = g
  <2>1. pc'[g] = "publish"
    BY <1>2 DEF TypeOK
  <2>2. /\ Lane' = Lane
        /\ \A n : Prefix(n)' = Prefix(n)
        /\ \A x : Offset(x)' = Offset(x)
    BY <1>1, LaunchStays
  <2>3. Fresh(g)' /\ Published(g)'
    BY <1>2, <2>1 DEF Fresh, Published, Between, Data, Load
  <2>4. Added(g)' = 0
    BY <2>1 DEF Added
  <2>5. scan'[g] = SubgroupScan(Offset(g))
    BY <1>2 DEF Load, TypeOK
  <2>6. ASSUME NEW l \in Lane
        PROVE  scan'[g][l] = Prefix(Offset(g) + l + 1) - Prefix(Offset(g)) + 0
    <3>1. Offset(g) \in Nat /\ Prefix(Offset(g) + l + 1) \in Int /\ Prefix(Offset(g)) \in Int
      BY SubgroupFacts
    <3>2. scan'[g][l] = Prefix(Offset(g) + l + 1) - Prefix(Offset(g))
      BY <2>5, <3>1, SubgroupScanValue DEF TypeOK
    <3> QED
      BY <3>1, <3>2
  <2>7. Scanned(g)'
    BY <2>2, <2>4, <2>6 DEF Scanned
  <2> QED
    BY <1>3, <1>5, <2>3, <2>7
<1> QED
  BY <1>4, <1>5

(* Each subgroup puts the sum of its share into its own entry of tmp.      *)
LEMMA PublishData ==
    ASSUME TypeOK, Several, Control, Data, NEW g \in Subgroup, Publish(g)
    PROVE  Data'
<1>1. launch' = launch /\ Subgroup' = Subgroup
  BY LaunchStays DEF Publish
<1>2. /\ pc' = [pc EXCEPT ![g] = "barrier1"] /\ pc[g] = "publish"
      /\ tmp' = [tmp EXCEPT ![g] = scan[g][LastLane]]
  BY DEF Publish, Goto
<1> SUFFICES ASSUME NEW h \in Subgroup
             PROVE  Fresh(h)' /\ Scanned(h)' /\ Published(h)' /\ Stored(h)'
  BY <1>1 DEF Data
<1>3. Stored(h)'
  BY <1>1, <1>2, StoredKept DEF Publish, TypeOK
<1>4. CASE h # g
  <2>1. /\ pc'[h] = pc[h] /\ k'[h] = k[h] /\ scan'[h] = scan[h]
        /\ prefix'[h] = prefix[h] /\ tmp'[h] = tmp[h]
    BY <1>2, <1>4 DEF Publish, TypeOK
  <2> QED
    BY <1>1, <1>3, <2>1, Bystander
<1>5. CASE h = g
  <2>1. pc'[g] = "barrier1"
    BY <1>2 DEF TypeOK
  <2>2. /\ Lane' = Lane
        /\ \A n : Prefix(n)' = Prefix(n)
        /\ \A x : Offset(x)' = Offset(x)
    BY <1>1, LaunchStays
  <2>3. Added(g)' = Added(g) /\ Added(g) = 0
    BY <1>2, <2>1 DEF Added
  <2>4. Fresh(g)' /\ Scanned(g)'
    BY <1>2, <2>1, <2>2, <2>3 DEF Fresh, Scanned, Data, Publish
  <2>5. scan[g][LastLane] = Prefix(Offset(g) + LastLane + 1) - Prefix(Offset(g)) + 0
    BY <1>2, <2>3, LaunchFacts DEF Scanned, Data, TypeOK
  <2>6. /\ Offset(g) + LastLane + 1 = Offset(g + 1)
        /\ Prefix(Offset(g + 1)) \in Int /\ Prefix(Offset(g)) \in Int
    BY SubgroupFacts
  <2>8. tmp'[g] = Prefix(Offset(g + 1)) - Prefix(Offset(g))
    BY <1>2, <2>5, <2>6 DEF TypeOK
  <2>9. Published(g)'
    BY <2>2, <2>8 DEF Published
  <2> QED
    BY <1>3, <1>5, <2>4, <2>9
<1> QED
  BY <1>4, <1>5

(* Adding the sum of the next subgroup before it extends the prefix by     *)
(* its share.                                                              *)
LEMMA AddPrefixData ==
    ASSUME TypeOK, Several, Control, Data, NEW g \in Subgroup, AddPrefix(g)
    PROVE  Data'
<1>1. launch' = launch /\ Subgroup' = Subgroup
  BY LaunchStays DEF AddPrefix
<1>2. /\ pc[g] = "addPrefix"
      /\ pc' = [pc EXCEPT ![g] = IF MorePrefix(g) THEN "addPrefix" ELSE AfterPrefix(g)]
      /\ k' = [k EXCEPT ![g] = k[g] + 1]
      /\ scan' = [scan EXCEPT ![g] = [l \in Lane |-> scan[g][l] + tmp[k[g]]]]
      /\ prefix' = prefix /\ tmp' = tmp /\ B' = B
  BY DEF AddPrefix, Goto
<1>3. k[g] \in Nat /\ k[g] < g /\ k[g] \in Subgroup /\ k[g] # LastTile
  <2>1. k[g] \in Nat /\ k[g] < g
    BY <1>2 DEF TypeOK
  <2>2. g \in Nat /\ g <= LastTile /\ LastTile \in Nat
    BY SubgroupFacts
  <2>3. launch.tiles \in Nat /\ LastTile = launch.tiles - 1
    BY LaunchFacts DEF TypeOK, LastTile
  <2> QED
    BY <2>1, <2>2, <2>3 DEF Subgroup
<1> SUFFICES ASSUME NEW h \in Subgroup
             PROVE  Fresh(h)' /\ Scanned(h)' /\ Published(h)' /\ Stored(h)'
  BY <1>1 DEF Data
<1>4. pc'[g] \in {"addPrefix", "publishSum", "barrier2"}
  BY <1>2 DEF AfterPrefix, TypeOK
<1>5. Stored(h)'
  BY <1>1, <1>2, <1>4, StoredKept DEF TypeOK
<1>6. CASE h # g
  <2>1. /\ pc'[h] = pc[h] /\ k'[h] = k[h] /\ scan'[h] = scan[h]
        /\ prefix'[h] = prefix[h] /\ tmp'[h] = tmp[h]
    BY <1>2, <1>6 DEF TypeOK
  <2> QED
    BY <1>1, <1>5, <2>1, Bystander
<1>7. CASE h = g
  <2>1. /\ Lane' = Lane /\ LastTile' = LastTile
        /\ \A n : Prefix(n)' = Prefix(n)
        /\ \A x : Offset(x)' = Offset(x)
    BY <1>1, LaunchStays
  <2>2. Fresh(g)'
    BY <1>2, <1>4 DEF Fresh, Data
  <2>3. Published(g)'
    BY <1>2, <1>4, <2>1 DEF Published, Between, Data
  <2>4. pc[k[g]] \in Between
    BY <1>2, <1>3 DEF Control, Together, Before, Between, Behind
  <2>5. tmp[k[g]] = Prefix(Offset(k[g] + 1)) - Prefix(Offset(k[g]))
    BY <1>3, <2>4 DEF Data, Published
  <2>6. Added(g) = Prefix(Offset(k[g]))
    BY <1>2 DEF Added
  <2>7. Added(g)' = Prefix(Offset(k[g] + 1))
    <3>1. k'[g] = k[g] + 1
      BY <1>2 DEF TypeOK
    <3>2. CASE MorePrefix(g)
      <4>1. pc'[g] = "addPrefix"
        BY <1>2, <3>2 DEF TypeOK
      <4> QED
        BY <2>1, <3>1, <4>1 DEF Added
    <3>3. CASE ~ MorePrefix(g)
      <4>1. pc'[g] \in {"publishSum", "barrier2"}
        BY <1>2, <3>3 DEF AfterPrefix, TypeOK
      <4>2. k[g] + 1 = g
        <5>1. g \in Nat
          BY SubgroupFacts
        <5> QED
          BY <1>3, <3>3, <5>1 DEF MorePrefix
      <4> QED
        BY <2>1, <4>1, <4>2 DEF Added
    <3> QED
      BY <3>2, <3>3
  <2>8. ASSUME NEW l \in Lane
        PROVE  scan'[g][l] =
                    Prefix(Offset(g) + l + 1) - Prefix(Offset(g)) + Prefix(Offset(k[g] + 1))
    <3>1. /\ Prefix(Offset(g) + l + 1) \in Int /\ Prefix(Offset(g)) \in Int
          /\ Prefix(Offset(k[g])) \in Int /\ Prefix(Offset(k[g] + 1)) \in Int
      BY <1>3, SubgroupFacts
    <3>2. scan[g][l] = Prefix(Offset(g) + l + 1) - Prefix(Offset(g)) + Prefix(Offset(k[g]))
      BY <1>2, <2>6 DEF Data, Scanned
    <3>3. scan'[g][l] = scan[g][l] + tmp[k[g]]
      BY <1>2 DEF TypeOK
    <3> QED
      BY <2>5, <3>1, <3>2, <3>3
  <2>9. Scanned(g)'
    BY <2>1, <2>7, <2>8 DEF Scanned
  <2> QED
    BY <1>5, <1>7, <2>2, <2>3, <2>9
<1> QED
  BY <1>6, <1>7

(* Behind the first barrier all sums are published, and no prefix is       *)
(* added yet.                                                              *)
LEMMA BarrierData ==
    ASSUME TypeOK, Several, Control, Data, Barrier
    PROVE  Data'
<1>1. launch' = launch /\ Subgroup' = Subgroup
  BY LaunchStays DEF Barrier
<1>2. /\ prefix' = prefix /\ tmp' = tmp /\ B' = B /\ scan' = scan
      /\ \A g \in Subgroup : pc'[g] = AfterBarrier(g) /\ k'[g] = 0
      /\ \A g \in Subgroup : pc[g] \in {"barrier1", "barrier2"}
  BY DEF Barrier
<1> SUFFICES ASSUME NEW h \in Subgroup
             PROVE  Fresh(h)' /\ Scanned(h)' /\ Published(h)' /\ Stored(h)'
  BY <1>1 DEF Data
<1>3. AfterBarrier(h) # "done" /\ pc[h] # "done"
  BY <1>2 DEF AfterBarrier, AfterPrefix
<1>4. Stored(h)'
  BY <1>1, <1>2, <1>3, StoredKept
<1>5. Fresh(h)'
  BY <1>2, <1>3 DEF Fresh, Data
<1>6. /\ Lane' = Lane /\ LastTile' = LastTile
      /\ \A n : Prefix(n)' = Prefix(n)
      /\ \A x : Offset(x)' = Offset(x)
  BY <1>1, LaunchStays
<1>7. CASE \A g \in Subgroup : pc[g] = "barrier1"
  <2>1. Published(h)'
    BY <1>2, <1>6, <1>7 DEF Published, Data
  <2>2. Added(h) = 0
    BY <1>7 DEF Added
  <2>3. Prefix(Offset(0)) = 0
    BY OffsetFacts, PrefixStep DEF TypeOK
  <2>4. CASE h = 0
    <3>1. LastTile # 0
      BY LaunchFacts DEF Several, LastTile, TypeOK
    <3>2. pc'[h] = "barrier2"
      BY <1>2, <1>7, <2>4, <3>1 DEF AfterBarrier, AfterPrefix
    <3>3. Added(h)' = 0
      BY <1>6, <2>3, <2>4, <3>2 DEF Added
    <3>4. Scanned(h)'
      BY <1>2, <1>6, <1>7, <2>2, <3>3 DEF Scanned, Data
    <3> QED
      BY <1>4, <1>5, <2>1, <3>4
  <2>5. CASE h # 0
    <3>1. pc'[h] = "addPrefix" /\ k'[h] = 0
      BY <1>2, <1>7, <2>5 DEF AfterBarrier
    <3>2. Added(h)' = 0
      BY <1>6, <2>3, <3>1 DEF Added
    <3>3. Scanned(h)'
      BY <1>2, <1>6, <1>7, <2>2, <3>2 DEF Scanned, Data
    <3> QED
      BY <1>4, <1>5, <2>1, <3>3
  <2> QED
    BY <2>4, <2>5
<1>8. CASE \A g \in Subgroup : pc[g] = "barrier2"
  <2>1. pc'[h] = "update"
    BY <1>2, <1>8 DEF AfterBarrier
  <2>2. Published(h)'
    BY <2>1 DEF Published, Between
  <2>3. Added(h)' = Added(h)
    BY <1>6, <1>8, <2>1 DEF Added
  <2>4. Scanned(h)'
    BY <1>2, <1>6, <1>8, <2>3 DEF Scanned, Data
  <2> QED
    BY <1>4, <1>5, <2>2, <2>4
<1> QED
  BY <1>7, <1>8, SameBarrier DEF Control

(* The last subgroup publishes the sum of the whole iteration.             *)
LEMMA PublishSumData ==
    ASSUME TypeOK, Several, Control, Data, NEW g \in Subgroup, PublishSum(g)
    PROVE  Data'
<1>1. launch' = launch /\ Subgroup' = Subgroup
  BY LaunchStays DEF PublishSum
<1>2. /\ pc' = [pc EXCEPT ![g] = "barrier2"] /\ pc[g] = "publishSum"
      /\ tmp' = [tmp EXCEPT ![g] = scan[g][LastLane]] /\ g = LastTile
      /\ prefix' = prefix /\ k' = k /\ B' = B /\ scan' = scan
  BY DEF PublishSum, Goto, Control, LastPublishes
<1> SUFFICES ASSUME NEW h \in Subgroup
             PROVE  Fresh(h)' /\ Scanned(h)' /\ Published(h)' /\ Stored(h)'
  BY <1>1 DEF Data
<1>3. Stored(h)'
  BY <1>1, <1>2, StoredKept DEF TypeOK
<1>4. CASE h # g
  <2>1. /\ pc'[h] = pc[h] /\ k'[h] = k[h] /\ scan'[h] = scan[h]
        /\ prefix'[h] = prefix[h] /\ tmp'[h] = tmp[h]
    BY <1>2, <1>4 DEF TypeOK
  <2> QED
    BY <1>1, <1>3, <2>1, Bystander
<1>5. CASE h = g
  <2>1. pc'[g] = "barrier2"
    BY <1>2 DEF TypeOK
  <2>2. /\ Lane' = Lane /\ LastTile' = LastTile
        /\ \A n : Prefix(n)' = Prefix(n)
        /\ \A x : Offset(x)' = Offset(x)
    BY <1>1, LaunchStays
  <2>3. Added(g)' = Added(g)
    BY <1>2, <2>1, <2>2 DEF Added
  <2>4. Fresh(g)' /\ Scanned(g)' /\ Published(g)'
    BY <1>2, <2>1, <2>2, <2>3 DEF Fresh, Scanned, Published, Data
  <2> QED
    BY <1>3, <1>5, <2>4
<1> QED
  BY <1>4, <1>5

(* Storing its lanes, a subgroup writes the prefix sums of its share and   *)
(* no other entry.                                                         *)
LEMMA UpdateData ==
    ASSUME TypeOK, Several, Control, Data, NEW g \in Subgroup, Update(g)
    PROVE  Data'
<1>1. launch' = launch /\ Subgroup' = Subgroup
  BY LaunchStays DEF Update
<1>2. pc[g] = "update" /\ base[g] = Offset(g) /\ prefix[g] = 0
  BY DEF Update, Control, OnceThrough, Data, Fresh
<1>3. pc' = [pc EXCEPT ![g] = "done"]
  BY <1>2, OneTrip DEF Update, Goto, TypeOK
<1>4. k' = k /\ scan' = scan /\ tmp' = tmp /\ \A x \in Subgroup : x # g => prefix'[x] = prefix[x]
  BY DEF Update, TypeOK
<1>5. /\ Lane' = Lane /\ LastTile' = LastTile /\ Shape0' = Shape0
      /\ \A n : Prefix(n)' = Prefix(n)
      /\ \A x : Offset(x)' = Offset(x)
  BY <1>1, LaunchStays
<1>6. \A i \in 1 .. Shape0 :
          B'[i] = IF i - 1 - Offset(g) \in Lane
                  THEN B[i] + 0 + scan[g][i - 1 - Offset(g)] ELSE B[i]
  BY <1>2 DEF Update, TypeOK
<1> SUFFICES ASSUME NEW h \in Subgroup
             PROVE  Fresh(h)' /\ Scanned(h)' /\ Published(h)' /\ Stored(h)'
  BY <1>1 DEF Data
<1>7. CASE h = g
  <2>1. pc'[g] = "done"
    BY <1>3 DEF TypeOK
  <2>2. Fresh(g)' /\ Scanned(g)' /\ Published(g)'
    BY <2>1 DEF Fresh, Scanned, Published, Between
  <2>3. ASSUME NEW l \in Lane, Offset(g) + l + 1 \in 1 .. Shape0
        PROVE  B'[Offset(g) + l + 1] = Prefix(Offset(g) + l + 1)
    <3>1. /\ Offset(g) \in Nat /\ l \in Nat
          /\ Prefix(Offset(g) + l + 1) \in Int /\ Prefix(Offset(g)) \in Int
      BY SubgroupFacts
    <3>3. B'[Offset(g) + l + 1] = B[Offset(g) + l + 1] + 0 + scan[g][l]
      <4> DEFINE i == Offset(g) + l + 1
      <4>1. i \in 1 .. Shape0
        BY <2>3
      <4>2. i - 1 - Offset(g) = l
        BY <3>1
      <4> HIDE DEF i
      <4>3. B'[i] = B[i] + 0 + scan[g][l]
        BY <1>6, <4>1, <4>2
      <4> QED
        BY <4>3 DEF i
    <3>4. B[Offset(g) + l + 1] = 0
      BY <1>2, <2>3 DEF Data, Stored
    <3>5. scan[g][l] = Prefix(Offset(g) + l + 1) - Prefix(Offset(g)) + Prefix(Offset(g))
      BY <1>2 DEF Data, Scanned, Added
    <3> QED
      BY <3>1, <3>3, <3>4, <3>5
  <2>4. Stored(g)'
    BY <1>5, <2>1, <2>3 DEF Stored
  <2> QED
    BY <1>7, <2>2, <2>4
<1>8. CASE h # g
  <2>1. /\ pc'[h] = pc[h] /\ k'[h] = k[h] /\ scan'[h] = scan[h]
        /\ prefix'[h] = prefix[h] /\ tmp'[h] = tmp[h]
    BY <1>3, <1>4, <1>8 DEF TypeOK
  <2>2. Fresh(h)' /\ Scanned(h)' /\ Published(h)'
    BY <1>1, <2>1, Bystander
  <2>3. ASSUME NEW l \in Lane, Offset(h) + l + 1 \in 1 .. Shape0
        PROVE  B'[Offset(h) + l + 1] = B[Offset(h) + l + 1]
    <3>1. /\ launch.sgs \in Nat /\ l \in Nat /\ l < launch.sgs /\ g \in Nat /\ h \in Nat
          /\ Offset(g) \in Nat /\ Offset(h) \in Nat
      BY LaunchFacts, LaneFacts, SubgroupFacts DEF TypeOK
    <3>2. Offset(g) + launch.sgs <= Offset(h) \/ Offset(h) + launch.sgs <= Offset(g)
      <4>1. g < h \/ h < g
        BY <1>8, <3>1
      <4>2. \A x, y \in Nat : x < y => Offset(x) + launch.sgs <= Offset(y)
        BY OffsetFacts DEF TypeOK
      <4> QED
        BY <3>1, <4>1, <4>2
    <3> DEFINE i == Offset(h) + l + 1
    <3>4. i \in 1 .. Shape0
      BY <2>3
    <3>3. i - 1 - Offset(g) \notin Lane
      BY <3>1, <3>2 DEF Lane
    <3> HIDE DEF i
    <3>5. B'[i] = B[i]
      BY <1>6, <3>3, <3>4
    <3> QED
      BY <3>5 DEF i
  <2>4. Stored(h)'
    BY <1>5, <2>1, <2>3 DEF Stored, Data
  <2> QED
    BY <2>2, <2>4
<1> QED
  BY <1>7, <1>8

(* Every operation keeps what the lanes, tmp and B hold.                   *)
LEMMA StepData == TypeOK /\ Several /\ Control /\ Data /\ [Next]_vars => Data'
<1> SUFFICES ASSUME TypeOK, Several, Control, Data, [Next]_vars PROVE Data'
  OBVIOUS
<1>1. CASE UNCHANGED vars
  <2>1. launch' = launch
    BY <1>1 DEF vars
  <2> QED
    BY <1>1, <2>1, LaunchStays
    DEF vars, Data, Fresh, Scanned, Published, Stored, Added, Between
<1> QED
  BY <1>1, LoadData, PublishData, AddPrefixData, BarrierData, PublishSumData, UpdateData
  DEF Next, Run

(* Once all subgroups are done, every index has an owner that stored its   *)
(* prefix sum.                                                             *)
LEMMA DataSuffices == TypeOK /\ Several /\ Data => CumulativeSum
<1> SUFFICES ASSUME TypeOK, Several, Data, Finished, NEW j \in 1 .. Shape0
             PROVE  B[j] = Total(SubSeq(launch.A, 1, j))
  BY DEF CumulativeSum
<1>1. /\ launch.tiles \in Nat /\ launch.sgs \in Nat \ {0} /\ Shape0 \in Nat
      /\ j - 1 \in Nat /\ j - 1 < launch.tiles * launch.sgs
  <2>1. launch.tiles \in Nat /\ launch.sgs \in Nat \ {0} /\ Shape0 \in Nat
    BY LaunchFacts DEF TypeOK
  <2>2. launch.tiles * launch.sgs \in Nat
    BY <2>1
  <2> QED
    BY <2>1, <2>2 DEF Several
<1>2. PICK g \in 0 .. launch.tiles - 1, l \in 0 .. launch.sgs - 1 : j - 1 = g * launch.sgs + l
  BY <1>1, OwnerExists
<1>3. g \in Subgroup /\ l \in Lane /\ j = Offset(g) + l + 1
  <2>1. g * launch.sgs \in Nat
    BY <1>1
  <2> QED
    BY <1>1, <1>2, <2>1 DEF Subgroup, Lane, Offset
<1>4. B[j] = Prefix(j)
  BY <1>3 DEF Data, Stored, Finished
<1> QED
  BY <1>4, PrefixIsTotal DEF TypeOK

-----------------------------------------------------------------------------
(* A single subgroup, which carries its sum from iteration to iteration.   *)
Carried ==
    /\ pc[0] \in {"load", "update", "done"}
    /\ pc[0] = "done" => base[0] >= TripCount
    /\ prefix[0] = Prefix(base[0])
    /\ pc[0] = "update" =>
           \A l \in Lane : scan[0][l] = Prefix(base[0] + l + 1) - Prefix(base[0])
    /\ \A i \in 1 .. Shape0 : B[i] = IF i <= base[0] THEN Prefix(i) ELSE 0

(* The rounded trip count reaches the end of the operand.                  *)
LEMMA TripsCover ==
    ASSUME launch \in Launches
    PROVE  TripCount \in Nat /\ Shape0 <= TripCount
<1>1. Shape0 \in Nat /\ Step \in Nat \ {0}
  BY LaunchFacts
<1>2. CASE Shape0 = 0
  BY <1>1, <1>2 DEF TripCount
<1>3. CASE Shape0 # 0
  <2> DEFINE q == (Shape0 - 1) \div Step
  <2>1. q \in Nat /\ Shape0 - 1 < (q + 1) * Step
    BY <1>1, <1>3
  <2>2. TripCount = (q + 1) * Step
    BY <1>3 DEF TripCount
  <2> HIDE DEF q
  <2>3. (q + 1) * Step \in Nat
    BY <1>1, <2>1
  <2> QED
    BY <1>1, <2>1, <2>2, <2>3
<1> QED
  BY <1>2, <1>3

(* A single subgroup goes through the loop in steps of its own size.       *)
LEMMA AloneFacts ==
    ASSUME launch \in Launches, Alone
    PROVE  /\ Subgroup = {0} /\ LastTile = 0 /\ Step = launch.sgs
           /\ launch.sgs \in Nat \ {0}
           /\ \A b \in Nat : AtLoop(b) \in {"load", "done"}
           /\ \A b \in Nat : AtLoop(b) = "done" => b >= TripCount
<1>1. launch.tiles = 1 /\ launch.sgs \in Nat \ {0}
  BY LaunchFacts DEF Alone
<1>2. Subgroup = {0} /\ LastTile = 0 /\ Step = launch.sgs
  BY <1>1 DEF Subgroup, LastTile, Step
<1>3. 0 \in Lane /\ TripCount \in Nat
  BY <1>1, TripsCover DEF Lane
<1>4. \A b \in Nat : AtLoop(b) = "done" => ~ (b + 0 < TripCount)
  BY <1>3 DEF AtLoop
<1>5. \A b \in Nat : AtLoop(b) \in {"load", "done"}
  BY DEF AtLoop
<1> QED
  BY <1>1, <1>2, <1>3, <1>4, <1>5

(* Before the first iteration nothing is summed up.                        *)
LEMMA InitCarried == Init /\ Alone => Carried
<1> SUFFICES ASSUME Init, Alone PROVE Carried
  OBVIOUS
<1>1. Subgroup = {0} /\ launch \in Launches /\ launch.sgs \in Nat
  BY AloneFacts DEF Init
<1>2. base[0] = 0
  BY <1>1 DEF Init
<1>3. pc[0] = AtLoop(0) /\ prefix[0] = 0 /\ \A i \in 1 .. Shape0 : B[i] = 0
  BY <1>1, <1>2 DEF Init
<1>4. Prefix(0) = 0 /\ Shape0 \in Nat
  BY <1>1, PrefixStep, LaunchFacts
<1>5. pc[0] \in {"load", "done"} /\ (pc[0] = "done" => base[0] >= TripCount)
  BY <1>1, <1>2, <1>3, AloneFacts
<1> QED
  BY <1>2, <1>3, <1>4, <1>5 DEF Carried

(* A single subgroup carries the sum of what is behind it from one         *)
(* iteration into the next.                                                *)
LEMMA StepCarried == TypeOK /\ Alone /\ Carried /\ [Next]_vars => Carried'
<1> SUFFICES ASSUME TypeOK, Alone, Carried, [Next]_vars PROVE Carried'
  OBVIOUS
<1>1. launch' = launch
  BY DEF Next, vars, Barrier, Run, Load, Publish, AddPrefix, PublishSum, Update
<1>2. /\ Lane' = Lane /\ LastTile' = LastTile /\ Shape0' = Shape0 /\ TripCount' = TripCount
      /\ \A n : Prefix(n)' = Prefix(n)
  BY <1>1, LaunchStays
<1>3. Subgroup = {0} /\ launch \in Launches /\ base[0] \in Nat /\ Step = launch.sgs
  BY AloneFacts DEF TypeOK
<1>4. ASSUME Load(0) PROVE Carried'
  <2>1. pc'[0] = "update" /\ scan'[0] = SubgroupScan(base[0])
    BY <1>3, <1>4 DEF Load, Goto, Alone, TypeOK
  <2>2. base' = base /\ prefix' = prefix /\ B' = B
    BY <1>4 DEF Load
  <2>3. \A l \in Lane : SubgroupScan(base[0])[l] = Prefix(base[0] + l + 1) - Prefix(base[0])
    BY <1>3, SubgroupScanValue
  <2> QED
    BY <1>2, <2>1, <2>2, <2>3 DEF Carried
<1>5. ASSUME Update(0) PROVE Carried'
  <2>1. /\ pc[0] = "update"
        /\ base'[0] = base[0] + Step
        /\ pc'[0] = AtLoop(base[0] + Step)
        /\ prefix'[0] = prefix[0] + Sum(0)
    BY <1>3, <1>5 DEF Update, Goto, TypeOK
  <2>2. \A i \in 1 .. Shape0 :
            B'[i] = IF i - 1 - base[0] \in Lane
                    THEN B[i] + prefix[0] + scan[0][i - 1 - base[0]] ELSE B[i]
    BY <1>5 DEF Update, TypeOK
  <2>3. /\ LastLane \in Lane /\ LastLane + 1 = launch.sgs
        /\ launch.sgs \in Nat \ {0} /\ Lane = 0 .. launch.sgs - 1
    BY <1>3, LaunchFacts DEF LastLane, Lane
  <2>4. \A n \in Nat : Prefix(n) \in Int
    BY <1>3, PrefixStep
  <2>5. \A l \in Lane : scan[0][l] = Prefix(base[0] + l + 1) - Prefix(base[0])
    BY <2>1 DEF Carried
  <2>6. prefix'[0] = Prefix(base'[0])
    <3>1. Sum(0) = scan[0][LastLane]
      BY DEF Sum, Alone
    <3>2. base[0] + LastLane + 1 = base'[0] /\ base'[0] \in Nat
      BY <1>3, <2>1, <2>3
    <3>3. scan[0][LastLane] = Prefix(base'[0]) - Prefix(base[0])
      BY <2>3, <2>5, <3>2
    <3> QED
      BY <1>3, <2>1, <2>4, <3>1, <3>2, <3>3 DEF Carried
  <2>7. ASSUME NEW i \in 1 .. Shape0
        PROVE  B'[i] = IF i <= base'[0] THEN Prefix(i) ELSE 0
    <3>1. Shape0 \in Nat /\ i \in Nat /\ Prefix(i) \in Int /\ Prefix(base[0]) \in Int
      BY <1>3, <2>4, LaunchFacts
    <3>2. CASE i - 1 - base[0] \in Lane
      <4> DEFINE l == i - 1 - base[0]
      <4>1. base[0] + l + 1 = i /\ ~ (i <= base[0]) /\ i <= base'[0] /\ l \in Lane
        BY <1>3, <2>1, <2>3, <3>1, <3>2
      <4> HIDE DEF l
      <4>2. scan[0][l] = Prefix(i) - Prefix(base[0])
        BY <2>5, <4>1
      <4>3. B[i] = 0 /\ prefix[0] = Prefix(base[0])
        BY <4>1 DEF Carried
      <4>4. B'[i] = B[i] + prefix[0] + scan[0][l]
        BY <2>2, <3>2 DEF l
      <4> QED
        BY <3>1, <4>1, <4>2, <4>3, <4>4
    <3>3. CASE i - 1 - base[0] \notin Lane
      <4>1. i <= base[0] <=> i <= base'[0]
        BY <1>3, <2>1, <2>3, <3>1, <3>3
      <4>2. B'[i] = B[i]
        BY <2>2, <3>3
      <4> QED
        BY <4>1, <4>2 DEF Carried
    <3> QED
      BY <3>2, <3>3
  <2>8. pc'[0] \in {"load", "done"} /\ (pc'[0] = "done" => base'[0] >= TripCount)
    <3>1. base[0] + Step \in Nat
      BY <1>3, <2>3
    <3> QED
      BY <1>3, <2>1, <3>1, AloneFacts
  <2> QED
    BY <1>2, <2>6, <2>7, <2>8 DEF Carried
<1>6. CASE UNCHANGED vars
  BY <1>2, <1>6 DEF vars, Carried
<1>7. ~ Barrier /\ ~ Publish(0) /\ ~ AddPrefix(0) /\ ~ PublishSum(0)
  BY <1>3 DEF Carried, Barrier, Publish, AddPrefix, PublishSum
<1> QED
  BY <1>3, <1>4, <1>5, <1>6, <1>7 DEF Next, Run

(* When it leaves the loop, it has gone past the end of the operand.       *)
LEMMA CarriedSuffices == TypeOK /\ Alone /\ Carried => CumulativeSum
<1> SUFFICES ASSUME TypeOK, Alone, Carried, Finished, NEW j \in 1 .. Shape0
             PROVE  B[j] = Total(SubSeq(launch.A, 1, j))
  BY DEF CumulativeSum
<1>1. launch \in Launches /\ Subgroup = {0}
  BY AloneFacts DEF TypeOK
<1>2. Shape0 \in Nat /\ TripCount \in Nat /\ Shape0 <= TripCount
  BY <1>1, LaunchFacts, TripsCover
<1>3. base[0] \in Nat /\ base[0] >= TripCount
  BY <1>1 DEF Carried, Finished, TypeOK
<1>4. j <= base[0]
  BY <1>2, <1>3
<1>5. B[j] = Prefix(j)
  BY <1>4 DEF Carried
<1> QED
  BY <1>1, <1>5, PrefixIsTotal

(* Whatever the sizes of subgroup and work-group, the emitted code leaves  *)
(* the cumulative sum of the operand, as the manual defines it, when one   *)
(* iteration handles the operand or one subgroup carries its sum from      *)
(* iteration to iteration.                                                 *)
THEOREM SumsCumulate ==
    ASSUME \A l \in Launches : Fits(l)
    PROVE  Spec => []CumulativeSum
<1> DEFINE SInv == /\ TypeOK
                   /\ Several => Control /\ Data
                   /\ Alone => Carried
<1>1. Init => SInv
  BY InitTyped, InitControl, InitData, InitCarried
<1>2. SInv /\ [Next]_vars => SInv'
  <2> SUFFICES ASSUME SInv, [Next]_vars PROVE SInv'
    OBVIOUS
  <2>1. launch' = launch
    BY DEF Next, vars, Barrier, Run, Load, Publish, AddPrefix, PublishSum, Update
  <2>2. (Several' <=> Several) /\ (Alone' <=> Alone)
    BY <2>1, LaunchStays DEF Several, Alone
  <2> QED
    BY <2>2, StepTyped, StepControl, StepData, StepCarried
<1>3. SInv => CumulativeSum
  <2> SUFFICES ASSUME SInv PROVE CumulativeSum
    OBVIOUS
  <2>1. Several \/ Alone
    BY FitsCases DEF TypeOK
  <2> QED
    BY <2>1, DataSuffices, CarriedSuffices
<1> QED
  BY <1>1, <1>2, <1>3, PTL DEF Spec
=============================================================================
