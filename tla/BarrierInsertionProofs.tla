----------------------- MODULE BarrierInsertionProofs -----------------------
(***************************************************************************)
(* What insert-barrier guarantees for every program and every order of the *)
(* queue.  Graph says how the control flow graph looks with the barriers   *)
(* in it, Traced where the sets of a node come from, and NoneLeft that     *)
(* an instruction whose sets are out of date is queued, or the barrier     *)
(* next to it is.                                                          *)
(***************************************************************************)
EXTENDS BarrierInsertion, Lemmas, SequenceTheorems

(* What a sequence holds.                                                  *)
Holds(q, x) == \E i \in DOMAIN q : q[i] = x

(* The nodes in front of n in the graph get_control_flow_graph builds.     *)
Before(p, n) == {m \in Inst(p) : Holds(Successors(p, m), n)}

(* The nodes of the graph.                                                 *)
Placed == Inst(prog) \cup {x \in Node(prog) :
              \E n \in Inst(prog) : Holds(inserted[n], x)}

(* The places of the barriers in front of n.                               *)
Fst(n) == n + Len(prog.op)
Snd(n) == n + 2 * Len(prog.op)

Accessed(n) == {s \in Space : In(s, GetRW(prog, n)) # None}

NotYet(x) == irwOut[x] = None /\ succ[x] = <<>>

NoneIn(S, a) == \A s \in S : In(s, a) = None

(* What a barrier lets through of c, in the spaces S it does not fence.    *)
Passed(a, c, S) == MergeAll({a} \cup {In(s, c) : s \in S})

NoBarrier(n) ==
    /\ inserted[n] = <<>>
    /\ pred[n] = Before(prog, n)
    /\ NotYet(Fst(n)) /\ NotYet(Snd(n))

OneBarrier(n) ==
    /\ inserted[n] = <<Fst(n)>>
    /\ InsertsAt(n)
    /\ pred[n] = {Fst(n)} /\ pred[Fst(n)] = Before(prog, n)
    /\ succ[Fst(n)] = <<n>>
    /\ fence[Fst(n)] # {} /\ fence[Fst(n)] \subseteq Accessed(n)
    /\ NoneIn(fence[Fst(n)], irwOut[Fst(n)])
    /\ NotYet(Snd(n))

TwoBarriers(n) ==
    /\ inserted[n] = <<Fst(n), Snd(n)>>
    /\ InsertsAt(n)
    /\ pred[n] = {Snd(n)} /\ pred[Snd(n)] = {Fst(n)} /\ pred[Fst(n)] = Before(prog, n)
    /\ succ[Fst(n)] = <<n>> /\ succ[Snd(n)] = <<n>>
    /\ fence[Fst(n)] # {} /\ fence[Fst(n)] \subseteq Accessed(n)
    /\ fence[Snd(n)] # {} /\ fence[Snd(n)] \subseteq Accessed(n)
    /\ fence[Fst(n)] \cap fence[Snd(n)] = {}
    /\ NoneIn(fence[Fst(n)], irwOut[Fst(n)])
    /\ NoneIn(fence[Fst(n)] \cup fence[Snd(n)], irwOut[Snd(n)])

(* The graph, and the barriers in it: at most two in front of an           *)
(* instruction, and what one fences does not come out of it.               *)
Graph ==
    /\ prog \in Programs
    /\ queue \in Seq(Placed)
    /\ DOMAIN irwOut = Node(prog) /\ DOMAIN pred = Node(prog)
    /\ DOMAIN succ = Node(prog) /\ DOMAIN fence = Node(prog)
    /\ DOMAIN inserted = Inst(prog)
    /\ missed \in BOOLEAN
    /\ \A n \in Inst(prog) :
           /\ succ[n] = Successors(prog, n)
           /\ fence[n] = prog.fence[n]
           /\ NoBarrier(n) \/ OneBarrier(n) \/ TwoBarriers(n)

-----------------------------------------------------------------------------
(* Nodes *)

(* The numbers of instructions and of their barriers do not meet.          *)
LEMMA NodeFacts ==
    ASSUME prog \in Programs
    PROVE  /\ Len(prog.op) \in Nat
           /\ IsTree(prog)
           /\ Inst(prog) \subseteq Node(prog)
           /\ \A n \in Inst(prog) :
                  /\ n \in Nat
                  /\ Fst(n) \in Node(prog) /\ Fst(n) \notin Inst(prog) /\ Place(Fst(n)) = n
                  /\ Snd(n) \in Node(prog) /\ Snd(n) \notin Inst(prog) /\ Place(Snd(n)) = n
                  /\ Place(n) = n
                  /\ \A m \in Inst(prog) : Fst(m) # Snd(n)
                  /\ \A m \in Inst(prog) : Fst(m) = Fst(n) \/ Snd(m) = Snd(n) => m = n
<1>1. Len(prog.op) \in Nat /\ IsTree(prog)
  BY ProgramsAssumption DEF IsTree
<1> QED
  BY <1>1, SMTT(60) DEF Inst, Node, Fst, Snd, Place

(* Sets of one node, and of none.                                          *)
LEMMA MergeFacts ==
    ASSUME NEW a
    PROVE  /\ MergeAll({a}) = [rd |-> a.rd, wr |-> a.wr]
           /\ \A s : In(s, None) = None
           /\ None.rd = {} /\ None.wr = {}
           /\ \A s : ~Conflict(s, None, a)
BY DEF MergeAll, In, None, Conflict, Intersects

-----------------------------------------------------------------------------
(* Edges *)

(* What the concatenation of two sequences holds.                          *)
LEMMA ConcatHolds ==
    ASSUME NEW S, NEW q \in Seq(S), NEW r \in Seq(S)
    PROVE  /\ q \o r \in Seq(S)
           /\ \A x : Holds(q \o r, x) <=> Holds(q, x) \/ Holds(r, x)
<1>1. q \o r \in Seq(S) /\ Len(q \o r) = Len(q) + Len(r)
  OBVIOUS
<1>2. ASSUME NEW x, Holds(q \o r, x) PROVE Holds(q, x) \/ Holds(r, x)
  <2>1. PICK i \in DOMAIN (q \o r) : (q \o r)[i] = x
    BY <1>2 DEF Holds
  <2>2. CASE i <= Len(q)
    BY <2>1, <2>2 DEF Holds
  <2>3. CASE i > Len(q)
    <3>1. i - Len(q) \in DOMAIN r /\ r[i - Len(q)] = x
      BY <1>1, <2>1, <2>3
    <3> QED
      BY <3>1 DEF Holds
  <2> QED
    BY <1>1, <2>1, <2>2, <2>3
<1>3. ASSUME NEW x, Holds(q, x) PROVE Holds(q \o r, x)
  <2>1. PICK i \in DOMAIN q : q[i] = x
    BY <1>3 DEF Holds
  <2>2. i \in DOMAIN (q \o r) /\ (q \o r)[i] = x
    BY <1>1, <2>1
  <2> QED
    BY <2>2 DEF Holds
<1>4. ASSUME NEW x, Holds(r, x) PROVE Holds(q \o r, x)
  <2>1. PICK i \in DOMAIN r : r[i] = x
    BY <1>4 DEF Holds
  <2>2. i + Len(q) \in DOMAIN (q \o r) /\ (q \o r)[i + Len(q)] = x
    BY <1>1, <2>1
  <2> QED
    BY <2>2 DEF Holds
<1> QED
  BY <1>1, <1>2, <1>3, <1>4

(* What a sequence of one element holds.                                   *)
LEMMA SingleHolds ==
    ASSUME NEW S, NEW y \in S
    PROVE  /\ <<y>> \in Seq(S) /\ <<>> \in Seq(S)
           /\ \A x : Holds(<<y>>, x) <=> x = y
           /\ \A x : ~Holds(<<>>, x)
BY DEF Holds

(* Sequences of up to two elements.                                        *)
LEMMA AppendFacts ==
    ASSUME NEW S, NEW y \in S, NEW z \in S
    PROVE  /\ <<>> \in Seq(S) /\ <<y>> \in Seq(S)
           /\ Append(<<>>, y) = <<y>> /\ Append(<<y>>, z) = <<y, z>>
<1>1. <<>> \in Seq(S) /\ <<y>> \in Seq(S) /\ <<y, z>> \in Seq(S)
  OBVIOUS
<1>2. Append(<<>>, y) = <<y>>
  BY <1>1
<1>3. Append(<<y>>, z) = <<y, z>>
  <2>1. /\ Append(<<y>>, z) \in Seq(S) /\ Len(Append(<<y>>, z)) = 2 /\ Len(<<y, z>>) = 2
        /\ Append(<<y>>, z)[1] = y /\ Append(<<y>>, z)[2] = z
    BY <1>1
  <2>2. \A i \in 1 .. 2 : Append(<<y>>, z)[i] = <<y, z>>[i]
    BY <2>1
  <2> QED
    BY <1>1, <2>1, <2>2, SeqEqual
<1> QED
  BY <1>1, <1>2, <1>3

(* What a sequence holds, its tail holds, but for the head.                *)
LEMMA RestHolds ==
    ASSUME NEW S, NEW q \in Seq(S), q # <<>>
    PROVE  /\ Head(q) \in S /\ Tail(q) \in Seq(S)
           /\ \A x : Holds(q, x) => x = Head(q) \/ Holds(Tail(q), x)
<1>1. Head(q) \in S /\ Tail(q) \in Seq(S) /\ Len(q) > 0 /\ Len(Tail(q)) = Len(q) - 1
  OBVIOUS
<1>2. ASSUME NEW x, Holds(q, x), x # Head(q) PROVE Holds(Tail(q), x)
  <2>1. PICK i \in DOMAIN q : q[i] = x
    BY <1>2 DEF Holds
  <2>2. i # 1
    BY <1>2, <2>1
  <2>3. i - 1 \in DOMAIN Tail(q) /\ Tail(q)[i - 1] = x
    BY <1>1, <2>1, <2>2
  <2> QED
    BY <2>3 DEF Holds
<1> QED
  BY <1>1, <1>2

(* Control starts with the first instruction of a child region.            *)
LEMMA StartFacts ==
    ASSUME NEW p, NEW m
    PROVE  /\ Starts(p, m) \in Seq(Inst(p))
           /\ \A n : Holds(Starts(p, m), n) <=>
                        \E b \in Regions(p, m) : n = First(Region(p, m, b))
           /\ \A b \in Regions(p, m) : First(Region(p, m, b)) \in Region(p, m, b)
<1>1. ASSUME NEW b \in Regions(p, m) PROVE First(Region(p, m, b)) \in Region(p, m, b)
  <2>1. Region(p, m, b) \in SUBSET Nat /\ Region(p, m, b) # {}
    BY DEF Region, Regions, Inst
  <2> QED
    BY <2>1, FirstFacts
<1> DEFINE start(b) == IF b \in Regions(p, m) THEN <<First(Region(p, m, b))>> ELSE <<>>
<1>2. \A b : /\ start(b) \in Seq(Inst(p))
             /\ \A n : Holds(start(b), n) <=> b \in Regions(p, m) /\ n = First(Region(p, m, b))
  <2> TAKE b
  <2>1. CASE b \in Regions(p, m)
    <3>1. First(Region(p, m, b)) \in Inst(p)
      BY <1>1, <2>1 DEF Region
    <3> QED
      BY <2>1, <3>1, SingleHolds
  <2>2. CASE b \notin Regions(p, m)
    BY <2>2 DEF Holds
  <2> QED
    BY <2>1, <2>2
<1>3. Starts(p, m) = start(1) \o start(2)
  BY DEF Starts
<1>4. Regions(p, m) \subseteq {1, 2}
  BY DEF Regions
<1> HIDE DEF start
<1>5. /\ start(1) \o start(2) \in Seq(Inst(p))
      /\ \A n : Holds(start(1) \o start(2), n) <=> Holds(start(1), n) \/ Holds(start(2), n)
  BY <1>2, ConcatHolds
<1> QED
  BY <1>1, <1>2, <1>3, <1>4, <1>5

(* The successors in the graph.                                            *)
LEMMA SuccessorFacts ==
    ASSUME NEW p, IsTree(p), NEW m \in Inst(p)
    PROVE  /\ Successors(p, m) \in Seq(Inst(p))
           /\ \A n : Holds(Successors(p, m), n) <=>
                        \/ Holds(Starts(p, m), n)
                        \/ OwnExit(p, m) /\ Follow(p, m) = n /\ n # 0
           /\ \A n : Holds(Successors(p, m), n) => FlowsTo(p, m, n)
<1> DEFINE exit == IF OwnExit(p, m) /\ Follow(p, m) # 0 THEN <<Follow(p, m)>> ELSE <<>>
<1>1. Successors(p, m) = Starts(p, m) \o exit
  BY DEF Successors
<1>2. /\ exit \in Seq(Inst(p))
      /\ \A n : Holds(exit, n) <=> OwnExit(p, m) /\ Follow(p, m) = n /\ n # 0
  <2>1. CASE OwnExit(p, m) /\ Follow(p, m) # 0
    <3>1. Follow(p, m) \in Inst(p)
      BY <2>1, FollowIsInst
    <3> QED
      BY <2>1, <3>1, SingleHolds
  <2>2. CASE ~(OwnExit(p, m) /\ Follow(p, m) # 0)
    BY <2>2 DEF Holds
  <2> QED
    BY <2>1, <2>2
<1> HIDE DEF exit
<1>3. /\ Starts(p, m) \o exit \in Seq(Inst(p))
      /\ \A n : Holds(Starts(p, m) \o exit, n) <=> Holds(Starts(p, m), n) \/ Holds(exit, n)
  BY <1>2, StartFacts, ConcatHolds
<1>4. OwnExit(p, m) => Skips(p, m)
  BY DEF OwnExit, Skips
<1>5. \A n : Holds(Starts(p, m), n) => FlowsTo(p, m, n)
  BY DEF FlowsTo, Holds
<1>6. \A n : OwnExit(p, m) /\ Follow(p, m) = n => FlowsTo(p, m, n)
  BY <1>4 DEF FlowsTo
<1> QED
  BY <1>1, <1>2, <1>3, <1>5, <1>6

-----------------------------------------------------------------------------
(* Graph is invariant *)

(* Initially there are no barriers of the pass, and the predecessors are   *)
(* those of the control flow graph.                                        *)
LEMMA GraphAtFirst ==
    ASSUME Init
    PROVE  Graph /\ \A n \in Inst(prog) : NoBarrier(n)
<1>1. prog \in Programs /\ IsTree(prog) /\ Inst(prog) \subseteq Node(prog)
  BY NodeFacts DEF Init
<1>2. queue \in Seq(Placed)
  <2>1. Inst(prog) = 1 .. Len(prog.op) /\ Len(prog.op) \in Nat
    BY <1>1, NodeFacts DEF Inst
  <2>2. queue \in [Inst(prog) -> Inst(prog)]
    BY DEF Init, Bijection, Injection
  <2>3. queue \in Seq(Inst(prog))
    BY <2>1, <2>2
  <2>4. Inst(prog) \subseteq Placed
    BY DEF Placed
  <2> QED
    BY <2>3, <2>4
<1>3. ASSUME NEW n \in Inst(prog)
      PROVE  succ[n] = Successors(prog, n) /\ fence[n] = prog.fence[n] /\ NoBarrier(n)
  <2>1. n \in Node(prog) /\ Fst(n) \in Node(prog) \ Inst(prog) /\ Snd(n) \in Node(prog) \ Inst(prog)
    BY <1>1, NodeFacts
  <2>2. succ[n] = Successors(prog, n) /\ fence[n] = prog.fence[n] /\ inserted[n] = <<>>
    BY <2>1 DEF Init
  <2>3. NotYet(Fst(n)) /\ NotYet(Snd(n))
    BY <2>1 DEF Init, NotYet
  <2>4. \A m \in Node(prog) : Holds(succ[m], n) <=> m \in Inst(prog) /\ Holds(Successors(prog, m), n)
    BY DEF Init, Holds
  <2>5. pred[n] = {m \in Node(prog) : Holds(succ[m], n)}
    BY <2>1 DEF Init, Holds
  <2>6. pred[n] = Before(prog, n)
    BY <1>1, <2>4, <2>5 DEF Before
  <2> QED
    BY <2>2, <2>3, <2>6 DEF NoBarrier
<1> QED
  BY <1>1, <1>2, <1>3 DEF Graph, Init

(* A node of the graph is an instruction or one of its barriers.           *)
LEMMA PlacedFacts ==
    ASSUME Graph, NEW x \in Placed
    PROVE  /\ x \in Node(prog)
           /\ \/ x \in Inst(prog)
              \/ /\ x \notin Inst(prog) /\ IsBarrier(x) /\ InsertsAt(x)
                 /\ \E n \in Inst(prog) :
                        /\ Place(x) = n /\ InsertsAt(n) /\ succ[x] = <<n>>
                        /\ \/ x = Fst(n) /\ (OneBarrier(n) \/ TwoBarriers(n))
                           \/ x = Snd(n) /\ TwoBarriers(n)
<1>1. prog \in Programs
  BY DEF Graph
<1>2. CASE x \in Inst(prog)
  BY <1>1, <1>2, NodeFacts
<1>3. CASE x \notin Inst(prog)
  <2>1. PICK n \in Inst(prog) : Holds(inserted[n], x)
    BY <1>3 DEF Placed
  <2>2. \/ x = Fst(n) /\ (OneBarrier(n) \/ TwoBarriers(n))
        \/ x = Snd(n) /\ TwoBarriers(n)
    <3>1. NoBarrier(n) \/ OneBarrier(n) \/ TwoBarriers(n)
      BY DEF Graph
    <3>2. CASE NoBarrier(n)
      BY <2>1, <3>2 DEF NoBarrier, Holds
    <3>3. CASE OneBarrier(n)
      BY <2>1, <3>3 DEF OneBarrier, Holds
    <3>4. CASE TwoBarriers(n)
      BY <2>1, <3>4 DEF TwoBarriers, Holds
    <3> QED
      BY <3>1, <3>2, <3>3, <3>4
  <2>3. x \in Node(prog) /\ Place(x) = n /\ Place(n) = n
    BY <1>1, <2>2, NodeFacts
  <2>4. InsertsAt(n) /\ succ[x] = <<n>>
    BY <2>2 DEF OneBarrier, TwoBarriers
  <2>5. IsBarrier(x) /\ InsertsAt(x)
    BY <1>3, <2>3, <2>4 DEF IsBarrier, InsertsAt
  <2> QED
    BY <1>3, <2>2, <2>3, <2>4, <2>5
<1> QED
  BY <1>2, <1>3

(* A fence is needed only in a space that the instruction accesses and     *)
(* where something reaches it.                                             *)
LEMMA NeededFacts ==
    ASSUME NEW n, NEW s \in Needed(n)
    PROVE  /\ InsertsAt(n) /\ s \in Space /\ s \in Accessed(n)
           /\ In(s, IrwIn(n)) # None
<1>1. InsertsAt(n) /\ s \in Space /\ Conflict(s, IrwIn(n), GetRW(prog, n))
  BY DEF Needed
<1>2. \A V, W : Intersects(V, W) => V # {} /\ W # {}
  BY DEF Intersects
<1> QED
  BY <1>1, <1>2 DEF Conflict, Accessed, None

(* What comes out of a barrier in a space t.                               *)
LEMMA OutOfBarrier ==
    ASSUME NEW a, NEW c, NEW S, NEW t, In(t, a) = None, t \notin S \/ In(t, c) = None
    PROVE  In(t, Passed(a, c, S)) = None
<1>1. /\ \A v \in a.rd : SpaceOf[v] # t
      /\ \A v \in a.wr : SpaceOf[v] # t
  BY DEF In, None
<1>2. \A s \in S : /\ \A v \in In(s, c).rd : SpaceOf[v] # t
                   /\ \A v \in In(s, c).wr : SpaceOf[v] # t
  BY DEF In, None
<1> DEFINE M == MergeAll({a} \cup {In(s, c) : s \in S})
<1>3. /\ \A v \in M.rd : v \in a.rd \/ \E s \in S : v \in In(s, c).rd
      /\ \A v \in M.wr : v \in a.wr \/ \E s \in S : v \in In(s, c).wr
  BY DEF MergeAll
<1> HIDE DEF M
<1>4. {v \in M.rd : SpaceOf[v] = t} = {} /\ {v \in M.wr : SpaceOf[v] = t} = {}
  BY <1>1, <1>2, <1>3
<1> QED
  BY <1>4 DEF In, None, M, Passed

(* The node the loop visits is in the graph.                               *)
LEMMA HeadIsPlaced ==
    ASSUME Graph, queue # <<>>
    PROVE  /\ Head(queue) \in Placed /\ Tail(queue) \in Seq(Placed)
           /\ \A x : Holds(queue, x) => x = Head(queue) \/ Holds(Tail(queue), x)
BY RestHolds DEF Graph

(* What is queued again are instructions.                                  *)
LEMMA RequeueFacts ==
    ASSUME Graph, NEW x \in Placed, NEW out
    PROVE  /\ Requeue(x, out) \in Seq(Inst(prog))
           /\ Requeue(x, out) \in Seq(Placed)
           /\ Cardinal(out) # Cardinal(irwOut[x]) => Requeue(x, out) = succ[x]
<1>1. succ[x] \in Seq(Inst(prog))
  <2>1. CASE x \in Inst(prog)
    <3>1. succ[x] = Successors(prog, x) /\ IsTree(prog)
      BY <2>1, NodeFacts DEF Graph
    <3> QED
      BY <2>1, <3>1, SuccessorFacts
  <2>2. CASE x \notin Inst(prog)
    <3>1. PICK n \in Inst(prog) : succ[x] = <<n>>
      BY <2>2, PlacedFacts
    <3> QED
      BY <3>1, SingleHolds
  <2> QED
    BY <2>1, <2>2
<1>2. <<>> \in Seq(Inst(prog)) /\ Inst(prog) \subseteq Placed
  BY DEF Placed
<1> QED
  BY <1>1, <1>2 DEF Requeue

(* What the program alone decides.                                         *)
LEMMA Fixed ==
    ASSUME prog' = prog
    PROVE  \A n : /\ InsertsAt(n)' = InsertsAt(n)
                  /\ IsBarrier(n)' = IsBarrier(n)
                  /\ Accessed(n)' = Accessed(n)
                  /\ Fst(n)' = Fst(n) /\ Snd(n)' = Snd(n)
BY DEF InsertsAt, IsBarrier, Accessed, Fst, Snd, Place

(* A visit of x that leaves the graph as it is.                            *)
LEMMA UpdateKeepsGraph ==
    ASSUME Graph, NEW x \in Placed, NEW out, NEW q \in Seq(Placed),
           UNCHANGED <<prog, pred, succ, inserted, fence>>,
           Update(x, out), queue' = q,
           x \notin Inst(prog) => out = Passed(irwOut[x], IrwIn(x), Space \ fence[x])
    PROVE  Graph'
<1>1. Placed' = Placed
  BY DEF Placed
<1>2. /\ prog \in Programs /\ DOMAIN irwOut = Node(prog)
      /\ irwOut' = [irwOut EXCEPT ![x] = out]
      /\ missed' \in BOOLEAN
  BY DEF Graph, Update
<1>3. /\ \A y \in Node(prog) : y # x => irwOut'[y] = irwOut[y]
      /\ x \in Node(prog) /\ irwOut'[x] = out
  BY <1>2, PlacedFacts
<1>4. \A n : /\ InsertsAt(n)' = InsertsAt(n) /\ Accessed(n)' = Accessed(n)
             /\ Fst(n)' = Fst(n) /\ Snd(n)' = Snd(n)
  BY Fixed
<1>5. ASSUME NEW n \in Inst(prog) PROVE (NoBarrier(n) \/ OneBarrier(n) \/ TwoBarriers(n))'
  <2>1. /\ Fst(n) \in Node(prog) \ Inst(prog) /\ Snd(n) \in Node(prog) \ Inst(prog)
        /\ Fst(n) # Snd(n)
        /\ \A m \in Inst(prog) : Fst(m) # Snd(n) /\ Snd(m) # Fst(n)
        /\ \A m \in Inst(prog) : Fst(m) = Fst(n) \/ Snd(m) = Snd(n) => m = n
    BY <1>2, NodeFacts
  <2>2. x = Fst(n) => OneBarrier(n) \/ TwoBarriers(n)
    BY <2>1, PlacedFacts
  <2>3. x = Snd(n) => TwoBarriers(n)
    BY <2>1, PlacedFacts
  <2>4. /\ OneBarrier(n) => inserted[n] = <<Fst(n)>>
        /\ TwoBarriers(n) => inserted[n] = <<Fst(n), Snd(n)>>
        /\ NoBarrier(n) => inserted[n] = <<>>
    BY DEF NoBarrier, OneBarrier, TwoBarriers
  <2>5. /\ ~(NoBarrier(n) /\ OneBarrier(n)) /\ ~(NoBarrier(n) /\ TwoBarriers(n))
        /\ ~(OneBarrier(n) /\ TwoBarriers(n))
    <3>1. <<Fst(n)>> # <<>> /\ <<Fst(n), Snd(n)>> # <<>> /\ <<Fst(n), Snd(n)>> # <<Fst(n)>>
      OBVIOUS
    <3> QED
      BY <2>4, <3>1
  <2>6. CASE NoBarrier(n)
    <3>1. NotYet(Fst(n))' /\ NotYet(Snd(n))'
      BY <1>3, <2>1, <2>2, <2>3, <2>5, <2>6 DEF NoBarrier, NotYet, Fst, Snd
    <3> QED
      BY <1>4, <2>6, <3>1 DEF NoBarrier
  <2>7. CASE OneBarrier(n)
    <3>1. NotYet(Snd(n))'
      BY <1>3, <2>1, <2>3, <2>5, <2>7 DEF OneBarrier, NotYet, Snd
    <3>2. NoneIn(fence[Fst(n)], irwOut'[Fst(n)])
      <4>1. CASE x = Fst(n)
        <5> SUFFICES ASSUME NEW t \in fence[x] PROVE In(t, out) = None
          BY <1>3, <4>1 DEF NoneIn
        <5>1. In(t, irwOut[x]) = None
          BY <2>7, <4>1 DEF OneBarrier, NoneIn
        <5>2. t \notin Space \ fence[x]
          OBVIOUS
        <5>3. In(t, Passed(irwOut[x], IrwIn(x), Space \ fence[x])) = None
          BY <5>1, <5>2, OutOfBarrier
        <5> QED
          BY <2>1, <4>1, <5>3
      <4>2. CASE x # Fst(n)
        BY <1>3, <2>1, <2>7, <4>2 DEF OneBarrier
      <4> QED
        BY <4>1, <4>2
    <3> QED
      BY <1>4, <2>7, <3>1, <3>2 DEF OneBarrier
  <2>8. CASE TwoBarriers(n)
    <3>1. NoneIn(fence[Fst(n)], irwOut'[Fst(n)])
      <4>1. CASE x = Fst(n)
        <5> SUFFICES ASSUME NEW t \in fence[x] PROVE In(t, out) = None
          BY <1>3, <4>1 DEF NoneIn
        <5>1. In(t, irwOut[x]) = None
          BY <2>8, <4>1 DEF TwoBarriers, NoneIn
        <5>2. t \notin Space \ fence[x]
          OBVIOUS
        <5>3. In(t, Passed(irwOut[x], IrwIn(x), Space \ fence[x])) = None
          BY <5>1, <5>2, OutOfBarrier
        <5> QED
          BY <2>1, <4>1, <5>3
      <4>2. CASE x # Fst(n)
        BY <1>3, <2>1, <2>8, <4>2 DEF TwoBarriers
      <4> QED
        BY <4>1, <4>2
    <3>2. NoneIn(fence[Fst(n)] \cup fence[Snd(n)], irwOut'[Snd(n)])
      <4>1. CASE x = Snd(n)
        <5> SUFFICES ASSUME NEW t \in fence[Fst(n)] \cup fence[x] PROVE In(t, out) = None
          BY <1>3, <4>1 DEF NoneIn
        <5>1. In(t, irwOut[x]) = None
          BY <2>8, <4>1 DEF TwoBarriers, NoneIn
        <5>2. t \notin Space \ fence[x] \/ In(t, IrwIn(x)) = None
          <6>1. CASE t \in fence[x]
            BY <6>1
          <6>2. CASE t \in fence[Fst(n)]
            <7>1. pred[x] = {Fst(n)} /\ In(t, irwOut[Fst(n)]) = None
              BY <2>8, <4>1, <6>2 DEF TwoBarriers, NoneIn
            <7>2. IrwIn(x) = MergeAll({irwOut[Fst(n)]})
              BY <7>1 DEF IrwIn
            <7>3. IrwIn(x) = [rd |-> irwOut[Fst(n)].rd, wr |-> irwOut[Fst(n)].wr]
              BY <7>2, MergeFacts
            <7> QED
              BY <7>1, <7>3 DEF In
          <6> QED
            BY <6>1, <6>2
        <5>3. In(t, Passed(irwOut[x], IrwIn(x), Space \ fence[x])) = None
          BY <5>1, <5>2, OutOfBarrier
        <5> QED
          BY <2>1, <4>1, <5>3
      <4>2. CASE x # Snd(n)
        BY <1>3, <2>1, <2>8, <4>2 DEF TwoBarriers
      <4> QED
        BY <4>1, <4>2
    <3> QED
      BY <1>4, <2>8, <3>1, <3>2 DEF TwoBarriers
  <2>9. NoBarrier(n) \/ OneBarrier(n) \/ TwoBarriers(n)
    BY DEF Graph
  <2> QED
    BY <2>6, <2>7, <2>8, <2>9
<1>6. DOMAIN irwOut' = Node(prog)
  BY <1>2
<1> QED
  BY <1>1, <1>2, <1>5, <1>6 DEF Graph

(* What comes to a node with one predecessor.                              *)
LEMMA OnlyPredecessor ==
    ASSUME NEW n, NEW b, pred[n] = {b}
    PROVE  /\ IrwIn(n) = [rd |-> irwOut[b].rd, wr |-> irwOut[b].wr]
           /\ \A s : In(s, IrwIn(n)) = In(s, irwOut[b])
<1>1. {irwOut[m] : m \in pred[n]} = {irwOut[b]}
  OBVIOUS
<1>2. IrwIn(n) = [rd |-> irwOut[b].rd, wr |-> irwOut[b].wr]
  BY <1>1, MergeFacts DEF IrwIn
<1> QED
  BY <1>2 DEF In

(* A space is fenced once in front of an instruction, so that two barriers *)
(* are enough.                                                             *)
LEMMA NeededOnce ==
    ASSUME Graph, NEW n \in Inst(prog), NEW s \in Needed(n)
    PROVE  /\ ~TwoBarriers(n)
           /\ OneBarrier(n) => s \notin fence[Fst(n)]
<1>1. s \in Space /\ In(s, IrwIn(n)) # None
  BY NeededFacts
<1>2. ASSUME OneBarrier(n), s \in fence[Fst(n)] PROVE FALSE
  BY <1>1, <1>2, OnlyPredecessor DEF OneBarrier, NoneIn
<1>3. ASSUME TwoBarriers(n) PROVE FALSE
  <2>1. In(s, irwOut[Snd(n)]) # None
    BY <1>1, <1>3, OnlyPredecessor DEF TwoBarriers
  <2>2. s \notin fence[Fst(n)] /\ s \notin fence[Snd(n)]
    BY <1>3, <2>1 DEF TwoBarriers, NoneIn
  <2>3. /\ fence[Fst(n)] \subseteq Space /\ fence[Snd(n)] \subseteq Space
        /\ fence[Fst(n)] # {} /\ fence[Snd(n)] # {} /\ fence[Fst(n)] \cap fence[Snd(n)] = {}
    BY <1>3 DEF TwoBarriers, Accessed
  <2> QED
    BY <1>1, <2>2, <2>3 DEF Space
<1> QED
  BY <1>2, <1>3

(* The number of the next barrier in front of an instruction.              *)
LEMMA NewBarrierFacts ==
    ASSUME Graph, NEW n \in Inst(prog)
    PROVE  /\ NoBarrier(n) => NewBarrier(n) = Fst(n)
           /\ OneBarrier(n) => NewBarrier(n) = Snd(n)
<1>1. n \in Nat /\ Len(prog.op) \in Nat
  BY NodeFacts DEF Graph
<1>2. CASE NoBarrier(n)
  <2>1. Len(inserted[n]) = 0
    BY <1>2 DEF NoBarrier
  <2>2. NewBarrier(n) = n + 1 * Len(prog.op)
    BY <2>1 DEF NewBarrier
  <2>3. NewBarrier(n) = Fst(n)
    BY <1>1, <2>2 DEF Fst
  <2>4. ~OneBarrier(n)
    <3>1. <<Fst(n)>> # <<>>
      OBVIOUS
    <3> QED
      BY <1>2, <3>1 DEF NoBarrier, OneBarrier
  <2> QED
    BY <2>3, <2>4
<1>3. CASE OneBarrier(n)
  <2>1. Len(inserted[n]) = 1
    BY <1>3 DEF OneBarrier
  <2>2. NewBarrier(n) = Snd(n)
    BY <1>1, <2>1 DEF NewBarrier, Snd
  <2>3. ~NoBarrier(n)
    <3>1. <<Fst(n)>> # <<>>
      OBVIOUS
    <3> QED
      BY <1>3, <3>1 DEF NoBarrier, OneBarrier
  <2> QED
    BY <2>2, <2>3
<1> QED
  BY <1>2, <1>3

(* Only instructions that are no barriers of a collective region get one.  *)
LEMMA GetsOne ==
    ASSUME Graph, queue # <<>>, ~(IsBarrier(Head(queue)) /\ InsertsAt(Head(queue)))
    PROVE  Head(queue) \in Inst(prog)
BY HeadIsPlaced, PlacedFacts

(* A visit that inserts a barrier.                                         *)
LEMMA InsertKeepsGraph ==
    ASSUME Graph, queue # <<>>, prog' = prog, InsertBarrier(Head(queue))
    PROVE  Graph'
<1>0. PICK x : x = Head(queue)
  OBVIOUS
<1>a. PICK b : b = NewBarrier(x)
  OBVIOUS
<1> DEFINE out == Transfer(x, Needed(x))
<1>1. x \in Inst(prog) /\ x \in Placed /\ Tail(queue) \in Seq(Placed)
  BY <1>0, GetsOne, HeadIsPlaced DEF InsertBarrier
<1>2. prog \in Programs /\ x \in Node(prog) /\ Inst(prog) \subseteq Node(prog)
  BY <1>1, NodeFacts DEF Graph
<1>3. PICK s : s \in Needed(x)
  BY <1>0 DEF InsertBarrier
<1>4. (NoBarrier(x) /\ b = Fst(x)) \/ (OneBarrier(x) /\ b = Snd(x))
  <2>1. NoBarrier(x) \/ OneBarrier(x) \/ TwoBarriers(x)
    BY <1>1 DEF Graph
  <2>2. ~TwoBarriers(x)
    BY <1>1, <1>3, NeededOnce
  <2> QED
    BY <1>1, <1>a, <2>1, <2>2, NewBarrierFacts
<1>5. /\ b \in Node(prog) \ Inst(prog) /\ b # x
      /\ \A n \in Inst(prog) : n # x => b # Fst(n) /\ b # Snd(n)
      /\ Fst(x) # Snd(x) /\ Fst(x) \notin Inst(prog) /\ Snd(x) \notin Inst(prog)
  BY <1>1, <1>2, <1>4, NodeFacts
<1>6. /\ Update(x, out)
      /\ fence' = [fence EXCEPT ![b] = Needed(x)]
      /\ inserted' = [inserted EXCEPT ![x] = Append(@, b)]
      /\ InsertBefore(x, b)
      /\ queue' = Append(Tail(queue), b) \o Requeue(x, out)
  BY <1>0, <1>a DEF InsertBarrier
<1> HIDE DEF out
<1>7. /\ DOMAIN irwOut' = Node(prog) /\ DOMAIN pred' = Node(prog)
      /\ DOMAIN succ' = Node(prog) /\ DOMAIN fence' = Node(prog)
      /\ DOMAIN inserted' = Inst(prog) /\ missed' \in BOOLEAN
  BY <1>6 DEF Graph, Update, InsertBefore
<1>8. /\ \A y \in Node(prog) : y # x => irwOut'[y] = irwOut[y]
      /\ \A y \in Node(prog) : y # b => fence'[y] = fence[y] /\ succ'[y] = succ[y]
      /\ \A y \in Node(prog) : y # b /\ y # x => pred'[y] = pred[y]
      /\ pred'[b] = pred[x] /\ pred'[x] = {b}
      /\ fence'[b] = Needed(x) /\ succ'[b] = Append(succ[b], x)
      /\ \A n \in Inst(prog) : n # x => inserted'[n] = inserted[n]
      /\ inserted'[x] = Append(inserted[x], b)
  BY <1>1, <1>2, <1>5, <1>6 DEF Graph, Update, InsertBefore
<1>9. \A n : /\ InsertsAt(n)' = InsertsAt(n) /\ Accessed(n)' = Accessed(n)
             /\ Fst(n)' = Fst(n) /\ Snd(n)' = Snd(n)
  BY Fixed
<1>10. ASSUME NEW n \in Inst(prog), n # x
       PROVE  (NoBarrier(n) \/ OneBarrier(n) \/ TwoBarriers(n))'
  <2>1. /\ Fst(n) \in Node(prog) \ Inst(prog) /\ Snd(n) \in Node(prog) \ Inst(prog)
        /\ n \in Node(prog) /\ n # b /\ b # Fst(n) /\ b # Snd(n) /\ x # Fst(n) /\ x # Snd(n)
    BY <1>1, <1>2, <1>5, <1>10, NodeFacts
  <2>2. /\ pred'[n] = pred[n] /\ pred'[Fst(n)] = pred[Fst(n)] /\ pred'[Snd(n)] = pred[Snd(n)]
        /\ succ'[Fst(n)] = succ[Fst(n)] /\ succ'[Snd(n)] = succ[Snd(n)]
        /\ fence'[Fst(n)] = fence[Fst(n)] /\ fence'[Snd(n)] = fence[Snd(n)]
        /\ irwOut'[Fst(n)] = irwOut[Fst(n)] /\ irwOut'[Snd(n)] = irwOut[Snd(n)]
        /\ inserted'[n] = inserted[n]
    BY <1>8, <1>10, <2>1
  <2>3. NoBarrier(n) \/ OneBarrier(n) \/ TwoBarriers(n)
    BY DEF Graph
  <2>4. NoBarrier(n) => NoBarrier(n)'
    BY <1>9, <2>2 DEF NoBarrier, NotYet
  <2>5. OneBarrier(n) => OneBarrier(n)'
    BY <1>9, <2>2 DEF OneBarrier, NotYet
  <2>6. TwoBarriers(n) => TwoBarriers(n)'
    BY <1>9, <2>2 DEF TwoBarriers
  <2> QED
    BY <2>3, <2>4, <2>5, <2>6
<1>11. InsertsAt(x) /\ Needed(x) # {} /\ Needed(x) \subseteq Accessed(x)
  BY <1>3, NeededFacts
<1>12. /\ Fst(x) \in Node(prog) \ Inst(prog) /\ Snd(x) \in Node(prog) \ Inst(prog)
       /\ Fst(x) # Snd(x)
  BY <1>1, <1>2, NodeFacts
<1>13. ASSUME NoBarrier(x), b = Fst(x) PROVE OneBarrier(x)'
  <2>1. inserted'[x] = <<Fst(x)>> /\ succ'[Fst(x)] = <<x>> /\ pred'[Fst(x)] = Before(prog, x)
    BY <1>8, <1>13 DEF NoBarrier, NotYet
  <2>2. irwOut'[Fst(x)] = None /\ fence'[Fst(x)] = Needed(x)
    BY <1>1, <1>8, <1>12, <1>13 DEF NoBarrier, NotYet
  <2>3. NoneIn(fence'[Fst(x)], irwOut'[Fst(x)])
    BY <2>2, MergeFacts DEF NoneIn
  <2>4. NotYet(Snd(x))'
    BY <1>1, <1>8, <1>9, <1>12, <1>13 DEF NoBarrier, NotYet
  <2> QED
    BY <1>8, <1>9, <1>11, <1>13, <2>1, <2>2, <2>3, <2>4 DEF OneBarrier
<1>14. ASSUME OneBarrier(x), b = Snd(x) PROVE TwoBarriers(x)'
  <2>1. /\ inserted'[x] = <<Fst(x), Snd(x)>> /\ succ'[Snd(x)] = <<x>>
        /\ pred'[Snd(x)] = {Fst(x)} /\ pred'[Fst(x)] = Before(prog, x)
        /\ succ'[Fst(x)] = <<x>>
    <3>1. inserted[x] = <<Fst(x)>> /\ succ[Snd(x)] = <<>>
      BY <1>14 DEF OneBarrier, NotYet
    <3>2. inserted'[x] = <<Fst(x), Snd(x)>> /\ succ'[Snd(x)] = <<x>>
      BY <1>1, <1>2, <1>8, <1>12, <1>14, <3>1, AppendFacts
    <3>3. pred'[Snd(x)] = {Fst(x)} /\ pred'[Fst(x)] = pred[Fst(x)] /\ succ'[Fst(x)] = succ[Fst(x)]
      BY <1>1, <1>8, <1>12, <1>14 DEF OneBarrier
    <3> QED
      BY <1>14, <3>2, <3>3 DEF OneBarrier
  <2>2. /\ irwOut'[Fst(x)] = irwOut[Fst(x)] /\ fence'[Fst(x)] = fence[Fst(x)]
        /\ irwOut'[Snd(x)] = None /\ fence'[Snd(x)] = Needed(x)
    BY <1>1, <1>8, <1>12, <1>14 DEF OneBarrier, NotYet
  <2>3. /\ NoneIn(fence'[Fst(x)], irwOut'[Fst(x)])
        /\ NoneIn(fence'[Fst(x)] \cup fence'[Snd(x)], irwOut'[Snd(x)])
    BY <1>14, <2>2, MergeFacts DEF NoneIn, OneBarrier
  <2>4. fence'[Fst(x)] \cap fence'[Snd(x)] = {}
    BY <1>1, <1>14, <2>2, NeededOnce
  <2> QED
    BY <1>8, <1>9, <1>11, <1>14, <2>1, <2>2, <2>3, <2>4 DEF TwoBarriers, OneBarrier
<1>15. queue' \in Seq(Placed')
  <2>1. Placed \subseteq Placed'
    <3>1. \A n \in Inst(prog) : \A y : Holds(inserted[n], y) => Holds(inserted'[n], y)
      <4>1. \A y : Holds(inserted[x], y) => Holds(Append(inserted[x], b), y)
        <5>1. inserted[x] \in Seq(Node(prog))
          BY <1>4, <1>12, AppendFacts DEF NoBarrier, OneBarrier
        <5>2. <<b>> \in Seq(Node(prog)) /\ Append(inserted[x], b) = inserted[x] \o <<b>>
          BY <1>5, <5>1
        <5> QED
          BY <5>1, <5>2, ConcatHolds
      <4> QED
        BY <1>8, <4>1
    <3> QED
      BY <3>1, prog' = prog DEF Placed
  <2>2. b \in Placed'
    <3>1. Holds(inserted'[x], b)
      <4>1. CASE NoBarrier(x) /\ b = Fst(x)
        BY <1>8, <4>1 DEF NoBarrier, Holds
      <4>2. CASE OneBarrier(x) /\ b = Snd(x)
        <5>1. inserted'[x] = <<Fst(x), b>>
          BY <1>5, <1>8, <1>12, <4>2, AppendFacts DEF OneBarrier
        <5> QED
          BY <5>1 DEF Holds
      <4> QED
        BY <1>4, <4>1, <4>2
    <3> QED
      BY <1>1, <1>5, <3>1, prog' = prog DEF Placed
  <2>3. Tail(queue) \in Seq(Placed') /\ Requeue(x, out) \in Seq(Placed')
    BY <1>1, <2>1, RequeueFacts
  <2> QED
    BY <1>6, <2>2, <2>3
<1>16. \A n \in Inst(prog) : succ'[n] = Successors(prog, n) /\ fence'[n] = prog.fence[n]
  BY <1>2, <1>5, <1>8 DEF Graph
<1> QED
  BY <1>2, <1>4, <1>7, <1>10, <1>13, <1>14, <1>15, <1>16, prog' = prog DEF Graph

(* The graph is well-formed after every step.                              *)
LEMMA StepKeepsGraph ==
    ASSUME Graph, [Next]_vars
    PROVE  Graph'
<1>1. CASE UNCHANGED vars
  <2>1. UNCHANGED <<prog, queue, irwOut, pred, succ, inserted, fence, missed>>
    BY <1>1 DEF vars
  <2>2. \A n : NoBarrier(n)' = NoBarrier(n)
    BY <2>1, Fixed DEF NoBarrier, NotYet
  <2>3. \A n : OneBarrier(n)' = OneBarrier(n)
    BY <2>1, Fixed DEF OneBarrier, NotYet
  <2>4. \A n : TwoBarriers(n)' = TwoBarriers(n)
    <3> TAKE n
    <3>1. /\ InsertsAt(n)' = InsertsAt(n) /\ Accessed(n)' = Accessed(n)
          /\ Fst(n)' = Fst(n) /\ Snd(n)' = Snd(n)
      BY <2>1, Fixed
    <3> QED
      BY <2>1, <3>1 DEF TwoBarriers
  <2>5. Placed' = Placed
    BY <2>1 DEF Placed
  <2> QED
    BY <2>1, <2>2, <2>3, <2>4, <2>5 DEF Graph
<1>2. CASE Next
  <2>0. PICK x : x = Head(queue)
    OBVIOUS
  <2>1. queue # <<>> /\ prog' = prog /\ x \in Placed /\ Tail(queue) \in Seq(Placed)
    BY <1>2, <2>0, HeadIsPlaced DEF Next
  <2>2. CASE VisitBarrier(x)
    <3>1. PICK out : out = MergeAll({irwOut[x]} \cup {In(s, IrwIn(x)) : s \in Space \ fence[x]})
      OBVIOUS
    <3>2. /\ Update(x, out) /\ queue' = Tail(queue) \o Requeue(x, out)
          /\ UNCHANGED <<pred, succ, inserted, fence>>
      BY <2>0, <2>2, <3>1 DEF VisitBarrier
    <3>3. Tail(queue) \o Requeue(x, out) \in Seq(Placed)
      BY <2>1, RequeueFacts, ConcatHolds
    <3>4. out = Passed(irwOut[x], IrwIn(x), Space \ fence[x])
      BY <3>1 DEF Passed
    <3> QED
      BY <2>1, <3>2, <3>3, <3>4, UpdateKeepsGraph
  <2>3. CASE VisitInst(x)
    <3>1. PICK out : out = Transfer(x, {})
      OBVIOUS
    <3>2. /\ Update(x, out) /\ queue' = Tail(queue) \o Requeue(x, out)
          /\ UNCHANGED <<pred, succ, inserted, fence>>
      BY <2>0, <2>3, <3>1 DEF VisitInst
    <3>3. Tail(queue) \o Requeue(x, out) \in Seq(Placed)
      BY <2>1, RequeueFacts, ConcatHolds
    <3>4. x \in Inst(prog)
      BY <2>0, <2>1, <2>3, GetsOne DEF VisitInst
    <3> QED
      BY <2>1, <3>2, <3>3, <3>4, UpdateKeepsGraph
  <2>4. CASE InsertBarrier(x)
    BY <2>0, <2>1, <2>4, InsertKeepsGraph
  <2> QED
    BY <1>2, <2>0, <2>2, <2>3, <2>4 DEF Next
<1> QED
  BY <1>1, <1>2

(* The graph and its barriers, always.                                     *)
LEMMA GraphInvariant == Spec => []Graph
<1>1. Init => Graph
  BY GraphAtFirst
<1>2. Graph /\ [Next]_vars => Graph'
  BY StepKeepsGraph
<1> QED
  BY <1>1, <1>2, PTL DEF Spec

-----------------------------------------------------------------------------
(* Every fence has a reason *)

(* The accesses that reach n are closed under going back.                  *)
LEMMA ReachingIsClosed ==
    ASSUME NEW s, NEW n, NEW m \in Inst(prog)
    PROVE  /\ FlowsTo(prog, m, n) => m \in Reaching(s, n)
           /\ \A x \in Reaching(s, n) : ~Stops(s, x) /\ FlowsTo(prog, m, x) => m \in Reaching(s, n)
BY DEF Reaching

(* What reaches an instruction reaches what follows it.                    *)
LEMMA ReachingGoesOn ==
    ASSUME NEW s, NEW y \in Inst(prog), NEW n, FlowsTo(prog, y, n), ~Stops(s, y),
           NEW m \in Reaching(s, y)
    PROVE  m \in Reaching(s, n)
<1> DEFINE R == Reaching(s, n)
           Closed(S) == \A k \in Inst(prog) :
               \/ FlowsTo(prog, k, y)
               \/ \E x \in S : ~Stops(s, x) /\ FlowsTo(prog, k, x)
               => k \in S
<1>1. y \in R
  BY ReachingIsClosed
<1>2. Closed(R)
  BY <1>1, ReachingIsClosed
<1>3. R \in SUBSET Inst(prog)
  BY DEF Reaching
<1>4. \A S \in SUBSET Inst(prog) : Closed(S) => m \in S
  BY DEF Reaching
<1> HIDE DEF R, Closed
<1> QED
  BY <1>2, <1>3, <1>4 DEF R

(* An access of m is not yet fenced in s behind node x.                    *)
Carried(s, m, x) ==
    IF x \in Inst(prog) THEN (m = x \/ m \in Reaching(s, x)) /\ ~Stops(s, x)
    ELSE m \in Reaching(s, Place(x))

Traced ==
    \A x \in Placed : \A s \in Space :
        /\ \A v \in In(s, irwOut[x]).rd :
               \E m \in Inst(prog) : v \in GetRW(prog, m).rd /\ Carried(s, m, x)
        /\ \A v \in In(s, irwOut[x]).wr :
               \E m \in Inst(prog) : v \in GetRW(prog, m).wr /\ Carried(s, m, x)

(* What comes to a node are accesses that can reach it.                    *)
LEMMA InIsTraced ==
    ASSUME Graph, Traced, NEW x \in Placed, NEW s \in Space
    PROVE  /\ \A v \in In(s, IrwIn(x)).rd :
                  \E m \in Reaching(s, Place(x)) : v \in GetRW(prog, m).rd
           /\ \A v \in In(s, IrwIn(x)).wr :
                  \E m \in Reaching(s, Place(x)) : v \in GetRW(prog, m).wr
<1>1. ASSUME NEW y \in pred[x]
      PROVE  y \in Placed /\ \A m : Carried(s, m, y) => m \in Reaching(s, Place(x))
  <2>1. prog \in Programs /\ IsTree(prog)
    BY NodeFacts DEF Graph
  <2>2. ASSUME NEW n \in Inst(prog), Place(x) = n, y \in Before(prog, n)
        PROVE  y \in Placed /\ \A m : Carried(s, m, y) => m \in Reaching(s, Place(x))
    <3>1. y \in Inst(prog) /\ FlowsTo(prog, y, n)
      BY <2>1, <2>2, SuccessorFacts DEF Before
    <3>2. ASSUME NEW m, Carried(s, m, y) PROVE m \in Reaching(s, n)
      <4>1. (m = y \/ m \in Reaching(s, y)) /\ ~Stops(s, y)
        BY <3>1, <3>2 DEF Carried
      <4>2. CASE m = y
        BY <3>1, <4>2, ReachingIsClosed
      <4>3. CASE m \in Reaching(s, y)
        BY <3>1, <4>1, <4>3, ReachingGoesOn
      <4> QED
        BY <4>1, <4>2, <4>3
    <3> QED
      BY <2>2, <3>1, <3>2 DEF Placed
  <2>3. ASSUME NEW n \in Inst(prog), Place(x) = n, Place(y) = n, y \notin Inst(prog),
               y \in Node(prog), Holds(inserted[n], y)
        PROVE  y \in Placed /\ \A m : Carried(s, m, y) => m \in Reaching(s, Place(x))
    BY <2>3 DEF Placed, Carried
  <2>4. PICK n \in Inst(prog) : Place(x) = n /\ (x = n \/ (x = Fst(n) /\ ~NoBarrier(n)) \/ (x = Snd(n) /\ TwoBarriers(n)))
    <3>1. CASE x \in Inst(prog)
      BY <2>1, <3>1, NodeFacts
    <3>2. CASE x \notin Inst(prog)
      <4>1. PICK n \in Inst(prog) :
               /\ Place(x) = n
               /\ \/ x = Fst(n) /\ (OneBarrier(n) \/ TwoBarriers(n))
                  \/ x = Snd(n) /\ TwoBarriers(n)
        BY <3>2, PlacedFacts
      <4>2. ~NoBarrier(n) \/ ~(OneBarrier(n) \/ TwoBarriers(n))
        BY DEF NoBarrier, OneBarrier, TwoBarriers
      <4> QED
        BY <4>1, <4>2
    <3> QED
      BY <3>1, <3>2
  <2>5. /\ Fst(n) \in Node(prog) /\ Fst(n) \notin Inst(prog) /\ Place(Fst(n)) = n
        /\ Snd(n) \in Node(prog) /\ Snd(n) \notin Inst(prog) /\ Place(Snd(n)) = n
    BY <2>1, NodeFacts
  <2>6. NoBarrier(n) \/ OneBarrier(n) \/ TwoBarriers(n)
    BY DEF Graph
  <2>7. CASE NoBarrier(n)
    <3>1. x = n
      BY <2>4, <2>7 DEF NoBarrier, TwoBarriers
    <3> QED
      BY <2>2, <2>4, <2>7, <3>1 DEF NoBarrier
  <2>8. CASE OneBarrier(n)
    <3>1. Holds(inserted[n], Fst(n)) /\ ~TwoBarriers(n)
      BY <2>8 DEF OneBarrier, TwoBarriers, Holds
    <3>2. CASE x = n
      <4>1. y = Fst(n)
        BY <2>8, <3>2 DEF OneBarrier
      <4> QED
        BY <2>3, <2>4, <2>5, <3>1, <4>1
    <3>3. CASE x = Fst(n)
      BY <2>2, <2>4, <2>8, <3>3 DEF OneBarrier
    <3> QED
      BY <2>4, <3>1, <3>2, <3>3
  <2>9. CASE TwoBarriers(n)
    <3>1. Holds(inserted[n], Fst(n)) /\ Holds(inserted[n], Snd(n))
      BY <2>9 DEF TwoBarriers, Holds
    <3>2. CASE x = n
      <4>1. y = Snd(n)
        BY <2>9, <3>2 DEF TwoBarriers
      <4> QED
        BY <2>3, <2>4, <2>5, <3>1, <4>1
    <3>3. CASE x = Fst(n)
      BY <2>2, <2>4, <2>9, <3>3 DEF TwoBarriers
    <3>4. CASE x = Snd(n)
      <4>1. y = Fst(n)
        BY <2>9, <3>4 DEF TwoBarriers
      <4> QED
        BY <2>3, <2>4, <2>5, <3>1, <4>1
    <3> QED
      BY <2>4, <3>2, <3>3, <3>4
  <2> QED
    BY <2>6, <2>7, <2>8, <2>9
<1>2. ASSUME NEW v \in In(s, IrwIn(x)).rd
      PROVE  \E m \in Reaching(s, Place(x)) : v \in GetRW(prog, m).rd
  <2>1. PICK y \in pred[x] : v \in irwOut[y].rd /\ SpaceOf[v] = s
    BY DEF In, IrwIn, MergeAll
  <2>2. v \in In(s, irwOut[y]).rd
    BY <2>1 DEF In
  <2> QED
    BY <1>1, <2>2 DEF Traced
<1>3. ASSUME NEW v \in In(s, IrwIn(x)).wr
      PROVE  \E m \in Reaching(s, Place(x)) : v \in GetRW(prog, m).wr
  <2>1. PICK y \in pred[x] : v \in irwOut[y].wr /\ SpaceOf[v] = s
    BY DEF In, IrwIn, MergeAll
  <2>2. v \in In(s, irwOut[y]).wr
    BY <2>1 DEF In
  <2> QED
    BY <1>1, <2>2 DEF Traced
<1> QED
  BY <1>2, <1>3

(* What can reach what is a matter of the program alone.                   *)
LEMMA FixedReach ==
    ASSUME prog' = prog
    PROVE  \A s, m, n : /\ Carried(s, m, n)' = Carried(s, m, n)
                        /\ Reaching(s, n)' = Reaching(s, n)
<1>1. \A s, n : Reaching(s, n)' = Reaching(s, n)
  BY DEF Reaching, Stops, InsertsAt, Place
<1>2. \A s, n : Stops(s, n)' = Stops(s, n) /\ Place(n)' = Place(n)
  BY DEF Stops, InsertsAt, Place
<1>3. Inst(prog)' = Inst(prog)
  OBVIOUS
<1> QED
  BY <1>1, <1>2, <1>3 DEF Carried

(* What x passes on is traced if all other nodes are.                      *)
CarriedTo(x, out) ==
    \A s \in Space :
        /\ \A v \in In(s, out).rd : \E m \in Inst(prog) : v \in GetRW(prog, m).rd /\ Carried(s, m, x)
        /\ \A v \in In(s, out).wr : \E m \in Inst(prog) : v \in GetRW(prog, m).wr /\ Carried(s, m, x)

(* It stays traced when node x gets sets that are, and new nodes have      *)
(* none.                                                                   *)
LEMMA UpdateKeepsTraced ==
    ASSUME Graph, Traced, prog' = prog, NEW x \in Placed, NEW out, Update(x, out),
           CarriedTo(x, out),
           \A y \in Placed' : y \in Placed \/ (y \in Node(prog) /\ y # x /\ irwOut[y] = None)
    PROVE  Traced'
<1>1. \A s, m, n : Carried(s, m, n)' = Carried(s, m, n)
  BY FixedReach
<1>2. ASSUME NEW y \in Placed' PROVE CarriedTo(y, irwOut'[y])
  <2>1. /\ \A z \in Node(prog) : z # x => irwOut'[z] = irwOut[z]
        /\ x \in Node(prog) /\ irwOut'[x] = out
    BY PlacedFacts DEF Graph, Update
  <2>2. CASE y = x
    BY <2>1, <2>2
  <2>3. CASE y # x /\ y \in Placed
    <3>1. irwOut'[y] = irwOut[y]
      BY <2>1, <2>3, PlacedFacts
    <3> QED
      BY <2>3, <3>1 DEF Traced, CarriedTo
  <2>4. CASE y # x /\ y \in Node(prog) /\ irwOut[y] = None
    BY <2>1, <2>4, MergeFacts DEF CarriedTo
  <2> QED
    BY <2>2, <2>3, <2>4
<1> QED
  BY <1>1, <1>2 DEF Traced, CarriedTo

(* What a barrier lets through is traced.                                  *)
LEMMA PassedIsCarried ==
    ASSUME Graph, Traced, NEW x \in Placed, IsBarrier(x), InsertsAt(x)
    PROVE  CarriedTo(x, Passed(irwOut[x], IrwIn(x), Space \ fence[x]))
<1> DEFINE out == Passed(irwOut[x], IrwIn(x), Space \ fence[x])
<1> SUFFICES ASSUME NEW s \in Space
             PROVE  /\ \A v \in In(s, out).rd :
                           \E m \in Inst(prog) : v \in GetRW(prog, m).rd /\ Carried(s, m, x)
                    /\ \A v \in In(s, out).wr :
                           \E m \in Inst(prog) : v \in GetRW(prog, m).wr /\ Carried(s, m, x)
  BY DEF CarriedTo
<1>1. ASSUME s \notin fence[x], NEW m \in Reaching(s, Place(x))
      PROVE  m \in Inst(prog) /\ Carried(s, m, x)
  <2>1. m \in Inst(prog)
    BY DEF Reaching
  <2>2. CASE x \in Inst(prog)
    <3>1. Place(x) = x /\ fence[x] = prog.fence[x]
      BY <2>2, NodeFacts DEF Graph
    <3> QED
      BY <1>1, <2>1, <2>2, <3>1 DEF Carried, Stops
  <2>3. CASE x \notin Inst(prog)
    BY <1>1, <2>1, <2>3 DEF Carried
  <2> QED
    BY <2>2, <2>3
<1>2. ASSUME NEW v \in In(s, out).rd
      PROVE  \E m \in Inst(prog) : v \in GetRW(prog, m).rd /\ Carried(s, m, x)
  <2>1. SpaceOf[v] = s /\ (v \in irwOut[x].rd \/ \E t \in Space \ fence[x] : v \in In(t, IrwIn(x)).rd)
    BY DEF In, Passed, MergeAll
  <2>2. CASE v \in irwOut[x].rd
    <3>1. v \in In(s, irwOut[x]).rd
      BY <2>1, <2>2 DEF In
    <3> QED
      BY <3>1 DEF Traced
  <2>3. CASE \E t \in Space \ fence[x] : v \in In(t, IrwIn(x)).rd
    <3>1. s \notin fence[x] /\ v \in In(s, IrwIn(x)).rd
      BY <2>1, <2>3 DEF In
    <3>2. PICK m \in Reaching(s, Place(x)) : v \in GetRW(prog, m).rd
      BY <3>1, InIsTraced
    <3> QED
      BY <1>1, <3>1, <3>2
  <2> QED
    BY <2>1, <2>2, <2>3
<1>3. ASSUME NEW v \in In(s, out).wr
      PROVE  \E m \in Inst(prog) : v \in GetRW(prog, m).wr /\ Carried(s, m, x)
  <2>1. SpaceOf[v] = s /\ (v \in irwOut[x].wr \/ \E t \in Space \ fence[x] : v \in In(t, IrwIn(x)).wr)
    BY DEF In, Passed, MergeAll
  <2>2. CASE v \in irwOut[x].wr
    <3>1. v \in In(s, irwOut[x]).wr
      BY <2>1, <2>2 DEF In
    <3> QED
      BY <3>1 DEF Traced
  <2>3. CASE \E t \in Space \ fence[x] : v \in In(t, IrwIn(x)).wr
    <3>1. s \notin fence[x] /\ v \in In(s, IrwIn(x)).wr
      BY <2>1, <2>3 DEF In
    <3>2. PICK m \in Reaching(s, Place(x)) : v \in GetRW(prog, m).wr
      BY <3>1, InIsTraced
    <3> QED
      BY <1>1, <3>1, <3>2
  <2> QED
    BY <2>1, <2>2, <2>3
<1> QED
  BY <1>2, <1>3

(* What an instruction passes on is traced.                                *)
LEMMA TransferIsCarried ==
    ASSUME Graph, Traced, NEW x \in Inst(prog), ~(IsBarrier(x) /\ InsertsAt(x)), NEW F
    PROVE  CarriedTo(x, Transfer(x, F))
<1> DEFINE out == Transfer(x, F)
<1> SUFFICES ASSUME NEW s \in Space
             PROVE  /\ \A v \in In(s, out).rd :
                           \E m \in Inst(prog) : v \in GetRW(prog, m).rd /\ Carried(s, m, x)
                    /\ \A v \in In(s, out).wr :
                           \E m \in Inst(prog) : v \in GetRW(prog, m).wr /\ Carried(s, m, x)
  BY DEF CarriedTo
<1>1. x \in Placed /\ Place(x) = x /\ ~Stops(s, x)
  BY NodeFacts DEF Graph, Placed, Stops, IsBarrier
<1>2. ASSUME NEW m, m = x \/ m \in Reaching(s, Place(x))
      PROVE  m \in Inst(prog) /\ Carried(s, m, x)
  BY <1>1, <1>2 DEF Carried, Reaching
<1>3. ASSUME NEW v \in In(s, out).rd
      PROVE  \E m \in Inst(prog) : v \in GetRW(prog, m).rd /\ Carried(s, m, x)
  <2>1. v \in GetRW(prog, x).rd \/ v \in In(s, IrwIn(x)).rd
    BY DEF In, Transfer
  <2>2. v \in In(s, IrwIn(x)).rd => \E m \in Reaching(s, Place(x)) : v \in GetRW(prog, m).rd
    BY <1>1, InIsTraced
  <2> QED
    BY <1>2, <2>1, <2>2
<1>4. ASSUME NEW v \in In(s, out).wr
      PROVE  \E m \in Inst(prog) : v \in GetRW(prog, m).wr /\ Carried(s, m, x)
  <2>1. v \in GetRW(prog, x).wr \/ v \in In(s, IrwIn(x)).wr
    BY DEF In, Transfer
  <2>2. v \in In(s, IrwIn(x)).wr => \E m \in Reaching(s, Place(x)) : v \in GetRW(prog, m).wr
    BY <1>1, InIsTraced
  <2> QED
    BY <1>2, <2>1, <2>2
<1> QED
  BY <1>3, <1>4

(* A new barrier is a node that has passed nothing on yet.                 *)
LEMMA NewBarrierIsFresh ==
    ASSUME Graph, NEW x \in Inst(prog), Needed(x) # {}, NEW b, b = NewBarrier(x),
           prog' = prog, inserted' = [inserted EXCEPT ![x] = Append(@, b)]
    PROVE  /\ b \in Node(prog) /\ b \notin Inst(prog) /\ NotYet(b)
           /\ (NoBarrier(x) /\ b = Fst(x)) \/ (OneBarrier(x) /\ b = Snd(x))
           /\ \A y \in Placed' : y \in Placed \/ y = b
<1>1. PICK s : s \in Needed(x)
  OBVIOUS
<1>2. (NoBarrier(x) /\ b = Fst(x)) \/ (OneBarrier(x) /\ b = Snd(x))
  <2>1. NoBarrier(x) \/ OneBarrier(x) \/ TwoBarriers(x)
    BY DEF Graph
  <2>2. ~TwoBarriers(x)
    BY <1>1, NeededOnce
  <2> QED
    BY <2>1, <2>2, NewBarrierFacts
<1>3. /\ Fst(x) \in Node(prog) /\ Fst(x) \notin Inst(prog)
      /\ Snd(x) \in Node(prog) /\ Snd(x) \notin Inst(prog)
  BY NodeFacts DEF Graph
<1>4. NotYet(b)
  BY <1>2 DEF NoBarrier, OneBarrier
<1>5. \A n \in Inst(prog) : \A y : Holds(inserted'[n], y) => Holds(inserted[n], y) \/ y = b
  <2>1. \A y : Holds(Append(inserted[x], b), y) => Holds(inserted[x], y) \/ y = b
    <3>1. inserted[x] \in Seq(Node(prog)) /\ b \in Node(prog)
      BY <1>2, <1>3, AppendFacts DEF NoBarrier, OneBarrier
    <3>2. Append(inserted[x], b) = inserted[x] \o <<b>> /\ <<b>> \in Seq(Node(prog))
      BY <3>1
    <3>3. \A y : Holds(<<b>>, y) <=> y = b
      BY SingleHolds
    <3>4. \A y : Holds(inserted[x] \o <<b>>, y) <=> Holds(inserted[x], y) \/ Holds(<<b>>, y)
      BY <3>1, <3>2, ConcatHolds
    <3> QED
      BY <3>2, <3>3, <3>4
  <2>2. \A n \in Inst(prog) : inserted'[n] = IF n = x THEN Append(inserted[x], b) ELSE inserted[n]
    BY DEF Graph
  <2> QED
    BY <2>1, <2>2
<1>6. \A y \in Placed' : y \in Placed \/ y = b
  BY <1>5 DEF Placed
<1> QED
  BY <1>2, <1>3, <1>4, <1>6

(* All sets are traced after every step.                                   *)
LEMMA StepKeepsTraced ==
    ASSUME Graph, Traced, [Next]_vars
    PROVE  Traced'
<1>1. CASE UNCHANGED vars
  <2>1. \A s, m, n : Carried(s, m, n)' = Carried(s, m, n)
    BY <1>1, FixedReach DEF vars
  <2>2. prog' = prog /\ irwOut' = irwOut /\ Placed' = Placed
    BY <1>1 DEF vars, Placed
  <2> QED
    BY <2>1, <2>2 DEF Traced
<1>2. CASE Next
  <2>0. PICK x : x = Head(queue)
    OBVIOUS
  <2>1. queue # <<>> /\ prog' = prog /\ x \in Placed
    BY <1>2, <2>0, HeadIsPlaced DEF Next
  <2>2. CASE VisitBarrier(x)
    <3>1. Update(x, Passed(irwOut[x], IrwIn(x), Space \ fence[x])) /\ inserted' = inserted
      BY <2>2 DEF VisitBarrier, Passed
    <3>2. CarriedTo(x, Passed(irwOut[x], IrwIn(x), Space \ fence[x]))
      BY <2>1, <2>2, PassedIsCarried DEF VisitBarrier
    <3>3. Placed' = Placed
      BY <2>1, <3>1 DEF Placed
    <3> QED
      BY <2>1, <3>1, <3>2, <3>3, UpdateKeepsTraced
  <2>3. CASE VisitInst(x)
    <3>1. Update(x, Transfer(x, {})) /\ inserted' = inserted
      BY <2>3 DEF VisitInst
    <3>2. x \in Inst(prog) /\ ~(IsBarrier(x) /\ InsertsAt(x))
      BY <2>0, <2>1, <2>3, GetsOne DEF VisitInst
    <3>3. CarriedTo(x, Transfer(x, {})) /\ Placed' = Placed
      BY <2>1, <3>1, <3>2, TransferIsCarried DEF Placed
    <3> QED
      BY <2>1, <3>1, <3>3, UpdateKeepsTraced
  <2>4. CASE InsertBarrier(x)
    <3>1. PICK b : b = NewBarrier(x)
      OBVIOUS
    <3>2. /\ Update(x, Transfer(x, Needed(x))) /\ Needed(x) # {}
          /\ inserted' = [inserted EXCEPT ![x] = Append(@, b)]
      BY <2>4, <3>1 DEF InsertBarrier
    <3>3. x \in Inst(prog) /\ ~(IsBarrier(x) /\ InsertsAt(x))
      BY <2>0, <2>1, <2>4, GetsOne DEF InsertBarrier
    <3>4. CarriedTo(x, Transfer(x, Needed(x)))
      BY <3>3, TransferIsCarried
    <3>5. \A y \in Placed' : y \in Placed \/ (y \in Node(prog) /\ y # x /\ irwOut[y] = None)
      BY <2>1, <3>1, <3>2, <3>3, NewBarrierIsFresh DEF NotYet
    <3> QED
      BY <2>1, <3>2, <3>4, <3>5, UpdateKeepsTraced
  <2> QED
    BY <1>2, <2>0, <2>2, <2>3, <2>4 DEF Next
<1> QED
  BY <1>1, <1>2

(* What a node passes on are, always, accesses that can reach what follows *)
(* it.                                                                     *)
LEMMA TracedInvariant == Spec => []Traced
<1>1. Init => Traced
  <2> SUFFICES ASSUME Init PROVE Traced
    OBVIOUS
  <2>1. Graph
    BY GraphAtFirst
  <2>2. \A x \in Placed : irwOut[x] = None
    BY <2>1, PlacedFacts DEF Init
  <2> QED
    BY <2>2, MergeFacts DEF Traced
<1>2. Graph /\ Traced /\ [Next]_vars => Traced'
  BY StepKeepsTraced
<1> QED
  BY <1>1, <1>2, GraphInvariant, PTL DEF Spec

(* A buffer has at least one byte.                                         *)
NoEmptyBuffer == \A r \in DOMAIN Stack : Stack[r][1] < Stack[r][2]

(* Values that may alias name some storage together.                       *)
LEMMA AliasesShare ==
    ASSUME NoEmptyBuffer, NEW v, NEW w, Alias(v, w)
    PROVE  Footprint(v) \cap Footprint(w) # {}
<1>1. CASE Root[v] = Root[w]
  <2>1. Footprint(v) = Footprint(w)
    BY <1>1 DEF Footprint
  <2>2. CASE Root[v] \in DOMAIN Stack
    <3>1. Stack[Root[v]][1] \in Stack[Root[v]][1] .. Stack[Root[v]][2] - 1
      BY <2>2, ValueAssumption DEF NoEmptyBuffer
    <3>2. <<"byte", Stack[Root[v]][1]>> \in Footprint(v)
      BY <2>2, <3>1 DEF Footprint
    <3> QED
      BY <2>1, <3>2
  <2>3. CASE Root[v] \notin DOMAIN Stack
    <3>1. <<"object", Root[v]>> \in Footprint(v)
      BY <2>3 DEF Footprint
    <3> QED
      BY <2>1, <3>1
  <2> QED
    BY <2>2, <2>3
<1>2. CASE {Root[v], Root[w]} \subseteq DOMAIN Stack /\ Overlap(Root[v], Root[w])
  <2> DEFINE a == Stack[Root[v]]
             b == Stack[Root[w]]
             x == IF a[1] <= b[1] THEN b[1] ELSE a[1]
  <2>1. /\ a[1] \in Nat /\ a[2] \in Nat /\ b[1] \in Nat /\ b[2] \in Nat
        /\ a[1] < a[2] /\ b[1] < b[2] /\ a[2] > b[1] /\ b[2] > a[1]
    BY <1>2, ValueAssumption DEF NoEmptyBuffer, Overlap
  <2>2. x \in a[1] .. a[2] - 1 /\ x \in b[1] .. b[2] - 1
    BY <2>1
  <2>3. <<"byte", x>> \in Footprint(v) /\ <<"byte", x>> \in Footprint(w)
    <3> HIDE DEF x
    <3> QED
      BY <1>2, <2>2 DEF Footprint
  <2> QED
    BY <2>3
<1> QED
  BY <1>1, <1>2 DEF Alias

(* Sets with values that may alias name some storage together.             *)
LEMMA IntersectsShare ==
    ASSUME NoEmptyBuffer, NEW s, NEW v, NEW w, NEW V, NEW W,
           v \in V, w \in W, SpaceOf[v] = s, SpaceOf[w] = s, Alias(v, w)
    PROVE  Storage(s, V) \cap Storage(s, W) # {}
<1>1. PICK x \in Footprint(v) : x \in Footprint(w)
  BY AliasesShare
<1>2. x \in Storage(s, V) /\ x \in Storage(s, W)
  BY <1>1 DEF Storage
<1> QED
  BY <1>2

(* What the pass takes for a conflict is a race with an access that can    *)
(* reach the instruction.                                                  *)
LEMMA ConflictsAreRaces ==
    ASSUME NoEmptyBuffer, Graph, Traced, NEW n \in Inst(prog), NEW s \in Needed(n)
    PROVE  \E m \in Reaching(s, n) : Races(s, GetRW(prog, m), GetRW(prog, n))
<1>1. s \in Space /\ Conflict(s, IrwIn(n), GetRW(prog, n))
  BY DEF Needed
<1>2. n \in Placed /\ Place(n) = n
  BY NodeFacts DEF Graph, Placed
<1>3. /\ \A v \in In(s, IrwIn(n)).rd : \E m \in Reaching(s, n) : v \in GetRW(prog, m).rd
      /\ \A v \in In(s, IrwIn(n)).wr : \E m \in Reaching(s, n) : v \in GetRW(prog, m).wr
  BY <1>1, <1>2, InIsTraced
<1>4. ASSUME NEW v \in In(s, IrwIn(n)).wr,
             NEW w \in In(s, GetRW(prog, n)).rd \cup In(s, GetRW(prog, n)).wr, Alias(w, v)
      PROVE  \E m \in Reaching(s, n) : Races(s, GetRW(prog, m), GetRW(prog, n))
  <2>1. PICK m \in Reaching(s, n) : v \in GetRW(prog, m).wr
    BY <1>3
  <2>2. SpaceOf[v] = s /\ SpaceOf[w] = s /\ w \in GetRW(prog, n).rd \cup GetRW(prog, n).wr
    BY DEF In
  <2>3. Storage(s, GetRW(prog, n).rd \cup GetRW(prog, n).wr) \cap Storage(s, GetRW(prog, m).wr) # {}
    BY <1>4, <2>1, <2>2, IntersectsShare
  <2> QED
    BY <2>3 DEF Races
<1>5. ASSUME NEW v \in In(s, IrwIn(n)).rd, NEW w \in In(s, GetRW(prog, n)).wr, Alias(w, v)
      PROVE  \E m \in Reaching(s, n) : Races(s, GetRW(prog, m), GetRW(prog, n))
  <2>1. PICK m \in Reaching(s, n) : v \in GetRW(prog, m).rd
    BY <1>3
  <2>2. SpaceOf[v] = s /\ SpaceOf[w] = s /\ w \in GetRW(prog, n).wr
    BY DEF In
  <2>3. Storage(s, GetRW(prog, n).wr) \cap Storage(s, GetRW(prog, m).rd) # {}
    BY <1>5, <2>1, <2>2, IntersectsShare
  <2> QED
    BY <2>3 DEF Races
<1> QED
  BY <1>1, <1>4, <1>5 DEF Conflict, Intersects

(* s is fenced in front of n by a barrier of the pass.                     *)
Fences(s, n) == \E b \in Node(prog) : Holds(inserted[n], b) /\ s \in fence[b]

Justified ==
    \A n \in Inst(prog) : \A s : Fences(s, n) =>
        \E m \in Reaching(s, n) : Races(s, GetRW(prog, m), GetRW(prog, n))

(* The barriers in front of an instruction are nodes.                      *)
LEMMA InsertedAreNodes ==
    ASSUME Graph, NEW n \in Inst(prog)
    PROVE  \A i \in DOMAIN inserted[n] : inserted[n][i] \in Node(prog) \ Inst(prog)
<1>1. Fst(n) \in Node(prog) \ Inst(prog) /\ Snd(n) \in Node(prog) \ Inst(prog)
  BY NodeFacts DEF Graph
<1>2. NoBarrier(n) \/ OneBarrier(n) \/ TwoBarriers(n)
  BY DEF Graph
<1> QED
  BY <1>1, <1>2 DEF NoBarrier, OneBarrier, TwoBarriers

(* A step inserts no fence without a reason.                               *)
LEMMA StepKeepsJustified ==
    ASSUME NoEmptyBuffer, Graph, Traced, Justified, [Next]_vars
    PROVE  Justified'
<1>0. prog' = prog
  BY DEF Next, vars
<1>1. \A s, n : Reaching(s, n)' = Reaching(s, n)
  BY <1>0, FixedReach
<1>2. CASE inserted' = inserted /\ fence' = fence
  BY <1>0, <1>1, <1>2 DEF Justified, Fences
<1>3. CASE queue # <<>> /\ InsertBarrier(Head(queue))
  <2>0. PICK x : x = Head(queue)
    OBVIOUS
  <2>1. PICK b : b = NewBarrier(x)
    OBVIOUS
  <2>2. /\ x \in Inst(prog) /\ Needed(x) # {}
        /\ fence' = [fence EXCEPT ![b] = Needed(x)]
        /\ inserted' = [inserted EXCEPT ![x] = Append(@, b)]
    BY <1>3, <2>0, <2>1, GetsOne DEF InsertBarrier
  <2>3. /\ b \in Node(prog) /\ b \notin Inst(prog)
        /\ (NoBarrier(x) /\ b = Fst(x)) \/ (OneBarrier(x) /\ b = Snd(x))
    BY <1>0, <2>1, <2>2, NewBarrierIsFresh
  <2>4. ASSUME NEW n \in Inst(prog), NEW s, Fences(s, n)'
        PROVE  Fences(s, n) \/ (n = x /\ s \in Needed(x))
    <3>1. PICK y \in Node(prog) : Holds(inserted'[n], y) /\ s \in fence'[y]
      BY <1>0, <2>4 DEF Fences
    <3>2. \A z \in Node(prog) : fence'[z] = IF z = b THEN Needed(x) ELSE fence[z]
      BY <2>2 DEF Graph
    <3>3. n # x => inserted'[n] = inserted[n]
      BY <2>2 DEF Graph
    <3>4. inserted'[x] = Append(inserted[x], b)
      BY <2>2 DEF Graph
    <3>5. Holds(inserted'[x], y) => Holds(inserted[x], y) \/ y = b
      <4>1. inserted[x] \in Seq(Node(prog))
        <5>1. Fst(x) \in Node(prog)
          BY <2>2, NodeFacts DEF Graph
        <5> QED
          BY <2>3, <5>1, AppendFacts DEF NoBarrier, OneBarrier
      <4>2. Append(inserted[x], b) = inserted[x] \o <<b>> /\ <<b>> \in Seq(Node(prog))
        BY <2>3, <4>1
      <4>3. Holds(<<b>>, y) <=> y = b
        BY <2>3, SingleHolds
      <4>4. Holds(inserted[x] \o <<b>>, y) <=> Holds(inserted[x], y) \/ Holds(<<b>>, y)
        BY <4>1, <4>2, ConcatHolds
      <4> QED
        BY <3>4, <4>2, <4>3, <4>4
    <3>6. n # x => ~Holds(inserted[n], b)
      <4> SUFFICES ASSUME n # x, Holds(inserted[n], b) PROVE FALSE
        OBVIOUS
      <4>1. b = Fst(n) \/ b = Snd(n)
        <5>1. NoBarrier(n) \/ OneBarrier(n) \/ TwoBarriers(n)
          BY DEF Graph
        <5> QED
          BY <5>1 DEF NoBarrier, OneBarrier, TwoBarriers, Holds
      <4>2. b = Fst(x) \/ b = Snd(x)
        BY <2>3
      <4> QED
        BY <2>2, <4>1, <4>2, NodeFacts DEF Graph
    <3> QED
      BY <3>1, <3>2, <3>3, <3>5, <3>6 DEF Fences
  <2>5. \A s \in Needed(x) : \E m \in Reaching(s, x) : Races(s, GetRW(prog, m), GetRW(prog, x))
    BY <2>2, ConflictsAreRaces
  <2> QED
    BY <1>0, <1>1, <2>4, <2>5 DEF Justified
<1> QED
  BY <1>2, <1>3 DEF Next, vars, VisitBarrier, VisitInst

(* Every fence the pass inserts separates an access of the instruction     *)
(* behind it from a conflicting one that can reach it.                     *)
THEOREM FencesHaveReasons == NoEmptyBuffer => (Spec => []FencesJustified)
<1> SUFFICES ASSUME NoEmptyBuffer PROVE Spec => []FencesJustified
  OBVIOUS
<1>1. Init => Justified
  <2> SUFFICES ASSUME Init PROVE Justified
    OBVIOUS
  <2>1. \A n \in Inst(prog) : inserted[n] = <<>>
    BY GraphAtFirst DEF NoBarrier
  <2> QED
    BY <2>1 DEF Justified, Fences, Holds
<1>2. Graph /\ Traced /\ Justified /\ [Next]_vars => Justified'
  BY StepKeepsJustified
<1>3. Graph /\ Justified => FencesJustified
  BY InsertedAreNodes DEF Justified, Fences, FencesJustified, Holds
<1> QED
  BY <1>1, <1>2, <1>3, GraphInvariant, TracedInvariant, PTL DEF Spec

-----------------------------------------------------------------------------
(* No instruction is left behind *)

(* What n passes on of c in the spaces S, and its own accesses.            *)
From(n, c, S) ==
    [rd |-> GetRW(prog, n).rd \cup UNION {In(s, c).rd : s \in S},
     wr |-> GetRW(prog, n).wr \cup UNION {In(s, c).wr : s \in S}]

(* The barrier next to n.                                                  *)
Latest(n, b) == inserted[n] = <<b>> \/ inserted[n] = <<Fst(n), b>>

(* n has got the barrier b, which is yet to be visited, and has passed on  *)
(* what b lets through.                                                    *)
Waits(n, b) ==
    /\ Latest(n, b)
    /\ Holds(queue, b) /\ irwOut[b] = None
    /\ irwOut[n] = From(n, IrwIn(b), Space \ fence[b])
    /\ \A s \in Space \ fence[b] : ~Conflict(s, IrwIn(b), GetRW(prog, n))

Kept(n) == Holds(queue, n) \/ Settled(n) \/ \E b : Waits(n, b)

(* As long as no change goes unnoticed.                                    *)
NoneLeft == ~missed => \A n \in Inst(prog) : Kept(n)

(* What comes to a node depends on its predecessors alone.                 *)
LEMMA SameIn ==
    ASSUME NEW z, pred'[z] = pred[z], \A y \in pred[z] : irwOut'[y] = irwOut[y]
    PROVE  IrwIn(z)' = IrwIn(z)
BY DEF IrwIn

(* The barrier next to an instruction is its only predecessor.             *)
LEMMA LatestFacts ==
    ASSUME Graph, NEW n \in Inst(prog), NEW b, Latest(n, b)
    PROVE  /\ b \in Node(prog) /\ b \notin Inst(prog) /\ b # n
           /\ pred[n] = {b} /\ succ[b] = <<n>> /\ InsertsAt(n)
           /\ (OneBarrier(n) /\ b = Fst(n)) \/ (TwoBarriers(n) /\ b = Snd(n))
<1>1. /\ Fst(n) \in Node(prog) \ Inst(prog) /\ Snd(n) \in Node(prog) \ Inst(prog)
  BY NodeFacts DEF Graph
<1>2. NoBarrier(n) \/ OneBarrier(n) \/ TwoBarriers(n)
  BY DEF Graph
<1>3. (OneBarrier(n) /\ b = Fst(n)) \/ (TwoBarriers(n) /\ b = Snd(n))
  <2>1. inserted[n] # <<>>
    BY DEF Latest
  <2>2. CASE OneBarrier(n)
    BY <2>2 DEF OneBarrier, Latest
  <2>3. CASE TwoBarriers(n)
    BY <2>3 DEF TwoBarriers, Latest
  <2> QED
    BY <1>2, <2>1, <2>2, <2>3 DEF NoBarrier
<1> QED
  BY <1>1, <1>3 DEF OneBarrier, TwoBarriers

(* All that passes something on to n, or to its next barrier, names n as   *)
(* what is to be visited again.                                            *)
LEMMA Names ==
    ASSUME Graph, NEW n \in Inst(prog), NEW z, z = n \/ Latest(n, z), NEW y \in pred[z]
    PROVE  y \in Node(prog) /\ Holds(succ[y], n)
<1>1. /\ Fst(n) \in Node(prog) /\ Snd(n) \in Node(prog) /\ Inst(prog) \subseteq Node(prog)
  BY NodeFacts DEF Graph
<1>2. \A m \in Before(prog, n) : m \in Node(prog) /\ Holds(succ[m], n)
  BY <1>1 DEF Before, Graph
<1>3. \A b : succ[b] = <<n>> => Holds(succ[b], n)
  BY DEF Holds
<1>4. CASE z = n
  <2>1. CASE NoBarrier(n)
    BY <1>2, <1>4, <2>1 DEF NoBarrier
  <2>2. CASE OneBarrier(n)
    BY <1>1, <1>3, <1>4, <2>2 DEF OneBarrier
  <2>3. CASE TwoBarriers(n)
    BY <1>1, <1>3, <1>4, <2>3 DEF TwoBarriers
  <2> QED
    BY <2>1, <2>2, <2>3 DEF Graph
<1>5. CASE Latest(n, z)
  <2>1. (OneBarrier(n) /\ z = Fst(n)) \/ (TwoBarriers(n) /\ z = Snd(n))
    BY <1>5, LatestFacts
  <2>2. CASE OneBarrier(n) /\ z = Fst(n)
    BY <1>2, <2>2 DEF OneBarrier
  <2>3. CASE TwoBarriers(n) /\ z = Snd(n)
    BY <1>1, <1>3, <2>3 DEF TwoBarriers
  <2> QED
    BY <2>1, <2>2, <2>3
<1> QED
  BY <1>4, <1>5

(* What a step does to the sets, at node x, and to the queue.              *)
Visited(x) ==
    /\ x \in Placed /\ prog' = prog /\ ~missed
    /\ \A y \in Node(prog) : y # x => irwOut'[y] = irwOut[y]
    /\ irwOut'[x] = irwOut[x] \/ \A y : Holds(succ[x], y) => Holds(queue', y)
    /\ \A y : Holds(queue, y) /\ y # x => Holds(queue', y)
    /\ x \notin Inst(prog) => irwOut'[x] = Passed(irwOut[x], IrwIn(x), Space \ fence[x])

(* A step in which no change goes unnoticed visits the head of the queue.  *)
LEMMA StepVisits ==
    ASSUME Graph, Next, ~missed', NEW x, x = Head(queue)
    PROVE  /\ Visited(x)
           /\ InsertBarrier(x) => Holds(queue', NewBarrier(x))
<1>1. queue # <<>> /\ prog' = prog /\ x \in Placed /\ Tail(queue) \in Seq(Placed)
  BY HeadIsPlaced DEF Next
<1>2. \A y : Holds(queue, y) /\ y # x => Holds(Tail(queue), y)
  BY <1>1, HeadIsPlaced
<1>3. x \in Node(prog) /\ Inst(prog) \subseteq Placed /\ Inst(prog) \subseteq Node(prog)
  <2>1. x \in Node(prog)
    BY <1>1, PlacedFacts
  <2>2. Inst(prog) \subseteq Node(prog)
    BY NodeFacts DEF Graph
  <2> QED
    BY <2>1, <2>2 DEF Placed
<1>4. ASSUME NEW out, Update(x, out), NEW q, queue' = q \o Requeue(x, out),
             NEW S, q \in Seq(S), Inst(prog) \subseteq S,
             \A y : Holds(Tail(queue), y) => Holds(q, y),
             x \notin Inst(prog) => out = Passed(irwOut[x], IrwIn(x), Space \ fence[x])
      PROVE  /\ Visited(x)
             /\ \A y : Holds(q, y) => Holds(queue', y)
  <2>1. Requeue(x, out) \in Seq(Inst(prog)) /\ Requeue(x, out) \in Seq(S)
    BY <1>1, <1>4, RequeueFacts
  <2>2. \A y : Holds(q \o Requeue(x, out), y) <=> Holds(q, y) \/ Holds(Requeue(x, out), y)
    BY <1>4, <2>1, ConcatHolds
  <2>3. /\ \A y \in Node(prog) : y # x => irwOut'[y] = irwOut[y]
        /\ irwOut'[x] = out /\ ~missed
        /\ out = irwOut[x] \/ Cardinal(out) # Cardinal(irwOut[x])
    BY <1>3, <1>4 DEF Update, Graph
  <2>4. Cardinal(out) # Cardinal(irwOut[x]) => Requeue(x, out) = succ[x]
    BY <1>1, RequeueFacts
  <2> QED
    BY <1>1, <1>2, <1>4, <2>2, <2>3, <2>4 DEF Visited
<1>5. CASE VisitBarrier(x)
  <2>1. PICK out : out = MergeAll({irwOut[x]} \cup {In(s, IrwIn(x)) : s \in Space \ fence[x]})
    OBVIOUS
  <2>2. Update(x, out) /\ queue' = Tail(queue) \o Requeue(x, out)
    BY <1>5, <2>1 DEF VisitBarrier
  <2>3. out = Passed(irwOut[x], IrwIn(x), Space \ fence[x])
    BY <2>1 DEF Passed
  <2>4. ~InsertBarrier(x)
    BY <1>5 DEF VisitBarrier, InsertBarrier
  <2> QED
    BY <1>1, <1>3, <1>4, <2>2, <2>3, <2>4
<1>6. CASE VisitInst(x)
  <2>1. PICK out : out = Transfer(x, {})
    OBVIOUS
  <2>2. Update(x, out) /\ queue' = Tail(queue) \o Requeue(x, out)
    BY <1>6, <2>1 DEF VisitInst
  <2>3. x \in Inst(prog) /\ ~InsertBarrier(x)
    BY <1>1, <1>6, GetsOne DEF VisitInst, InsertBarrier
  <2> QED
    BY <1>1, <1>3, <1>4, <2>2, <2>3
<1>7. CASE InsertBarrier(x)
  <2>1. PICK out : out = Transfer(x, Needed(x))
    OBVIOUS
  <2>2. PICK b : b = NewBarrier(x)
    OBVIOUS
  <2>3. Update(x, out) /\ queue' = Append(Tail(queue), b) \o Requeue(x, out)
    BY <1>7, <2>1, <2>2 DEF InsertBarrier
  <2>4. x \in Inst(prog) /\ b \in Node(prog)
    <3>1. x \in Inst(prog) /\ Needed(x) # {} /\ inserted' = [inserted EXCEPT ![x] = Append(@, b)]
      BY <1>1, <1>7, <2>2, GetsOne DEF InsertBarrier
    <3> QED
      BY <1>1, <2>2, <3>1, NewBarrierIsFresh
  <2>5. /\ Tail(queue) \in Seq(Node(prog)) /\ <<b>> \in Seq(Node(prog))
        /\ Append(Tail(queue), b) = Tail(queue) \o <<b>>
        /\ Append(Tail(queue), b) \in Seq(Node(prog))
    <3>1. Placed \subseteq Node(prog)
      BY PlacedFacts
    <3>2. Tail(queue) \in Seq(Node(prog))
      BY <1>1, <3>1
    <3> QED
      BY <2>4, <3>2
  <2>6. \A y : Holds(Append(Tail(queue), b), y) <=> Holds(Tail(queue), y) \/ y = b
    <3>1. \A y : Holds(Tail(queue) \o <<b>>, y) <=> Holds(Tail(queue), y) \/ Holds(<<b>>, y)
      BY <2>5, ConcatHolds
    <3>2. \A y : Holds(<<b>>, y) <=> y = b
      BY <2>4, SingleHolds
    <3> QED
      BY <2>5, <3>1, <3>2
  <2>7. Visited(x) /\ \A y : Holds(Append(Tail(queue), b), y) => Holds(queue', y)
    BY <1>3, <1>4, <2>3, <2>4, <2>5, <2>6
  <2> QED
    BY <2>2, <2>6, <2>7
<1> QED
  BY <1>5, <1>6, <1>7 DEF Next

(* If n is not queued by the visit of x, all that came to n, or to its     *)
(* next barrier, still comes to it.                                        *)
LEMMA SameOrQueued ==
    ASSUME Graph, NEW x, Visited(x), NEW n \in Inst(prog), NEW z, z = n \/ Latest(n, z)
    PROVE  Holds(queue', n) \/ \A y \in pred[z] : irwOut'[y] = irwOut[y]
<1> SUFFICES ASSUME NEW y \in pred[z], irwOut'[y] # irwOut[y] PROVE Holds(queue', n)
  OBVIOUS
<1>1. y \in Node(prog) /\ Holds(succ[y], n)
  BY Names
<1>2. y = x
  BY <1>1 DEF Visited
<1> QED
  BY <1>1, <1>2 DEF Visited

(* An instruction stays settled as long as its sets are the same.          *)
LEMMA SettledStays ==
    ASSUME NEW n, Settled(n), prog' = prog, fence'[n] = fence[n],
           irwOut'[n] = irwOut[n], IrwIn(n)' = IrwIn(n)
    PROVE  Settled(n)'
<1>1. /\ InsertsAt(n)' = InsertsAt(n) /\ IsBarrier(n)' = IsBarrier(n)
  BY Fixed
<1>2. Transfer(n, {})' = Transfer(n, {})
  BY DEF Transfer
<1>3. Needed(n)' = Needed(n)
  BY <1>1 DEF Needed
<1> QED
  BY <1>1, <1>2, <1>3 DEF Settled

(* When nothing comes out of the barrier in front, nothing is in front.    *)
LEMMA NothingPasses ==
    ASSUME NEW c, NEW S, Passed(None, c, S) = None
    PROVE  /\ \A n : From(n, c, S) = From(n, None, Space)
<1>1. MergeAll({None} \cup {In(s, c) : s \in S}) = None
  BY DEF Passed
<1>2. \A s \in S : In(s, c).rd = {} /\ In(s, c).wr = {}
  BY <1>1 DEF MergeAll, None
<1>3. UNION {In(s, c).rd : s \in S} = {} /\ UNION {In(s, c).wr : s \in S} = {}
  BY <1>2
<1>4. UNION {In(s, None).rd : s \in Space} = {} /\ UNION {In(s, None).wr : s \in Space} = {}
  BY DEF In, None
<1> QED
  BY <1>3, <1>4 DEF From

(* An instruction that is not visited.                                     *)
LEMMA OthersAreKept ==
    ASSUME Graph, NEW x, Visited(x), NEW n \in Inst(prog), n # x, Kept(n),
           inserted'[n] = inserted[n], fence'[n] = fence[n], pred'[n] = pred[n],
           \A b : Latest(n, b) => pred'[b] = pred[b] /\ fence'[b] = fence[b]
    PROVE  Kept(n)'
<1>0. prog' = prog /\ n \in Node(prog) /\ irwOut'[n] = irwOut[n]
  <2>1. n \in Node(prog)
    BY NodeFacts DEF Graph
  <2> QED
    BY <2>1 DEF Visited
<1>1. Holds(queue, n) => Holds(queue', n)
  BY DEF Visited
<1> SUFFICES ASSUME ~Holds(queue', n) PROVE Settled(n)' \/ (\E b : Waits(n, b))'
  BY DEF Kept
<1>2. CASE Settled(n)
  <2>1. IrwIn(n)' = IrwIn(n)
    BY SameOrQueued, SameIn
  <2> QED
    BY <1>0, <1>2, <2>1, SettledStays
<1>3. CASE \E b : Waits(n, b)
  <2>1. PICK b : Waits(n, b)
    BY <1>3
  <2>2. /\ Latest(n, b) /\ Holds(queue, b) /\ irwOut[b] = None
        /\ irwOut[n] = From(n, IrwIn(b), Space \ fence[b])
        /\ \A s \in Space \ fence[b] : ~Conflict(s, IrwIn(b), GetRW(prog, n))
    BY <2>1 DEF Waits
  <2>3. IrwIn(b)' = IrwIn(b) /\ fence'[b] = fence[b]
    BY <2>2, SameOrQueued, SameIn
  <2>4. /\ b \in Node(prog) /\ b \notin Inst(prog) /\ b # n
        /\ pred[n] = {b} /\ succ[b] = <<n>> /\ InsertsAt(n)
    BY <2>2, LatestFacts
  <2>5. CASE b # x
    <3>1. irwOut'[b] = None /\ Holds(queue', b)
      BY <2>2, <2>4, <2>5 DEF Visited
    <3>2. Latest(n, b)'
      BY <1>0, <2>2 DEF Latest, Fst
    <3>3. From(n, IrwIn(b), Space \ fence[b])' = From(n, IrwIn(b), Space \ fence[b])
      BY <1>0, <2>3 DEF From
    <3>4. (\A s \in Space \ fence[b] : ~Conflict(s, IrwIn(b), GetRW(prog, n)))'
      BY <1>0, <2>2, <2>3
    <3>5. Waits(n, b)'
      BY <1>0, <2>2, <3>1, <3>2, <3>3, <3>4 DEF Waits
    <3> QED
      BY <3>5
  <2>6. CASE b = x
    <3>1. irwOut'[b] = None
      <4>1. irwOut'[b] = irwOut[b] \/ Holds(queue', n)
        <5>1. Holds(<<n>>, n)
          BY DEF Holds
        <5> QED
          BY <2>4, <2>6, <5>1 DEF Visited
      <4> QED
        BY <2>2, <4>1
    <3>2. Passed(None, IrwIn(b), Space \ fence[b]) = None
      BY <2>2, <2>4, <2>6, <3>1 DEF Visited
    <3>3. irwOut'[n] = From(n, None, Space)
      BY <1>0, <2>2, <3>2, NothingPasses
    <3>4. IrwIn(n)' = None
      <4>1. pred'[n] = {b}
        BY <2>4
      <4>2. {irwOut'[m] : m \in pred'[n]} = {None}
        BY <3>1, <4>1
      <4>3. MergeAll({None}) = None
        BY MergeFacts DEF None
      <4> QED
        BY <4>2, <4>3 DEF IrwIn
    <3>5. ~(IsBarrier(n) /\ InsertsAt(n))'
      <4>1. CASE IsBarrier(n)
        <5>1. Accessed(n) = {}
          <6>1. GetRW(prog, n) = None
            BY <4>1 DEF IsBarrier, GetRW
          <6> QED
            BY <6>1, MergeFacts DEF Accessed
        <5>2. OneBarrier(n) \/ TwoBarriers(n)
          BY <2>2, LatestFacts
        <5>3. fence[Fst(n)] # {} /\ fence[Fst(n)] \subseteq Accessed(n)
          BY <5>2 DEF OneBarrier, TwoBarriers
        <5> QED
          BY <5>1, <5>3
      <4>2. CASE ~IsBarrier(n)
        BY <1>0, <4>2, Fixed
      <4> QED
        BY <4>1, <4>2
    <3>6. \A s \in Space : ~Conflict(s, None, GetRW(prog, n))
      BY MergeFacts
    <3>7. (irwOut[n] = From(n, IrwIn(n), Space))'
      BY <1>0, <3>3, <3>4 DEF From
    <3>8. (\A s \in Space : ~Conflict(s, IrwIn(n), GetRW(prog, n)))'
      BY <1>0, <3>4, <3>6
    <3>9. (Transfer(n, {}))' = From(n, IrwIn(n), Space)'
      <4>1. Space \ {} = Space
        OBVIOUS
      <4> QED
        BY <4>1 DEF Transfer, From
    <3>10. Needed(n)' = {}
      BY <3>8 DEF Needed
    <3> QED
      BY <3>5, <3>7, <3>9, <3>10 DEF Settled
  <2> QED
    BY <2>5, <2>6
<1> QED
  BY <1>1, <1>2, <1>3 DEF Kept

(* The instruction that is visited, by VisitBarrier or VisitInst.          *)
LEMMA VisitedIsKept ==
    ASSUME Graph, NEW x \in Inst(prog), Visited(x), VisitBarrier(x) \/ VisitInst(x)
    PROVE  Kept(x)'
<1>0. prog' = prog /\ UNCHANGED <<pred, succ, inserted, fence>> /\ x \in Node(prog)
  <2>1. x \in Node(prog)
    BY NodeFacts DEF Graph
  <2> QED
    BY <2>1 DEF Visited, VisitBarrier, VisitInst
<1> SUFFICES ASSUME ~Holds(queue', x) PROVE Settled(x)'
  BY DEF Kept
<1>1. IrwIn(x)' = IrwIn(x)
  BY <1>0, SameOrQueued, SameIn
<1>2. InsertsAt(x)' = InsertsAt(x) /\ IsBarrier(x)' = IsBarrier(x)
  BY <1>0, Fixed
<1>3. CASE VisitBarrier(x)
  <2>1. irwOut'[x] = Passed(irwOut[x], IrwIn(x), Space \ fence[x])
    BY <1>0, <1>3 DEF VisitBarrier, Update, Passed, Graph
  <2>2. \A s \in Space \ fence[x] : /\ In(s, IrwIn(x)).rd \subseteq irwOut'[x].rd
                                    /\ In(s, IrwIn(x)).wr \subseteq irwOut'[x].wr
    BY <2>1 DEF Passed, MergeAll
  <2>3. (\A s \in Space \ fence[x] : /\ In(s, IrwIn(x)).rd \subseteq irwOut[x].rd
                                     /\ In(s, IrwIn(x)).wr \subseteq irwOut[x].wr)'
    BY <1>0, <1>1, <2>2
  <2>4. (IsBarrier(x) /\ InsertsAt(x))'
    BY <1>2, <1>3 DEF VisitBarrier
  <2> QED
    BY <2>3, <2>4 DEF Settled
<1>4. CASE VisitInst(x)
  <2>1. irwOut'[x] = Transfer(x, {}) /\ Needed(x) = {}
    BY <1>0, <1>4 DEF VisitInst, Update, Graph
  <2>2. Transfer(x, {})' = Transfer(x, {})
    BY <1>0, <1>1 DEF Transfer
  <2>3. Needed(x)' = Needed(x)
    BY <1>0, <1>1, <1>2 DEF Needed
  <2>4. ~(IsBarrier(x) /\ InsertsAt(x))'
    BY <1>2, <1>4 DEF VisitInst
  <2> QED
    BY <2>1, <2>2, <2>3, <2>4 DEF Settled
<1> QED
  BY <1>3, <1>4

(* The instruction that gets a barrier.                                    *)
LEMMA InsertedIsKept ==
    ASSUME Graph, NEW x \in Inst(prog), Visited(x), InsertBarrier(x),
           Holds(queue', NewBarrier(x))
    PROVE  Kept(x)'
<1>0. PICK b : b = NewBarrier(x)
  OBVIOUS
<1>1. /\ prog' = prog /\ Needed(x) # {}
      /\ fence' = [fence EXCEPT ![b] = Needed(x)]
      /\ inserted' = [inserted EXCEPT ![x] = Append(@, b)]
      /\ InsertBefore(x, b) /\ Update(x, Transfer(x, Needed(x)))
  BY <1>0 DEF Visited, InsertBarrier
<1>2. /\ b \in Node(prog) /\ b \notin Inst(prog) /\ NotYet(b) /\ x \in Node(prog) /\ b # x
      /\ (NoBarrier(x) /\ b = Fst(x)) \/ (OneBarrier(x) /\ b = Snd(x))
  <2>1. x \in Node(prog)
    BY NodeFacts DEF Graph
  <2> QED
    BY <1>0, <1>1, <2>1, NewBarrierIsFresh
<1> SUFFICES ASSUME ~Holds(queue', x) PROVE (\E c : Waits(x, c))'
  BY DEF Kept
<1>3. pred'[b] = pred[x] /\ fence'[b] = Needed(x) /\ inserted'[x] = Append(inserted[x], b)
  BY <1>1, <1>2 DEF InsertBefore, Graph
<1>4. IrwIn(b)' = IrwIn(x)
  <2>1. \A y \in pred[x] : irwOut'[y] = irwOut[y]
    BY SameOrQueued
  <2> QED
    BY <1>3, <2>1 DEF IrwIn
<1>5. Latest(x, b)'
  <2>1. Fst(x)' = Fst(x) /\ Fst(x) \in Node(prog)
    BY <1>1, Fixed, NodeFacts DEF Graph
  <2>2. NoBarrier(x) => inserted'[x] = <<b>>
    BY <1>2, <1>3, AppendFacts DEF NoBarrier
  <2>3. OneBarrier(x) => inserted'[x] = <<Fst(x), b>>
    BY <1>2, <1>3, <2>1, AppendFacts DEF OneBarrier
  <2> QED
    BY <1>2, <2>1, <2>2, <2>3 DEF Latest
<1>6. irwOut'[b] = None
  BY <1>2 DEF Visited, NotYet
<1>7. irwOut'[x] = From(x, IrwIn(x), Space \ Needed(x))
  BY <1>1, <1>2 DEF Update, Graph, Transfer, From
<1>8. (irwOut[x] = From(x, IrwIn(b), Space \ fence[b]))'
  BY <1>1, <1>3, <1>4, <1>7, ZenonT(60) DEF From
<1>9. \A s \in Space \ Needed(x) : ~Conflict(s, IrwIn(x), GetRW(prog, x))
  <2>1. PICK t : t \in Needed(x)
    BY <1>1
  <2>2. InsertsAt(x)
    BY <2>1, NeededFacts
  <2> QED
    BY <2>2 DEF Needed
<1>10. (\A s \in Space \ fence[b] : ~Conflict(s, IrwIn(b), GetRW(prog, x)))'
  BY <1>1, <1>3, <1>4, <1>9
<1>11. Waits(x, b)'
  BY <1>0, <1>5, <1>6, <1>8, <1>10 DEF Waits
<1> QED
  BY <1>11

(* A step leaves no instruction behind.                                    *)
LEMMA StepLeavesNone ==
    ASSUME Graph, NoneLeft, [Next]_vars
    PROVE  NoneLeft'
<1>1. CASE UNCHANGED vars
  <2>0. UNCHANGED <<prog, queue, irwOut, pred, succ, inserted, fence, missed>>
    BY <1>1 DEF vars
  <2>1. \A n : Settled(n)' = Settled(n)
    BY <2>0 DEF Settled, IsBarrier, InsertsAt, Place, Needed, Transfer, IrwIn
  <2>2. \A n, b : Waits(n, b)' = Waits(n, b)
    BY <2>0 DEF Waits, Latest, Fst, From, IrwIn
  <2> QED
    BY <2>0, <2>1, <2>2 DEF NoneLeft, Kept
<1>2. CASE Next
  <2> SUFFICES ASSUME ~missed', NEW n \in Inst(prog) PROVE Kept(n)'
    BY <1>2 DEF NoneLeft, Next
  <2>0. PICK x : x = Head(queue)
    OBVIOUS
  <2>1. Visited(x) /\ (InsertBarrier(x) => Holds(queue', NewBarrier(x)))
    BY <1>2, <2>0, StepVisits
  <2>2. Kept(n)
    BY <2>1 DEF NoneLeft, Visited
  <2>3. CASE VisitBarrier(x) \/ VisitInst(x)
    <3>1. UNCHANGED <<pred, succ, inserted, fence>>
      BY <2>3 DEF VisitBarrier, VisitInst
    <3> QED
      BY <2>1, <2>2, <2>3, <3>1, VisitedIsKept, OthersAreKept
  <2>4. CASE InsertBarrier(x)
    <3>1. x \in Inst(prog)
      BY <1>2, <2>0, <2>4, GetsOne DEF InsertBarrier, Next
    <3>2. CASE n = x
      BY <2>1, <2>4, <3>1, <3>2, InsertedIsKept
    <3>3. CASE n # x
      <4>0. PICK b : b = NewBarrier(x)
        OBVIOUS
      <4>1. /\ Needed(x) # {} /\ prog' = prog
            /\ fence' = [fence EXCEPT ![b] = Needed(x)]
            /\ inserted' = [inserted EXCEPT ![x] = Append(@, b)]
            /\ pred' = [pred EXCEPT ![b] = pred[x], ![x] = {b}]
        BY <2>1, <2>4, <4>0 DEF Visited, InsertBarrier, InsertBefore
      <4>2. /\ b \in Node(prog) /\ b \notin Inst(prog)
            /\ b = Fst(x) \/ b = Snd(x)
        BY <3>1, <4>0, <4>1, NewBarrierIsFresh
      <4>3. /\ n \in Node(prog) /\ x \notin {Fst(n), Snd(n)} /\ b \notin {Fst(n), Snd(n)} /\ b # n
        BY <3>1, <3>3, <4>2, NodeFacts DEF Graph
      <4>4. inserted'[n] = inserted[n] /\ fence'[n] = fence[n] /\ pred'[n] = pred[n]
        BY <3>3, <4>1, <4>3 DEF Graph
      <4>5. ASSUME NEW c, Latest(n, c) PROVE pred'[c] = pred[c] /\ fence'[c] = fence[c]
        <5>1. c \in Node(prog) /\ c \in {Fst(n), Snd(n)}
          BY <4>5, LatestFacts
        <5> QED
          BY <4>1, <4>3, <5>1 DEF Graph
      <4> QED
        BY <2>1, <2>2, <3>3, <4>4, <4>5, OthersAreKept
    <3> QED
      BY <3>2, <3>3
  <2> QED
    BY <1>2, <2>0, <2>3, <2>4 DEF Next
<1> QED
  BY <1>1, <1>2

(* No instruction is left behind, always.                                  *)
LEMMA NoneLeftInvariant == Spec => []NoneLeft
<1>1. Init => NoneLeft
  <2> SUFFICES ASSUME Init, NEW n \in Inst(prog) PROVE Holds(queue, n)
    BY DEF NoneLeft, Kept
  <2>1. queue \in Surjection(Inst(prog), Inst(prog))
    BY DEF Init, Bijection
  <2>2. \E i \in Inst(prog) : queue[i] = n
    BY <2>1 DEF Surjection
  <2>3. DOMAIN queue = Inst(prog)
    BY <2>1 DEF Surjection
  <2> QED
    BY <2>2, <2>3 DEF Holds
<1>2. Graph /\ NoneLeft /\ [Next]_vars => NoneLeft'
  BY StepLeavesNone
<1> QED
  BY <1>1, <1>2, GraphInvariant, PTL DEF Spec

(* When the queue is empty, what every instruction passes on agrees with   *)
(* what comes to it, and it needs no further barrier, for every program    *)
(* and every order of the queue, unless a change went unnoticed.           *)
THEOREM Settles == Spec => []OutSettled
<1>1. NoneLeft => OutSettled
  <2>1. Done => \A x : ~Holds(queue, x)
    BY DEF Done, Holds
  <2> QED
    BY <2>1 DEF NoneLeft, Kept, Waits, OutSettled
<1> QED
  BY <1>1, NoneLeftInvariant, PTL

-----------------------------------------------------------------------------
(* No barrier is missing *)

(* The accesses a come to node x.                                          *)
Arrives(a, x) == a.rd \subseteq IrwIn(x).rd /\ a.wr \subseteq IrwIn(x).wr

(* They come out of it.                                                    *)
Passes(a, x) == a.rd \subseteq irwOut[x].rd /\ a.wr \subseteq irwOut[x].wr

AllSettled == \A n \in Inst(prog) : Settled(n)

(* The accesses of the function are to space s.                            *)
OnlyIn(s) == \A n \in Inst(prog) : In(s, GetRW(prog, n)) = GetRW(prog, n)

(* The accesses of an instruction come out of it.                          *)
LEMMA OwnPass ==
    ASSUME AllSettled, NEW n \in Inst(prog), ~IsBarrier(n)
    PROVE  Passes(GetRW(prog, n), n)
<1>1. irwOut[n] = Transfer(n, {})
  BY DEF AllSettled, Settled
<1> QED
  BY <1>1 DEF Passes, Transfer

(* Accesses to s that come to an instruction pass it, unless it fences s.  *)
LEMMA ArrivedPass ==
    ASSUME Graph, AllSettled, NEW s \in Space, NEW a, In(s, a) = [rd |-> a.rd, wr |-> a.wr],
           NEW n \in Inst(prog), Arrives(a, n),
           ~(prog.op[n] = "barrier" /\ s \in prog.fence[n]) \/ ~InsertsAt(n)
    PROVE  Passes(a, n)
<1>1. /\ \A v \in a.rd : v \in In(s, IrwIn(n)).rd
      /\ \A v \in a.wr : v \in In(s, IrwIn(n)).wr
  BY DEF In, Arrives
<1>2. CASE IsBarrier(n) /\ InsertsAt(n)
  <2>1. s \notin fence[n]
    BY <1>2 DEF Graph, IsBarrier
  <2>2. In(s, IrwIn(n)).rd \subseteq irwOut[n].rd /\ In(s, IrwIn(n)).wr \subseteq irwOut[n].wr
    BY <1>2, <2>1 DEF AllSettled, Settled
  <2> QED
    BY <1>1, <2>2 DEF Passes
<1>3. CASE ~(IsBarrier(n) /\ InsertsAt(n))
  <2>1. irwOut[n] = Transfer(n, {})
    BY <1>3 DEF AllSettled, Settled
  <2> QED
    BY <1>1, <2>1 DEF Passes, Transfer
<1> QED
  BY <1>2, <1>3

(* They come to the next instruction if it has no barrier.                 *)
LEMMA PassedArrive ==
    ASSUME Graph, NEW a, NEW x \in Inst(prog), Passes(a, x),
           NEW n \in Inst(prog), NoBarrier(n), Holds(Successors(prog, x), n)
    PROVE  Arrives(a, n)
<1>1. x \in pred[n]
  BY DEF NoBarrier, Before
<1>2. /\ irwOut[x].rd \subseteq IrwIn(n).rd
      /\ irwOut[x].wr \subseteq IrwIn(n).wr
  BY <1>1 DEF IrwIn, MergeAll
<1> QED
  BY <1>2 DEF Passes, Arrives

(* In one space, instructions without a fence of it have no barrier; nor   *)
(* have those with child regions, and those of an SPMD region.             *)
LEMMA NoneInFront ==
    ASSUME Graph, NEW s \in Space, OnlyIn(s), NEW n \in Inst(prog)
    PROVE  /\ (\A i \in DOMAIN inserted[n] : s \notin fence[inserted[n][i]]) => NoBarrier(n)
           /\ \A x \in Inst(prog) : n \in Enclosing(prog, x) => NoBarrier(n)
           /\ InSpmd(prog, n) => NoBarrier(n)
<1>1. NoBarrier(n) \/ OneBarrier(n) \/ TwoBarriers(n)
  BY DEF Graph
<1>2. prog \in Programs /\ IsTree(prog) /\ Place(n) = n
  BY NodeFacts DEF Graph
<1>3. Accessed(n) \subseteq {s}
  <2> SUFFICES ASSUME NEW t \in Space, t # s, In(t, GetRW(prog, n)) # None PROVE FALSE
    BY DEF Accessed
  <2>1. GetRW(prog, n) = In(s, GetRW(prog, n))
    BY DEF OnlyIn
  <2>2. \A v : v \in GetRW(prog, n).rd \/ v \in GetRW(prog, n).wr => SpaceOf[v] = s
    BY <2>1 DEF In
  <2>3. {v \in GetRW(prog, n).rd : SpaceOf[v] = t} = {} /\ {v \in GetRW(prog, n).wr : SpaceOf[v] = t} = {}
    BY <2>2
  <2> QED
    BY <2>3 DEF In, None
<1>4. OneBarrier(n) \/ TwoBarriers(n) => \E i \in DOMAIN inserted[n] : inserted[n][i] = Fst(n)
  BY DEF OneBarrier, TwoBarriers
<1>5. OneBarrier(n) \/ TwoBarriers(n) =>
          /\ fence[Fst(n)] # {} /\ fence[Fst(n)] \subseteq Accessed(n) /\ InsertsAt(n)
  BY DEF OneBarrier, TwoBarriers
<1>6. ASSUME NEW x \in Inst(prog), n \in Enclosing(prog, x) PROVE NoBarrier(n)
  <2>1. PICK k \in Inst(prog) : prog.parent[k] = n
    BY <1>2, <1>6, EnclosingAreParents
  <2>2. prog.op[n] \in {"if", "parallel"} \cup Loops
    BY <1>2, <2>1, ProgramsAssumption DEF Inst
  <2>3. GetRW(prog, n) = None
    BY <2>2 DEF GetRW, Loops
  <2>4. Accessed(n) = {}
    BY <2>3, MergeFacts DEF Accessed
  <2> QED
    BY <1>1, <1>5, <2>4
<1> QED
  BY <1>1, <1>2, <1>3, <1>4, <1>5, <1>6 DEF InsertsAt

(* In an SPMD region, what comes to an instruction comes to an exit of the *)
(* code it stands for, and to one of the whole region if that is in an if. *)
ComesToExit(a, n) ==
    \E e \in Inst(prog) : /\ OwnExit(prog, e) /\ InSpmd(prog, e) /\ Arrives(a, e)
                          /\ Follow(prog, e) = Follow(prog, n)

LeavesSpmd(a, n) ==
    InSpmd(prog, n) /\ Arrives(a, n) =>
        /\ ComesToExit(a, n)
        /\ prog.parent[n] # 0 /\ prog.op[prog.parent[n]] \notin Loops =>
               ComesToExit(a, prog.parent[n])

(* It holds of every instruction, from the last one back.                  *)
LEMMA SpmdIsLeft ==
    ASSUME Graph, AllSettled, NEW s \in Space, OnlyIn(s),
           NEW a, In(s, a) = [rd |-> a.rd, wr |-> a.wr]
    PROVE  \A n \in Inst(prog) : LeavesSpmd(a, n)
<1>1. prog \in Programs /\ IsTree(prog) /\ \A n \in Inst(prog) : Place(n) = n
  BY NodeFacts DEF Graph
<1>2. ASSUME NEW x \in Inst(prog), InSpmd(prog, x), Arrives(a, x),
             NEW n \in Inst(prog), InSpmd(prog, n), Holds(Successors(prog, x), n)
      PROVE  Arrives(a, n)
  <2>1. Passes(a, x)
    BY <1>1, <1>2, ArrivedPass DEF InsertsAt
  <2>2. NoBarrier(n)
    BY <1>2, NoneInFront
  <2> QED
    BY <1>2, <2>1, <2>2, PassedArrive
<1> DEFINE T == {n \in Inst(prog) : LeavesSpmd(a, n)}
<1>3. ASSUME NEW n \in 1 .. Len(prog.op), \A k \in n + 1 .. Len(prog.op) : k \in T
      PROVE  n \in T
  <2>1. n \in Inst(prog) /\ Inst(prog) \subseteq Nat /\ prog.parent[n] \in 0 .. n - 1
    BY <1>1 DEF Inst, IsTree
  <2> SUFFICES ASSUME InSpmd(prog, n), Arrives(a, n)
               PROVE  /\ ComesToExit(a, n)
                      /\ prog.parent[n] # 0 /\ prog.op[prog.parent[n]] \notin Loops =>
                             ComesToExit(a, prog.parent[n])
    BY <2>1 DEF LeavesSpmd
  <2>2. ComesToExit(a, n)
    <3>1. CASE OwnExit(prog, n)
      BY <2>1, <3>1 DEF ComesToExit
    <3>2. CASE ~OwnExit(prog, n)
      <4>1. PICK b \in Regions(prog, n) : TRUE
        BY <3>2 DEF OwnExit
      <4>2. PICK k : k = First(Region(prog, n, b))
        OBVIOUS
      <4>3. k \in Region(prog, n, b) /\ Holds(Starts(prog, n), k)
        BY <4>2, StartFacts
      <4>4. k \in Inst(prog) /\ prog.parent[k] = n /\ k \in n + 1 .. Len(prog.op)
        <5>1. k \in Inst(prog) /\ prog.parent[k] = n
          BY <4>3 DEF Region
        <5>2. prog.parent[k] \in 0 .. k - 1
          BY <1>1, <5>1 DEF IsTree
        <5> QED
          BY <2>1, <5>1, <5>2 DEF Inst
      <4>5. InSpmd(prog, k)
        <5>1. Enclosing(prog, n) \subseteq Enclosing(prog, k)
          <6>1. n # 0
            BY <2>1 DEF Inst
          <6> QED
            BY <1>1, <4>4, <6>1, EnclosingUnfolds
        <5> QED
          BY <5>1 DEF InSpmd
      <4>6. Arrives(a, k)
        BY <1>1, <1>2, <2>1, <4>3, <4>4, <4>5, SuccessorFacts
      <4>7. LeavesSpmd(a, k)
        BY <1>3, <4>4
      <4>8. prog.parent[k] # 0 /\ prog.op[prog.parent[k]] \notin Loops
        BY <2>1, <3>2, <4>4 DEF OwnExit, Inst
      <4> QED
        BY <4>4, <4>5, <4>6, <4>7, <4>8 DEF LeavesSpmd
    <3> QED
      BY <3>1, <3>2
  <2>3. ASSUME prog.parent[n] # 0, prog.op[prog.parent[n]] \notin Loops
        PROVE  ComesToExit(a, prog.parent[n])
    <3>1. Follow(prog, n) = IF LaterSiblings(prog, n) # {} THEN First(LaterSiblings(prog, n))
                            ELSE Follow(prog, prog.parent[n])
      BY <1>1, <2>1, <2>3, FollowUnfolds
    <3>2. CASE LaterSiblings(prog, n) = {}
      BY <2>2, <3>1, <3>2 DEF ComesToExit
    <3>3. CASE LaterSiblings(prog, n) # {}
      <4>1. PICK k : k = First(LaterSiblings(prog, n))
        OBVIOUS
      <4>2. k \in LaterSiblings(prog, n)
        <5>1. LaterSiblings(prog, n) \in SUBSET Nat
          BY <2>1 DEF LaterSiblings, Siblings, Region
        <5> QED
          BY <3>3, <4>1, <5>1, FirstFacts
      <4>3. k \in Siblings(prog, n) /\ k > n
        BY <4>2 DEF LaterSiblings
      <4>4. k \in Inst(prog) /\ prog.parent[k] = prog.parent[n] /\ InSpmd(prog, k)
        BY <1>1, <2>1, <4>3, SiblingFacts DEF InSpmd
      <4>5. k \in n + 1 .. Len(prog.op)
        BY <2>1, <4>3, <4>4 DEF Inst
      <4>6. PICK e \in Inst(prog) : /\ OwnExit(prog, e) /\ InSpmd(prog, e) /\ Arrives(a, e)
                                    /\ Follow(prog, e) = Follow(prog, n)
        BY <2>2 DEF ComesToExit
      <4>7. Holds(Successors(prog, e), k)
        <5>1. Follow(prog, e) = k /\ k # 0
          BY <2>1, <3>1, <3>3, <4>1, <4>4, <4>6 DEF Inst
        <5> QED
          BY <1>1, <4>6, <5>1, SuccessorFacts
      <4>8. Arrives(a, k)
        BY <1>2, <4>4, <4>6, <4>7
      <4>9. LeavesSpmd(a, k)
        BY <1>3, <4>5
      <4> QED
        BY <2>3, <4>4, <4>8, <4>9 DEF LeavesSpmd
    <3> QED
      BY <3>2, <3>3
  <2> QED
    BY <2>2, <2>3
<1>4. \A n \in 1 .. Len(prog.op) : n \in T
  <2> HIDE DEF T
  <2> QED
    BY <1>1, <1>3, InReverse DEF IsTree
<1> QED
  BY <1>4 DEF Inst

(* Where control goes freely, accesses to s come.                          *)
LEMMA FreeStepArrives ==
    ASSUME Graph, AllSettled, NEW s \in Space, OnlyIn(s),
           ~\E k \in Inst(prog) : HalfIf(k),
           NEW a, In(s, a) = [rd |-> a.rd, wr |-> a.wr],
           NEW x \in Inst(prog), Passes(a, x), Arrives(a, x) \/ prog.op[x] # "if",
           NEW n \in Inst(prog), FreeStep(s, x, n)
    PROVE  Arrives(a, n)
<1>1. prog \in Programs /\ IsTree(prog) /\ \A k \in Inst(prog) : Place(k) = k
  BY NodeFacts DEF Graph
<1>2. NoBarrier(n)
  BY NoneInFront DEF FreeStep
<1>3. CASE Holds(Successors(prog, x), n)
  BY <1>2, <1>3, PassedArrive
<1>4. CASE ~Holds(Successors(prog, x), n)
  <2>1. n # 0
    BY DEF Inst
  <2>2. Skips(prog, x) /\ Follow(prog, x) = n /\ ~OwnExit(prog, x)
    <3>1. ~Holds(Starts(prog, x), n) /\ ~(OwnExit(prog, x) /\ Follow(prog, x) = n)
      BY <1>1, <1>4, <2>1, SuccessorFacts
    <3> QED
      BY <3>1 DEF FreeStep, FlowsTo, Holds
  <2>3. prog.op[x] = "if" /\ Regions(prog, x) \in {{1}, {2}}
    <3>1. prog.op[x] = "if" /\ Regions(prog, x) # {1, 2} /\ Regions(prog, x) # {}
      BY <2>2 DEF Skips, OwnExit
    <3>2. Regions(prog, x) \subseteq {1, 2}
      BY DEF Regions
    <3> QED
      BY <3>1, <3>2
  <2>4. InSpmd(prog, x) /\ Arrives(a, x)
    BY <2>3 DEF HalfIf
  <2>5. PICK e \in Inst(prog) : /\ OwnExit(prog, e) /\ InSpmd(prog, e) /\ Arrives(a, e)
                                /\ Follow(prog, e) = Follow(prog, x)
    <3>1. LeavesSpmd(a, x)
      BY SpmdIsLeft
    <3> QED
      BY <2>4, <3>1 DEF LeavesSpmd, ComesToExit
  <2>6. Holds(Successors(prog, e), n)
    BY <1>1, <2>1, <2>2, <2>5, SuccessorFacts
  <2>7. Passes(a, e)
    BY <1>1, <2>5, ArrivedPass DEF InsertsAt
  <2> QED
    BY <1>2, <2>6, <2>7, PassedArrive
<1> QED
  BY <1>3, <1>4

(* What control reaches freely from an access, the access comes to.        *)
LEMMA ReachedByAccesses ==
    ASSUME Graph, AllSettled, NEW s \in Space, OnlyIn(s),
           ~\E k \in Inst(prog) : HalfIf(k),
           NEW m \in Inst(prog), GetRW(prog, m) # None, NEW n \in FreeReach(s, m)
    PROVE  n \in Inst(prog) /\ Arrives(GetRW(prog, m), n)
<1> DEFINE a == GetRW(prog, m)
           Closed(S) == \A k \in Inst(prog) :
               \/ FreeStep(s, m, k)
               \/ \E x \in S : /\ ~(prog.op[x] = "barrier" /\ s \in prog.fence[x])
                               /\ FreeStep(s, x, k)
               => k \in S
           S == {k \in Inst(prog) : Arrives(a, k)}
<1>1. In(s, a) = [rd |-> a.rd, wr |-> a.wr]
  <2>1. In(s, a) = a
    BY DEF OnlyIn
  <2> QED
    BY <2>1 DEF In
<1>2. prog.op[m] # "if" /\ ~IsBarrier(m)
  BY DEF GetRW, IsBarrier
<1>3. Passes(a, m)
  BY <1>2, OwnPass
<1>4. Closed(S)
  <2> SUFFICES ASSUME NEW k \in Inst(prog),
                      \/ FreeStep(s, m, k)
                      \/ \E x \in S : /\ ~(prog.op[x] = "barrier" /\ s \in prog.fence[x])
                                      /\ FreeStep(s, x, k)
               PROVE  Arrives(a, k)
    OBVIOUS
  <2> HIDE DEF a
  <2>1. CASE FreeStep(s, m, k)
    BY <1>1, <1>2, <1>3, <2>1, FreeStepArrives
  <2>2. ASSUME NEW x \in S, ~(prog.op[x] = "barrier" /\ s \in prog.fence[x]), FreeStep(s, x, k)
        PROVE  Arrives(a, k)
    <3>1. x \in Inst(prog) /\ Arrives(a, x)
      OBVIOUS
    <3>2. Passes(a, x)
      BY <1>1, <2>2, <3>1, ArrivedPass
    <3> QED
      BY <1>1, <2>2, <3>1, <3>2, FreeStepArrives
  <2> QED
    BY <2>1, <2>2
<1>5. S \in SUBSET Inst(prog)
  OBVIOUS
<1>6. n \in Inst(prog) /\ \A R \in SUBSET Inst(prog) : Closed(R) => n \in R
  BY DEF FreeReach
<1>7. n \in S
  <2> HIDE DEF S, Closed
  <2> QED
    BY <1>4, <1>5, <1>6
<1> QED
  BY <1>7

(* Values that name some storage together may alias.                       *)
LEMMA SharesAreAliases ==
    ASSUME NEW v, NEW w, Footprint(v) \cap Footprint(w) # {}
    PROVE  Alias(v, w) /\ Alias(w, v)
<1>1. PICK x : x \in Footprint(v) /\ x \in Footprint(w)
  OBVIOUS
<1>2. CASE Root[v] \in DOMAIN Stack /\ Root[w] \in DOMAIN Stack
  <2>1. PICK y \in Stack[Root[v]][1] .. Stack[Root[v]][2] - 1 : x = <<"byte", y>>
    BY <1>1, <1>2 DEF Footprint
  <2>2. PICK z \in Stack[Root[w]][1] .. Stack[Root[w]][2] - 1 : x = <<"byte", z>>
    BY <1>1, <1>2 DEF Footprint
  <2>3. y = z
    BY <2>1, <2>2
  <2>4. /\ Stack[Root[v]][1] \in Nat /\ Stack[Root[v]][2] \in Nat
        /\ Stack[Root[w]][1] \in Nat /\ Stack[Root[w]][2] \in Nat
    BY <1>2, ValueAssumption
  <2>5. Overlap(Root[v], Root[w]) /\ Overlap(Root[w], Root[v])
    BY <2>1, <2>2, <2>3, <2>4 DEF Overlap
  <2> QED
    BY <1>2, <2>5 DEF Alias
<1>3. CASE Root[v] \notin DOMAIN Stack /\ Root[w] \notin DOMAIN Stack
  BY <1>1, <1>3 DEF Footprint, Alias
<1>4. ASSUME NEW y, NEW z PROVE <<"byte", y>> # <<"object", z>>
  OBVIOUS
<1>5. (Root[v] \in DOMAIN Stack) = (Root[w] \in DOMAIN Stack)
  BY <1>1, <1>4 DEF Footprint
<1> QED
  BY <1>2, <1>3, <1>5

(* A race with an access that comes to a node is a conflict there.         *)
LEMMA RacesAreConflicts ==
    ASSUME NEW s, NEW a, NEW b, NEW c, Races(s, a, b), Arrives(a, c)
    PROVE  Conflict(s, IrwIn(c), b)
<1>1. ASSUME NEW V, NEW W, Storage(s, V) \cap Storage(s, W) # {}
      PROVE  \E v \in V, w \in W : SpaceOf[v] = s /\ SpaceOf[w] = s /\ Alias(w, v)
  <2>1. PICK x : x \in Storage(s, V) /\ x \in Storage(s, W)
    BY <1>1
  <2>2. PICK v \in V : SpaceOf[v] = s /\ x \in Footprint(v)
    BY <2>1 DEF Storage
  <2>3. PICK w \in W : SpaceOf[w] = s /\ x \in Footprint(w)
    BY <2>1 DEF Storage
  <2> QED
    BY <2>2, <2>3, SharesAreAliases
<1>2. CASE Storage(s, a.wr) \cap Storage(s, b.rd \cup b.wr) # {}
  <2>1. PICK v \in a.wr, w \in b.rd \cup b.wr : SpaceOf[v] = s /\ SpaceOf[w] = s /\ Alias(w, v)
    BY <1>1, <1>2
  <2>2. v \in In(s, IrwIn(c)).wr /\ w \in In(s, b).rd \cup In(s, b).wr
    BY <2>1 DEF In, Arrives
  <2> QED
    BY <2>1, <2>2 DEF Conflict, Intersects
<1>3. CASE Storage(s, a.rd) \cap Storage(s, b.wr) # {}
  <2>1. PICK v \in a.rd, w \in b.wr : SpaceOf[v] = s /\ SpaceOf[w] = s /\ Alias(w, v)
    BY <1>1, <1>3
  <2>2. v \in In(s, IrwIn(c)).rd /\ w \in In(s, b).wr
    BY <2>1 DEF In, Arrives
  <2> QED
    BY <2>1, <2>2 DEF Conflict, Intersects
<1> QED
  BY <1>2, <1>3 DEF Races

(* Instructions that race access the space they race in.                   *)
LEMMA RacesAccess ==
    ASSUME NEW s, NEW t, NEW a, NEW b, Races(s, a, b), In(t, a) = a
    PROVE  s = t /\ a # None /\ b # None
<1>1. \A V : Storage(s, V) # {} => \E v \in V : SpaceOf[v] = s
  BY DEF Storage
<1>2. \E v \in a.rd \cup a.wr : SpaceOf[v] = s
  BY <1>1 DEF Races
<1>3. \E v \in b.rd \cup b.wr : TRUE
  BY <1>1 DEF Races
<1>4. \A v \in a.rd \cup a.wr : SpaceOf[v] = t
  <2>1. \A v : v \in In(t, a).rd \/ v \in In(t, a).wr => SpaceOf[v] = t
    BY DEF In
  <2> QED
    BY <2>1
<1> QED
  BY <1>2, <1>3, <1>4 DEF None

(* When the pass is done, control that comes from an access to a           *)
(* conflicting one outside of SPMD regions crosses a barrier that fences   *)
(* their space: for every program whose accesses are to one space and that *)
(* has no if of a collective region with one region only, unless a change  *)
(* went unnoticed.                                                         *)
THEOREM SeparatesInOneSpace == Spec => []RaceFreeInOneSpace
<1>1. Graph /\ OutSettled => RaceFreeInOneSpace
  <2> SUFFICES ASSUME Graph, OutSettled, OneSpace, ~(\E k \in Inst(prog) : HalfIf(k)), ~missed, Done,
                      NEW s \in Space, NEW m \in Inst(prog), NEW n \in FreeReach(s, m),
                      ~InSpmd(prog, n), Races(s, GetRW(prog, m), GetRW(prog, n))
               PROVE  FALSE
    BY DEF RaceFreeInOneSpace, RaceFree
  <2>1. AllSettled
    BY DEF OutSettled, AllSettled
  <2>2. PICK t \in Space : OnlyIn(t)
    BY DEF OneSpace, OnlyIn
  <2>3. s = t /\ GetRW(prog, m) # None /\ GetRW(prog, n) # None
    BY <2>2, RacesAccess DEF OnlyIn
  <2>4. n \in Inst(prog) /\ Arrives(GetRW(prog, m), n)
    BY <2>1, <2>2, <2>3, ReachedByAccesses
  <2>5. Conflict(s, IrwIn(n), GetRW(prog, n))
    BY <2>4, RacesAreConflicts
  <2>6. ~IsBarrier(n) /\ InsertsAt(n)
    <3>1. Place(n) = n
      BY <2>4, NodeFacts DEF Graph
    <3> QED
      BY <2>3, <2>4, <3>1 DEF IsBarrier, GetRW, InsertsAt
  <2>7. Needed(n) = {}
    BY <2>1, <2>4, <2>6 DEF AllSettled, Settled
  <2> QED
    BY <2>5, <2>6, <2>7 DEF Needed
<1> QED
  BY <1>1, GraphInvariant, Settles, PTL

=============================================================================
