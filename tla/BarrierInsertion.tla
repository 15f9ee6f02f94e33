-------------------------- MODULE BarrierInsertion --------------------------
(***************************************************************************)
(* The insert-barrier pass, src/src/pass/insert_barrier.cpp: a worklist    *)
(* data flow analysis of the reads and writes not yet visible to the other *)
(* threads of the work-group, that inserts a barrier in front of an        *)
(* instruction whenever a conflicting access reaches it.                   *)
(*                                                                         *)
(* Nodes are numbers: 1..N the instructions of the program, n+N and n+2N   *)
(* the first and the second barrier the pass inserts in front of n.        *)
(***************************************************************************)
EXTENDS ControlFlow, Functions

CONSTANTS
    Programs,   \* the programs the pass is run on
    Value,      \* memref values
    SpaceOf,    \* [Value -> Space], the address space of their type
    Root,       \* [Value -> Value], the alias map (subview, expand, fuse)
    Stack       \* [set of roots -> <<start, stop>>], the alloca addresses

Space == {"global", "local"}

ASSUME ValueAssumption ==
    /\ SpaceOf \in [Value -> Space]
    /\ Root \in [Value -> Value]
    /\ DOMAIN Stack \subseteq Value
    /\ \A r \in DOMAIN Stack : Stack[r][1] \in Nat /\ Stack[r][2] \in Nat

(* Instructions are in pre-order, and those that access memory or fence it *)
(* have no child regions.                                                  *)
ASSUME ProgramsAssumption ==
    \A p \in Programs :
        /\ Len(p.op) \in Nat
        /\ \A n \in Inst(p) :
               /\ p.parent[n] \in 0 .. n - 1
               /\ p.parent[n] # 0 => p.op[p.parent[n]] \in {"if", "parallel"} \cup Loops
               /\ p.branch[n] \in 1 .. 2
               /\ p.fence[n] \subseteq Space

VARIABLES
    prog,       \* the function body, fixed from the start
    queue,      \* std::queue of nodes to visit
    irwOut,     \* irw_out: invisible reads and writes behind a node
    pred, succ, \* adjacency lists of the control flow graph
    inserted,   \* the barriers inserted in front of an instruction, in order
    fence,      \* fence flags of the barriers, manual and inserted
    missed      \* history: a set has changed and kept its size

vars == <<prog, queue, irwOut, pred, succ, inserted, fence, missed>>

Node(p) == 1 .. 3 * Len(p.op)

NewBarrier(n) == n + (Len(inserted[n]) + 1) * Len(prog.op)

-----------------------------------------------------------------------------
(* reads_writes and alias analysis *)

None == [rd |-> {}, wr |-> {}]

In(s, a) == [rd |-> {v \in a.rd : SpaceOf[v] = s},
             wr |-> {v \in a.wr : SpaceOf[v] = s}]

MergeAll(S) == [rd |-> UNION {a.rd : a \in S}, wr |-> UNION {a.wr : a \in S}]

Overlap(a, b) == Stack[a][2] > Stack[b][1] /\ Stack[b][2] > Stack[a][1]

Alias(v, w) == \/ Root[v] = Root[w]
               \/ /\ {Root[v], Root[w]} \subseteq DOMAIN Stack
                  /\ Overlap(Root[v], Root[w])

Intersects(V, W) == \E v \in V, w \in W : Alias(v, w)

(* Mutant of Conflict: a write after a read is no conflict. *)
ConflictWithoutWar(s, before, now) ==
    Intersects(In(s, now).rd \cup In(s, now).wr, In(s, before).wr)

(* Mutant of Conflict: a read after a read is one. *)
ConflictOfReads(s, before, now) ==
    Intersects(In(s, now).rd \cup In(s, now).wr, In(s, before).rd \cup In(s, before).wr)

(* raw_war_or_waw: the accesses before conflict with the accesses now. *)
Conflict(s, before, now) ==
    LET b == In(s, before)  n == In(s, now)
    IN  Intersects(n.rd, b.wr) \/ Intersects(n.wr, b.rd) \/ Intersects(n.wr, b.wr)

(* get_rw: what the pass knows an instruction to read and to write. *)
GetRW(p, n) ==
    LET a == p.args[n]
    IN  CASE p.op[n] = "blas_a2"      -> [rd |-> {a[1]}, wr |-> {a[2]}]
          [] p.op[n] = "blas_a3"      -> [rd |-> {a[1], a[2]}, wr |-> {a[3]}]
          [] p.op[n] = "memory_read"  -> [rd |-> {a[1]}, wr |-> {}]
          [] p.op[n] = "memory_write" -> [rd |-> {}, wr |-> {a[1]}]
          [] OTHER                    -> None

(* get_cardinal: the four set sizes by which the pass detects a change. *)
Cardinal(a) == [s \in Space |-> <<Cardinality(In(s, a).rd), Cardinality(In(s, a).wr)>>]

-----------------------------------------------------------------------------
Init ==
    /\ prog \in Programs
    /\ queue \in Bijection(Inst(prog), Inst(prog))
           \* node_queue: unordered_map iteration order is unspecified
    /\ irwOut = [n \in Node(prog) |-> None]
    /\ succ = [n \in Node(prog) |->
                  IF n \in Inst(prog) THEN Successors(prog, n) ELSE <<>>]
    /\ pred = [n \in Node(prog) |->
                  {m \in Node(prog) : \E i \in DOMAIN succ[m] : succ[m][i] = n}]
    /\ inserted = [n \in Inst(prog) |-> <<>>]
    /\ fence = [n \in Node(prog) |-> IF n \in Inst(prog) THEN prog.fence[n] ELSE {}]
    /\ missed = FALSE

(* The instruction a node stands at. *)
Place(x) == CASE x <= Len(prog.op)     -> x
              [] x > 2 * Len(prog.op) -> x - 2 * Len(prog.op)
              [] OTHER                -> x - Len(prog.op)

IsBarrier(n) == n \in Inst(prog) => prog.op[n] = "barrier"

(* Barriers are inserted, and respected, outside of SPMD regions only. *)
InsertsAt(n) == ~InSpmd(prog, Place(n))

IrwIn(n) == MergeAll({irwOut[m] : m \in pred[n]})

(* Own accesses, and those before it in the spaces that need no fence. *)
Transfer(n, fenced) ==
    [rd |-> GetRW(prog, n).rd \cup UNION {In(s, IrwIn(n)).rd : s \in Space \ fenced},
     wr |-> GetRW(prog, n).wr \cup UNION {In(s, IrwIn(n)).wr : s \in Space \ fenced}]

(* The fence flags instruction n needs in front of it. *)
Needed(n) ==
    IF InsertsAt(n) THEN {s \in Space : Conflict(s, IrwIn(n), GetRW(prog, n))} ELSE {}

(* insert_before: the new node takes over the predecessors of n.  The      *)
(* successor vectors of those predecessors keep naming n.                  *)
InsertBefore(n, b) ==
    /\ pred' = [pred EXCEPT ![b] = pred[n], ![n] = {b}]
    /\ succ' = [succ EXCEPT ![b] = Append(@, n)]

(* Mutant of Requeue: a change of the reads goes unnoticed. *)
RequeueOnWrites(n, out) ==
    IF \E s \in Space : Cardinal(out)[s][2] # Cardinal(irwOut[n])[s][2]
    THEN succ[n] ELSE <<>>

(* The successors of n are visited again when a set size has changed. *)
Requeue(n, out) ==
    IF Cardinal(out) # Cardinal(irwOut[n]) THEN succ[n] ELSE <<>>

(* The node n passes on another set than before. *)
Update(n, out) ==
    /\ irwOut' = [irwOut EXCEPT ![n] = out]
    /\ missed' = (missed \/ (out # irwOut[n] /\ Cardinal(out) = Cardinal(irwOut[n])))

(* The loop body at a barrier: what it does not fence passes through. *)
VisitBarrier(n) ==
    /\ IsBarrier(n) /\ InsertsAt(n)
    /\ LET out == MergeAll({irwOut[n]} \cup {In(s, IrwIn(n)) : s \in Space \ fence[n]})
       IN  /\ Update(n, out)
           /\ queue' = Tail(queue) \o Requeue(n, out)
    /\ UNCHANGED <<pred, succ, inserted, fence>>

(* The loop body at an instruction that needs no fence in front of it. *)
VisitInst(n) ==
    /\ ~(IsBarrier(n) /\ InsertsAt(n))
    /\ Needed(n) = {}
    /\ LET out == Transfer(n, {})
       IN  /\ Update(n, out)
           /\ queue' = Tail(queue) \o Requeue(n, out)
    /\ UNCHANGED <<pred, succ, inserted, fence>>

(* The loop body at an instruction that gets a barrier in front of it. *)
InsertBarrier(n) ==
    /\ ~(IsBarrier(n) /\ InsertsAt(n))
    /\ Needed(n) # {}
    /\ LET out == Transfer(n, Needed(n))
           b == NewBarrier(n)
       IN  /\ Update(n, out)
           /\ fence' = [fence EXCEPT ![b] = Needed(n)]
           /\ inserted' = [inserted EXCEPT ![n] = Append(@, b)]
           /\ InsertBefore(n, b)
           /\ queue' = Append(Tail(queue), b) \o Requeue(n, out)

Next ==
    /\ queue # <<>>
    /\ UNCHANGED prog
    /\ \/ VisitBarrier(Head(queue))
       \/ VisitInst(Head(queue))
       \/ InsertBarrier(Head(queue))

Spec == Init /\ [][Next]_vars /\ WF_vars(Next)

Done == queue = <<>>

-----------------------------------------------------------------------------
(* What the pass is for *)

(* The storage a value names: bytes of local memory, or an object. *)
Footprint(v) ==
    IF Root[v] \in DOMAIN Stack
    THEN {<<"byte", x>> : x \in Stack[Root[v]][1] .. Stack[Root[v]][2] - 1}
    ELSE {<<"object", Root[v]>>}

Storage(s, V) == UNION {Footprint(v) : v \in {w \in V : SpaceOf[w] = s}}

(* Two instructions access the same storage and one of them writes it. *)
Races(s, a, b) ==
    \/ Storage(s, a.wr) \cap Storage(s, b.rd \cup b.wr) # {}
    \/ Storage(s, a.rd) \cap Storage(s, b.wr) # {}

(* Control goes from m to n without crossing a barrier that fences s and   *)
(* stands between the two.  Only control that comes from inside a loop to  *)
(* its head does not cross the barriers in front of the loop.              *)
FreeStep(s, m, n) ==
    /\ FlowsTo(prog, m, n)
    /\ \/ n \in Enclosing(prog, m)
       \/ \A i \in DOMAIN inserted[n] : s \notin fence[inserted[n][i]]

(* The instructions that control can reach from m with no s-fence crossed: *)
(* the least set that has those behind m, and those behind its own ones.   *)
FreeReach(s, m) ==
    LET Closed(S) == \A n \in Inst(prog) :
            \/ FreeStep(s, m, n)
            \/ \E x \in S : /\ ~(prog.op[x] = "barrier" /\ s \in prog.fence[x])
                            /\ FreeStep(s, x, n)
            => n \in S
    IN  {n \in Inst(prog) : \A S \in SUBSET Inst(prog) : Closed(S) => n \in S}

(* "Barriers are inserted automatically in collective regions"             *)
(* (src/docs/manual/tensor-ir.rst:1252).  Once the pass has run, no        *)
(* execution reaches an access outside of SPMD regions from a conflicting  *)
(* one, of any region, without a barrier with the fence of their address   *)
(* space in between.                                                       *)
RaceFree ==
    Done => \A s \in Space, m \in Inst(prog) : \A n \in FreeReach(s, m) :
        ~InSpmd(prog, n) => ~Races(s, GetRW(prog, m), GetRW(prog, n))

(* RaceFree where hazards of two address spaces do not meet, and where     *)
(* every path around an if is in the graph: the accesses of the function   *)
(* are to one space, and no if of a collective region lacks one region.    *)
(* A change that leaves all sizes as they were is not noticed, and then a  *)
(* barrier can be missing.  That is the only way to lose one.              *)
OneSpace == \E s \in Space : \A n \in Inst(prog) : In(s, GetRW(prog, n)) = GetRW(prog, n)

HalfIf(n) == /\ prog.op[n] = "if" /\ ~InSpmd(prog, n)
             /\ Regions(prog, n) \in {{1}, {2}}

RaceFreeInOneSpace ==
    OneSpace /\ ~(\E n \in Inst(prog) : HalfIf(n)) /\ ~missed => RaceFree

(* The accesses that can reach n when only the manual barriers outside of  *)
(* SPMD regions stop them: the least set that has those in front of n, and *)
(* those in front of its own ones.                                         *)
Stops(s, x) == prog.op[x] = "barrier" /\ s \in prog.fence[x] /\ InsertsAt(x)

Reaching(s, n) ==
    LET Closed(S) == \A m \in Inst(prog) :
            \/ FlowsTo(prog, m, n)
            \/ \E x \in S : ~Stops(s, x) /\ FlowsTo(prog, m, x)
            => m \in S
    IN  {m \in Inst(prog) : \A S \in SUBSET Inst(prog) : Closed(S) => m \in S}

(* No barrier is wasted: each fence the pass has inserted in front of an   *)
(* instruction separates it from a conflicting access that can reach it    *)
(* (the rar test of src/test/lit/opt/insert-barrier.ir expects none).      *)
FencesJustified ==
    \A n \in Inst(prog) : \A i \in DOMAIN inserted[n] : \A s \in fence[inserted[n][i]] :
        \E m \in Reaching(s, n) : Races(s, GetRW(prog, m), GetRW(prog, n))

(* What a barrier does not fence passes it.  Any other instruction passes  *)
(* on all that comes to it, and its own accesses, and needs no barrier.    *)
Settled(n) ==
    IF IsBarrier(n) /\ InsertsAt(n)
    THEN \A s \in Space \ fence[n] : /\ In(s, IrwIn(n)).rd \subseteq irwOut[n].rd
                                     /\ In(s, IrwIn(n)).wr \subseteq irwOut[n].wr
    ELSE irwOut[n] = Transfer(n, {}) /\ Needed(n) = {}

(* Although sets shrink when barriers are inserted, and predecessors keep  *)
(* naming the instruction behind a new barrier, no instruction is left     *)
(* behind with sets that its predecessors do not imply, unless a set has   *)
(* changed and kept its size.                                              *)
OutSettled == Done /\ ~missed => \A n \in Inst(prog) : Settled(n)

(* "Barriers are inserted automatically in collective regions"             *)
(* (src/docs/manual/tensor-ir.rst:1252): the pass comes to an end, and     *)
(* then there are barriers where they are needed.  It may not come to one: *)
(* sets of different sizes can chase each other around a loop for ever.    *)
InsertsAutomatically == <>(Done /\ RaceFree)
=============================================================================
