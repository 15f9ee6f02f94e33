-------------------------- MODULE MCStackLifetime --------------------------
(***************************************************************************)
(* Small region trees with allocas.  A "use" has any one or two values in  *)
(* scope as operands, a "touch" one, a "view" is a subview of one value in *)
(* scope and a "stop" the lifetime_stop of one.                            *)
(***************************************************************************)
EXTENDS StackLifetime

MCBuffer == 1 .. 8
MCSize == <<4, 8, 2, 5, 8, 4, 8, 5>>
MCAlignment == <<4, 2, 1, 4, 8, 3, 4, 3>>

Shape(op, parent, branch) == [op |-> op, parent |-> parent, branch |-> branch]

Straight == Shape(<<"alloca", "alloca", "use", "alloca", "use", "use">>,
                  <<0, 0, 0, 0, 0, 0>>, <<1, 1, 1, 1, 1, 1>>)
Packed == Shape(<<"alloca", "alloca", "alloca", "touch", "alloca", "touch", "touch", "alloca", "touch", "touch">>,
                <<0, 0, 0, 0, 0, 0, 0, 0, 0, 0>>, <<1, 1, 1, 1, 1, 1, 1, 1, 1, 1>>)
Viewed == Shape(<<"alloca", "view", "view", "alloca", "use", "use">>,
                <<0, 0, 0, 0, 0, 0>>, <<1, 1, 1, 1, 1, 1>>)
Loop == Shape(<<"alloca", "for", "alloca", "use", "alloca", "use", "use">>,
              <<0, 0, 2, 2, 2, 2, 0>>, <<1, 1, 1, 1, 1, 1, 1>>)
LoopInLoop == Shape(<<"for", "alloca", "for", "alloca", "use", "alloca", "use">>,
                    <<0, 1, 1, 3, 3, 1, 1>>, <<1, 1, 1, 1, 1, 1, 1>>)
Branches == Shape(<<"alloca", "if", "alloca", "use", "alloca", "use", "use">>,
                  <<0, 0, 2, 2, 2, 2, 0>>, <<1, 1, 1, 1, 2, 2, 1>>)

(* Stops of the program's own, beside neighbours that are live, in front   *)
(* of an alloca that may take the place, twice, in a loop and of a view.   *)
Stops == Shape(<<"alloca", "alloca", "stop", "alloca", "touch", "stop", "touch">>,
               <<0, 0, 0, 0, 0, 0, 0>>, <<1, 1, 1, 1, 1, 1, 1>>)
StopsInLoop == Shape(<<"alloca", "for", "alloca", "stop", "alloca", "touch", "stop">>,
                     <<0, 0, 2, 2, 2, 2, 0>>, <<1, 1, 1, 1, 1, 1, 1>>)
StopOfView == Shape(<<"alloca", "view", "alloca", "stop", "touch">>,
                    <<0, 0, 0, 0, 0>>, <<1, 1, 1, 1, 1>>)

InScope(shape, n) ==
    {v \in Inst(shape) :
        shape.op[v] \in {"alloca", "view"} /\ Visible(shape, v, n)}

OperandChoices(shape, n) ==
    CASE shape.op[n] = "use"  -> {<<v, w>> : v, w \in InScope(shape, n)}
      [] shape.op[n] \in {"view", "touch", "stop"} -> {<<v>> : v \in InScope(shape, n)}
      [] OTHER                -> {<<>>}

Fill(shape, args) ==
    [op |-> [n \in DOMAIN shape.op |->
                CASE shape.op[n] = "view" -> "subview"
                  [] shape.op[n] = "stop" -> "lifetime_stop"
                  [] OTHER                -> shape.op[n]],
     args |-> args, parent |-> shape.parent, branch |-> shape.branch]

Filled(shape) ==
    LET upTo[n \in 0 .. Len(shape.op)] ==
            IF n = 0 THEN {<<>>}
            ELSE {Append(a, c) : a \in upTo[n - 1], c \in OperandChoices(shape, n)}
    IN  {Fill(shape, args) : args \in upTo[Len(shape.op)]}

MCPrograms == UNION {Filled(shape) : shape \in {Straight, Packed, Viewed, Loop, LoopInLoop, Branches}}

MCProgramsWithStop ==
    MCPrograms \cup UNION {Filled(shape) : shape \in {Stops, StopsInLoop, StopOfView}}
=============================================================================
