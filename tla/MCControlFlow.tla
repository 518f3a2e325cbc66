--------------------------- MODULE MCControlFlow ---------------------------
(***************************************************************************)
(* Scripts for ControlFlow that nest every kind of block.                  *)
(***************************************************************************)
EXTENDS ControlFlow

Statement(op) == [op |-> op, body |-> <<>>, other |-> <<>>, n |-> 0, file |-> ""]

plain == Statement("plain")
quit == Statement("quit")
if(body, other) == [Statement("if") EXCEPT !.body = body, !.other = other]
while(body) == [Statement("while") EXCEPT !.body = body]
repeat(n, body) == [Statement("repeat") EXCEPT !.n = n, !.body = body]
foreach(n, body) == [Statement("foreach") EXCEPT !.n = n, !.body = body]
source(f) == [Statement("source") EXCEPT !.file = f]

Files(a, b) == [f \in {"a", "b"} |-> IF f = "a" THEN a ELSE b]

Scripts ==
    \* scripts that source each other, themselves, and a file that is not there
    {[blocks |-> <<<<while(<<source("a")>>), source("b")>>, <<source("a"), quit>>>>,
      files  |-> Files(a, b)] :
        a \in {<<plain>>, <<source("b"), plain>>, <<if(<<source("a")>>, <<quit>>)>>},
        b \in {<<plain>>, <<foreach(2, <<source("a")>>)>>, <<source("c")>>}}
    \cup
    \* loops in loops, a quit in the middle, counts below, at and above the cap
    {[blocks |-> <<<<while(<<repeat(n, <<if(<<quit>>, <<plain>>)>>)>>), plain>>, <<plain>>>>,
      files  |-> Files(<<>>, <<>>)] : n \in 0..4}
    \cup
    {[blocks |-> <<<<foreach(2, <<while(<<plain, while(<<>>)>>)>>)>>>>,
      files  |-> Files(<<>>, <<>>)]}
=============================================================================
