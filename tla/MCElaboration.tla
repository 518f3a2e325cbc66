--------------------------- MODULE MCElaboration ---------------------------
(* Small circuits for the statements of the documentation about modules.   *)
EXTENDS Elaboration, CirqSyntax

\* A module whose instance inside it stands between its own ports.
Inner == Body(<<"inp", "out">>, <<R("R1", <<"inp", "out">>, "r")>>)
Outer == Body(<<"inp", "out">>, <<inst("s", "inner", <<at("inp"), at("mid")>>),
                                 inst("t", "inner", <<at("mid"), at("out")>>)>>)
NestedSources ==
    {<<Module("inner", Inner), Module("outer", Outer),
       Circuit("top", <<param("r", "1k"), inst("x", m, <<at("a"), at(b)>>)>>)>> :
        m \in {"inner", "outer"}, b \in {"b", "gnd"}}

\* A module that draws from a supply, declared global by the circuit or not.
GlobalSources ==
    {<<Module("load", Body(<<"inp">>, <<R("R1", <<"inp", "vdd">>, "1k")>>)),
       Circuit("top", <<param("r", "1k"), g, R("R1", <<"a", "vdd">>, "r"),
                        inst("x", "load", <<at("a")>>), inst("y", "load", <<at(n)>>)>>)>> :
        g \in {global("vdd"), R("R0", <<"vdd", "gnd">>, "r")}, n \in {"a", "vdd"}}

\* A module with a parameter of its own.
ScopedSources ==
    {<<Module("load", Body(<<"inp">>, <<param(p, "1k"), R("R1", <<"inp", "gnd">>, p)>>)),
       Circuit("top", <<param("r", "2k"), inst("x", "load", a)>>)>> :
        p \in {"r", "s"}, a \in {<<at("a")>>, <<at("a"), arg("s", "r")>>}}
=============================================================================
