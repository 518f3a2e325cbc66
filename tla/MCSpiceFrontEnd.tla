-------------------------- MODULE MCSpiceFrontEnd ---------------------------
(* Library files three deep in two directories, includes that meet, wind   *)
(* and close cycles, and netlists of nested subcircuits.                   *)
EXTENDS SpiceFrontEnd, FiniteSets

NoDirs == << <<"sys">> >>

R(n, v) == Element("resistor", n, <<"a", "0">>, v, "")
D(n, net) == Element("diode", n, <<net, "vdd">>, "1", "m")

Projects(roots, files) == {[root |-> r, files |-> f] : r \in roots, f \in files}

-----------------------------------------------------------------------------
\* Libraries: "a" beside the netlist, "lib/b" and "b"; a section of a has up to two
\* lines, one of b one.
SectionOf(name, lines) == <<Section(name)>> \o lines \o <<Endl(name)>>
LibRoots ==
    {<<R("r0", "1"), Lib(<<"a">>, s), R("r9", "w"), Param("w", "2")>> : s \in {"s", "t"}}
    \cup {<<Subckt("q", <<"a">>, <<>>), Lib(<<"a">>, "s"), Ends, Call("x1", <<"n">>, "q", <<>>),
            Lib(<<"lib", "..", "lib", "b">>, "s")>>}
InA == {R("r1", "1"), Lib(<<"lib", "b">>, "s"), Lib(<<"lib", "b">>, "t"), Lib(<<"a">>, "t"),
        Lib(<<"none">>, "s"), Model("m")}
InB == {R("r2", "2"), Lib(<<"b">>, "t"), Lib(<<"..", "a">>, "t")}
\* No section asks for itself, and no file "b" is beside "a": beyond the depth limit a
\* section of lib/b would get it (see SplicedInPlace).
LibLines ==
    {l \in InA \X (InA \ {Lib(<<"a">>, "t")}) \X InB :
        l[3].path = <<"..", "a">> => l[2].path # <<"lib", "b">>}
LibFiles ==
    {[f \in {<<"a">>, <<"lib", "b">>, <<"lib", "lib", "b">>} |->
        IF f = <<"a">>
        THEN SectionOf("s", <<l[1], R("r3", "3")>>) \o SectionOf("t", <<R("r4", "1"), l[2]>>)
        ELSE SectionOf("s", <<l[3]>>) \o SectionOf("t", <<R("r5", "2"), R("r6", "1")>>)] :
        l \in LibLines}

-----------------------------------------------------------------------------
\* A subcircuit with its own model, and parameters with and without defaults.
Cell(params, extra) ==
    <<Subckt("cell", <<"p", "q">>, params),
      Element("resistor", "r", <<"p", "k">>, "r", ""), Element("diode", "d", <<"k", "vdd">>, "1", "m"), Model("m")>> \o extra \o <<Ends>>
\* Kinds whose model, net or expression the flattening does not look at, and a resistor
\* that names its model.
Others ==
    <<Element("resistor", "rm", <<"q", "k">>, "", "m"),
      Element("vswitch", "s", <<"p", "k", "q", "0">>, "r", "m"),
      Element("cpl", "p", <<"p", "k", "g">>, "r", "m"),
      Element("source", "i", <<"k", "0">>, "r", ""),
      Element("waveform", "v", <<"k", "0">>, "r", ""),
      Element("urc", "u", <<"q", "k", "0">>, "r", "m"),
      Element("behavioral", "b", <<"k", "q">>, "r", ""), Element("raw", "y", <<"q", "k">>, "", "")>>
Inner == {<<>>, <<Param("r", "3")>>, <<Call("x3", <<"k", "q">>, "leaf", <<Is("r", "r")>>)>>,
          <<Call("x3", <<"k", "q">>, "leaf", <<Is("w", "2"), Is("r", "w")>>)>>,
          <<Call("x3", <<"k", "0">>, "cell", <<>>)>>, <<Call("x3", <<"k">>, "leaf", <<>>)>>,
          <<Call("x3", <<"q", "k">>, "none", <<>>)>>,
          <<Subckt("leaf", <<"a", "b">>, <<>>), Element("diode", "d2", <<"b", "k">>, "r", "m"), Ends,
            Call("x3", <<"k", "q">>, "leaf", <<>>)>>, Others}
Leaf == <<Subckt("leaf", <<"p", "n">>, <<Is("r", "1"), Is("w", "3")>>),
          Element("resistor", "r", <<"n", "i">>, "r", ""), Element("diode", "r2", <<"i", "vdd">>, "w", "m"),
          Ends>>
Top(args) == <<Call("x1", <<"n", "vdd">>, "cell", args), Element("diode", "d", <<"n", "0">>, "w", "m"),
               Call("x2", <<"0", "n">>, "leaf", args)>>
Netlists ==
    {<<Global("vdd"), Param("w", "2"), Model("m")>> \o Cell(params, inner) \o Leaf \o Top(args) :
        params \in {<<>>, <<Is("r", "1")>>, <<Is("r", "1"), Is("w", "1")>>}, inner \in Inner,
        args \in {<<>>, <<Is("r", "2")>>, <<Is("r", "w")>>}}

MCLibProjects ==
    Projects(LibRoots, LibFiles) \cup Projects(Netlists, {[f \in {} |-> <<>>]})

-----------------------------------------------------------------------------
\* Includes: three files that ask for one another, also through a ".." and as sections.
Asks == {Include(<<"a">>), Include(<<"lib", "b">>), Include(<<"b">>), Include(<<"..", "a">>),
         Lib(<<"a">>, "s"), Lib(<<"c">>, "s"), R("r1", "1"), Include(<<"none">>)}
IncludeFiles ==
    {[f \in {<<"a">>, <<"lib", "b">>, <<"sys", "c">>} |->
        IF f = <<"a">> THEN <<i, Section("s"), R("r2", "2"), Endl("")>>
        ELSE IF f = <<"lib", "b">> THEN <<R("r3", "1"), j, R("r4", "1")>>
        ELSE SectionOf("t", <<R("r5", "1")>>) \o SectionOf("s", <<R("r6", "1"), k>>)] :
        i \in Asks, j \in Asks, k \in {Include(<<"a">>), Include(<<"lib", "b">>)}}
    \cup {[f \in {<<"a">>, <<"sys", "d">>} |->
        IF f = <<"a">> THEN <<Subckt("q", <<"a">>, <<>>), Include(<<"d">>), Ends>> ELSE <<R("r7", "1")>>]}
IncludeRoots ==
    {<<i, R("r0", "1"), j>> : i \in Asks, j \in {Include(<<"a">>), Include(<<"lib", "b">>)}}

MCIncludeProjects ==
    Projects(IncludeRoots, IncludeFiles)
    \cup Projects(Netlists, {[f \in {} |-> <<>>]})

\* An override that names a parameter of the netlist, and a body with all the kinds.
OverrideProjects ==
    Projects({<<Param("w", "2")>> \o Leaf \o <<Call("x2", <<"0", "n">>, "leaf", <<Is("r", "w")>>)>>,
              Cell(<<Is("r", "1")>>, Others) \o <<Call("x1", <<"n", "0">>, "cell", <<Is("r", "2")>>)>>},
             {[f \in {} |-> <<>>]})
NoProjects == {}

\* A library section that asks for itself.
SelfLib ==
    Projects({<<Lib(<<"a">>, "s")>>}, {[f \in {<<"a">>} |-> SectionOf("s", <<Lib(<<"a">>, "s")>>)]})
=============================================================================
