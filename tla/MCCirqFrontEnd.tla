--------------------------- MODULE MCCirqFrontEnd ---------------------------
(* Projects of up to four files: every shape of imports between three of   *)
(* them around a one-line circuit, and the elaboration cases with their    *)
(* modules in another file.                                                *)
EXTENDS CirqFrontEnd, CirqSyntax

NoPaths == << <<"vendor">> >>

\* Imports: three files, each with a bare model and an export, that import one
\* another in either way.
Links == {Import(<<"a">>), Import(<<"lib", "b">>), ImportNames({"tt"}, <<"lib", "b">>),
          ImportNames({"tt"}, <<"a">>), Import(<<"c">>)}
Exporting(n, items) == Append(items, Export("tt", <<Card(n)>>))
Tiny == Circuit("top", <<param("k", "1k"), R("R1", <<"a", "gnd">>, "k")>>)
LinkProjects ==
    {[root  |-> <<i, j, Tiny>>,
      files |-> [f \in {<<"a">>, <<"lib", "b">>, <<"lib", "c">>, <<"vendor", "c">>} |->
          IF f = <<"a">> THEN File("clean", Exporting("a_tt", <<k, Card("a")>>))
          ELSE IF f = <<"lib", "b">>
          THEN File("clean", Exporting("b_tt", <<Card("b"), l>>))
          ELSE IF f = <<"lib", "c">> THEN File("clean", <<Import(<<"lib", "b">>), Card("c")>>)
          ELSE File("clean", Exporting("v_tt", <<Card("v")>>))]] :
        i, k \in Links, j \in {Import(<<"a">>), Import(<<"c">>), ImportNames({"tt"}, <<"a">>)},
        l \in {Import(<<"c">>), Import(<<"b">>), Import(<<"a">>), Card("d")}}

\* Files that cannot be had.
FaultProjects ==
    {[root  |-> <<i, Tiny>>,
      files |-> [f \in {<<"a">>, <<"vendor", "c">>} |->
          IF f = <<"a">> THEN File(s, <<k, Card("a"), Export("tt", <<>>)>>)
          ELSE File("clean", <<Card("v")>>)]] :
        i \in {Import(<<"a">>), ImportNames({"tt"}, <<"a">>), ImportNames({"tt", "ff"}, <<"a">>),
               Import(<<"e">>)},
        s \in {"clean", "faulty", "unparsable", "unreadable"},
        k \in {Import(<<"c">>), Import(<<"e">>), ImportNames({"tt"}, <<"c">>)}}

-----------------------------------------------------------------------------
\* Elaboration: a resistor pair, a module of two of them, and two modules that
\* instantiate each other if k is true.
Pair == Body(<<"inp", "out">>,
    <<param("r", "1k"), R("R1", <<"inp", "mid">>, "r"), let("q", "r"),
      R("R2", <<"mid", "out">>, "q"), R("R3", <<"mid", "gnd">>, "1k")>>)
Wrap == Body(<<"inp", "out">>,
    <<param("w", ""), inst("s1", "pair", <<arg("inp", "inp"), arg("out", "link"), arg("r", "w")>>),
      inst("s2", "pair", <<at("link"), at("out")>>), R("R1", <<"link", "out">>, "w"),
      urc("u", <<"inp", "out">>, "w")>>)
Loop(m) == Body(<<"inp">>,
    <<R("R1", <<"inp", "gnd">>, "1k"), cond("k", <<inst("n", m, <<at("inp")>>)>>, <<>>)>>)

Cells == <<Module("pair", Loop("pair")), Module("pair", Pair), Module("wrap", Wrap),
           Module("ping", Loop("pong")), Module("pong", Loop("ping")), Card("n")>>

Hierarchy ==
    {<<param("k", k), global("vdd"),
       inst("x1", "pair", <<at("a"), at("b"), arg("r", r)>>),
       inst("x2", "pair", <<arg("out", "vdd"), arg("inp", "b")>>),
       inst("x3", "wrap", w), R("R1", <<"a", "vdd">>, "k"), urc("U1", <<"a", "b">>, "k"),
       urc("U1", <<"a", "b">>, "k"), urc("x1", <<"a", "b">>, "k")>> :
        k \in {"0", "2k"}, r \in {"k", "1k"},
        w \in {<<at("b"), at("c"), arg("w", "k")>>, <<at("b")>>, <<at("b"), at("c"), at("d")>>}}
Cycles ==
    {<<param("k", k), inst("x1", "ping", <<at("a")>>), inst("x1", m, <<at("a")>>),
       inst("R1", "ping", <<arg("inp", "a")>>), urc("R1", <<"a", "gnd">>, "j")>> :
        k \in {"0", "2k"}, m \in {"pong", "ping", "pang"}}
Clashes ==
    {<<cond(c, <<model("d"), param("k", "1k")>>, <<param("k", "2k")>>), let("k", "1k"),
       param("k", "1k"), param("h", "i"), let("h", "i"), model("d"), module("pair", Loop("pair")),
       element("D1", <<"a", "b">>, "k", "d"), element("D1", <<"a", "b">>, "k", "d"),
       inst("D1", "pair", <<>>), urc("D1", <<"a", "b">>, "k"),
       element("D2", <<"a", "b">>, "j", "e"), inst("x", "pair", <<>>)>> : c \in {"0", "1k", "k"}}

CellProjects ==
    {[root  |-> <<Import(<<"cells">>)>> \o top, files |-> [f \in {<<"cells">>} |-> File("clean", Cells)]] :
        top \in {<<Circuit("top", body)>> : body \in Hierarchy \cup Cycles \cup Clashes}
                \cup {<<>>, <<CardOf("n", "npn"), Tiny, Circuit("second", <<>>)>>}}

CirqProjects == LinkProjects \cup FaultProjects \cup CellProjects

-----------------------------------------------------------------------------
\* The items of these projects, three deep, are such as the theorems take them.
ItemsOf(texts) == UNION {ToSet(text) : text \in texts}
Contents(items) == ItemsOf({t.items : t \in {i \in items : i.op = "export"}})
FileItems ==
    LET bare == ItemsOf(UNION {{p.root} \cup {p.files[f].items : f \in DOMAIN p.files} :
                                  p \in Projects})
    IN  bare \cup Contents(bare)

Parts(x) == IF x.op = "module" THEN {x.def.body} ELSE {x.then, x.other}
Within(texts) ==
    LET within[n \in 0..3] ==
            IF n = 0 THEN ItemsOf(texts)
            ELSE within[n - 1] \cup ItemsOf(UNION {Parts(x) : x \in within[n - 1]})
    IN  within[3]
Declared(kind) == {t \in FileItems : t.op = "declare" /\ t.kind = kind}
Modules == {t.def : t \in Declared("module")}
BodyItems == Within({t.body : t \in Declared("circuit")} \cup {def.body : def \in Modules})
ModuleItems ==
    Within({def.body : def \in Modules \cup {x.def : x \in {y \in BodyItems : y.op = "module"}}})
Args == ItemsOf({x.args : x \in BodyItems})

ASSUME SyntaxAssumption == Syntax(FileItems, BodyItems, Args)
ASSUME OnceAssumption == WrittenOnce
ASSUME ConnectableAssumption ==
    Connectable(FileItems, BodyItems, ModuleItems, {"inp", "out"}, {"vdd"})
=============================================================================
