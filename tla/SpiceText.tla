----------------------------- MODULE SpiceText ------------------------------
(***************************************************************************)
(* SPICE files as the library code sees them: sequences of lines.  A line  *)
(* has all the fields, those of its kind set.  Netlist::parse turns lines  *)
(* into items, which differ from lines only in that a .subckt holds the    *)
(* items up to its .ends.                                                  *)
(***************************************************************************)
EXTENDS Integers, Sequences, SequencesExt

Line(op, name) == [op |-> op, name |-> name, kind |-> "", path |-> <<>>, nets |-> <<>>,
                   value |-> "", model |-> "", params |-> <<>>, body |-> <<>>]

Include(path) == [Line("include", "") EXCEPT !.path = path]
Lib(path, section) == [Line("lib", section) EXCEPT !.path = path]   \* .lib path section
Section(name) == Line("section", name)                              \* .lib name
Endl(name) == Line("endl", name)                                    \* .endl [name]
Subckt(name, ports, params) ==
    [Line("subckt", name) EXCEPT !.nets = ports, !.params = params]
Ends == Line("ends", "")
\* The kinds are those of ElementKind.  A source whose waveform is an expression is a
\* "waveform", and a resistor that names a model has it as its model: no parameter has
\* that name.
Element(kind, name, nets, value, model) ==
    [Line("element", name) EXCEPT !.kind = kind, !.nets = nets, !.value = value,
                                  !.model = model]
Call(name, nets, subckt, params) ==
    [Line("call", name) EXCEPT !.nets = nets, !.model = subckt, !.params = params]
Model(name) == Line("model", name)
Param(name, value) == [Line("param", name) EXCEPT !.value = value]
Is(param, value) == [name |-> param, value |-> value]
Global(net) == [Line("global", "") EXCEPT !.nets = <<net>>]

\* What has the fields of a line; a source is a sequence of lines.  A path that is
\* asked for leads to a file, not to the directory above.
IsSequence(s) == s \in Seq(ToSet(s))
IsLine(line) ==
    /\ line = [op |-> line.op, name |-> line.name, kind |-> line.kind, path |-> line.path,
               nets |-> line.nets, value |-> line.value, model |-> line.model,
               params |-> line.params, body |-> line.body]
    /\ IsSequence(line.path) /\ IsSequence(line.nets) /\ IsSequence(line.params)
    /\ \A i \in DOMAIN line.params :
          line.params[i] = Is(line.params[i].name, line.params[i].value)
    /\ line.op = "include" => line.name = ""
    /\ line.op = "lib" => line.name # ""
    /\ line.op \in {"include", "lib"} => line.path # <<>> /\ Last(line.path) # ".."
IsSource(lines) == IsSequence(lines) /\ \A i \in DOMAIN lines : IsLine(lines[i])

\* The file a path leads to: ".." goes back to the directory above, if it is one of the
\* project.
Step(file, part) ==
    IF part = ".." /\ file # <<>> /\ Last(file) # ".." THEN Front(file) ELSE Append(file, part)
File(path) ==
    LET at[n \in 0..Len(path)] == IF n = 0 THEN <<>> ELSE Step(at[n - 1], path[n])
    IN  at[Len(path)]

Count(lines, op, from, to) == Cardinality({k \in from..to : lines[k].op = op})

\* The definitions that line j is inside of.
Around(lines, j) ==
    {i \in 1..j - 1 : /\ lines[i].op = "subckt"
                      /\ \A k \in i + 1..j - 1 :
                            Count(lines, "ends", i + 1, k) <= Count(lines, "subckt", i + 1, k)}
Parent(lines, j) == Max({0} \cup Around(lines, j))

\* Netlist::parse and parse_subckt_body: a definition holds the items up to its .ends.
Parsed(lines) ==
    LET bodyOf[i \in 0..Len(lines)] ==
            FlattenSeq([j \in DOMAIN lines |->
                IF lines[j].op = "ends" \/ Parent(lines, j) # i THEN <<>>
                ELSE IF lines[j].op = "subckt" THEN <<[lines[j] EXCEPT !.body = bodyOf[j]]>>
                ELSE <<lines[j]>>])
    IN  bodyOf[0]

\* extract_section_raw of libproc.rs: the lines of every section of that name, each
\* up to the next .endl whatever it names; extract_section comes to it always, as
\* the parser makes a .lib item of a section marker and extract_section looks for
\* raw lines.
LibSection(lines, name) ==
    LET inside(j) == \E i \in 1..j - 1 :
            /\ lines[i].op = "section" /\ lines[i].name = name
            /\ \A k \in i + 1..j : lines[k].op # "endl"
    IN  FlattenSeq([j \in DOMAIN lines |-> IF inside(j) THEN <<lines[j]>> ELSE <<>>])

Starts(lines, name) == {i \in DOMAIN lines : lines[i].op = "section" /\ lines[i].name = name}
EndsAfter(lines, name, start) ==
    {j \in start + 1..Len(lines) : lines[j].op = "endl" /\ lines[j].name \in {"", name}}
SectionNames(lines) == {lines[i].name : i \in {j \in DOMAIN lines : lines[j].op = "section"}}
First(S) == CHOOSE i \in S : \A j \in S : i <= j

\* extract_lib_section of preprocess.rs: the first section of that name, up to an
\* .endl that names it or nothing.
HasBlock(lines, name) ==
    Starts(lines, name) # {} /\ EndsAfter(lines, name, First(Starts(lines, name))) # {}
Block(lines, name) ==
    LET start == First(Starts(lines, name))
    IN  SubSeq(lines, start + 1, First(EndsAfter(lines, name, start)) - 1)
=============================================================================
