--------------------------- MODULE MCNetlistParse ---------------------------
(* Files of four to seven lines, of three kinds: one for each phase of the *)
(* parser to be put to the test.                                           *)
EXTENDS NetlistParse

Say(shape, word) == [shape |-> shape, slash |-> shape = "bare", word |-> word, name |-> "", value |-> 0]
Text(word) == Say("text", word)
Broken(line) == [line EXCEPT !.slash = TRUE]
Test(word, name, value) == [Text(word) EXCEPT !.name = name, !.value = value]

Files(lines, n) == {<<Text("item")>> \o s : s \in [1..n -> lines]}

JoinLines ==
    {Text("item"), Broken(Text("item")), Say("plus", "item"), Broken(Say("plus", "item")),
     Say("comment", "item"), Say("blank", "item"), Say("bare", "item"), Say("control", "item"),
     Say("endc", "item")}
JoinFiles == [1..4 -> JoinLines]

ChooseLines ==
    {Test("if", "p", 1), Test("if", "p", 0), Test("elseif", "p", 1), Text("else"), Text("endif"),
     Test("param", "p", 1), Text("item")}

ParseLines ==
    {Text("item"), Text("analysis"), Text("subckt"), Text("ends"), Text("end")}

ChooseFiles ==
    {<<Text("item"), first, Test("if", "p", v)>> \o s :
        first \in {Text("item"), Test("param", "p", 1)}, v \in {0, 1}, s \in [1..4 -> ChooseLines]}

MCSources == JoinFiles \cup ChooseFiles \cup Files(ParseLines, 5)
=============================================================================
