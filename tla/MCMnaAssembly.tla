---------------------------- MODULE MCMnaAssembly ----------------------------
(* Circuits of up to three elements of a stock that has every arm of the two  *)
(* passes, with and without the nodes it may have inside, and longer ones for *)
(* the elements that refer to others.                                         *)
EXTENDS MnaAssembly

GroundNet == "0"
An(kind, name) == [kind |-> kind, name |-> name, nodes |-> <<"a", "0">>, r |-> <<>>, refs |-> <<>>,
                    width |-> 1, ports |-> <<>>, known |-> TRUE]
At(e, nets) == [e EXCEPT !.nodes = nets]
With(e, r) == [e EXCEPT !.r = r]
Senses(e, refs) == [e EXCEPT !.refs = refs]
Unknown(e) == [e EXCEPT !.known = FALSE]

v1 == An("V", "V1")
l1 == At(An("L", "l1"), <<"b", "a">>)
l2 == At(An("L", "L2"), <<"c", "0">>)
Independent == {v1, l1, l2, An("BV", "b1"), At(An("E", "e1"), <<"c", "0", "a", "b">>)}
Sensing == {Senses(An("F", "f1"), <<"v1">>), Senses(An("H", "h1"), <<"L1">>),
            Senses(An("W", "w1"), <<"H1">>), Senses(At(An("K", "k1"), <<>>), <<"L1", "l2">>),
            Senses(At(An("K", "k2"), <<>>), <<"l1", "V1">>)}
Passive == {An("R", "r1"), At(An("S", "s1"), <<"a", "c", "d", "0">>)}
AllLines == {At(An("O", "O1"), <<"a", "0", "b", "0">>),
             At([An("P", "p1") EXCEPT !.width = 2], <<"a", "b", "c", "d", "0">>)}
BadLine == Unknown(At(An("Y", "y1"), <<"a", "0", "b", "0">>))
Codes == {At([An("A", "a1") EXCEPT !.ports = <<FALSE, TRUE>>], <<"b", "d", "e">>),
          At([An("A", "a2") EXCEPT !.ports = <<TRUE, TRUE>>], <<"b">>)}
BadCode == Unknown(At([An("A", "a3") EXCEPT !.ports = <<TRUE>>], <<"z">>))

Ohm(ns) == [n \in ns |-> 1]
Mos(kind) == At(An(kind, kind), <<"a", "b", "0", "0">>)
Sound == {With(An("diode", "d1"), Ohm({"rs"})),
          With(At(An("bjt", "q1"), <<"a", "b", "0">>), Ohm({"rb", "re"})),
          With(At(An("bjt", "q2"), <<"a", "b", "0">>), [rc |-> -1]),
          With(At(An("vbic", "q3"), <<"a", "b", "0", "s">>), Ohm({"rcx", "rth"})),
          With(At(An("jfet", "j1"), <<"a", "b", "0">>), Ohm({"rd", "rs"})),
          With(At(An("mesfet", "z1"), <<"a", "b", "0">>), Ohm({"rd"})),
          With(At(An("hfet", "z2"), <<"a", "b", "0">>), [rd |-> -1, rf |-> 1]),
          With(At(An("mesa", "z3"), <<"a", "b", "0">>), Ohm({"rs", "rg", "ri"})),
          With(Mos("vdmos"), Ohm({"rg"})), With(Mos("mos1"), Ohm({"rd", "rs"})),
          Mos("mos2"), Unknown(At(An("bsim2", "m5"), <<"a", "b", "0", "0">>)),
          With(Mos("hisim"), Ohm({"rs"})),
          With(Mos("bsim1"), Ohm({"rsh"})), With(Mos("bsim2"), Ohm({"rsh"})),
          With(Mos("bsim3"), Ohm({"rsh", "nrd"})), With(Mos("bsim4"), Ohm({"rdsmod"})),
          With(Mos("soiDD"), Ohm({"rsh", "nrs"})), Mos("soiPD"), Mos("soiFD"),
          At(An("soiFD", "soi2"), <<"a", "b", "0", "0", "body">>)}

\* The devices whose counts differ, which MCMnaAssembly.cfg leaves out.
Unsound == {With(Mos("mos2"), Ohm({"rd"})), With(Mos("bsim2"), Ohm({"rsh", "nrd"})),
            Unknown(With(Mos("bsim2"), Ohm({"rsh", "nrs"}))),
            At(An("soiFD", "soi3"), <<"a", "b", "0", "0", "0">>),
            With(At(An("hfet", "z4"), <<"a", "b", "0">>), [ri |-> -1])}

Stock == Independent \cup Sensing \cup Passive \cup AllLines \cup Codes \cup {BadLine, BadCode}
         \cup Sound
Distinct(es) == \A i, j \in DOMAIN es : es[i] = es[j] => i = j
Listed(elements, n) == {es \in [1..n -> elements] : Distinct(es)}
Few == {v1, l2} \cup AllLines \cup Codes \cup Sound
Linked == {v1, l1, l2} \cup Sensing

InOrder(lists) == {[elements |-> es, registry |-> TRUE] : es \in lists}
SoundCircuits ==
    InOrder(Listed(Stock, 2) \cup Listed(Few, 3) \cup Listed(Linked, 4))
    \cup {[elements |-> es, registry |-> FALSE] : es \in Listed(Codes \cup {v1, l1, BadCode}, 2)}

\* What the theorems of AssemblyProofs suppose of a circuit, SoundCircuits are.
ASSUME SoundAssumption ==
    \A c \in SoundCircuits :
        NamesApart(c) /\ \A e \in ToSet(c.elements) : Countable(e) /\ Recountable(e)

RecountCircuits == InOrder({<<v1, e>> : e \in {With(Mos("mos2"), Ohm({"rd"}))}})
OwnerCircuits == InOrder({<<v1, e>> : e \in Unsound})

Names == {e.name : e \in Stock \cup Unsound} \cup UNION {ToSet(e.refs) : e \in Stock}
         \cup {"o1", "l2", "h1"}
LowerCase == [n \in Names |->
                 CASE n = "V1" -> "v1" [] n = "L1" -> "l1" [] n = "L2" -> "l2"
                   [] n = "O1" -> "o1" [] n = "H1" -> "h1" [] OTHER -> n]
==============================================================================
