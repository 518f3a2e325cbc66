----------------------------- MODULE MCAnalyses -----------------------------
(***************************************************************************)
(* Circuits for Analyses: every sweep of MCDcSweep by itself, and the      *)
(* analyses of a circuit in every order, at one and at two temperatures.   *)
(***************************************************************************)
EXTENDS MCDcSweep, Analyses

MCAnalysis(kind, spec) == [kind |-> kind, spec |-> spec]
MCMeasure(name, of, uses) == [name |-> name, of |-> of, uses |-> uses]
MCCircuit(analyses, temps, measures) ==
    [analyses |-> analyses, temps |-> temps, option |-> 2, measures |-> measures]

\* A double sweep with a current source outside, and a sweep of a current source: each
\* leaves the right-hand side edited.
MCDouble == Sweep(On(V1, Span(0, 1, 1)), {On(Across, Span(1, 3, 2))}, TRUE, {})
MCCurrent == Sweep(On(FromGround, Span(1, 2, 1)), {}, FALSE, {})

MCKinds == {MCAnalysis("dc", MCDouble)} \cup {MCAnalysis(k, 1) : k \in Solved \cup Derived}

\* Up to three analyses, all of different kinds.
MCLists == {<<>>} \cup {<<a>> : a \in MCKinds}
    \cup {l \in MCKinds \X MCKinds : l[1].kind # l[2].kind}
    \cup {l \in MCKinds \X MCKinds \X MCKinds :
            Cardinality({l[1].kind, l[2].kind, l[3].kind}) = 3}

MCSweepsAlone ==
    {MCCircuit(<<MCAnalysis("dc", s)>>, temps, <<>>) :
        s \in SoundSweeps, temps \in {<<>>, <<3, 1>>}}

MCOrders == {MCCircuit(l, temps, <<>>) : l \in MCLists, temps \in {<<>>, <<1>>, <<1, 3>>}}

\* A sweep that starts from what another temperature's left.
MCCurrents ==
    {MCCircuit(<<MCAnalysis("tran", 1), MCAnalysis("dc", MCCurrent)>>, <<t, u>>, <<>>) :
        t \in 1..3, u \in 1..3}

\* Measurements of what is there and what is not, of one another, and by one name.
MCStock == {MCMeasure(1, "dc", {}), MCMeasure(1, "op", {}), MCMeasure(2, "tran", {1}),
            MCMeasure(2, "noise", {}), MCMeasure(2, "ac", {}),
            MCMeasure(3, "param", {1, 2}), MCMeasure(3, "param", {})}

MCMeasured ==
    {MCCircuit(l, temps, <<m, n, o>>) :
        l \in {<<MCAnalysis("tran", 1), MCAnalysis("dc", MCCurrent)>>,
               <<MCAnalysis("noise", 1), MCAnalysis("op", 1), MCAnalysis("tran", 1)>>,
               <<MCAnalysis("ac", 1), MCAnalysis("tran", 1)>>},
        temps \in {<<>>, <<1, 3>>}, m \in MCStock, n \in MCStock, o \in MCStock}

MCCircuits == MCSweepsAlone \cup MCOrders \cup MCCurrents \cup MCMeasured

MCSweeps == SoundSweeps \cup {MCDouble, MCCurrent}

\* Two sweeps of one circuit.
MCRepeated ==
    {MCCircuit(<<MCAnalysis("dc", MCCurrent), MCAnalysis("dc", MCDouble)>>, <<>>, <<>>)}

\* A measurement on an AC plot.
MCOfComplex == {MCCircuit(<<MCAnalysis("ac", 1)>>, <<>>, <<MCMeasure(1, "ac", {})>>)}
=============================================================================
