----------------------------- MODULE MCDcSweep -----------------------------
(***************************************************************************)
(* Sweeps for DcSweep on a system of two nodes and two branches.           *)
(***************************************************************************)
EXTENDS DcSweep

MCRows == {"a", "b", "v1", "v2"}
MCBase == [r \in MCRows |-> IF r = "a" THEN 5 ELSE IF r = "b" THEN 7 ELSE 0]

Source(kind, pos, neg, dc) == [kind |-> kind, pos |-> pos, neg |-> neg, dc |-> dc]
V1 == Source("V", {"v1"}, {}, 0)
V2 == Source("V", {"v2"}, {}, 0)
Across == Source("I", {"a"}, {"b"}, 3)
Across2 == Source("I", {"b"}, {"a"}, 2)
ToGround == Source("I", {"b"}, {}, 2)
FromGround == Source("I", {}, {"a"}, 4)

Span(start, stop, step) == [start |-> start, stop |-> stop, step |-> step]
On(source, range) == [source |-> source, range |-> range]

Sweep(one, two, nonlinear, lines) ==
    [base |-> MCBase, src1 |-> one, src2 |-> two, nonlinear |-> nonlinear, lines |-> lines]

\* Up, down, off the grid, a point, a zero step and a step the wrong way.
Ranges == {Span(0, 2, 1), Span(2, -2, -2), Span(0, 5, 2), Span(1, 1, 1),
           Span(1, 4, 0), Span(0, 2, -1)}

\* Single sweeps of any source, double ones with a voltage source inside.
SoundSweeps ==
    {Sweep(On(s, r), {}, n, {}) :
        s \in {V1, Across, ToGround, FromGround}, r \in Ranges, n \in BOOLEAN}
    \cup
    {Sweep(On(V1, r), {On(s, q)}, n, {}) :
        s \in {V2, Across, ToGround, FromGround}, r \in Ranges, q \in Ranges,
        n \in BOOLEAN}

\* A current source inside a voltage sweep and inside another current sweep.
CurrentInside ==
    {Sweep(On(Across, Span(0, 2, 1)), {On(s, Span(0, 2, 1))}, FALSE, {}) :
        s \in {V2, ToGround, Across2}}

LossyNonlinear == {Sweep(On(V1, Span(0, 2, 1)), {}, TRUE, {"ltra"})}
=============================================================================
