------------------------------ MODULE DcSweep ------------------------------
(***************************************************************************)
(* The `.dc` sweep of thevenin/src/simulate.rs: run_dc_sweep and the       *)
(* helpers it calls.  The sweep edits the right-hand side of the assembled *)
(* system in place, from one point to the next, and solves it at each.     *)
(*                                                                         *)
(* The linear algebra is abstracted: a solution is the right-hand side it  *)
(* was computed from, and how often each transmission line was stamped     *)
(* into the matrix.  Values are integers.                                  *)
(***************************************************************************)
EXTENDS Integers, Sequences

CONSTANTS
    Rows,    \* rows of the system: nodes, then voltage source branches
    Sweeps   \* the sweeps to run: records in SweepType

\* A voltage source has its branch row in pos; a current source leaves pos and
\* enters neg, either of which is {} for ground.
SourceType == [kind : {"V", "I"}, pos : SUBSET Rows, neg : SUBSET Rows, dc : Int]
RangeType == [start : Int, stop : Int, step : Int]
Axis == [source : SourceType, range : RangeType]

\* DcSweepRunParams and the circuit: base is what everything but the swept sources
\* puts into the rows, src2 is {} for None.
SweepType == [base : [Rows -> Int], src1 : Axis, src2 : SUBSET Axis, nonlinear : BOOLEAN,
              lines : SUBSET {"ltra", "txl", "cpl", "tline"}]

\* A source is between different nodes, and a sweep's two sources are different
\* sources: no branch row is shared.
ASSUME SweepAssumption ==
    /\ Sweeps \subseteq SweepType
    /\ \A s \in Sweeps :
        /\ \A a \in s.src2 \cup {s.src1} :
            /\ a.source.pos \cap a.source.neg = {}
            /\ a.source.kind = "V" => a.source.pos # {} /\ a.source.neg = {}
        /\ \A a, b \in s.src2 : a = b
        /\ \A a \in s.src2 :
            /\ a.source.kind = "V" =>
                 s.src1.source.pos \cap a.source.pos = {} /\ s.src1.source.neg \cap a.source.pos = {}
            /\ s.src1.source.kind = "V" =>
                 s.src1.source.pos \cap (a.source.pos \cup a.source.neg) = {}

VARIABLES
    sweep,    \* the circuit and its .dc line
    rhs,      \* mna.system.rhs
    under,    \* the right-hand side the inner sweep is applied to
    outer,    \* which of points2 is set, 0 before the first
    inner,    \* how many of points1 were solved at it
    prev,     \* prev_solution: the number of the point it is from, 0 for None
    results,  \* vecs: one entry per point
    status    \* "idle", "sweeping", "complete" or "failed"

vars == <<sweep, rhs, under, outer, inner, prev, results, status>>

-----------------------------------------------------------------------------
Abs(x) == IF x < 0 THEN -x ELSE x

\* f64::signum, which is 1 at zero.
Signum(x) == IF x < 0 THEN -1 ELSE 1

\* The number of steps, rounded half up.
Steps(r) == (2 * Abs(r.stop - r.start) + Abs(r.step)) \div (2 * Abs(r.step))

\* generate_sweep_points
Points(r) ==
    IF r.step = 0 \/ Signum(r.stop - r.start) # Signum(r.step)
    THEN <<r.start>>
    ELSE [i \in 1..(Steps(r) + 1) |-> r.start + (i - 1) * r.step]

Points1(s) == Points(s.src1.range)
\* A single sweep is one pass over points1.
Points2(s) == IF s.src2 = {} THEN <<0>>
              ELSE Points((CHOOSE a \in s.src2 : TRUE).range)

\* How the assembler stamps a source (mna_ir.rs).
Stamped(b, source, v) ==
    [r \in Rows |->
        IF source.kind = "V"
        THEN IF r \in source.pos THEN v ELSE b[r]
        ELSE b[r] - (IF r \in source.pos THEN v ELSE 0)
                  + (IF r \in source.neg THEN v ELSE 0)]

StampedAll(axes, b) ==
    IF axes = {} THEN b
    ELSE LET a == CHOOSE x \in axes : TRUE IN Stamped(b, a.source, a.source.dc)

\* original_rhs
Original(s) == Stamped(StampedAll(s.src2, s.base), s.src1.source, s.src1.source.dc)

\* (mutant: the stamp of the assembly is not undone)
SetSource_NoUndo(b, source, v, orig) == Stamped(b, source, v)

\* set_source_value: a voltage source overwrites its branch row; a current source
\* writes its node rows from `orig`, taking its assembled value out.
SetSource(b, source, v, orig) ==
    [r \in Rows |->
        IF source.kind = "V"
        THEN IF r \in source.pos THEN v ELSE b[r]
        ELSE IF r \in source.neg THEN orig[r] - source.dc + v
        ELSE IF r \in source.pos THEN orig[r] + source.dc - v
        ELSE b[r]]

\* Lines are stamped into the matrix before the sweep, but for ideal ones, and
\* again by the load closure of the nonlinear solve.
LineStamps(kind) ==
    (IF kind # "tline" THEN 1 ELSE 0) + (IF sweep.nonlinear THEN 1 ELSE 0)

-----------------------------------------------------------------------------
\* Which outer step a sweep starts in.
FirstOuter(s) == IF s.src2 = {} THEN 1 ELSE 0

Init ==
    /\ sweep \in Sweeps
    /\ rhs = Original(sweep)
    /\ under = Original(sweep)
    /\ outer = FirstOuter(sweep)
    /\ inner = 0
    /\ prev = 0
    /\ results = <<>>
    /\ status = "sweeping"

StepDone == outer = 0 \/ inner = Len(Points1(sweep))

\* (mutant: the guess is carried over to the next outer step)
Forgotten_Kept == prev

\* prev_solution = None
Forgotten == 0

\* The outer loop sets the second source and takes what is then in the system as
\* the base of the inner sweep.
NextOuter ==
    /\ status = "sweeping" /\ StepDone
    /\ outer < Len(Points2(sweep))
    /\ outer' = outer + 1
    /\ \E a \in sweep.src2 :
          rhs' = SetSource(rhs, a.source, Points2(sweep)[outer + 1], Original(sweep))
    /\ under' = rhs'
    /\ prev' = Forgotten
    /\ inner' = 0
    /\ UNCHANGED <<sweep, results, status>>

\* collect_solution_into keeps the solution of a nonlinear circuit.
WarmFrom(k) == IF sweep.nonlinear THEN k ELSE prev

NextInner ==
    /\ status = "sweeping" /\ ~ StepDone
    /\ inner' = inner + 1
    /\ rhs' = SetSource(rhs, sweep.src1.source, Points1(sweep)[inner + 1], under)
    /\ results' = Append(results,
                         [at     |-> Points1(sweep)[inner + 1],
                          rhs    |-> rhs',
                          guess  |-> prev,
                          stamps |-> [k \in sweep.lines |-> LineStamps(k)]])
    /\ prev' = WarmFrom(Len(results) + 1)
    /\ UNCHANGED <<sweep, under, outer, status>>

\* The solve of a point fails, and with it the sweep.
Fails ==
    /\ status = "sweeping" /\ ~ StepDone
    /\ status' = "failed"
    /\ UNCHANGED <<sweep, rhs, under, outer, inner, prev, results>>

Complete ==
    /\ status = "sweeping" /\ StepDone
    /\ outer = Len(Points2(sweep))
    /\ status' = "complete"
    /\ UNCHANGED <<sweep, rhs, under, outer, inner, prev, results>>

Next == NextOuter \/ NextInner \/ Fails \/ Complete

Spec == Init /\ [][Next]_vars

-----------------------------------------------------------------------------
TypeOK ==
    /\ sweep \in Sweeps
    /\ rhs \in [Rows -> Int] /\ under \in [Rows -> Int]
    /\ outer \in 0..Len(Points2(sweep))
    /\ inner \in 0..Len(Points1(sweep))
    /\ prev \in 0..Len(results)
    /\ \A k \in DOMAIN results : results[k].rhs \in [Rows -> Int]
    /\ status \in {"idle", "sweeping", "complete", "failed"}

\* The k-th point of the nested sweep.
Value1(s, k) == Points1(s)[((k - 1) % Len(Points1(s))) + 1]
Value2(s, k) == Points2(s)[((k - 1) \div Len(Points1(s))) + 1]

\* The circuit of the k-th point, assembled afresh with the two swept values.
Asked(s, k) ==
    LET one == Stamped(s.base, s.src1.source, Value1(s, k))
    IN  IF s.src2 = {} THEN one
        ELSE Stamped(one, (CHOOSE a \in s.src2 : TRUE).source, Value2(s, k))

\* Every point is the circuit with the two sources at the values of that point
\* and everything else as it was, however many edits of the right-hand side came
\* before it (run_dc_sweep, set_source_value: "For current sources, we undo the
\* original stamp and apply the new value").
PointsAreAsked ==
    \A k \in DOMAIN results :
        results[k].at = Value1(sweep, k) /\ results[k].rhs = Asked(sweep, k)

\* The guess a point starts from is the solution of the point before it in the
\* same outer step, and there is none for the first (run_dc_sweep resets
\* prev_solution where ngspice goes back to MODEINITJCT).
GuessIsNeighbour ==
    \A k \in DOMAIN results :
        results[k].guess =
            IF sweep.nonlinear /\ (k - 1) % Len(Points1(sweep)) # 0 THEN k - 1 ELSE 0

\* A complete sweep has every point of the two ranges, as many as asked, and ends on
\* the stop value of a range that its step divides, whatever the signs.
CompleteHasAll ==
    status = "complete" =>
        /\ Len(results) = Len(Points1(sweep)) * Len(Points2(sweep))
        /\ LET r == sweep.src1.range
           IN  r.step # 0 /\ Signum(r.stop - r.start) = Signum(r.step)
               /\ (Abs(r.stop - r.start) % Abs(r.step)) = 0
               => Points1(sweep)[Len(Points1(sweep))] = r.stop

-----------------------------------------------------------------------------
\* The load closure stamps the lines because they are "not in base matrix", and
\* ideal lines "at OP/DC time": each is in the system of a point once.
LinesStampedOnce ==
    \A k \in DOMAIN results : \A line \in sweep.lines : results[k].stamps[line] = 1
=============================================================================
