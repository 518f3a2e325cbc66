------------------------------ MODULE Analyses ------------------------------
(***************************************************************************)
(* The dispatcher of thevenin/src/circuit.rs: `simulate` runs the analyses *)
(* a circuit declares, at each of its temperatures, each on a system       *)
(* assembled afresh, collects their plots, and evaluates the measurements  *)
(* on them.  The parameters of an analysis are looked up on the circuit by *)
(* its kind (mna_ir.rs).  A `.dc` is run by DcSweep, on the same state; of *)
(* the other analyses the model has the plots and the ways to fail.        *)
(***************************************************************************)
EXTENDS DcSweep, SequencesExt

CONSTANTS
    Circuits,  \* the circuits to simulate: records in CircuitType
    None       \* no analysis under way, no plot read

\* Analyses with parameters of their own, and the two that work on a transient.
Solved == {"op", "tran", "ac", "noise", "sens", "pz", "tf"}
Derived == {"four", "fft"}

\* spec stands for the parameters: a sweep for "dc", anything for the others.
AnalysisType == [kind : {"dc"}, spec : Sweeps] \cup [kind : Solved \cup Derived, spec : Nat]

\* A measurement reads a plot of the kind `of`, or only earlier measurements
\* ("param"); uses are the names its expression and its condition refer to.
MeasureType == [name : Nat, of : Solved \cup Derived \cup {"dc", "param"}, uses : SUBSET Nat]

CircuitType == [analyses : Seq(AnalysisType), temps : Seq(Nat \ {0}), option : Nat \ {0},
                measures : Seq(MeasureType)]

ASSUME AnalysesAssumption ==
    \A c \in Circuits :
        /\ c.analyses \in Seq(AnalysisType) /\ c.temps \in Seq(Nat \ {0})
        /\ c.option \in Nat \ {0} /\ c.measures \in Seq(MeasureType)

VARIABLES
    circuit,
    round,    \* the temperature under way
    turn,     \* the next analysis
    plots,    \* result.plots
    values,   \* meas_vecs
    reading,  \* how many measurements were looked at
    outcome   \* "running", "measuring", "done", "failed" or "panicked"

dispatch == <<circuit, round, turn, plots, values, reading, outcome>>
all == <<vars, dispatch>>

-----------------------------------------------------------------------------
\* A circuit that declares nothing gets an operating point.
Declared(c) == IF c.analyses = <<>> THEN <<[kind |-> "op", spec |-> 0]>> ELSE c.analyses

Rounds(c) == IF Len(c.temps) > 1 THEN Len(c.temps) ELSE 1

\* (mutant: every round simulates the circuit itself)
TemperatureIn_First(c, r) == IF c.temps = <<>> THEN c.option ELSE c.temps[1]

\* circuit_temp of the copy that is simulated in round r.
TemperatureIn(c, r) == IF c.temps = <<>> THEN c.option ELSE c.temps[r]

\* Plots of a circuit with several temperatures are relabelled.
Label(c, r) == IF Len(c.temps) > 1 THEN r ELSE 0

\* `find_map` over the circuit's analyses: the first of the kind, and 0 for none.
FirstOf(c, kind) == SelectInSeq(Declared(c), LAMBDA a : a.kind = kind)

Current == Declared(circuit)[turn]

\* The plots an analysis may leave: a transient is preceded by an operating point
\* unless that fails, poles or zeros may not exist.
Leaves(kind) ==
    CASE kind = "tran"  -> {<<"op1", "tran1">>, <<"tran1">>}
      [] kind = "noise" -> {<<"noise1", "noise2">>}
      [] kind = "pz"    -> {<<>>, <<"pz1">>, <<"pz2">>, <<"pz1", "pz2">>}
      [] OTHER          -> {<<CASE kind = "op" -> "op1" [] kind = "dc" -> "dc1"
                                [] kind = "ac" -> "ac1" [] kind = "sens" -> "sens1"
                                [] kind = "tf" -> "tf1" [] kind = "four" -> "fourier1"
                                [] OTHER -> "fft1">>}

\* Which plots a measurement's analysis type is a prefix of the name of.
Answering(of) ==
    CASE of = "op" -> {"op1"}              [] of = "dc" -> {"dc1"}
      [] of = "tran" -> {"tran1"}          [] of = "ac" -> {"ac1"}
      [] of = "noise" -> {"noise1", "noise2"} [] of = "sens" -> {"sens1"}
      [] of = "pz" -> {"pz1", "pz2"}       [] of = "tf" -> {"tf1"}
      [] of = "four" -> {"fourier1"}       [] OTHER -> {"fft1"}

\* Plots whose vectors are complex.
Complex == {"ac1", "pz1", "pz2", "fft1"}

\* The system a sweep is run on depends on the temperature it is assembled at.
AtTemperature(s, t) == [s EXCEPT !.base = [row \in Rows |-> s.base[row] * t]]

Plot(name, position, data) ==
    [name |-> name, label |-> Label(circuit, round), of |-> position,
     temperature |-> TemperatureIn(circuit, round), data |-> data]

\* result.plots.extend
Extend(names, position, data) ==
    /\ plots' = plots \o [i \in DOMAIN names |-> Plot(names[i], position, data)]
    /\ turn' = turn + 1
    /\ UNCHANGED <<circuit, round, values, reading, outcome>>

-----------------------------------------------------------------------------
AnalysesInit ==
    /\ circuit \in Circuits
    /\ round = 1 /\ turn = 1
    /\ plots = <<>> /\ values = <<>> /\ reading = 0
    /\ outcome = "running"
    /\ sweep = None
    /\ rhs = None /\ under = None
    /\ outer = 0 /\ inner = 0 /\ prev = 0
    /\ results = <<>>
    /\ status = "idle"

Running == outcome = "running" /\ status = "idle" /\ turn <= Len(Declared(circuit))

\* simulate_op, _tran, _ac, _noise, _sens, _pz, _tf
Solve ==
    /\ Running /\ Current.kind \in Solved
    /\ \E names \in Leaves(Current.kind) :
          Extend(names, FirstOf(circuit, Current.kind), <<>>)
    /\ UNCHANGED vars

\* simulate_four, simulate_fft: the declared transient is run again for them, and only
\* its plot is used.
PostProcess ==
    /\ Running /\ Current.kind \in Derived
    /\ FirstOf(circuit, "tran") # 0
    /\ \E names \in Leaves(Current.kind) :
          Extend(names, turn, <<FirstOf(circuit, "tran")>>)
    /\ UNCHANGED vars

\* simulate_dc up to the sweep loop.
SweepStarts ==
    /\ Running /\ Current.kind = "dc"
    /\ sweep' = AtTemperature(Declared(circuit)[FirstOf(circuit, "dc")].spec,
                              TemperatureIn(circuit, round))
    /\ rhs' = Original(sweep')
    /\ under' = rhs'
    /\ outer' = FirstOuter(sweep')
    /\ inner' = 0 /\ prev' = 0
    /\ results' = <<>>
    /\ status' = "sweeping"
    /\ UNCHANGED dispatch

SweepRuns ==
    /\ NextOuter \/ NextInner \/ Fails \/ Complete
    /\ UNCHANGED dispatch

SweepEnds ==
    /\ outcome = "running" /\ status = "complete"
    /\ Extend(<<"dc1">>, FirstOf(circuit, "dc"), results)
    /\ status' = "idle"
    /\ UNCHANGED <<sweep, rhs, under, outer, inner, prev, results>>

\* An analysis fails, at its latest when there is no transient to work on: `?` drops
\* the plots that were there.
Stop ==
    /\ outcome = "running"
    /\ status = "failed" \/ (Running /\ Current.kind # "dc")
    /\ outcome' = "failed"
    /\ plots' = <<>>
    /\ UNCHANGED <<vars, circuit, round, turn, values, reading>>

\* simulate_multi_temp goes to the next temperature.
NextRound ==
    /\ outcome = "running" /\ status = "idle"
    /\ turn > Len(Declared(circuit)) /\ round < Rounds(circuit)
    /\ round' = round + 1
    /\ turn' = 1
    /\ UNCHANGED <<vars, circuit, plots, values, reading, outcome>>

\* evaluate_circuit_measurements
StartMeasuring ==
    /\ outcome = "running" /\ status = "idle"
    /\ turn > Len(Declared(circuit)) /\ round = Rounds(circuit)
    /\ outcome' = "measuring"
    /\ UNCHANGED <<vars, circuit, round, turn, plots, values, reading>>

-----------------------------------------------------------------------------
Measuring == outcome = "measuring" /\ reading < Len(circuit.measures)

Asks == circuit.measures[reading + 1]

Known == {values[i].name : i \in DOMAIN values}

\* The first plot of the analysis type, 0 for none.
Reads(of) == SelectInSeq(plots, LAMBDA p : p.name \in Answering(of))

\* A value needs a plot and the measurements it refers to.
Answerable == Asks.uses \subseteq Known /\ (Asks.of # "param" => Reads(Asks.of) # 0)

OnComplex == Asks.of # "param" /\ plots[Reads(Asks.of)].name \in Complex

Measure ==
    /\ Measuring /\ Answerable /\ ~ OnComplex
    /\ values' = Append(values, [name |-> Asks.name, order |-> reading + 1,
                                 plot |-> IF Asks.of = "param" THEN 0 ELSE Reads(Asks.of)])
    /\ reading' = reading + 1
    /\ UNCHANGED <<vars, circuit, round, turn, plots, outcome>>

\* The condition does not hold, or there is nothing to find.
SkipMeasure ==
    /\ Measuring
    /\ reading' = reading + 1
    /\ UNCHANGED <<vars, circuit, round, turn, plots, values, outcome>>

\* VectorData::as_real panics on a complex vector.
Panic ==
    /\ Measuring /\ Answerable /\ OnComplex
    /\ outcome' = "panicked"
    /\ UNCHANGED <<vars, circuit, round, turn, plots, values, reading>>

Finish ==
    /\ outcome = "measuring" /\ reading = Len(circuit.measures)
    /\ outcome' = "done"
    /\ plots' = IF values = <<>> THEN plots
                ELSE Append(plots, [name |-> "measurements", label |-> 0, of |-> 0,
                                    temperature |-> 0, data |-> values])
    /\ UNCHANGED <<vars, circuit, round, turn, values, reading>>

AnalysesNext ==
    \/ Solve \/ PostProcess \/ SweepStarts \/ SweepRuns \/ SweepEnds \/ Stop
    \/ NextRound \/ StartMeasuring \/ Measure \/ SkipMeasure \/ Panic \/ Finish

AnalysesSpec == AnalysesInit /\ [][AnalysesNext]_all

-----------------------------------------------------------------------------
AnalysesTypeOK ==
    /\ circuit \in Circuits
    /\ round \in 1..Rounds(circuit)
    /\ turn \in 1..(Len(Declared(circuit)) + 1)
    /\ reading \in 0..Len(circuit.measures)
    /\ outcome \in {"running", "measuring", "done", "failed", "panicked"}
    /\ status \in {"idle", "sweeping", "complete", "failed"}

\* The plots that the i-th analysis left in round r, among the plots ps, are those after
\* `before`, by these names, and no others.
LeftBy(ps, r, i, names, before) ==
    /\ before + Len(names) <= Len(ps)
    /\ \A k \in DOMAIN ps :
          ps[k].label = Label(circuit, r) /\ ps[k].of = i
          <=> k \in (before + 1)..(before + Len(names))
    /\ \A k \in DOMAIN names : ps[before + k].name = names[k]

\* Every analysis the circuit declares has left its plots once, together, whatever else
\* is declared (circuit.rs: "Runs **every** analysis the circuit declares, in order").
EveryAnalysisRuns ==
    outcome = "done" =>
        \A r \in 1..Rounds(circuit) : \A i \in DOMAIN Declared(circuit) :
            \E names \in Leaves(Declared(circuit)[i].kind), before \in 0..Len(plots) :
                LeftBy(plots, r, i, names, before)

\* The result holds the plots round by round, in the order of the declarations, each at
\* the temperature its label promises (simulate_multi_temp).
InOrder ==
    \A j, k \in DOMAIN plots :
        j < k /\ plots[k].name # "measurements" =>
            \/ plots[j].label < plots[k].label
            \/ plots[j].label = plots[k].label /\ plots[j].of <= plots[k].of

AtItsTemperature ==
    \A k \in DOMAIN plots : plots[k].label # 0 =>
        plots[k].temperature = circuit.temps[plots[k].label]

\* The sweeps of a result are complete, and every point is the circuit at the
\* temperature of the plot with the two sources at their values: nothing of a sweep is
\* left in the systems assembled after it.
SweepsAsDeclared ==
    \A k \in DOMAIN plots : plots[k].name = "dc1" =>
        LET s == AtTemperature(Declared(circuit)[plots[k].of].spec, plots[k].temperature)
        IN  /\ Len(plots[k].data) = Len(Points1(s)) * Len(Points2(s))
            /\ \A i \in DOMAIN plots[k].data :
                 plots[k].data[i].at = Value1(s, i) /\ plots[k].data[i].rhs = Asked(s, i)

\* Each value is read from a plot of the analysis it was declared for, that of the first
\* temperature if the circuit declares it, and refers only to values of measurements
\* above it (evaluate_circuit_measures:
\* "a `PARAM=` lookup sees every measurement declared above it").
MeasuresAsDeclared ==
    \A i \in DOMAIN values :
        LET m == circuit.measures[values[i].order]
        IN  /\ \A n \in m.uses : \E j \in 1..(i - 1) : values[j].name = n
            /\ m.of # "param" =>
                 /\ plots[values[i].plot].name \in Answering(m.of)
                 /\ FirstOf(circuit, m.of) # 0 => plots[values[i].plot].label <= 1

\* What `simulate` returns is what the circuit asked for.
ResultAsDeclared ==
    /\ EveryAnalysisRuns /\ InOrder /\ AtItsTemperature
    /\ CompleteHasAll /\ SweepsAsDeclared /\ MeasuresAsDeclared

-----------------------------------------------------------------------------
\* evaluate_circuit_measures "looks up the matching analysis plot (`tran*`, `dc*`, `ac*`,
\* ...), evaluates the typed MeasureExpr, and appends a scalar vector": it returns.
MeasuresReturn == outcome # "panicked"
=============================================================================
