-------------------------- MODULE ControlSession --------------------------
(***************************************************************************)
(* The state a .control script works on: SimContext of                     *)
(* thevenin-control/src/context.rs, changed by the commands that           *)
(* thevenin-control/src/exec.rs runs one after another.  A script is any   *)
(* sequence of commands.  An analysis contributes the plots it returns; a  *)
(* transient may pause, which leaves a snapshot for `resume`.              *)
(*                                                                         *)
(* A plot's vectors are abstracted to the run that produced them and how   *)
(* far that run had got; what a measurement returns is the plot contents   *)
(* it was evaluated on.                                                    *)
(***************************************************************************)
EXTENDS Integers, Sequences, SequencesExt

CONSTANTS Kinds,        \* analyses other than "tran" that add one plot
          LetNames,     \* vectors a script defines with `let`
          MeasNames,    \* names a script gives its measurements
          MaxPlots,     \* bound: plots a session makes
          MaxStops,     \* bound: `stop when` commands of a script
          None

ASSUME SessionAssumption ==
    /\ "tran" \notin Kinds
    /\ Kinds \cap {"user", "measurements"} = {}
    /\ LetNames \cap MeasNames = {}
    /\ MaxPlots \in Nat /\ MaxStops \in Nat
    /\ None \notin Nat

VARIABLES plots,        \* SimContext.plots
          currentPlot,  \* SimContext.current_plot, 0 for None
          counters,     \* SimContext.plot_counters
          userVectors,  \* SimContext.user_vectors
          variables,    \* what each measurement name is bound to in SimContext.variables
          stopWhen,     \* SimContext.stop_when is Some
          pausedTran,   \* SimContext.paused_tran: the run that paused, or None
          outcome,      \* "running", "quit" or "failed"
          runs,         \* history: analyses run; also numbers them
          lastTran,     \* history: the number of the last transient analysis
          stops,        \* history: `stop when` commands
          pauses,       \* history: transients that paused
          evaluated     \* history: what the evaluator last returned for a name

session == <<plots, currentPlot, counters, userVectors, variables, stopWhen,
             pausedTran>>
history == <<runs, lastTran, stops, pauses, evaluated>>
sessionVars == <<session, outcome, history>>

Analyses == Kinds \cup {"tran"}
UserPlot == <<"user", 0>>
MeasPlot == <<"measurements", 0>>
Names == (Analyses \X (Nat \ {0})) \cup {UserPlot, MeasPlot}
Contents == [run : Nat, reached : {"pause", "end"}]

\* data is what an analysis wrote, None if none did; vecs are the vectors that
\* `let` and `measure` put beside it, with what they hold.
Plot(name, data, vecs) == [name |-> name, data |-> data, vecs |-> vecs]
NoVectors == [v \in {} |-> None]

SessionInit ==
    /\ plots = <<>>
    /\ currentPlot = 0
    /\ counters = [k \in Analyses |-> 0]
    /\ userVectors = NoVectors
    /\ variables = [n \in MeasNames |-> None]
    /\ stopWhen = FALSE
    /\ pausedTran = None
    /\ outcome = "running"
    /\ runs = 0
    /\ lastTran = 0
    /\ stops = 0
    /\ pauses = 0
    /\ evaluated = [n \in MeasNames |-> None]

\* execute() takes the next command only while exit_code is None, and an error
\* ends the whole script.
Running == outcome = "running"
Room == Len(plots) < MaxPlots

\* (mutant: a plot is numbered after the last one of its kind that is current)
Number_OfCurrent(kind) ==
    IF currentPlot # 0 /\ plots[currentPlot].name[1] = kind
    THEN plots[currentPlot].name[2] + 1
    ELSE 1

\* add_plot: the counter of the analysis, incremented.
Number(kind) == counters[kind] + 1

MakeCurrent(i) == currentPlot' = i

AddPlot(kind, data) ==
    /\ plots' = Append(plots, Plot(<<kind, Number(kind)>>, data, NoVectors))
    /\ counters' = [counters EXCEPT ![kind] = Number(kind)]
    /\ MakeCurrent(Len(plots) + 1)

\* run_analysis of anything but a transient.
Analyse(kind) ==
    /\ Running /\ Room
    /\ AddPlot(kind, [run |-> runs + 1, reached |-> "end"])
    /\ runs' = runs + 1
    /\ UNCHANGED <<userVectors, variables, stopWhen, pausedTran, outcome,
                   lastTran, stops, pauses, evaluated>>

StopWhen ==
    /\ Running /\ stops < MaxStops
    /\ stopWhen' = TRUE
    /\ stops' = stops + 1
    /\ UNCHANGED <<plots, currentPlot, counters, userVectors, variables,
                   pausedTran, outcome, runs, lastTran, pauses, evaluated>>

\* ctx.stop_when.take(), whether or not the run then pauses.
TakeStop == stopWhen' = FALSE

\* (mutant: a complete run leaves an older snapshot in place)
Snapshot_Kept(paused) == IF paused THEN runs + 1 ELSE pausedTran

\* A paused run leaves its snapshot, a complete one clears any older one.
Snapshot(paused) == IF paused THEN runs + 1 ELSE None

\* run_tran_with_pause, then the plot of the leg that was integrated.  A stop
\* time past t_stop pauses nothing.
Tran(paused) ==
    /\ Running /\ Room
    /\ paused => stopWhen
    /\ TakeStop
    /\ pausedTran' = Snapshot(paused)
    /\ AddPlot("tran", [run |-> runs + 1,
                        reached |-> IF paused THEN "pause" ELSE "end"])
    /\ runs' = runs + 1
    /\ lastTran' = runs + 1
    /\ pauses' = pauses + (IF paused THEN 1 ELSE 0)
    /\ UNCHANGED <<userVectors, variables, outcome, stops, evaluated>>

\* plot.vecs = resumed_vecs: the name stays, every vector of the plot goes.
Overwrite(i, data) ==
    plots' = [plots EXCEPT ![i].data = data, ![i].vecs = NoVectors]

\* execute_resume: the leg is integrated to t_stop (start_state carries no
\* t_pause) and written over the current plot.
Resume ==
    /\ Running
    /\ pausedTran # None
    /\ pausedTran' = None
    /\ LET data == [run |-> pausedTran, reached |-> "end"]
       IN  IF currentPlot # 0
           THEN Overwrite(currentPlot, data) /\ UNCHANGED <<currentPlot, counters>>
           ELSE AddPlot("tran", data)
    /\ UNCHANGED <<userVectors, variables, stopWhen, outcome, history>>

\* set_current_plot("new"); every plot made so is named "user".
SetplotNew ==
    /\ Running /\ Room
    /\ plots' = Append(plots, Plot(UserPlot, None, NoVectors))
    /\ MakeCurrent(Len(plots) + 1)
    /\ UNCHANGED <<counters, userVectors, variables, stopWhen, pausedTran,
                   outcome, history>>

Named(name) == {i \in DOMAIN plots : plots[i].name = name}
FirstOf(S) == CHOOSE i \in S : \A j \in S : i <= j

\* set_current_plot: the first plot of that name; an unknown name changes nothing.
Setplot(name) ==
    /\ Running
    /\ Named(name) # {}
    /\ currentPlot' = FirstOf(Named(name))
    /\ UNCHANGED <<plots, counters, userVectors, variables, stopWhen, pausedTran,
                   outcome, history>>

Stored(vecs, v, x) ==
    [w \in DOMAIN vecs \cup {v} |-> IF w = v THEN x ELSE vecs[w]]

\* store_vector: into the current plot, or among the user vectors if there is
\* none; a user vector of that name is brought up to date in both cases.
Store(ps, v, x) ==
    /\ plots' = IF currentPlot = 0 THEN ps
                ELSE [ps EXCEPT ![currentPlot].vecs = Stored(@, v, x)]
    /\ userVectors' = IF currentPlot = 0 \/ v \in DOMAIN userVectors
                      THEN Stored(userVectors, v, x)
                      ELSE userVectors

Let(v) ==
    /\ Running
    /\ Store(plots, v, None)
    /\ UNCHANGED <<currentPlot, counters, variables, stopWhen, pausedTran, outcome,
                   history>>

PlotsOf(ps, kind) == {i \in DOMAIN ps : ps[i].name[1] = kind}

\* evaluate_circuit_measures: the first plot of the analysis, if it has what is
\* asked for, gives the value, and a plot holding just that is pushed.
Measured(n, kind) ==
    LET value == plots[FirstOf(PlotsOf(plots, kind))].data
    IN  Append(plots, Plot(MeasPlot, None, Stored(NoVectors, n, value)))

\* execute_measure reads the name back from the first "measurements" plot.
FirstMeasurements(ps) == ps[FirstOf(PlotsOf(ps, "measurements"))].vecs

Bind(n, ps) ==
    LET read == FirstMeasurements(ps)
    IN  IF n \in DOMAIN read
        THEN /\ variables' = [variables EXCEPT ![n] = read[n]]
             /\ Store(ps, n, read[n])
             /\ UNCHANGED outcome
        ELSE /\ outcome' = "failed"
             /\ plots' = ps
             /\ UNCHANGED <<variables, userVectors>>

Measure(n, kind) ==
    /\ Running /\ Room
    /\ PlotsOf(plots, kind) # {}
    /\ LET ps == Measured(n, kind)
       IN  /\ evaluated' = [evaluated EXCEPT ![n] = Last(ps).vecs[n]]
           /\ Bind(n, ps)
    /\ UNCHANGED <<currentPlot, counters, stopWhen, pausedTran, runs, lastTran,
                   stops, pauses>>

\* The evaluator has no result and pushes no plot.
MeasureNothing(n) ==
    /\ Running
    /\ PlotsOf(plots, "measurements") # {}
    /\ evaluated' = [evaluated EXCEPT ![n] = None]
    /\ Bind(n, plots)
    /\ UNCHANGED <<currentPlot, counters, stopWhen, pausedTran, runs, lastTran,
                   stops, pauses>>

\* `?` after any command: the error leaves execute_code_blocks_ir, and the
\* context is dropped as it is.
Fails ==
    /\ Running
    /\ outcome' = "failed"
    /\ UNCHANGED <<session, history>>

QuitCommand ==
    /\ Running
    /\ outcome' = "quit"
    /\ UNCHANGED <<session, history>>

SessionNext ==
    \/ \E k \in Kinds : Analyse(k)
    \/ \E paused \in BOOLEAN : Tran(paused)
    \/ StopWhen
    \/ Resume
    \/ SetplotNew
    \/ \E name \in {plots[i].name : i \in DOMAIN plots} : Setplot(name)
    \/ \E v \in LetNames : Let(v)
    \/ \E n \in MeasNames, k \in Analyses : Measure(n, k)
    \/ \E n \in MeasNames : MeasureNothing(n)
    \/ Fails
    \/ QuitCommand

SessionSpec == SessionInit /\ [][SessionNext]_sessionVars

-----------------------------------------------------------------------------
Values == Contents \cup {None}
Vectors(vs) ==
    /\ DOMAIN vs \subseteq LetNames \cup MeasNames
    /\ \A v \in DOMAIN vs : vs[v] \in Values

SessionTypeOK ==
    /\ \A i \in DOMAIN plots :
          /\ plots[i].name \in Names
          /\ plots[i].data \in Values
          /\ Vectors(plots[i].vecs)
    /\ currentPlot \in 0..Len(plots)
    /\ counters \in [Analyses -> Nat]
    /\ Vectors(userVectors)
    /\ variables \in [MeasNames -> Values]
    /\ stopWhen \in BOOLEAN
    /\ pausedTran \in Nat \cup {None}
    /\ outcome \in {"running", "quit", "failed"}
    /\ evaluated \in [MeasNames -> Values]

\* No two analyses ever get the same plot name, so that `setplot tran2` reaches
\* that plot and no other, whatever plots `setplot new` and `measure` added in
\* between (context.rs add_plot, set_current_plot).
NamesUnique ==
    \A i, j \in DOMAIN plots :
        plots[i].name = plots[j].name /\ plots[i].name[1] \in Analyses => i = j

\* While a transient is paused its plot is there, still holding the paused leg,
\* and some plot is current: the fallback of execute_resume ("shouldn't happen
\* in practice") is dead code.
PausedPlotExists ==
    pausedTran # None =>
        /\ currentPlot # 0
        /\ \E i \in DOMAIN plots :
              plots[i].data = [run |-> pausedTran, reached |-> "pause"]

\* "resume only makes sense for the most recent paused tran": the snapshot is
\* that of the last transient, however many ran since the `stop when`.
SnapshotIsLatest == pausedTran # None => pausedTran = lastTran

\* One `stop when` pauses at most one transient (run_tran_with_pause takes it).
StopIsOneShot == pauses + (IF stopWhen THEN 1 ELSE 0) <= stops

\* A pause is owed to one stop condition, belongs to the latest transient and has
\* its plot, whatever commands come before `resume`.
PauseIsOwned == PausedPlotExists /\ SnapshotIsLatest /\ StopIsOneShot

-----------------------------------------------------------------------------
\* execute_resume: "The resumed result replaces the paused leg's plot rather than
\* adding a new one".
ResumeReplacesPausedLeg ==
    [][\A i \in DOMAIN plots :
           plots'[i].data # plots[i].data =>
               plots[i].data = [run |-> pausedTran, reached |-> "pause"]]_sessionVars

\* execute_measure: the result is "bound as a control variable named after the
\* measurement".
MeasureBindsItsResult ==
    [][\A n \in MeasNames :
           evaluated'[n] \notin {evaluated[n], None} =>
               variables'[n] = evaluated'[n]]_sessionVars
=============================================================================
