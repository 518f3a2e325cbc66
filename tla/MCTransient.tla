---------------------------- MODULE MCTransient ----------------------------
(***************************************************************************)
(* Instances of Transient for TLC.                                         *)
(***************************************************************************)
EXTENDS Transient

Circuit(lte, lines) ==
    [lte |-> lte, lines |-> lines, switch |-> FALSE]

RunOf(prefer, circuit, breaks, pause, start) ==
    [prefer |-> prefer, lte |-> circuit.lte, lines |-> circuit.lines,
     switch |-> circuit.switch, breaks |-> breaks, pause |-> pause,
     start |-> start]

\* Every method on every kind of circuit; corners alone, doubled within
\* min_break, and with or without one at t = 0.
SteppingRuns ==
    {RunOf(m, Circuit(lte, lines), {50, 52, 60} \cup start, {}, 0) :
        m \in {"Trap", "BE", "Gear"}, lte \in BOOLEAN, lines \in BOOLEAN,
        start \in {{}, {0}}}

\* Pauses on a corner, beside one, exactly min_break from one, away from all,
\* at 0 and at t_stop, with recording from 0, from the pause and after it.
PausingRuns ==
    {RunOf("Trap", Circuit(TRUE, FALSE), {30, 50}, {p}, s) :
        p \in {0, 30, 31, 33, 41, 80}, s \in {0, 31, 60}}

AllRuns == SteppingRuns \cup PausingRuns

\* A circuit with a switch and a capacitor.
SwitchRuns ==
    {RunOf("Trap", [Circuit(TRUE, FALSE) EXCEPT !.switch = TRUE], {}, {}, 0)}
=============================================================================
