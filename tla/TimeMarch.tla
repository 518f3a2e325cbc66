----------------------------- MODULE TimeMarch -----------------------------
(***************************************************************************)
(* What a transient analysis promises about simulated time, with no word   *)
(* about step control: time only moves forward, it never passes the end of *)
(* the run, it never jumps over a source breakpoint that was more than     *)
(* MinBreak away, and a run that completes has reached the end.            *)
(*                                                                         *)
(* Transient is shown to implement this specification.  It is the contract *)
(* of thevenin/src/transient.rs run_tran, lines 756-775 and 1386-1430.     *)
(***************************************************************************)
EXTENDS Integers

CONSTANTS TStop,     \* t_stop
          HMin,      \* h_min: the loop ends within h_min of t_stop
          MinBreak   \* BreakpointTable.min_break

VARIABLES now,       \* the simulated time reached
          status,    \* "running", "paused", "complete" or "failed"
          breaks     \* the corner times of the source waveforms

vars == <<now, status, breaks>>

Init ==
    /\ now = 0
    /\ status = "running"
    /\ breaks \in SUBSET Nat

\* b lies strictly inside the step from a to c, and far enough from a to be seen.
Crossed(a, b, c) == a + MinBreak < b /\ b < c

Advance ==
    /\ status = "running"
    /\ now' \in Nat
    /\ now < now'
    /\ now' <= TStop
    /\ \A b \in breaks : ~ Crossed(now, b, now')
    /\ status' \in {"running", "paused"}
    /\ UNCHANGED breaks

Complete ==
    /\ status = "running"
    /\ TStop - HMin <= now
    /\ status' = "complete"
    /\ UNCHANGED <<now, breaks>>

Abort ==
    /\ status = "running"
    /\ status' = "failed"
    /\ UNCHANGED <<now, breaks>>

Continue ==
    /\ status = "paused"
    /\ status' = "running"
    /\ UNCHANGED <<now, breaks>>

Next == Advance \/ Complete \/ Abort \/ Continue

Spec == Init /\ [][Next]_vars
=============================================================================
