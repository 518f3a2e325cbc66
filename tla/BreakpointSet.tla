--------------------------- MODULE BreakpointSet ---------------------------
(***************************************************************************)
(* The breakpoint table of the transient loop as a set of times: the view  *)
(* of it the module Transient uses.  BreakpointTable, the sorted vector    *)
(* with a cursor, is shown to implement it.                                *)
(***************************************************************************)
EXTENDS Integers

CONSTANTS MinBreak,  \* min_break
          Times      \* the times the table is asked about

VARIABLES pending,   \* the breakpoints not advanced past
          upcoming,  \* what the last next_after returned, {} for None
          flagged    \* what the last is_at_breakpoint returned

vars == <<pending, upcoming, flagged>>

Far(a, b) == a - b >= MinBreak \/ b - a >= MinBreak

First(S) == {b \in S : \A c \in S : b <= c}

Init ==
    /\ pending \in SUBSET Times
    /\ upcoming = {}
    /\ flagged = FALSE

\* A time is added unless an entry is already next to it.
Insert(tp) ==
    /\ pending' = IF \A b \in pending : Far(b, tp) THEN pending \cup {tp} ELSE pending
    /\ UNCHANGED <<upcoming, flagged>>

IsAtBreakpoint(now) ==
    /\ flagged' = \E b \in First(pending) : ~ Far(b, now)
    /\ UNCHANGED <<pending, upcoming>>

NextAfter(now) ==
    /\ pending' = {b \in pending : b > now + MinBreak}
    /\ upcoming' = First(pending')
    /\ UNCHANGED flagged

Next == \E n \in Times : Insert(n) \/ IsAtBreakpoint(n) \/ NextAfter(n)

Spec == Init /\ [][Next]_vars
=============================================================================
