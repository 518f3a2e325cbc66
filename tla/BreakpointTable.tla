-------------------------- MODULE BreakpointTable --------------------------
(***************************************************************************)
(* struct BreakpointTable of thevenin/src/transient.rs: a sorted vector of *)
(* times and a cursor that only moves forward.  Indices are one-based.     *)
(***************************************************************************)
EXTENDS Integers, Sequences, SequencesExt, FiniteSets

CONSTANTS MinBreak,  \* min_break
          Times,     \* the times sources may name and the loop may reach
          MaxBreaks  \* bound: entries a table is built from

ASSUME TableAssumption ==
    Times \subseteq Nat /\ MinBreak \in Nat \ {0} /\ MaxBreaks \in Nat

VARIABLES times,     \* the sorted vector
          nextIdx,   \* next_idx
          now,       \* the time of the last call; the loop's t never decreases
          upcoming,  \* what the last next_after returned, {} for None
          flagged    \* what the last is_at_breakpoint returned

vars == <<times, nextIdx, now, upcoming, flagged>>

Close(a, b) == a - b < MinBreak /\ b - a < MinBreak

\* times.partition_point(|x| *x < tp) on a sorted vector.
PartitionPoint(tp) == Cardinality({i \in DOMAIN times : times[i] < tp}) + 1

\* The entry the cursor stands at, if it is not past the end.
AtCursor(i) == IF i <= Len(times) THEN {times[i]} ELSE {}

Increasing(s) == \A i, j \in DOMAIN s : i < j => s[i] < s[j]

\* from_mna: every source's breakpoints, sorted, each time once.
Init ==
    /\ \E n \in 0..MaxBreaks : times \in [1..n -> Times]
    /\ Increasing(times)
    /\ nextIdx = 1
    /\ now = 0
    /\ upcoming = {}
    /\ flagged = FALSE

\* (mutant: only the entry after the insertion point is compared)
NextTo_After(tp) ==
    LET i == PartitionPoint(tp) IN i <= Len(times) /\ Close(times[i], tp)

\* An existing entry next to the insertion point is closer than min_break.
NextTo(tp) ==
    LET i == PartitionPoint(tp)
    IN  \/ i <= Len(times) /\ Close(times[i], tp)
        \/ i > 1 /\ Close(times[i - 1], tp)

\* Called before the loop starts, with t_pause.
Insert(tp) ==
    /\ nextIdx = 1 /\ now = 0
    /\ times' = IF NextTo(tp) THEN times ELSE InsertAt(times, PartitionPoint(tp), tp)
    /\ UNCHANGED <<nextIdx, now, upcoming, flagged>>

\* (mutant: the cursor stops one entry early)
Passed_Short(i, clock) == times[i] < clock - MinBreak

Passed(i, clock) == times[i] <= clock + MinBreak

\* The cursor skips every entry up to min_break ahead of the clock.
Skip(clock) ==
    CHOOSE j \in nextIdx..(Len(times) + 1) :
        /\ \A i \in nextIdx..(j - 1) : Passed(i, clock)
        /\ j <= Len(times) => ~ Passed(j, clock)

NextAfter(clock) ==
    /\ clock >= now
    /\ now' = clock
    /\ nextIdx' = Skip(clock)
    /\ upcoming' = AtCursor(nextIdx')
    /\ UNCHANGED <<times, flagged>>

IsAtBreakpoint(clock) ==
    /\ clock >= now
    /\ now' = clock
    /\ flagged' = \E b \in AtCursor(nextIdx) : Close(b, clock)
    /\ UNCHANGED <<times, nextIdx, upcoming>>

Next == \E n \in Times : Insert(n) \/ NextAfter(n) \/ IsAtBreakpoint(n)

Spec == Init /\ [][Next]_vars

-----------------------------------------------------------------------------
\* The vector with its cursor behaves as the set of entries from the cursor on:
\* next_after never loses an entry that is still ahead, never returns one that
\* is behind, and insert keeps the vector sorted (BreakpointTable's methods).
AsSet == INSTANCE BreakpointSet
    WITH pending <- {times[i] : i \in nextIdx..Len(times)}

ImplementsSet == AsSet!Spec

Separated(s) == \A i, j \in DOMAIN s : i # j => ~ Close(s[i], s[j])

\* Inserting a pause time into a table with no two entries closer than min_break
\* leaves it so (BreakpointTable::insert compares with both neighbours).
InsertKeepsSeparation == [][Separated(times) => Separated(times')]_vars
=============================================================================
