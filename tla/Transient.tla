----------------------------- MODULE Transient -----------------------------
(***************************************************************************)
(* The adaptive time-stepping loop of run_tran                             *)
(* (thevenin/src/transient.rs), one loop iteration per action, and the     *)
(* `resume` leg that thevenin-control/src/exec.rs starts from the snapshot *)
(* of a paused run.                                                        *)
(*                                                                         *)
(* Time is an integer number of ticks.  What the loop computes in floating *)
(* point is computed here on that grid: h * 0.1 is h \div 10, h / 8 is     *)
(* h \div 8, and landing on a breakpoint is exact.  The numerical solve is *)
(* abstracted to its outcomes: it converges after some number of Newton    *)
(* iterations or fails, and the truncation-error estimate is any member of *)
(* NewHs.                                                                  *)
(***************************************************************************)
EXTENDS Integers, FiniteSetsExt

CONSTANTS
    HMin,        \* h_min = h_print * 1e-9
    MinBreak,    \* BreakpointTable.min_break = tstep * 5e-5
    HMax,        \* h_max
    HPrint,      \* h_print
    TStop,       \* t_stop
    NewHs,       \* the values estimate_new_timestep may return
    Itl5,        \* nr_options.itl5, 0 for no limit
    Iterations,  \* the Newton iterations one solve may spend
    Runs         \* the transient runs to consider, each a record in RunType

RunType ==
    [prefer : {"Trap", "BE", "Gear"},   \* TranRunParams.method
     lte    : BOOLEAN,                  \* has_reactive || has_device_charges
     lines  : BOOLEAN,                  \* has_ltra || has_txl || has_cpl
     switch : BOOLEAN,                  \* the circuit has a hysteretic switch
     breaks : SUBSET Nat,               \* corner times of the source waveforms
     pause  : SUBSET Nat,               \* t_pause: {} for None, {tp} for Some
     start  : Nat]                      \* t_start

\* h_min is 1e-9 of the print step and min_break 5e-5 of it; h_max is not below
\* h_min unless the user asks for a TMAX under a billionth of TSTEP.
ASSUME StepAssumption ==
    /\ HMin \in Nat \ {0}
    /\ MinBreak \in Nat /\ MinBreak >= HMin
    /\ HMax \in Nat /\ HMax >= HMin
    /\ HPrint \in Nat /\ HPrint >= HMin
    /\ TStop \in Nat /\ TStop > HMin

ASSUME RunAssumption ==
    /\ Itl5 \in Nat
    /\ Iterations \subseteq Nat
    /\ Runs \subseteq RunType

\* For a capacitor the tolerance estimate_new_timestep divides by grows like 1/h
\* (chg_tol), so its estimate stays far above h_min whatever the step: an
\* estimate below the floor, which the loop would retry for ever, is not one
\* it can return.
ASSUME EstimateAssumption == NewHs \subseteq Nat /\ \A e \in NewHs : e >= HMin

VARIABLES
    run,         \* the analysis and circuit of this run: a member of Runs
    recordFrom,  \* t_start of the current leg
    pauseAt,     \* t_pause of the current leg
    pending,     \* breakpoints.times[next_idx..], as a set
    t,           \* simulated time
    h,           \* suggested next step
    first,       \* is_first_step
    forceBE,     \* force_be
    bootstrap,   \* gear_bootstrap_steps_remaining
    lineTime,    \* the time the TXL/CPL convolution state has been advanced to
    latchTime,   \* the time of the attempt that last wrote latched_state
    lastSample,  \* last entry of time_vec, NoSample while it is empty
    totalIters,  \* total_nr_iterations
    outcome,     \* "running", "paused" (TranOutcome), "complete", "failed" (Err)
    (* History variables: nothing in the code depends on them. *)
    landed,      \* an attempt made at this t found it at a breakpoint
    accepted,    \* accepted steps of this leg, counted up to AcceptedCap
    lastMethod,  \* the method of the last accepted step
    ordered,     \* the samples recorded so far are strictly increasing
    parity       \* of the attempts: one that changes nothing else is a step all the same

control == <<pending, t, h, first, forceBE, bootstrap>>
history == <<landed, accepted, lastMethod, ordered, parity>>
vars == <<run, recordFrom, pauseAt, control, lineTime, latchTime, lastSample,
          totalIters, outcome, history>>

NoSample == -1
AcceptedCap == 4

Lesser(a, b) == IF a <= b THEN a ELSE b
Greater(a, b) == IF a >= b THEN a ELSE b

-----------------------------------------------------------------------------
(* The breakpoint table.  Only the entries not yet advanced past matter.   *)

\* BreakpointTable::insert: an entry is not added next to an existing one.
WithPause(breaks, pause) ==
    breaks \cup {p \in pause : \A b \in breaks : Greater(b - p, p - b) >= MinBreak}

\* BreakpointTable::is_at_breakpoint looks at times[next_idx] alone.
IsAtBreakpoint(table, now) ==
    /\ table # {}
    /\ Greater(Min(table) - now, now - Min(table)) < MinBreak

\* (mutant: every call takes one entry off the table)
NextAfter_Pops(table, now) == IF table = {} THEN {} ELSE table \ {Min(table)}

\* BreakpointTable::next_after drops what is not more than min_break ahead.
NextAfter(table, now) == {b \in table : b > now + MinBreak}

-----------------------------------------------------------------------------
(* What one iteration of the loop computes before it solves.               *)

AtBreakpoint == IsAtBreakpoint(pending, t)
Ahead == NextAfter(pending, t)

ToStop == Lesser(Lesser(h, HMax), TStop - t)
\* (mutant: the step is not clamped to the next breakpoint)
ToBreak_Unclamped == ToStop

ToBreak == IF Ahead = {} THEN ToStop ELSE Lesser(ToStop, Min(Ahead) - t)
\* The step tried: capped, not past t_stop, not past the next breakpoint, and
\* a tenth of h when the iteration starts at a breakpoint.
StepSize ==
    IF AtBreakpoint THEN Greater(Lesser(ToBreak, h \div 10), HMin) ELSE ToBreak

\* (mutant: the first step counts as a bootstrap step)
BootstrapOnly_CountsFirst ==
    run.prefer = "Gear" /\ bootstrap > 0 /\ ~ AtBreakpoint /\ ~ forceBE

\* This iteration is backward Euler only because Gear still lacks history.
BootstrapOnly ==
    /\ run.prefer = "Gear"
    /\ bootstrap > 0
    /\ ~ first /\ ~ AtBreakpoint /\ ~ forceBE

Method ==
    IF first \/ AtBreakpoint \/ forceBE \/ BootstrapOnly THEN "BE" ELSE run.prefer

\* Step growth: at most doubling, at most h_max, at least h_min.
Grown(limit) == Greater(Lesser(Lesser(limit, 2 * StepSize), HMax), HMin)
\* (mutant: the floor of a retry is above the step that gives up)
Shrunk_HighFloor == Greater(StepSize \div 8, 3 * HMin)

\* Step shrink after a failure: to an eighth.
Shrunk == Greater(StepSize \div 8, HMin)

-----------------------------------------------------------------------------
HInit == Greater(HMax \div 400, HMin)

\* Push a sample if the leg records at this time.
Record(time) ==
    IF time >= recordFrom
    THEN /\ lastSample' = time
         /\ ordered' = (ordered /\ time > lastSample)
    ELSE UNCHANGED <<lastSample, ordered>>

Init ==
    /\ run \in Runs
    /\ recordFrom = run.start
    /\ pauseAt = run.pause
    /\ pending = WithPause(run.breaks, run.pause)
    /\ t = 0
    /\ h = HInit
    /\ first = TRUE
    /\ forceBE = FALSE
    /\ bootstrap = 2
    /\ lineTime = 0
    /\ latchTime = 0
    /\ lastSample = (IF run.start = 0 THEN 0 ELSE NoSample)
    /\ totalIters = 0
    /\ outcome = "running"
    /\ landed = FALSE
    /\ accepted = 0
    /\ lastMethod = "BE"
    /\ ordered = TRUE
    /\ parity = 0

-----------------------------------------------------------------------------
(* One iteration.  Every attempt advances the breakpoint table, and the    *)
(* Newton iterations write the switch latches as they go.                  *)

InLoop == outcome = "running" /\ t < TStop - HMin

Attempt ==
    /\ InLoop
    /\ pending' = Ahead
    /\ parity' = 1 - parity
    /\ latchTime' = IF run.switch THEN t + StepSize ELSE latchTime
    /\ UNCHANGED <<run, recordFrom, pauseAt>>

\* (mutant: a rejected step leaves the convolution state advanced)
LineBackup_NotRestored == t + StepSize

\* txline2 / cpline2: the backup taken before this attempt's prepare call.
LineBackup == lineTime

\* An attempt that leaves t where it was.
Rejected ==
    /\ lineTime' = LineBackup
    /\ landed' = (landed \/ AtBreakpoint)
    /\ UNCHANGED <<t, first, bootstrap, lastSample, outcome, accepted, lastMethod,
                   ordered>>

\* (mutant: the retry keeps the order of the failed attempt)
SolveFails_KeepsOrder ==
    /\ Attempt
    /\ StepSize > 2 * HMin
    /\ h' = Shrunk
    /\ UNCHANGED <<forceBE, totalIters>>
    /\ Rejected

\* Newton did not converge: shrink the step and fall back to backward Euler.
SolveFails ==
    /\ Attempt
    /\ StepSize > 2 * HMin
    /\ forceBE' = TRUE
    /\ h' = Shrunk
    /\ UNCHANGED totalIters
    /\ Rejected

\* Err: everything the run computed is dropped.
Fail ==
    /\ outcome' = "failed"
    /\ UNCHANGED <<t, h, first, forceBE, bootstrap, lineTime, lastSample, landed,
                   accepted, lastMethod, ordered>>

\* Newton did not converge and the step is already at its floor.
SolveFailsAtFloor ==
    /\ Attempt
    /\ StepSize <= 2 * HMin
    /\ UNCHANGED totalIters
    /\ Fail

OverItl5(iters) == Itl5 > 0 /\ totalIters + iters > Itl5

\* Newton converged, but the run has used up its iterations.
ItersExhausted(iters) ==
    /\ Attempt
    /\ OverItl5(iters)
    /\ totalIters' = totalIters + iters
    /\ Fail

Converges(iters) ==
    /\ Attempt
    /\ ~ OverItl5(iters)
    /\ totalIters' = totalIters + iters

TrapTooLong(newH) == 10 * newH < 9 * StepSize

\* The trapezoidal step's truncation error is too large: retry a shorter one.
LteReject(newH, iters) ==
    /\ Converges(iters)
    /\ Method = "Trap" /\ run.lte
    /\ TrapTooLong(newH)
    /\ h' = Greater(newH, Shrunk)
    /\ UNCHANGED forceBE
    /\ Rejected

\* (mutant: the run pauses only if it lands on the pause time)
PauseDue_Exact(time) == time \in pauseAt

\* Pause is tested after the sample is recorded, on every accepted step.
PauseDue(time) == \E p \in pauseAt : time >= p

Advance ==
    /\ t' = t + StepSize
    /\ first' = FALSE
    /\ bootstrap' = IF BootstrapOnly THEN bootstrap - 1 ELSE bootstrap
    /\ lineTime' = t + StepSize
    /\ Record(t + StepSize)
    /\ outcome' = IF PauseDue(t + StepSize) THEN "paused" ELSE "running"
    /\ landed' = FALSE
    /\ accepted' = Lesser(accepted + 1, AcceptedCap)
    /\ lastMethod' = Method

\* A trapezoidal step passes the truncation-error test.
AcceptTrap(newH, iters) ==
    /\ Converges(iters)
    /\ Method = "Trap" /\ run.lte
    /\ ~ TrapTooLong(newH)
    /\ h' = Grown(newH)
    /\ forceBE' = FALSE
    /\ Advance

\* A backward-Euler step; stay at backward Euler while the trapezoidal rule
\* could not take a step 5% longer.
AcceptBE(newH, iters) ==
    /\ Converges(iters)
    /\ Method = "BE" /\ run.lte
    /\ h' = Grown(newH)
    /\ forceBE' = (20 * newH <= 21 * StepSize)
    /\ Advance

\* No truncation-error test applies to this step.
NoLte == Method = "Gear" \/ ~ run.lte

\* At a corner of a circuit whose only storage is its transmission lines.
AcceptLines(iters) ==
    /\ Converges(iters)
    /\ NoLte
    /\ AtBreakpoint \/ forceBE
    /\ run.lines
    /\ h' = Grown(HMax)
    /\ forceBE' = FALSE
    /\ Advance

AcceptFree(iters) ==
    /\ Converges(iters)
    /\ NoLte
    /\ ~ ((AtBreakpoint \/ forceBE) /\ run.lines)
    /\ h' = Grown(HPrint)
    /\ forceBE' = FALSE
    /\ Advance

-----------------------------------------------------------------------------
\* The loop condition fails: TranOutcome::Complete.
Complete ==
    /\ outcome = "running"
    /\ t >= TStop - HMin
    /\ outcome' = "complete"
    /\ UNCHANGED <<run, recordFrom, pauseAt, control, lineTime, latchTime,
                   lastSample, totalIters, history>>

\* (mutant: the resumed leg starts its clock at 0)
ResumeTime_Zero == 0

\* TranStartState.t_initial
ResumeTime == t

\* execute_resume: a new run_tran from the snapshot, with `start: 0.0`, no pause,
\* the table rebuilt, the histories re-seeded and the output vectors carried over.
Resume ==
    /\ outcome = "paused"
    /\ outcome' = "running"
    /\ recordFrom' = 0
    /\ pauseAt' = {}
    /\ pending' = run.breaks
    /\ h' = HInit
    /\ first' = TRUE
    /\ forceBE' = FALSE
    /\ bootstrap' = 2
    /\ t' = ResumeTime
    /\ lineTime' = t'
    /\ latchTime' = t'
    /\ totalIters' = 0
    /\ landed' = FALSE
    /\ accepted' = 0
    /\ UNCHANGED <<run, lastSample, lastMethod, ordered, parity>>

Iteration ==
    \E iters \in Iterations :
        \/ SolveFails
        \/ SolveFailsAtFloor
        \/ ItersExhausted(iters)
        \/ \E newH \in NewHs : LteReject(newH, iters)
        \/ \E newH \in NewHs : AcceptTrap(newH, iters)
        \/ \E newH \in NewHs : AcceptBE(newH, iters)
        \/ AcceptLines(iters)
        \/ AcceptFree(iters)

Next == Iteration \/ Complete \/ Resume

Spec == Init /\ [][Next]_vars

\* run_tran is one thread in a loop: while it has an iteration to run it runs it.
\* Nothing obliges a user to resume.
FairSpec == Spec /\ WF_vars(Iteration \/ Complete)

-----------------------------------------------------------------------------
(* Properties *)

\* Every variable holds a value of its type; the step never leaves its bounds
\* (run_tran's clamps of h to [h_min, h_max] after every attempt).
TypeOK ==
    /\ run \in Runs
    /\ recordFrom \in Nat
    /\ pauseAt \in SUBSET Nat
    /\ pending \in SUBSET Nat
    /\ t \in 0..TStop
    /\ h \in HMin..HMax
    /\ first \in BOOLEAN /\ forceBE \in BOOLEAN
    /\ bootstrap \in 0..2
    /\ lineTime \in Nat /\ latchTime \in Nat
    /\ lastSample \in Nat \cup {NoSample}
    /\ totalIters \in Nat
    /\ outcome \in {"running", "paused", "complete", "failed"}
    /\ landed \in BOOLEAN /\ ordered \in BOOLEAN
    /\ accepted \in 0..AcceptedCap
    /\ lastMethod \in {"Trap", "BE", "Gear"}
    /\ parity \in 0..1

\* The abstract contract: time moves forward, never over a breakpoint it could
\* see and never past t_stop, and completes only at t_stop (run_tran's loop).
March == INSTANCE TimeMarch WITH now <- t, status <- outcome, breaks <- run.breaks

MarchSpec == March!Spec

\* The table's cursor never runs ahead of the simulated time: each corner of a
\* source waveform that is more than min_break ahead is still to be visited,
\* whatever was rejected, retried or resumed since (BreakpointTable::next_after).
PendingCoversFuture ==
    \A b \in run.breaks : b > t + MinBreak => b \in pending

\* What a corner of a source waveform does to the circuit is integrated with
\* backward Euler: an accepted step that starts where any attempt found the loop
\* at a breakpoint is a backward-Euler step, even when the attempt that saw the
\* breakpoint failed and the table has moved past it (the loop's `method`).
CornersUseBE ==
    [][t' # t /\ (landed \/ AtBreakpoint) => lastMethod' = "BE"]_vars

\* The convolution state of a TXL or CPL line is advanced once per accepted
\* step: between iterations it stands at the accepted time, however many
\* attempts were rolled back (txline2 / cpline2 backups).
LinesInStep == outcome \in {"running", "paused"} => lineTime = t

\* The second-order Gear formula only runs on a history of three accepted
\* backward-Euler steps of this leg: the first step and the two bootstrap steps
\* (gear_bootstrap_steps_remaining).
GearHasHistory ==
    [][t' # t /\ lastMethod' = "Gear" => accepted >= 3]_vars

\* The time vector of a run is strictly increasing, also across a pause and the
\* resumed leg that appends to the paused leg's vectors (record_point calls).
SamplesIncrease == ordered

\* A run asked to pause does not run to its end over the pause time, even when
\* the pause falls before t_start or next to a breakpoint (the pause check).
PauseNotSkipped == outcome = "complete" => \A p \in pauseAt : t < p

\* A run ends: it completes, pauses or fails.  Neither rejected steps nor failed
\* solves nor the first-step restart after a resume can keep it going for ever
\* (the shrink of h on every retry, its floor h_min).
RunEnds == outcome = "running" ~> outcome # "running"

-----------------------------------------------------------------------------
(* The inductive invariant behind these properties. *)

\* A breakpoint seen by a failed attempt is not forgotten: force_be stands.
LandedForcesBE == landed => forceBE

\* Every bootstrap step taken off the counter is an accepted step of this leg,
\* the first step is one more.
BootstrapCounts ==
    /\ first => accepted = 0 /\ bootstrap = 2
    /\ ~ first => accepted + bootstrap >= 3

\* A leg that still runs has not reached its pause time.
PauseAhead ==
    outcome \in {"running", "complete"} /\ t > 0 => \A p \in pauseAt : t < p

\* Only a run that has come within h_min of t_stop is complete.
EndReached == outcome = "complete" => t >= TStop - HMin

\* All of it holds between iterations of run_tran's loop, and each part needs
\* others to survive a step: the samples need the clock, the method of the next
\* step needs force_be and the counter, the table needs the type of its entries.
IInv ==
    /\ TypeOK
    /\ PendingCoversFuture
    /\ LinesInStep
    /\ LandedForcesBE
    /\ BootstrapCounts
    /\ SamplesIncrease /\ lastSample <= t
    /\ PauseAhead
    /\ EndReached

-----------------------------------------------------------------------------
(* A statement of the code's comments that does not hold. *)

\* SwitchInstance: the latch carries the state the switch settled at to the next
\* timestep, so between iterations it was last written by the accepted solution.
LatchSettled == outcome = "running" => latchTime = t
=============================================================================
