----------------------------- MODULE OpSolver -----------------------------
(***************************************************************************)
(* The DC operating point of a nonlinear circuit: the chain of strategies  *)
(* of thevenin/src/newton.rs (direct Newton-Raphson, two kinds of gmin     *)
(* stepping, source stepping) and the device voltage memory that           *)
(* simulate.rs solve_nonlinear_op_with_guess keeps across their attempts.  *)
(* One action is one attempt, a call of try_nr, with the decisions taken   *)
(* on its outcome; the strategy it was made for is in `phase`.             *)
(*                                                                         *)
(* Conductances and the factor between them are on a logarithmic scale: a  *)
(* division by the factor subtracts its level, a square root halves it.    *)
(* Level 0 is no conductance at all.                                       *)
(***************************************************************************)
EXTENDS Integers

CONSTANTS GminStart,    \* level of the 1e-2 stepping starts from
          GminTarget,   \* level of NrOptions.gmin
          FactorMax,    \* level of gmin_factor_max
          FactorMin,    \* level of 1.00005
          Full,         \* 100 % of the sources, on a linear scale
          RaiseStart, RaiseMin, RaiseCap,  \* 0.001, 1e-7 and 0.01 of it
          PrelimSteps,  \* the 11 steps of the preliminary gmin ramp
          Options       \* the settings tried: see OptionsAssumption

ASSUME LevelAssumption ==
    /\ GminStart \in Nat /\ GminTarget \in Nat /\ GminTarget < GminStart
    /\ FactorMax \in Nat /\ FactorMin \in Nat /\ 1 < FactorMin /\ FactorMin < FactorMax
    /\ Full \in Nat /\ RaiseMin \in Nat \ {0}
    /\ RaiseCap \in Nat /\ RaiseMin <= RaiseCap
    /\ RaiseStart \in RaiseMin..Full
    /\ PrelimSteps \in Nat \ {0}

\* priority: GMINPRIORITY; stepping: GMINSTEPS > 0; noopiter: NOOPITER; itl6: ITL6;
\* guess: an initial guess is given; forced: the topology forces source stepping.
ASSUME OptionsAssumption ==
    Options \subseteq [priority : BOOLEAN, stepping : BOOLEAN, noopiter : BOOLEAN,
                       itl6 : Nat, guess : BOOLEAN, forced : BOOLEAN]

VARIABLES opt,        \* the settings of this solve
          phase,      \* the strategy whose attempt is next, "solved" or "failed"
          gmin,       \* the stepped conductance (gmin or dev_gmin)
          factor,     \* factor
          lastGood,   \* last_good_gmin, last_good_dev_gmin
          firstStep,  \* first_step
          conv,       \* conv_fact
          raise,      \* raise
          src,        \* src_fact
          steps,      \* src_step_count, or the preliminary steps made
          lastGmin,   \* last_gmin of the load closure, -1 for NaN
          stale,      \* the devices' previous voltages are a failed attempt's
          solved,     \* history: what the last attempt to converge solved
          tried,      \* history: the strategies that have made an attempt
          poisoned,   \* history: a limited first iteration saw stale voltages
          odd         \* history: the parity of the attempts, so that an attempt
                      \* that changes nothing else is a step all the same

stepping == <<gmin, factor, lastGood, firstStep>>
ramping == <<conv, raise, src, steps>>
vars == <<opt, phase, stepping, ramping, lastGmin, stale, solved, tried, poisoned, odd>>

Max(a, b) == IF a >= b THEN a ELSE b
Min(a, b) == IF a <= b THEN a ELSE b
Lower(level, f) == Max(level - f, 0)

DirectOr(o, next) == IF o.noopiter THEN next ELSE "direct"
GminOr(o, next) == IF o.stepping THEN "gmin" ELSE next

\* newton_raphson_solve_with_mode, or source_stepping alone: what is tried first,
\* and what next when a strategy has failed.
First(o) ==
    IF o.forced THEN "zero"
    ELSE IF o.priority THEN GminOr(o, DirectOr(o, "zero"))
    ELSE DirectOr(o, GminOr(o, "zero"))

AfterDirect(o) == IF o.priority THEN "zero" ELSE GminOr(o, "zero")

\* (mutant: GMINPRIORITY forgets the direct attempt)
AfterNewGmin_NoDirect(o) == "zero"

AfterNewGmin(o) == IF o.priority THEN DirectOr(o, "zero") ELSE "zero"

Init ==
    /\ opt \in Options
    /\ phase = First(opt)
    /\ gmin = GminStart /\ factor = FactorMax /\ lastGood = GminStart
    /\ firstStep = TRUE
    /\ conv = 0 /\ raise = RaiseStart /\ src = RaiseStart /\ steps = 0
    /\ lastGmin = -1
    /\ stale = FALSE
    /\ solved = [source |-> 0, diag |-> 0, dev |-> 0]
    /\ tried = {}
    /\ poisoned = FALSE
    /\ odd = FALSE

\* The next strategy starts from its own initial state.
Enter(p) ==
    /\ phase' = p
    /\ gmin' = GminStart /\ factor' = FactorMax /\ lastGood' = GminStart
    /\ firstStep' = TRUE
    /\ conv' = 0 /\ raise' = RaiseStart /\ src' = RaiseStart /\ steps' = 0

\* The load closure resets the devices' memory when the gmin it is given changes.
Resets(dev) == dev # lastGmin

\* try_nr: `how` is what became of it.  A first iteration in InitJct mode does not
\* look at the previous voltages.
Attempt(source, diag, dev, mode, how) ==
    /\ poisoned' = (poisoned \/ (mode = "Float" /\ stale /\ ~ Resets(dev)))
    /\ lastGmin' = dev
    /\ stale' = (how = "fails")
    /\ tried' = tried \cup {phase}
    /\ odd' = ~ odd
    /\ solved' = IF how = "fails" THEN solved
                 ELSE [source |-> source, diag |-> diag, dev |-> Max(dev, GminTarget)]

Speeds == {"fast", "middling", "slow"}
Outcomes == Speeds \cup {"fails"}

Done == phase' = "solved" /\ UNCHANGED <<stepping, ramping>>

\* Direct Newton-Raphson from the initial guess; diag_gmin is 0 for an OP.
Direct(how) ==
    /\ phase = "direct"
    /\ Attempt(Full, 0, 0, IF opt.guess THEN "Float" ELSE "InitJct", how)
    /\ IF how = "fails" THEN Enter(AfterDirect(opt)) ELSE Done
    /\ UNCHANGED opt

\* A failed step restarts from the last good one with the fourth root of the factor.
Shorter == Max(factor \div 4, 1)

\* (mutant: the factor is not cut on failure)
Backtrack_SameFactor ==
    /\ factor' = factor
    /\ gmin' = Lower(lastGood, factor')

\* (mutant: the last good conductance is multiplied by the factor)
Backtrack_Multiplies ==
    /\ factor' = Shorter
    /\ gmin' = Min(lastGood + factor', GminStart)

Backtrack ==
    /\ factor' = Shorter
    /\ gmin' = Lower(lastGood, factor')

Adapted(how) ==
    CASE how = "fast" -> Min(factor + factor \div 2, FactorMax)
      [] how = "slow" -> Max(factor \div 2, FactorMin)
      [] OTHER        -> factor

\* One pass of the loop of gmin_stepping and new_gmin_stepping, then the next one
\* or the final solve at the target.
StepGmin(strategy, final, next, how) ==
    IF how # "fails"
    THEN /\ factor' = Adapted(how)
         /\ lastGood' = gmin
         /\ gmin' = Lower(gmin, factor')
         /\ firstStep' = FALSE
         /\ phase' = IF gmin' >= GminTarget THEN strategy ELSE final
         /\ UNCHANGED ramping
    ELSE IF factor < FactorMin
    THEN Enter(next)
    ELSE /\ Backtrack
         /\ phase' = IF gmin' >= GminTarget THEN strategy ELSE final
         /\ UNCHANGED <<lastGood, ramping>>
         /\ firstStep' = (firstStep /\ strategy = "gmin")

StepMode == IF firstStep THEN "InitJct" ELSE "Float"

\* gmin_stepping raises the diagonal, the devices stay at the target; the
\* other one, new_gmin_stepping, does the opposite.
Gmin(how) ==
    /\ phase = "gmin"
    /\ Attempt(Full, gmin, GminTarget, StepMode, how)
    /\ StepGmin("gmin", "gminFinal", "newgmin", how)
    /\ UNCHANGED opt

NewGmin(how) ==
    /\ phase = "newgmin"
    /\ Attempt(Full, 0, gmin, StepMode, how)
    /\ StepGmin("newgmin", "newgminFinal", AfterNewGmin(opt), how)
    /\ UNCHANGED opt

\* (mutant: the last step's conductance is kept for the final solve)
FinalGmin_Last == lastGood

FinalGmin == GminTarget

Final(next, how) == IF how = "fails" THEN Enter(next) ELSE Done

GminFinal(how) ==
    /\ phase = "gminFinal"
    /\ Attempt(Full, FinalGmin, GminTarget, "Float", how)
    /\ Final("newgmin", how)
    /\ UNCHANGED opt

NewGminFinal(how) ==
    /\ phase = "newgminFinal"
    /\ Attempt(Full, 0, FinalGmin, "Float", how)
    /\ Final(AfterNewGmin(opt), how)
    /\ UNCHANGED opt

\* The loop test of source_stepping, and what follows the loop.
RampPhase(c, r, n) ==
    IF RaiseMin <= r /\ c < Full /\ (opt.itl6 > 0 => n < opt.itl6) THEN "ramp"
    ELSE IF c < Full THEN "failed"
    ELSE "solved"

\* source_stepping: all sources at zero first.
Zero(how) ==
    /\ phase = "zero"
    /\ Attempt(0, GminTarget, GminTarget, "InitJct", how)
    /\ phase' = IF how = "fails" THEN "prelim" ELSE RampPhase(conv, raise, 0)
    /\ UNCHANGED <<opt, stepping, ramping>>

\* If that failed, at most PrelimSteps solves with a smaller and smaller diagonal
\* (only its starting value is kept here); the ramp follows whatever they achieve.
Prelim(how) ==
    /\ phase = "prelim"
    /\ Attempt(0, GminStart, GminTarget, "Float", how)
    /\ IF how = "fails" \/ steps + 1 = PrelimSteps
       THEN phase' = RampPhase(conv, raise, 0) /\ steps' = 0
       ELSE UNCHANGED phase /\ steps' = steps + 1
    /\ UNCHANGED <<opt, stepping, conv, raise, src>>

Converged(how) == how # "fails"

Raised(how) ==
    CASE how = "fast" -> raise + raise \div 2
      [] how = "slow" -> raise \div 2
      [] OTHER        -> raise

\* One pass of the ramp.  The break for a step below 1e-8 is not on this scale,
\* whose unit is RaiseMin at most.
Ramp(how) ==
    /\ phase = "ramp"
    /\ steps' = steps + 1
    /\ LET now == Min(src, Full)
       IN  /\ Attempt(now, 0, GminTarget, "Float", how)
           /\ IF Converged(how)
              THEN /\ conv' = now
                   /\ raise' = Raised(how)
                   /\ phase' = RampPhase(conv', raise', steps')
              ELSE /\ conv' = conv
                   /\ raise' = Min(raise \div 10, RaiseCap)
                   /\ phase' = RampPhase(conv', raise', steps')
           /\ src' = conv' + raise'
    /\ UNCHANGED <<opt, stepping>>

Solve(how) ==
    \/ Direct(how)
    \/ Gmin(how) \/ GminFinal(how)
    \/ NewGmin(how) \/ NewGminFinal(how)
    \/ Zero(how) \/ Prelim(how) \/ Ramp(how)

Next == \E how \in Outcomes : Solve(how)

Spec == Init /\ [][Next]_vars

\* The solver is a sequence of calls on one thread.
FairSpec == Spec /\ WF_vars(Next)
-----------------------------------------------------------------------------
Phases == {"direct", "gmin", "gminFinal", "newgmin", "newgminFinal", "zero",
           "prelim", "ramp", "solved", "failed"}

TypeOK ==
    /\ opt \in Options
    /\ phase \in Phases
    /\ gmin \in 0..GminStart /\ lastGood \in 0..GminStart
    /\ factor \in 1..FactorMax
    /\ firstStep \in BOOLEAN
    /\ conv \in 0..Full
    /\ raise \in Nat /\ src \in Nat /\ steps \in Nat
    /\ lastGmin \in Int
    /\ stale \in BOOLEAN /\ poisoned \in BOOLEAN
    /\ odd \in BOOLEAN
    /\ solved \in [source : 0..Full, diag : Nat, dev : Nat]
    /\ tried \subseteq Phases

\* What the solver returns is a solution of the circuit that was asked for: with
\* every source at full value, no shunt above gmin and the devices at gmin,
\* whichever fallback found it (newton.rs, the results of all four strategies).
SolutionIsTheCircuit ==
    phase = "solved" =>
        /\ solved.source = Full
        /\ solved.diag <= GminTarget
        /\ solved.dev = GminTarget

\* The strategies the settings allow.
Enabled(o) ==
    IF o.forced THEN {"zero"}
    ELSE {"zero"} \cup (IF o.noopiter THEN {} ELSE {"direct"})
                 \cup (IF o.stepping THEN {"gmin", "newgmin"} ELSE {})

\* The solver gives up only when every strategy that NOOPITER, GMINSTEPS and
\* GMINPRIORITY leave enabled has been tried (newton_raphson_solve_with_mode).
FailsAfterAll == phase = "failed" => Enabled(opt) \subseteq tried

\* No gmin step is ever tried above the last one that converged, nor below the
\* target: a backtrack goes between the two.
StepsBetween ==
    phase \in {"gmin", "newgmin"} => GminTarget <= gmin /\ gmin <= lastGood

\* The whole chain ends, whatever converges and however fast: the adaptive loops
\* of gmin and source stepping cannot go on for ever.
SolverEnds == <>(phase \in {"solved", "failed"})

\* DeviceVoltageState::reset_from_solution: "Called before each NR attempt to
\* prevent state corruption from carrying over between failed attempts".
AttemptsStartClean == ~ poisoned
=============================================================================
