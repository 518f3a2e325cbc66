-------------------------- MODULE TransientProofs --------------------------
(***************************************************************************)
(* Theorems about the transient loop, for every table of breakpoints,      *)
(* every step bound and every circuit in Runs.                             *)
(***************************************************************************)
EXTENDS Transient, TLAPS, WellFoundedInduction

\* Min, written with CHOOSE, is a least element of a non-empty set of naturals.
LEMMA MinIsLeast ==
    ASSUME NEW S \in SUBSET Nat, S # {}
    PROVE  Min(S) \in S /\ \A y \in S : Min(S) <= y
<1> DEFINE R == OpToRel(<, Nat)
<1>1. \A a, b \in Nat : a < b => <<a, b>> \in R
  BY DEF OpToRel
<1>2. IsWellFoundedOn(R, Nat)
  BY NatLessThanWellFounded
<1> HIDE DEF R
<1>3. PICK x \in S : \A y \in S : ~ (<<y, x>> \in R)
  BY <1>2, WFMin
<1>4. ASSUME NEW y \in S PROVE x <= y
  <2>1. x \in Nat /\ y \in Nat
    OBVIOUS
  <2>2. ~ (y < x)
    BY <1>1, <1>3, <2>1
  <2> QED
    BY <2>1, <2>2
<1> QED
  BY <1>4 DEF Min

\* What the loop tries is at least h_min, ends by t_stop, and stops short of or
\* at every breakpoint the table still shows ahead (the clamps of step_h).
LEMMA StepSizeBounds ==
    ASSUME TypeOK, InLoop
    PROVE  /\ StepSize \in Nat
           /\ StepSize >= HMin
           /\ StepSize <= HMax
           /\ t + StepSize <= TStop
           /\ \A b \in Ahead : t + StepSize <= b
<1>1. /\ HMin \in Nat \ {0} /\ HMax \in Nat /\ TStop \in Nat /\ MinBreak \in Nat
      /\ HMax >= HMin /\ MinBreak >= HMin
      /\ t \in Nat /\ h \in Nat /\ h >= HMin /\ h <= HMax /\ TStop - t > HMin
  BY StepAssumption DEF TypeOK, InLoop
<1>2. ToStop \in Nat /\ ToStop >= HMin /\ ToStop <= TStop - t /\ ToStop <= h
  BY <1>1 DEF ToStop, Lesser
<1>3. Ahead \in SUBSET Nat /\ \A b \in Ahead : b - t > MinBreak
  <2>1. \A b \in Ahead : b \in Nat /\ b > t + MinBreak
    BY DEF TypeOK, Ahead, NextAfter
  <2> QED
    BY <1>1, <2>1
<1>4. /\ ToBreak \in Nat /\ ToBreak >= HMin /\ ToBreak <= TStop - t /\ ToBreak <= h
      /\ \A b \in Ahead : t + ToBreak <= b
  <2>1. CASE Ahead = {}
    BY <1>2, <2>1 DEF ToBreak
  <2>2. CASE Ahead # {}
    <3>1. Min(Ahead) \in Ahead /\ \A b \in Ahead : Min(Ahead) <= b
      BY <1>3, <2>2, MinIsLeast
    <3>2. Min(Ahead) \in Nat /\ Min(Ahead) - t > MinBreak
      BY <1>3, <3>1
    <3>3. ToBreak = Lesser(ToStop, Min(Ahead) - t)
      BY <2>2 DEF ToBreak
    <3>4. ToBreak \in Nat /\ ToBreak >= HMin /\ ToBreak <= TStop - t /\ ToBreak <= h
          /\ ToBreak <= Min(Ahead) - t
      BY <1>1, <1>2, <3>2, <3>3 DEF Lesser
    <3> QED
      BY <1>1, <1>3, <3>1, <3>2, <3>4
  <2> QED
    BY <2>1, <2>2
<1>5. h \div 10 \in Nat
  BY <1>1
<1>6. StepSize \in Nat /\ StepSize >= HMin /\ StepSize <= ToBreak
  BY <1>1, <1>4, <1>5 DEF StepSize, Lesser, Greater
<1> QED
  BY <1>1, <1>3, <1>4, <1>6


\* Every next step the loop schedules lies between h_min and h_max.
LEMMA NextStepBounds ==
    ASSUME TypeOK, InLoop
    PROVE  /\ Shrunk \in HMin..HMax
           /\ \A limit \in Nat : Grown(limit) \in HMin..HMax
           /\ \A newH \in Nat : TrapTooLong(newH) => Greater(newH, Shrunk) \in HMin..HMax
<1>1. /\ HMin \in Nat \ {0} /\ HMax \in Nat /\ HMax >= HMin
      /\ StepSize \in Nat /\ StepSize >= HMin /\ StepSize <= HMax
  BY StepAssumption, StepSizeBounds
<1>2. Shrunk \in Nat /\ Shrunk >= HMin /\ Shrunk <= HMax
  BY <1>1 DEF Shrunk, Greater
<1>3. \A limit \in Nat : Grown(limit) \in HMin..HMax
  BY <1>1 DEF Grown, Lesser, Greater
<1>4. ASSUME NEW newH \in Nat, TrapTooLong(newH)
      PROVE  Greater(newH, Shrunk) \in HMin..HMax
  <2>1. newH <= HMax
    BY <1>1, <1>4 DEF TrapTooLong
  <2> QED
    BY <1>1, <1>2, <2>1 DEF Greater
<1> QED
  BY <1>1, <1>2, <1>3, <1>4

\* The loop's own part of an attempt keeps the types of what it assigns.
LEMMA AttemptType ==
    ASSUME TypeOK, Attempt
    PROVE  /\ InLoop
           /\ run' \in Runs /\ recordFrom' \in Nat /\ pauseAt' \in SUBSET Nat
           /\ pending' \in SUBSET Nat
           /\ latchTime' \in Nat /\ parity' \in 0..1
<1>1. InLoop /\ UNCHANGED <<run, recordFrom, pauseAt>>
  BY DEF Attempt
<1>2. pending' \in SUBSET Nat
  BY DEF Attempt, TypeOK, Ahead, NextAfter
<1>3. latchTime' \in Nat
  <2>1. StepSize \in Nat
    BY <1>1, StepSizeBounds
  <2> QED
    BY <2>1, StepAssumption DEF Attempt, TypeOK
<1>4. parity' \in 0..1
  BY DEF Attempt, TypeOK
<1> QED
  BY <1>1, <1>2, <1>3, <1>4 DEF TypeOK

LEMMA RejectedType ==
    ASSUME TypeOK, Rejected
    PROVE  /\ t' \in 0..TStop /\ first' \in BOOLEAN /\ bootstrap' \in 0..2
           /\ lineTime' \in Nat /\ lastSample' \in Nat \cup {NoSample}
           /\ outcome' \in {"running", "paused", "complete", "failed"}
           /\ landed' \in BOOLEAN /\ ordered' \in BOOLEAN
           /\ accepted' \in 0..AcceptedCap
           /\ lastMethod' \in {"Trap", "BE", "Gear"}
<1>1. landed' \in BOOLEAN
  BY Zenon DEF Rejected, TypeOK, AtBreakpoint, IsAtBreakpoint
<1> QED
  BY <1>1 DEF Rejected, TypeOK, LineBackup

\* The method of a step is one of the three.
LEMMA MethodType ==
    ASSUME TypeOK
    PROVE  Method \in {"Trap", "BE", "Gear"}
<1>1. run.prefer \in {"Trap", "BE", "Gear"}
  BY RunAssumption DEF TypeOK, RunType
<1> QED
  BY <1>1 DEF Method

LEMMA AdvanceType ==
    ASSUME TypeOK, InLoop, Advance
    PROVE  /\ t' \in 0..TStop /\ first' \in BOOLEAN /\ bootstrap' \in 0..2
           /\ lineTime' \in Nat /\ lastSample' \in Nat \cup {NoSample}
           /\ outcome' \in {"running", "paused", "complete", "failed"}
           /\ landed' \in BOOLEAN /\ ordered' \in BOOLEAN
           /\ accepted' \in 0..AcceptedCap
           /\ lastMethod' \in {"Trap", "BE", "Gear"}
<1>1. StepSize \in Nat /\ t + StepSize <= TStop /\ t \in Nat /\ TStop \in Nat
  BY StepSizeBounds, StepAssumption DEF TypeOK
<1>2. t' \in 0..TStop /\ lineTime' \in Nat
  BY <1>1 DEF Advance
<1>3. bootstrap' \in 0..2
  BY DEF Advance, TypeOK, BootstrapOnly
<1>4. lastSample' \in Nat \cup {NoSample}
  BY <1>1 DEF Advance, Record, TypeOK
<1>5. ordered' \in BOOLEAN
  <2>1. CASE t + StepSize >= recordFrom
    BY <2>1, Zenon DEF Advance, Record, TypeOK
  <2>2. CASE ~ (t + StepSize >= recordFrom)
    BY <2>2 DEF Advance, Record, TypeOK
  <2> QED
    BY <2>1, <2>2
<1>6. accepted' \in 0..AcceptedCap
  BY DEF Advance, TypeOK, Lesser, AcceptedCap
<1>7. lastMethod' \in {"Trap", "BE", "Gear"}
  BY MethodType DEF Advance
<1> QED
  BY <1>2, <1>3, <1>4, <1>5, <1>6, <1>7 DEF Advance


-----------------------------------------------------------------------------
(* Type correctness *)

\* The initial step suggestion is within bounds.
LEMMA HInitBounds == HInit \in HMin..HMax
<1>1. HMax \div 400 \in Nat /\ HMax \div 400 <= HMax
  BY StepAssumption
<1> QED
  BY <1>1, StepAssumption DEF HInit, Greater

LEMMA InitType == Init => TypeOK
<1> SUFFICES ASSUME Init PROVE TypeOK
  OBVIOUS
<1>1. run \in Runs /\ run \in RunType
  BY RunAssumption DEF Init
<1>2. run.breaks \in SUBSET Nat /\ run.pause \in SUBSET Nat /\ run.start \in Nat
  BY <1>1 DEF RunType
<1>3. pending \in SUBSET Nat
  BY <1>2 DEF Init, WithPause
<1>4. t \in 0..TStop /\ h \in HMin..HMax /\ bootstrap \in 0..2
  BY HInitBounds, StepAssumption DEF Init
<1>5. lastSample \in Nat \cup {NoSample}
  BY DEF Init
<1>6. recordFrom \in Nat /\ pauseAt \in SUBSET Nat
  BY <1>2 DEF Init
<1>7. /\ first \in BOOLEAN /\ forceBE \in BOOLEAN
      /\ landed \in BOOLEAN /\ ordered \in BOOLEAN
  BY DEF Init
<1> QED
  BY <1>1, <1>3, <1>4, <1>5, <1>6, <1>7 DEF Init, TypeOK, AcceptedCap

\* Each outcome of an iteration keeps the types.
LEMMA IterationType ==
    ASSUME TypeOK, Iteration
    PROVE  TypeOK'
<1>1. PICK iters \in Iterations :
        \/ SolveFails
        \/ SolveFailsAtFloor
        \/ ItersExhausted(iters)
        \/ \E newH \in NewHs : LteReject(newH, iters)
        \/ \E newH \in NewHs : AcceptTrap(newH, iters)
        \/ \E newH \in NewHs : AcceptBE(newH, iters)
        \/ AcceptLines(iters)
        \/ AcceptFree(iters)
  BY DEF Iteration
<1>2. Attempt
  BY <1>1 DEF SolveFails, SolveFailsAtFloor, ItersExhausted, LteReject, AcceptTrap,
              AcceptBE, AcceptLines, AcceptFree, Converges
<1>3. /\ InLoop
      /\ run' \in Runs /\ recordFrom' \in Nat /\ pauseAt' \in SUBSET Nat
      /\ pending' \in SUBSET Nat /\ latchTime' \in Nat /\ parity' \in 0..1
  BY <1>2, AttemptType
<1>4. iters \in Nat /\ HPrint \in Nat /\ HMax \in Nat /\ NewHs \subseteq Nat
  BY RunAssumption, StepAssumption, EstimateAssumption
<1>5. /\ Shrunk \in HMin..HMax
      /\ \A limit \in Nat : Grown(limit) \in HMin..HMax
      /\ \A newH \in Nat : TrapTooLong(newH) => Greater(newH, Shrunk) \in HMin..HMax
  BY <1>3, NextStepBounds
<1>6. totalIters' \in Nat
  BY <1>1, <1>4 DEF SolveFails, SolveFailsAtFloor, ItersExhausted, LteReject,
                   AcceptTrap, AcceptBE, AcceptLines, AcceptFree, Converges, TypeOK
<1>7. CASE SolveFails
  BY <1>3, <1>5, <1>6, <1>7, RejectedType DEF SolveFails, TypeOK
<1>8. CASE SolveFailsAtFloor \/ ItersExhausted(iters)
  BY <1>3, <1>6, <1>8 DEF SolveFailsAtFloor, ItersExhausted, Fail, TypeOK
<1>9. CASE \E newH \in NewHs : LteReject(newH, iters)
  <2>1. PICK newH \in NewHs : LteReject(newH, iters)
    BY <1>9
  <2>2. h' \in HMin..HMax /\ forceBE' = forceBE /\ Rejected
    BY <1>4, <1>5, <2>1 DEF LteReject
  <2> QED
    BY <1>3, <1>6, <2>2, RejectedType DEF TypeOK
<1>10. CASE \/ \E newH \in NewHs : AcceptTrap(newH, iters) \/ AcceptBE(newH, iters)
            \/ AcceptLines(iters) \/ AcceptFree(iters)
  <2>1. h' \in HMin..HMax
    BY <1>4, <1>5, <1>10 DEF AcceptTrap, AcceptBE, AcceptLines, AcceptFree
  <2>2. forceBE' \in BOOLEAN
    <3>1. \/ forceBE' = FALSE
          \/ \E newH \in NewHs : forceBE' = (20 * newH <= 21 * StepSize)
      BY <1>10, Zenon DEF AcceptTrap, AcceptBE, AcceptLines, AcceptFree
    <3>2. ASSUME NEW newH \in NewHs
          PROVE  (20 * newH <= 21 * StepSize) \in BOOLEAN
      BY SMT
    <3> QED
      BY <3>1, <3>2, Zenon
  <2>3. Advance
    BY <1>10 DEF AcceptTrap, AcceptBE, AcceptLines, AcceptFree
  <2> QED
    BY <1>3, <1>6, <2>1, <2>2, <2>3, AdvanceType DEF TypeOK
<1> QED
  BY <1>1, <1>7, <1>8, <1>9, <1>10

LEMMA ResumeType ==
    ASSUME TypeOK, Resume
    PROVE  TypeOK'
<1>1. run.breaks \in SUBSET Nat
  BY RunAssumption DEF TypeOK, RunType
<1>2. t' \in 0..TStop /\ t' \in Nat
  BY StepAssumption DEF Resume, ResumeTime, TypeOK
<1>3. pending' \in SUBSET Nat /\ h' \in HMin..HMax /\ bootstrap' \in 0..2
  BY <1>1, HInitBounds DEF Resume
<1>4. /\ first' \in BOOLEAN /\ forceBE' \in BOOLEAN
      /\ landed' \in BOOLEAN /\ ordered' \in BOOLEAN
  BY DEF Resume, TypeOK
<1>5. /\ lineTime' \in Nat /\ latchTime' \in Nat
      /\ recordFrom' \in Nat /\ pauseAt' \in SUBSET Nat
  BY <1>2 DEF Resume
<1>6. /\ run' \in Runs /\ lastSample' \in Nat \cup {NoSample}
      /\ totalIters' \in Nat /\ parity' \in 0..1
      /\ accepted' \in 0..AcceptedCap /\ lastMethod' \in {"Trap", "BE", "Gear"}
      /\ outcome' \in {"running", "paused", "complete", "failed"}
  BY DEF Resume, TypeOK, AcceptedCap
<1> QED
  BY <1>2, <1>3, <1>4, <1>5, <1>6 DEF TypeOK

LEMMA NextType == TypeOK /\ [Next]_vars => TypeOK'
<1> SUFFICES ASSUME TypeOK, [Next]_vars PROVE TypeOK'
  OBVIOUS
<1>1. CASE Iteration
  BY <1>1, IterationType
<1>2. CASE Complete
  BY <1>2 DEF Complete, TypeOK, control, history
<1>3. CASE Resume
  BY <1>3, ResumeType
<1>4. CASE UNCHANGED vars
  BY <1>4 DEF vars, TypeOK, control, history
<1> QED
  BY <1>1, <1>2, <1>3, <1>4 DEF Next

\* Every variable of the loop keeps its type; in particular the suggested step
\* never leaves [h_min, h_max] and the clock never leaves [0, t_stop].
THEOREM TypeCorrect == Spec => []TypeOK
<1>1. Init => TypeOK
  BY InitType
<1>2. TypeOK /\ [Next]_vars => TypeOK'
  BY NextType
<1> QED
  BY <1>1, <1>2, PTL DEF Spec

-----------------------------------------------------------------------------
(* The inductive invariant *)

Core == PendingCoversFuture /\ LinesInStep /\ LandedForcesBE /\ BootstrapCounts
        /\ SamplesIncrease /\ lastSample <= t /\ PauseAhead /\ EndReached

LEMMA InitInv == Init => IInv
<1> SUFFICES ASSUME Init PROVE IInv
  OBVIOUS
<1>1. TypeOK
  BY InitType
<1>2. PendingCoversFuture
  BY DEF Init, PendingCoversFuture, WithPause
<1>3. lastSample <= t /\ SamplesIncrease
  BY DEF Init, NoSample, SamplesIncrease
<1>4. LinesInStep /\ LandedForcesBE /\ BootstrapCounts /\ PauseAhead /\ EndReached
  BY DEF Init, LinesInStep, LandedForcesBE, BootstrapCounts, PauseAhead, EndReached
<1> QED
  BY <1>1, <1>2, <1>3, <1>4 DEF IInv

\* The clamps of the step keep it short of every corner the loop may not cross.
LEMMA NoCrossing ==
    ASSUME TypeOK, PendingCoversFuture, InLoop,
           NEW b \in run.breaks, b > t + MinBreak
    PROVE  t + StepSize <= b
<1>1. b \in Ahead
  BY DEF PendingCoversFuture, Ahead, NextAfter
<1> QED
  BY <1>1, StepSizeBounds

\* The table loses no corner that is still ahead, whatever the attempt's outcome.
LEMMA AttemptKeepsTable ==
    ASSUME TypeOK, TypeOK', PendingCoversFuture, Attempt, t' >= t
    PROVE  PendingCoversFuture'
<1> SUFFICES ASSUME NEW b, b \in run'.breaks, b > t' + MinBreak
             PROVE  b \in pending'
  BY DEF PendingCoversFuture
<1>1. b \in run.breaks /\ pending' = Ahead
  BY DEF Attempt
<1>2. t \in Nat /\ t' \in Nat /\ MinBreak \in Nat /\ b \in Nat
  BY <1>1, StepAssumption, RunAssumption DEF TypeOK, RunType
<1>3. b > t + MinBreak
  <2>1. \A x, y, c, d \in Nat : y >= x /\ c > y + d => c > x + d
    OBVIOUS
  <2> QED
    BY <1>2, <2>1
<1> QED
  BY <1>1, <1>3 DEF PendingCoversFuture, Ahead, NextAfter

\* An attempt that is rolled back, by a failed solve or by the truncation error.
LEMMA RejectedKeeps ==
    ASSUME IInv, TypeOK', Attempt, Rejected,
           \/ forceBE'
           \/ ~ AtBreakpoint /\ forceBE' = forceBE
    PROVE  Core'
<1>1. PendingCoversFuture'
  BY AttemptKeepsTable DEF IInv, Rejected, TypeOK
<1>2. LinesInStep'
  BY DEF IInv, LinesInStep, Rejected, LineBackup
<1>3. LandedForcesBE'
  BY DEF IInv, LandedForcesBE, Rejected
<1>4. BootstrapCounts' /\ PauseAhead' /\ EndReached' /\ SamplesIncrease' /\ (lastSample <= t)'
  BY DEF IInv, BootstrapCounts, PauseAhead, EndReached, SamplesIncrease, Rejected, Attempt
<1> QED
  BY <1>1, <1>2, <1>3, <1>4 DEF Core

\* An error ends the run; what is left of its state is as it was.
LEMMA FailKeeps ==
    ASSUME IInv, TypeOK', Attempt, Fail
    PROVE  Core'
<1>1. PendingCoversFuture'
  BY AttemptKeepsTable DEF IInv, Fail, TypeOK
<1> QED
  BY <1>1 DEF IInv, Core, LinesInStep, LandedForcesBE, BootstrapCounts, PauseAhead,
              EndReached, SamplesIncrease, Fail, Attempt

\* An accepted step.
LEMMA AdvanceKeeps ==
    ASSUME IInv, TypeOK', Attempt, Advance
    PROVE  Core'
<1>1. /\ StepSize \in Nat /\ StepSize > 0 /\ t \in Nat
      /\ t' = t + StepSize /\ t' > t
  BY StepSizeBounds, StepAssumption DEF IInv, TypeOK, Attempt, Advance
<1>2. PendingCoversFuture'
  BY <1>1, AttemptKeepsTable DEF IInv
<1>3. LinesInStep' /\ LandedForcesBE'
  BY DEF LinesInStep, LandedForcesBE, Advance
<1>4. BootstrapCounts'
  <2>1. ~ first' /\ bootstrap \in 0..2 /\ accepted \in 0..AcceptedCap
    BY DEF Advance, IInv, TypeOK
  <2>2. accepted' = IF accepted + 1 <= AcceptedCap THEN accepted + 1 ELSE AcceptedCap
    BY DEF Advance, Lesser
  <2>3. \/ bootstrap' = bootstrap
        \/ bootstrap' = bootstrap - 1 /\ bootstrap > 0 /\ ~ first
    BY DEF Advance, BootstrapOnly
  <2> QED
    BY <2>1, <2>2, <2>3 DEF BootstrapCounts, IInv, AcceptedCap
<1>5. SamplesIncrease' /\ (lastSample <= t)'
  <2>1. lastSample <= t /\ ordered /\ lastSample \in Nat \cup {NoSample}
    BY DEF IInv, SamplesIncrease, TypeOK
  <2>2. lastSample \in Int /\ lastSample < t'
    BY <1>1, <2>1 DEF NoSample
  <2>3. CASE t + StepSize >= recordFrom
    <3>1. lastSample' = t' /\ ordered' = (ordered /\ t + StepSize > lastSample)
      BY <1>1, <2>3 DEF Advance, Record
    <3>2. t + StepSize > lastSample
      BY <1>1, <2>2
    <3>3. ordered'
      BY <2>1, <3>1, <3>2, Zenon
    <3>4. (lastSample <= t)'
      BY <1>1, <3>1
    <3> QED
      BY <3>3, <3>4 DEF SamplesIncrease
  <2>4. CASE ~ (t + StepSize >= recordFrom)
    BY <1>1, <2>1, <2>2, <2>4 DEF Advance, Record, SamplesIncrease
  <2> QED
    BY <2>3, <2>4
<1>6. PauseAhead'
  <2> SUFFICES ASSUME outcome' \in {"running", "complete"}, NEW p \in pauseAt'
               PROVE  t' < p
    BY DEF PauseAhead
  <2>1. p \in pauseAt /\ p \in Nat
    BY DEF Attempt, IInv, TypeOK
  <2>2. ~ PauseDue(t + StepSize)
    BY DEF Advance
  <2> QED
    BY <1>1, <2>1, <2>2 DEF PauseDue
<1>7. EndReached'
  BY DEF EndReached, Advance
<1> QED
  BY <1>2, <1>3, <1>4, <1>5, <1>6, <1>7 DEF Core

LEMMA IterationKeeps ==
    ASSUME IInv, TypeOK', Iteration
    PROVE  Core'
<1>1. PICK iters \in Iterations :
        \/ SolveFails
        \/ SolveFailsAtFloor
        \/ ItersExhausted(iters)
        \/ \E newH \in NewHs : LteReject(newH, iters)
        \/ \E newH \in NewHs : AcceptTrap(newH, iters) \/ AcceptBE(newH, iters)
        \/ AcceptLines(iters) \/ AcceptFree(iters)
  BY DEF Iteration
<1>2. CASE SolveFails
  BY <1>2, RejectedKeeps DEF SolveFails
<1>3. CASE SolveFailsAtFloor \/ ItersExhausted(iters)
  BY <1>3, FailKeeps DEF SolveFailsAtFloor, ItersExhausted
<1>4. CASE \E newH \in NewHs : LteReject(newH, iters)
  <2>1. Method = "Trap" /\ Attempt /\ Rejected /\ forceBE' = forceBE
    BY <1>4 DEF LteReject, Converges
  <2>2. ~ AtBreakpoint
    BY <2>1 DEF Method
  <2> QED
    BY <2>1, <2>2, RejectedKeeps
<1>5. CASE \/ \E newH \in NewHs : AcceptTrap(newH, iters) \/ AcceptBE(newH, iters)
           \/ AcceptLines(iters) \/ AcceptFree(iters)
  <2>1. Attempt /\ Advance
    BY <1>5 DEF AcceptTrap, AcceptBE, AcceptLines, AcceptFree, Converges
  <2> QED
    BY <2>1, AdvanceKeeps
<1> QED
  BY <1>1, <1>2, <1>3, <1>4, <1>5

LEMMA CompleteKeeps ==
    ASSUME IInv, TypeOK', Complete
    PROVE  Core'
BY DEF IInv, Core, PendingCoversFuture, LinesInStep, LandedForcesBE, BootstrapCounts,
       SamplesIncrease, PauseAhead, EndReached, Complete, control, history

\* The resumed leg starts with the whole table and no pause of its own.
LEMMA ResumeKeeps ==
    ASSUME IInv, TypeOK', Resume
    PROVE  Core'
BY DEF IInv, Core, PendingCoversFuture, LinesInStep, LandedForcesBE, BootstrapCounts,
       SamplesIncrease, PauseAhead, EndReached, Resume, ResumeTime

LEMMA StutterKeeps ==
    ASSUME IInv, UNCHANGED vars
    PROVE  Core'
BY DEF IInv, Core, PendingCoversFuture, LinesInStep, LandedForcesBE, BootstrapCounts,
       SamplesIncrease, PauseAhead, EndReached, vars, control, history

LEMMA NextInv == IInv /\ [Next]_vars => IInv'
<1> SUFFICES ASSUME IInv, [Next]_vars PROVE IInv'
  OBVIOUS
<1>1. TypeOK'
  BY NextType DEF IInv
<1>2. Core'
  <2>1. CASE Iteration
    BY <1>1, <2>1, IterationKeeps
  <2>2. CASE Complete
    BY <1>1, <2>2, CompleteKeeps
  <2>3. CASE Resume
    BY <1>1, <2>3, ResumeKeeps
  <2>4. CASE UNCHANGED vars
    BY <2>4, StutterKeeps
  <2> QED
    BY <2>1, <2>2, <2>3, <2>4 DEF Next
<1> QED
  BY <1>1, <1>2 DEF IInv, Core

\* The conjunction of everything that holds between iterations is inductive.
THEOREM Invariance == Spec => []IInv
<1>1. IInv /\ [Next]_vars => IInv'
  BY NextInv
<1> QED
  BY InitInv, <1>1, PTL DEF Spec

-----------------------------------------------------------------------------
(* What follows from it *)

\* However many attempts are rolled back, the lines' convolution state stands at
\* the accepted time.
THEOREM LinesStayInStep == Spec => []LinesInStep
<1>1. IInv => LinesInStep
  BY DEF IInv
<1> QED
  BY Invariance, <1>1, PTL

\* The time vector of a run and of its resumed leg is strictly increasing.
THEOREM SamplesAlwaysIncrease == Spec => []SamplesIncrease
<1>1. IInv => SamplesIncrease
  BY DEF IInv
<1> QED
  BY Invariance, <1>1, PTL

\* The cursor of the breakpoint table never overtakes the clock.
THEOREM TableCoversFuture == Spec => []PendingCoversFuture
<1>1. IInv => PendingCoversFuture
  BY DEF IInv
<1> QED
  BY Invariance, <1>1, PTL

\* A run asked to pause does not complete beyond its pause time.
THEOREM PauseNeverSkipped == Spec => []PauseNotSkipped
<1>1. IInv => PauseNotSkipped
  BY StepAssumption DEF IInv, TypeOK, EndReached, PauseAhead, PauseNotSkipped
<1> QED
  BY Invariance, <1>1, PTL

\* The clock only moves in an accepted step.
LEMMA ClockMoves ==
    ASSUME IInv, Next, t' # t
    PROVE  InLoop /\ Advance
<1>1. Iteration
  BY DEF Next, Complete, control, Resume, ResumeTime
<1>2. PICK iters \in Iterations :
        \/ SolveFails
        \/ SolveFailsAtFloor
        \/ ItersExhausted(iters)
        \/ \E newH \in NewHs : LteReject(newH, iters)
        \/ \E newH \in NewHs : AcceptTrap(newH, iters) \/ AcceptBE(newH, iters)
        \/ AcceptLines(iters) \/ AcceptFree(iters)
  BY <1>1 DEF Iteration
<1>3. ~ Rejected /\ ~ Fail
  BY DEF Rejected, Fail
<1>4. \/ \E newH \in NewHs : AcceptTrap(newH, iters) \/ AcceptBE(newH, iters)
      \/ AcceptLines(iters) \/ AcceptFree(iters)
  BY <1>2, <1>3 DEF SolveFails, SolveFailsAtFloor, ItersExhausted, LteReject
<1> QED
  BY <1>4 DEF AcceptTrap, AcceptBE, AcceptLines, AcceptFree, Converges, Attempt

\* A corner of a source is left with a backward-Euler step, also when the attempt
\* that saw the corner failed.
THEOREM CornersAlwaysUseBE == Spec => CornersUseBE
<1>1. IInv /\ [Next]_vars
        => [t' # t /\ (landed \/ AtBreakpoint) => lastMethod' = "BE"]_vars
  <2> SUFFICES ASSUME IInv, Next, t' # t, landed \/ AtBreakpoint
               PROVE  lastMethod' = "BE"
    OBVIOUS
  <2>1. forceBE \/ AtBreakpoint
    BY DEF IInv, LandedForcesBE
  <2> QED
    BY <2>1, ClockMoves DEF Advance, Method
<1> QED
  BY Invariance, <1>1, PTL DEF Spec, CornersUseBE

\* Gear integrates only on a history of three accepted steps.
THEOREM GearAlwaysHasHistory == Spec => GearHasHistory
<1>1. IInv /\ [Next]_vars
        => [t' # t /\ lastMethod' = "Gear" => accepted >= 3]_vars
  <2> SUFFICES ASSUME IInv, Next, t' # t, lastMethod' = "Gear"
               PROVE  accepted >= 3
    OBVIOUS
  <2>1. Method = "Gear"
    BY ClockMoves DEF Advance
  <2>2. run.prefer = "Gear" /\ ~ first /\ ~ AtBreakpoint /\ ~ forceBE /\ ~ BootstrapOnly
    BY <2>1 DEF Method
  <2>3. ~ (bootstrap > 0)
    BY <2>2 DEF BootstrapOnly
  <2> QED
    BY <2>2, <2>3 DEF IInv, TypeOK, BootstrapCounts, AcceptedCap
<1> QED
  BY Invariance, <1>1, PTL DEF Spec, GearHasHistory

-----------------------------------------------------------------------------
(* The loop implements TimeMarch *)

LEMMA MarchInit == Init => March!Init
<1> SUFFICES ASSUME Init PROVE March!Init
  OBVIOUS
<1>1. run.breaks \in SUBSET Nat
  BY RunAssumption DEF Init, RunType
<1> QED
  BY <1>1 DEF Init, March!Init

\* An accepted step moves the clock as TimeMarch allows.
LEMMA AdvanceMarches ==
    ASSUME IInv, Next, t' # t
    PROVE  March!Next
<1>1. InLoop /\ Advance /\ run' = run
  BY ClockMoves DEF Next, Iteration, SolveFails, SolveFailsAtFloor, ItersExhausted,
     LteReject, AcceptTrap, AcceptBE, AcceptLines, AcceptFree, Converges, Attempt,
     Complete, Resume
<1>2. /\ StepSize \in Nat /\ StepSize > 0 /\ t + StepSize <= TStop /\ t \in Nat
      /\ t' = t + StepSize /\ MinBreak \in Nat
  BY <1>1, StepSizeBounds, StepAssumption DEF IInv, TypeOK, Advance
<1>3. ASSUME NEW b \in run.breaks PROVE ~ March!Crossed(t, b, t')
  <2>1. b \in Nat
    BY RunAssumption DEF IInv, TypeOK, RunType
  <2>2. b > t + MinBreak => t + StepSize <= b
    BY <1>1, NoCrossing DEF IInv
  <2> QED
    BY <1>2, <2>1, <2>2 DEF March!Crossed
<1>4. outcome = "running" /\ outcome' \in {"running", "paused"}
  BY <1>1 DEF InLoop, Advance
<1>5. t' \in Nat /\ t < t' /\ t' <= TStop
  BY <1>2
<1>6. March!Advance
  BY <1>1, <1>3, <1>4, <1>5 DEF March!Advance
<1> QED
  BY <1>6 DEF March!Next

\* A step that leaves the clock alone ends, pauses, resumes or stutters.
LEMMA StandingMarches ==
    ASSUME IInv, Next, t' = t
    PROVE  [March!Next]_March!vars
<1>1. CASE Iteration
  <2>1. PICK iters \in Iterations :
          \/ SolveFails
          \/ SolveFailsAtFloor
          \/ ItersExhausted(iters)
          \/ \E newH \in NewHs : LteReject(newH, iters)
          \/ \E newH \in NewHs : AcceptTrap(newH, iters) \/ AcceptBE(newH, iters)
          \/ AcceptLines(iters) \/ AcceptFree(iters)
    BY <1>1 DEF Iteration
  <2>2. Attempt /\ (Rejected \/ Fail \/ Advance)
    BY <2>1 DEF SolveFails, SolveFailsAtFloor, ItersExhausted, LteReject, AcceptTrap,
                AcceptBE, AcceptLines, AcceptFree, Converges
  <2>3. InLoop /\ run' = run /\ outcome = "running"
    BY <2>2 DEF Attempt, InLoop
  <2>4. CASE Rejected
    BY <2>3, <2>4 DEF Rejected, March!vars
  <2>5. CASE Fail
    BY <2>3, <2>5 DEF Fail, March!Next, March!Abort
  <2>6. CASE Advance
    BY <2>3, <2>6, StepSizeBounds, StepAssumption DEF Advance, IInv, TypeOK
  <2> QED
    BY <2>2, <2>4, <2>5, <2>6
<1>2. CASE Complete
  BY <1>2, StepAssumption DEF Complete, control, IInv, TypeOK, March!Next, March!Complete
<1>3. CASE Resume
  BY <1>3 DEF Resume, March!Next, March!Continue
<1> QED
  BY <1>1, <1>2, <1>3 DEF Next

\* Every behaviour of the loop is one TimeMarch allows: whatever is rejected,
\* retried, paused or resumed, time moves forward, never over a visible corner,
\* never past t_stop, and the run completes only at t_stop.
THEOREM Refinement == Spec => MarchSpec
<1>1. IInv /\ [Next]_vars => [March!Next]_March!vars
  <2> SUFFICES ASSUME IInv, [Next]_vars PROVE [March!Next]_March!vars
    OBVIOUS
  <2>1. CASE Next /\ t' # t
    BY <2>1, AdvanceMarches
  <2>2. CASE Next /\ t' = t
    BY <2>2, StandingMarches
  <2>3. CASE UNCHANGED vars
    BY <2>3 DEF vars, control, March!vars
  <2> QED
    BY <2>1, <2>2, <2>3
<1> QED
  BY Invariance, MarchInit, <1>1, PTL DEF Spec, MarchSpec, March!Spec

=============================================================================
