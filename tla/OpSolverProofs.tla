-------------------------- MODULE OpSolverProofs --------------------------
(***************************************************************************)
(* The operating-point solver returns a solution of the circuit it was     *)
(* given, and gives up only when everything enabled has been tried, for    *)
(* every scale of conductances and source steps and all settings.          *)
(***************************************************************************)
EXTENDS OpSolver, TLAPS

GminPhases == {"gmin", "gminFinal", "newgmin", "newgminFinal"}
SourcePhases == {"zero", "prelim", "ramp", "failed"}

DirectTried == opt.noopiter \/ "direct" \in tried
GminTried == opt.stepping => "gmin" \in tried /\ "newgmin" \in tried

\* What has been tried by the time a strategy runs, and why it may run.
InOrder ==
    /\ phase \in GminPhases \cup {"direct"} => opt.forced = FALSE
    /\ phase \in GminPhases => opt.stepping /\ (opt.priority \/ DirectTried)
    /\ phase = "direct" => opt.noopiter = FALSE /\ (opt.priority => GminTried)
    /\ phase \in {"gminFinal", "newgmin", "newgminFinal"} => "gmin" \in tried
    /\ phase = "newgminFinal" => "newgmin" \in tried
    /\ phase \in SourcePhases /\ opt.forced = FALSE => DirectTried /\ GminTried
    /\ phase \in SourcePhases \ {"zero"} => "zero" \in tried

\* Only a ramp moves conv, and it stops when the sources have their full value.
RampOpen ==
    /\ phase \notin {"ramp", "solved", "failed"} => conv = 0
    /\ phase \in {"ramp", "zero", "prelim"} => conv < Full

\* TypeOK by the kind of its variables: numbers, flags and the rest.
NumTypes ==
    /\ gmin \in 0..GminStart /\ lastGood \in 0..GminStart
    /\ factor \in 1..FactorMax
    /\ conv \in 0..Full
    /\ raise \in Nat /\ src \in Nat /\ steps \in Nat
    /\ lastGmin \in Int
FlagTypes == firstStep \in BOOLEAN /\ stale \in BOOLEAN /\ poisoned \in BOOLEAN
             /\ odd \in BOOLEAN
DataTypes ==
    /\ opt \in Options /\ phase \in Phases
    /\ solved \in [source : 0..Full, diag : Nat, dev : Nat]
    /\ tried \subseteq Phases

IInv ==
    /\ NumTypes
    /\ FlagTypes
    /\ DataTypes
    /\ InOrder
    /\ RampOpen
    /\ StepsBetween
    /\ SolutionIsTheCircuit

\* The settings are what the type of Options says.
LEMMA OptionFields ==
    ASSUME NEW o \in Options
    PROVE  /\ o.priority \in BOOLEAN /\ o.stepping \in BOOLEAN
           /\ o.noopiter \in BOOLEAN /\ o.forced \in BOOLEAN
           /\ o.guess \in BOOLEAN /\ o.itl6 \in Nat
  BY OptionsAssumption

\* The first strategy, and the one after each, by the settings.
LEMMA FirstFacts ==
    ASSUME NEW o \in Options, NEW p, p = First(o)
    PROVE  /\ p \in {"direct", "gmin", "zero"}
           /\ p # "zero" => o.forced = FALSE
           /\ p = "direct" => o.noopiter = FALSE /\ (o.priority => o.stepping = FALSE)
           /\ p = "gmin" => o.stepping /\ (o.priority \/ o.noopiter)
           /\ p = "zero" /\ o.forced = FALSE => o.noopiter /\ o.stepping = FALSE
  BY OptionFields DEF First, DirectOr, GminOr

LEMMA AfterFacts ==
    ASSUME NEW o \in Options
    PROVE  /\ AfterDirect(o) = IF ~ o.priority /\ o.stepping THEN "gmin" ELSE "zero"
           /\ AfterNewGmin(o) =
                 IF o.priority /\ ~ o.noopiter THEN "direct" ELSE "zero"
  BY OptionFields DEF AfterDirect, AfterNewGmin, DirectOr, GminOr

THEOREM InitIInv == Init => IInv
<1> SUFFICES ASSUME Init PROVE IInv
  OBVIOUS
<1>1. opt \in Options /\ phase = First(opt)
  BY DEF Init
<1>2. phase \in {"direct", "gmin", "zero"}
  BY <1>1, FirstFacts
<1>3. NumTypes
  BY LevelAssumption DEF Init, NumTypes
<1>7. FlagTypes
  BY DEF Init, FlagTypes
<1>8. DataTypes
  BY <1>1, <1>2, LevelAssumption DEF Init, DataTypes, Phases
<1>4. InOrder
  BY <1>1, FirstFacts, OptionFields
     DEF InOrder, GminPhases, SourcePhases, DirectTried, GminTried
<1>5. RampOpen
  BY <1>2, LevelAssumption DEF Init, RampOpen
<1>6. StepsBetween /\ SolutionIsTheCircuit
  BY <1>2, LevelAssumption DEF Init, StepsBetween, SolutionIsTheCircuit
<1> QED
  BY <1>3, <1>7, <1>8, <1>4, <1>5, <1>6 DEF IInv

\* What an attempt leaves in the variables it owns.
LEMMA AttemptFacts ==
    ASSUME FlagTypes, DataTypes, NEW source \in 0..Full, NEW diag \in Nat, NEW dev \in Nat,
           NEW mode, NEW how, Attempt(source, diag, dev, mode, how)
    PROVE  /\ lastGmin' \in Int
           /\ stale' \in BOOLEAN /\ poisoned' \in BOOLEAN /\ odd' \in BOOLEAN
           /\ solved' \in [source : 0..Full, diag : Nat, dev : Nat]
           /\ tried' = tried \cup {phase}
           /\ how # "fails" =>
                /\ solved'.source = source
                /\ solved'.diag = diag
                /\ dev <= GminTarget => solved'.dev = GminTarget
<1>1. lastGmin' \in Int /\ tried' = tried \cup {phase}
  BY DEF Attempt
<1>2. stale' \in BOOLEAN /\ poisoned' \in BOOLEAN /\ odd' \in BOOLEAN
  BY DEF Attempt, FlagTypes
<1>3. Max(dev, GminTarget) \in Nat /\ (dev <= GminTarget => Max(dev, GminTarget) = GminTarget)
  BY LevelAssumption DEF Max
<1>4. solved' = IF how = "fails" THEN solved
                ELSE [source |-> source, diag |-> diag, dev |-> Max(dev, GminTarget)]
  BY DEF Attempt
<1>5. solved' \in [source : 0..Full, diag : Nat, dev : Nat]
  BY <1>3, <1>4 DEF DataTypes
<1> QED
  BY <1>1, <1>2, <1>3, <1>4, <1>5

\* The state a strategy starts in.
LEMMA EnterFacts ==
    ASSUME NEW p, Enter(p), lastGmin' \in Int, stale' \in BOOLEAN,
           poisoned' \in BOOLEAN /\ odd' \in BOOLEAN
    PROVE  /\ phase' = p /\ NumTypes' /\ FlagTypes'
           /\ GminTarget <= gmin' /\ gmin' <= lastGood'
           /\ conv' = 0 /\ conv' < Full
<1>1. phase' = p /\ FlagTypes'
  BY DEF Enter, FlagTypes
<1>2. /\ NumTypes' /\ GminTarget <= gmin' /\ gmin' <= lastGood'
      /\ conv' = 0 /\ conv' < Full
  BY LevelAssumption DEF Enter, NumTypes
<1> QED
  BY <1>1, <1>2

\* One pass of a gmin loop keeps the level between the target and the last good one.
LEMMA StepGminFacts ==
    ASSUME NumTypes, FlagTypes, phase \in {"gmin", "newgmin"}, StepsBetween,
           NEW s \in {"gmin", "newgmin"}, NEW final, NEW next, NEW how \in Outcomes,
           StepGmin(s, final, next, how)
    PROVE  \/ Enter(next)
           \/ /\ gmin' \in 0..GminStart /\ lastGood' \in 0..GminStart
              /\ factor' \in 1..FactorMax
              /\ firstStep' \in BOOLEAN
              /\ gmin' <= lastGood'
              /\ phase' = IF gmin' >= GminTarget THEN s ELSE final
              /\ UNCHANGED ramping
<1>1. /\ gmin \in 0..GminStart /\ lastGood \in 0..GminStart
      /\ factor \in 1..FactorMax /\ gmin <= lastGood
  BY DEF NumTypes, StepsBetween
<1>2. \A g, f \in Nat : Lower(g, f) \in 0..g
  BY DEF Lower, Max
<1>3. CASE how # "fails"
  <2>1. Adapted(how) \in 1..FactorMax
    <3>1. Min(factor + factor \div 2, FactorMax) \in 1..FactorMax
      BY <1>1, LevelAssumption DEF Min
    <3>2. Max(factor \div 2, FactorMin) \in 1..FactorMax
      BY <1>1, LevelAssumption DEF Max
    <3> QED
      BY <1>1, <3>1, <3>2 DEF Adapted
  <2>2. /\ factor' = Adapted(how) /\ lastGood' = gmin
        /\ gmin' = Lower(gmin, factor') /\ firstStep' = FALSE
        /\ phase' = IF gmin' >= GminTarget THEN s ELSE final
        /\ UNCHANGED ramping
    BY <1>3 DEF StepGmin
  <2>3. gmin' \in 0..gmin
    BY <1>1, <1>2, <2>1, <2>2, LevelAssumption
  <2>4. gmin' \in 0..GminStart /\ lastGood' \in 0..GminStart /\ gmin' <= lastGood'
    BY <1>1, <2>2, <2>3, LevelAssumption
  <2>5. factor' \in 1..FactorMax /\ firstStep' \in BOOLEAN
    BY <2>1, <2>2
  <2> QED
    BY <2>2, <2>4, <2>5
<1>4. CASE how = "fails" /\ factor < FactorMin
  BY <1>4 DEF StepGmin
<1>5. CASE how = "fails" /\ ~ (factor < FactorMin)
  <2>1. /\ factor' = Shorter
        /\ gmin' = Lower(lastGood, factor')
        /\ phase' = IF gmin' >= GminTarget THEN s ELSE final
        /\ lastGood' = lastGood
        /\ UNCHANGED ramping
        /\ firstStep' = (firstStep /\ s = "gmin")
    BY <1>5 DEF StepGmin, Backtrack
  <2>2. factor' \in 1..FactorMax
    BY <1>1, <2>1, LevelAssumption DEF Shorter, Max
  <2>3. gmin' \in 0..lastGood
    BY <1>1, <1>2, <2>1, <2>2, LevelAssumption
  <2>4. firstStep' \in BOOLEAN
    BY <2>1, Zenon DEF FlagTypes
  <2>5. gmin' \in 0..GminStart /\ lastGood' \in 0..GminStart /\ gmin' <= lastGood'
    BY <1>1, <2>1, <2>3, LevelAssumption
  <2> QED
    BY <2>1, <2>2, <2>4, <2>5
<1> QED
  BY <1>3, <1>4, <1>5

\* A solve that is followed by the end or by the next strategy.
LEMMA EndFacts ==
    ASSUME NumTypes, FlagTypes, lastGmin' \in Int, stale' \in BOOLEAN,
           poisoned' \in BOOLEAN /\ odd' \in BOOLEAN, Done
    PROVE  phase' = "solved" /\ NumTypes' /\ FlagTypes'
  BY DEF NumTypes, FlagTypes, Done, stepping, ramping

\* Entering a strategy restores everything but its place in the order.
LEMMA EnterInv ==
    ASSUME NEW p \in {"direct", "gmin", "newgmin", "zero"}, Enter(p),
           lastGmin' \in Int, stale' \in BOOLEAN, poisoned' \in BOOLEAN /\ odd' \in BOOLEAN,
           opt' \in Options, tried' \subseteq Phases,
           solved' \in [source : 0..Full, diag : Nat, dev : Nat], InOrder'
    PROVE  IInv'
<1>1. /\ phase' = p /\ NumTypes' /\ FlagTypes'
      /\ GminTarget <= gmin' /\ gmin' <= lastGood'
      /\ conv' = 0 /\ conv' < Full
  BY EnterFacts
<1>2. DataTypes'
  BY <1>1 DEF DataTypes, Phases
<1>3. RampOpen' /\ StepsBetween' /\ SolutionIsTheCircuit'
  BY <1>1 DEF RampOpen, StepsBetween, SolutionIsTheCircuit
<1> QED
  BY <1>1, <1>2, <1>3 DEF IInv

\* Ending with the solve that has just converged.
LEMMA DoneInv ==
    ASSUME NumTypes, FlagTypes, Done,
           lastGmin' \in Int, stale' \in BOOLEAN, poisoned' \in BOOLEAN /\ odd' \in BOOLEAN,
           opt' \in Options, tried' \subseteq Phases,
           solved' \in [source : 0..Full, diag : Nat, dev : Nat],
           solved'.source = Full, solved'.diag <= GminTarget,
           solved'.dev = GminTarget
    PROVE  IInv'
<1>1. phase' = "solved" /\ NumTypes' /\ FlagTypes'
  BY EndFacts
<1>2. DataTypes' /\ SolutionIsTheCircuit'
  BY <1>1 DEF DataTypes, Phases, SolutionIsTheCircuit
<1>3. InOrder' /\ RampOpen' /\ StepsBetween'
  BY <1>1 DEF InOrder, GminPhases, SourcePhases, RampOpen, StepsBetween
<1> QED
  BY <1>1, <1>2, <1>3 DEF IInv

LEMMA DirectStep ==
    ASSUME IInv, NEW how \in Outcomes, Direct(how)
    PROVE  IInv'
<1> USE DEF IInv
<1> DEFINE mode == IF opt.guess THEN "Float" ELSE "InitJct"
<1>1. phase = "direct" /\ opt' = opt /\ opt \in Options
  BY DEF Direct, DataTypes
<1>2. Attempt(Full, 0, 0, mode, how)
  BY DEF Direct
<1> HIDE DEF mode
<1>3. /\ lastGmin' \in Int
      /\ stale' \in BOOLEAN /\ poisoned' \in BOOLEAN /\ odd' \in BOOLEAN
      /\ solved' \in [source : 0..Full, diag : Nat, dev : Nat]
      /\ tried' = tried \cup {phase}
      /\ how # "fails" =>
           solved'.source = Full /\ solved'.diag = 0 /\ solved'.dev = GminTarget
  BY <1>2, AttemptFacts, LevelAssumption
<1>4. tried' \subseteq Phases
  BY <1>1, <1>3 DEF DataTypes, Phases
<1>5. CASE how = "fails"
  <2>1. Enter(AfterDirect(opt))
    BY <1>5 DEF Direct
  <2>2. phase' = AfterDirect(opt)
    BY <2>1 DEF Enter
  <2>3. InOrder'
    BY <1>1, <1>3, <2>2, AfterFacts, OptionFields
       DEF InOrder, GminPhases, SourcePhases, DirectTried, GminTried
  <2> QED
    BY <1>1, <1>3, <1>4, <2>1, <2>3, AfterFacts, EnterInv
<1>6. CASE how # "fails"
  <2>1. Done
    BY <1>6 DEF Direct
  <2> QED
    BY <1>1, <1>3, <1>4, <1>6, <2>1, DoneInv, LevelAssumption
<1> QED
  BY <1>5, <1>6

\* Going round a gmin loop, or leaving it for its final solve.
LEMMA GminLoopInv ==
    ASSUME NumTypes, DataTypes, FlagTypes, RampOpen, phase \in {"gmin", "newgmin"},
           opt' \in Options, tried' \subseteq Phases,
           lastGmin' \in Int, stale' \in BOOLEAN, poisoned' \in BOOLEAN /\ odd' \in BOOLEAN,
           solved' \in [source : 0..Full, diag : Nat, dev : Nat],
           NEW s \in {"gmin", "newgmin"}, NEW final \in {"gminFinal", "newgminFinal"},
           gmin' \in 0..GminStart, lastGood' \in 0..GminStart,
           factor' \in 1..FactorMax, firstStep' \in BOOLEAN, gmin' <= lastGood',
           phase' = (IF gmin' >= GminTarget THEN s ELSE final),
           UNCHANGED ramping, InOrder'
    PROVE  IInv'
<1>1. phase' \in {s, final} /\ (phase' = s => GminTarget <= gmin')
  BY LevelAssumption
<1>2. NumTypes'
  BY DEF NumTypes, ramping
<1>3. FlagTypes'
  BY DEF FlagTypes
<1>4. DataTypes'
  BY <1>1 DEF DataTypes, Phases
<1>5. RampOpen'
  BY <1>1, LevelAssumption DEF RampOpen, ramping
<1>6. StepsBetween' /\ SolutionIsTheCircuit'
  BY <1>1 DEF StepsBetween, SolutionIsTheCircuit
<1> QED
  BY <1>2, <1>3, <1>4, <1>5, <1>6 DEF IInv

LEMMA GminStep ==
    ASSUME IInv, NEW how \in Outcomes, Gmin(how)
    PROVE  IInv'
<1> USE DEF IInv
<1>1. phase = "gmin" /\ opt' = opt /\ opt \in Options /\ gmin \in Nat
  BY LevelAssumption DEF Gmin, DataTypes, NumTypes
<1>2. Attempt(Full, gmin, GminTarget, StepMode, how)
  BY DEF Gmin
<1>3. /\ lastGmin' \in Int
      /\ stale' \in BOOLEAN /\ poisoned' \in BOOLEAN /\ odd' \in BOOLEAN
      /\ solved' \in [source : 0..Full, diag : Nat, dev : Nat]
      /\ tried' = tried \cup {phase}
  BY <1>1, <1>2, AttemptFacts, LevelAssumption
<1>4. tried' \subseteq Phases
  BY <1>1, <1>3 DEF DataTypes, Phases
<1>5. StepGmin("gmin", "gminFinal", "newgmin", how)
  BY DEF Gmin
<1>6. ASSUME phase' \in {"gmin", "gminFinal", "newgmin"} PROVE InOrder'
  BY <1>1, <1>3, <1>6 DEF InOrder, GminPhases, SourcePhases, DirectTried, GminTried
<1>7. CASE Enter("newgmin")
  <2>1. phase' = "newgmin"
    BY <1>7 DEF Enter
  <2> QED
    BY <1>1, <1>3, <1>4, <1>6, <1>7, <2>1, EnterInv
<1>8. CASE /\ gmin' \in 0..GminStart /\ lastGood' \in 0..GminStart
           /\ factor' \in 1..FactorMax /\ firstStep' \in BOOLEAN
           /\ gmin' <= lastGood'
           /\ phase' = IF gmin' >= GminTarget THEN "gmin" ELSE "gminFinal"
           /\ UNCHANGED ramping
  <2>1. phase' \in {"gmin", "gminFinal"}
    BY <1>8
  <2>2. InOrder'
    BY <1>6, <2>1
  <2> QED
    BY <1>1, <1>3, <1>4, <1>8, <2>2, GminLoopInv
<1> QED
  BY <1>1, <1>5, <1>7, <1>8, StepGminFacts

LEMMA NewGminStep ==
    ASSUME IInv, NEW how \in Outcomes, NewGmin(how)
    PROVE  IInv'
<1> USE DEF IInv
<1>1. phase = "newgmin" /\ opt' = opt /\ opt \in Options /\ gmin \in Nat
  BY LevelAssumption DEF NewGmin, DataTypes, NumTypes
<1>2. Attempt(Full, 0, gmin, StepMode, how)
  BY DEF NewGmin
<1>3. /\ lastGmin' \in Int
      /\ stale' \in BOOLEAN /\ poisoned' \in BOOLEAN /\ odd' \in BOOLEAN
      /\ solved' \in [source : 0..Full, diag : Nat, dev : Nat]
      /\ tried' = tried \cup {phase}
  BY <1>1, <1>2, AttemptFacts, LevelAssumption
<1>4. tried' \subseteq Phases
  BY <1>1, <1>3 DEF DataTypes, Phases
<1>5. StepGmin("newgmin", "newgminFinal", AfterNewGmin(opt), how)
  BY DEF NewGmin
<1>6. ASSUME phase' \in {"newgmin", "newgminFinal"} PROVE InOrder'
  BY <1>1, <1>3, <1>6 DEF InOrder, GminPhases, SourcePhases, DirectTried, GminTried
<1>7. CASE Enter(AfterNewGmin(opt))
  <2>1. phase' = AfterNewGmin(opt)
    BY <1>7 DEF Enter
  <2>2. InOrder'
    BY <1>1, <1>3, <2>1, AfterFacts, OptionFields
       DEF InOrder, GminPhases, SourcePhases, DirectTried, GminTried
  <2> QED
    BY <1>1, <1>3, <1>4, <1>7, <2>2, AfterFacts, EnterInv
<1>8. CASE /\ gmin' \in 0..GminStart /\ lastGood' \in 0..GminStart
           /\ factor' \in 1..FactorMax /\ firstStep' \in BOOLEAN
           /\ gmin' <= lastGood'
           /\ phase' = IF gmin' >= GminTarget THEN "newgmin" ELSE "newgminFinal"
           /\ UNCHANGED ramping
  <2>1. phase' \in {"newgmin", "newgminFinal"}
    BY <1>8
  <2>2. InOrder'
    BY <1>6, <2>1
  <2> QED
    BY <1>1, <1>3, <1>4, <1>8, <2>2, GminLoopInv
<1> QED
  BY <1>1, <1>5, <1>7, <1>8, StepGminFacts

LEMMA GminFinalStep ==
    ASSUME IInv, NEW how \in Outcomes, GminFinal(how)
    PROVE  IInv'
<1> USE DEF IInv
<1>1. phase = "gminFinal" /\ opt' = opt /\ opt \in Options
  BY DEF GminFinal, DataTypes
<1>2. Attempt(Full, GminTarget, GminTarget, "Float", how)
  BY DEF GminFinal, FinalGmin
<1>3. /\ lastGmin' \in Int
      /\ stale' \in BOOLEAN /\ poisoned' \in BOOLEAN /\ odd' \in BOOLEAN
      /\ solved' \in [source : 0..Full, diag : Nat, dev : Nat]
      /\ tried' = tried \cup {phase}
      /\ how # "fails" => /\ solved'.source = Full /\ solved'.diag = GminTarget
                          /\ solved'.dev = GminTarget
  BY <1>2, AttemptFacts, LevelAssumption
<1>4. tried' \subseteq Phases
  BY <1>1, <1>3 DEF DataTypes, Phases
<1>5. CASE how = "fails"
  <2>1. Enter("newgmin") /\ phase' = "newgmin"
    BY <1>5 DEF GminFinal, Final, Enter
  <2>2. InOrder'
    BY <1>1, <1>3, <2>1
       DEF InOrder, GminPhases, SourcePhases, DirectTried, GminTried
  <2> QED
    BY <1>1, <1>3, <1>4, <2>1, <2>2, EnterInv
<1>6. CASE how # "fails"
  <2>1. Done
    BY <1>6 DEF GminFinal, Final
  <2> QED
    BY <1>1, <1>3, <1>4, <1>6, <2>1, DoneInv, LevelAssumption
<1> QED
  BY <1>5, <1>6

LEMMA NewGminFinalStep ==
    ASSUME IInv, NEW how \in Outcomes, NewGminFinal(how)
    PROVE  IInv'
<1> USE DEF IInv
<1>1. phase = "newgminFinal" /\ opt' = opt /\ opt \in Options
  BY DEF NewGminFinal, DataTypes
<1>2. Attempt(Full, 0, GminTarget, "Float", how)
  BY DEF NewGminFinal, FinalGmin
<1>3. /\ lastGmin' \in Int
      /\ stale' \in BOOLEAN /\ poisoned' \in BOOLEAN /\ odd' \in BOOLEAN
      /\ solved' \in [source : 0..Full, diag : Nat, dev : Nat]
      /\ tried' = tried \cup {phase}
      /\ how # "fails" =>
           solved'.source = Full /\ solved'.diag = 0 /\ solved'.dev = GminTarget
  BY <1>2, AttemptFacts, LevelAssumption
<1>4. tried' \subseteq Phases
  BY <1>1, <1>3 DEF DataTypes, Phases
<1>5. CASE how = "fails"
  <2>1. Enter(AfterNewGmin(opt)) /\ phase' = AfterNewGmin(opt)
    BY <1>5 DEF NewGminFinal, Final, Enter
  <2>2. InOrder'
    BY <1>1, <1>3, <2>1, AfterFacts, OptionFields
       DEF InOrder, GminPhases, SourcePhases, DirectTried, GminTried
  <2> QED
    BY <1>1, <1>3, <1>4, <2>1, <2>2, AfterFacts, EnterInv
<1>6. CASE how # "fails"
  <2>1. Done
    BY <1>6 DEF NewGminFinal, Final
  <2> QED
    BY <1>1, <1>3, <1>4, <1>6, <2>1, DoneInv, LevelAssumption
<1> QED
  BY <1>5, <1>6

\* What the loop test of the ramp decides.
LEMMA RampPhaseFacts ==
    ASSUME NEW c \in 0..Full, NEW r, NEW n
    PROVE  /\ RampPhase(c, r, n) \in {"ramp", "failed", "solved"}
           /\ RampPhase(c, r, n) = "ramp" => c < Full
           /\ RampPhase(c, r, n) = "solved" => c = Full
  BY LevelAssumption DEF RampPhase

\* The phases of source stepping keep their place in the order.
LEMMA SourceOrder ==
    ASSUME IInv, phase \in {"zero", "prelim", "ramp"}, opt' = opt,
           tried' = tried \cup {phase}, phase' \in {"prelim", "ramp", "failed", "solved"}
    PROVE  InOrder'
  BY DEF IInv, InOrder, GminPhases, SourcePhases, DirectTried, GminTried

LEMMA ZeroStep ==
    ASSUME IInv, NEW how \in Outcomes, Zero(how)
    PROVE  IInv'
<1> USE DEF IInv
<1>1. /\ phase = "zero" /\ opt' = opt /\ opt \in Options /\ conv = 0 /\ 0 < Full
      /\ UNCHANGED stepping /\ UNCHANGED ramping
      /\ phase' = IF how = "fails" THEN "prelim" ELSE RampPhase(conv, raise, 0)
  BY LevelAssumption DEF Zero, DataTypes, RampOpen
<1>2. Attempt(0, GminTarget, GminTarget, "InitJct", how)
  BY DEF Zero
<1>3. /\ lastGmin' \in Int
      /\ stale' \in BOOLEAN /\ poisoned' \in BOOLEAN /\ odd' \in BOOLEAN
      /\ solved' \in [source : 0..Full, diag : Nat, dev : Nat]
      /\ tried' = tried \cup {phase}
  BY <1>2, AttemptFacts, LevelAssumption
<1>4. phase' \in {"prelim", "ramp", "failed"}
  BY <1>1, RampPhaseFacts, LevelAssumption
<1>5. InOrder'
  BY <1>1, <1>3, <1>4, SourceOrder
<1>6. DataTypes'
  BY <1>1, <1>3, <1>4 DEF DataTypes, Phases
<1>7. NumTypes'
  BY <1>1, <1>3 DEF NumTypes, stepping, ramping
<1>8. FlagTypes'
  BY <1>1, <1>3, Zenon DEF FlagTypes, stepping
<1>9. RampOpen' /\ StepsBetween' /\ SolutionIsTheCircuit'
  BY <1>1, <1>4 DEF RampOpen, StepsBetween, SolutionIsTheCircuit, ramping
<1> QED
  BY <1>5, <1>6, <1>7, <1>8, <1>9

LEMMA PrelimStep ==
    ASSUME IInv, NEW how \in Outcomes, Prelim(how)
    PROVE  IInv'
<1> USE DEF IInv
<1>1. /\ phase = "prelim" /\ opt' = opt /\ opt \in Options /\ conv = 0 /\ 0 < Full
      /\ UNCHANGED stepping /\ conv' = conv /\ raise' = raise /\ src' = src
      /\ \/ phase' = RampPhase(conv, raise, 0) /\ steps' = 0
         \/ phase' = phase /\ steps' = steps + 1
  BY LevelAssumption DEF Prelim, DataTypes, RampOpen
<1>2. Attempt(0, GminStart, GminTarget, "Float", how)
  BY DEF Prelim
<1>3. /\ lastGmin' \in Int
      /\ stale' \in BOOLEAN /\ poisoned' \in BOOLEAN /\ odd' \in BOOLEAN
      /\ solved' \in [source : 0..Full, diag : Nat, dev : Nat]
      /\ tried' = tried \cup {phase}
  BY <1>2, AttemptFacts, LevelAssumption
<1>4. phase' \in {"prelim", "ramp", "failed"}
  BY <1>1, RampPhaseFacts, LevelAssumption
<1>5. InOrder'
  BY <1>1, <1>3, <1>4, SourceOrder
<1>6. DataTypes'
  BY <1>1, <1>3, <1>4 DEF DataTypes, Phases
<1>7. NumTypes'
  BY <1>1, <1>3 DEF NumTypes, stepping
<1>8. FlagTypes'
  BY <1>1, <1>3, Zenon DEF FlagTypes, stepping
<1>9. RampOpen' /\ StepsBetween' /\ SolutionIsTheCircuit'
  BY <1>1, <1>4 DEF RampOpen, StepsBetween, SolutionIsTheCircuit
<1> QED
  BY <1>5, <1>6, <1>7, <1>8, <1>9

\* A ramp that ends with every source at full value has just converged there.
LEMMA RampStep ==
    ASSUME IInv, NEW how \in Outcomes, Ramp(how)
    PROVE  IInv'
<1> USE DEF IInv
<1> DEFINE now == Min(src, Full)
<1>1. /\ phase = "ramp" /\ opt' = opt /\ opt \in Options
      /\ conv \in 0..Full /\ conv < Full /\ raise \in Nat /\ src \in Nat /\ steps \in Nat
      /\ UNCHANGED stepping /\ steps' = steps + 1 /\ src' = conv' + raise'
      /\ phase' = RampPhase(conv', raise', steps')
  BY DEF Ramp, DataTypes, NumTypes, RampOpen
<1>2. Attempt(now, 0, GminTarget, "Float", how)
  BY DEF Ramp
<1>3. now \in 0..Full
  BY <1>1, LevelAssumption DEF Min
<1>4. /\ how # "fails" => conv' = now /\ raise' = Raised(how)
      /\ how = "fails" => conv' = conv /\ raise' = Min(raise \div 10, RaiseCap)
  BY DEF Ramp, Converged
<1> HIDE DEF now
<1>5. /\ lastGmin' \in Int
      /\ stale' \in BOOLEAN /\ poisoned' \in BOOLEAN /\ odd' \in BOOLEAN
      /\ solved' \in [source : 0..Full, diag : Nat, dev : Nat]
      /\ tried' = tried \cup {phase}
      /\ how # "fails" =>
           solved'.source = now /\ solved'.diag = 0 /\ solved'.dev = GminTarget
  BY <1>2, <1>3, AttemptFacts, LevelAssumption
<1>6. raise' \in Nat
  <2>1. Raised(how) \in Nat
    BY <1>1 DEF Raised
  <2>2. Min(raise \div 10, RaiseCap) \in Nat
    BY <1>1, LevelAssumption DEF Min
  <2> QED
    BY <1>4, <2>1, <2>2
<1>7. conv' \in 0..Full /\ (conv' = Full => how # "fails" /\ now = Full)
  BY <1>1, <1>3, <1>4, LevelAssumption
<1>8. /\ phase' \in {"ramp", "failed", "solved"}
      /\ phase' = "ramp" => conv' < Full
      /\ phase' = "solved" => conv' = Full
  BY <1>1, <1>7, RampPhaseFacts
<1>9. InOrder'
  BY <1>1, <1>5, <1>8, SourceOrder
<1>10. DataTypes'
  BY <1>1, <1>5, <1>8 DEF DataTypes, Phases
<1>11. NumTypes'
  <2>3. \A x, y \in Nat : x + y \in Nat
    OBVIOUS
  <2>4. conv' \in Nat
    BY <1>7, LevelAssumption
  <2>5. src' \in Nat
    BY <1>1, <1>6, <2>3, <2>4
  <2>1. src' \in Nat /\ steps' \in Nat
    BY <1>1, <2>5
  <2>2. gmin' = gmin /\ factor' = factor /\ lastGood' = lastGood
    BY <1>1 DEF stepping
  <2> QED
    BY <1>5, <1>6, <1>7, <2>1, <2>2 DEF NumTypes
<1>12. FlagTypes'
  BY <1>1, <1>5, Zenon DEF FlagTypes, stepping
<1>13. RampOpen' /\ StepsBetween'
  BY <1>8 DEF RampOpen, StepsBetween
<1>14. SolutionIsTheCircuit'
  BY <1>5, <1>7, <1>8, LevelAssumption DEF SolutionIsTheCircuit
<1> QED
  BY <1>9, <1>10, <1>11, <1>12, <1>13, <1>14

LEMMA StutterStep == IInv /\ UNCHANGED vars => IInv'
<1> SUFFICES ASSUME IInv, UNCHANGED vars PROVE IInv'
  OBVIOUS
<1> USE DEF vars, stepping, ramping
<1>1. NumTypes' /\ DataTypes'
  BY DEF IInv, NumTypes, DataTypes
<1>2. FlagTypes'
  BY Zenon DEF IInv, FlagTypes
<1>3. InOrder' /\ RampOpen'
  BY DEF IInv, InOrder, DirectTried, GminTried, RampOpen
<1>4. StepsBetween' /\ SolutionIsTheCircuit'
  BY DEF IInv, StepsBetween, SolutionIsTheCircuit
<1> QED
  BY <1>1, <1>2, <1>3, <1>4 DEF IInv

\* The inductive invariant holds in every reachable state.
THEOREM Invariance == Spec => []IInv
<1>1. IInv /\ [Next]_vars => IInv'
  BY DirectStep, GminStep, GminFinalStep, NewGminStep, NewGminFinalStep,
     ZeroStep, PrelimStep, RampStep, StutterStep DEF Next, Solve
<1> QED
  BY InitIInv, <1>1, PTL DEF Spec

\* The variables keep their types: the levels never leave their scale.
THEOREM TypeCorrect == Spec => []TypeOK
<1>1. IInv => TypeOK
  BY DEF IInv, NumTypes, FlagTypes, DataTypes, TypeOK
<1> QED
  BY Invariance, <1>1, PTL

\* Whatever strategy found it, the solution is that of the circuit at full
\* sources, with no shunt above gmin.
THEOREM SolutionsAreOfTheCircuit == Spec => []SolutionIsTheCircuit
<1>1. IInv => SolutionIsTheCircuit
  BY DEF IInv
<1> QED
  BY Invariance, <1>1, PTL

\* A gmin step is always between the target and the last step that converged.
THEOREM StepsStayBetween == Spec => []StepsBetween
<1>1. IInv => StepsBetween
  BY DEF IInv
<1> QED
  BY Invariance, <1>1, PTL

\* The solver fails only when every enabled strategy has made an attempt.
THEOREM GivesUpLast == Spec => []FailsAfterAll
<1>1. IInv => FailsAfterAll
  BY OptionFields DEF IInv, DataTypes, InOrder, SourcePhases, DirectTried, GminTried,
     FailsAfterAll, Enabled
<1> QED
  BY Invariance, <1>1, PTL
=============================================================================
