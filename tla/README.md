# Formal model of thevenin

This directory specifies the parts of the thevenin circuit simulator whose
correctness depends on control and state rather than on arithmetic: the two ways
source text becomes a flat circuit, the assembly of its equations, the analyses and
their dispatcher, the adaptive transient loop and its breakpoint table, the
operating-point solver and its fallbacks, and the `.control` interpreter.  The
specifications are in TLA+; TLC checks them on small instances, TLAPS proves the
theorems of the `*Proofs` modules for every value of the constants.

Line numbers below and in `PROJECT.json` are those of the sources in `src/`.

## 1. Inventory

The program is sequential: one thread, no locks, no messages.  What is hard is
not interleaving but *long sequences of legal steps*: attempts that are rolled
back, fallbacks entered in unusual orders, commands of a script that change
shared state between a pause and a resume, recursions that keep a guard or a scope
by hand and have many ways out, and counts that several passes make of the same
thing.

| Component | State it keeps | Operations | Talks to | What makes it correct |
|---|---|---|---|---|
| Netlist parser, `thevenin-types/parse.rs` | logical lines, stack of `.if` blocks, items, forks | join, choose, nest, fork | front ends | continuations attach; nested conditions choose as written; every analysis gets its netlist |
| Includes, `cirq-spice-import/preprocess.rs` | files being read, output | expand | parser | text in place; cycles reported; ends |
| Libraries, `libproc.rs` | item list spliced while it is walked | expand | parser | text in place; ends |
| Subcircuits, `subckt.rs` | node map, parameters, definitions of each call | expand a call | importer | values, models and nets of the instance's own scope, where the code maps them |
| Cirq imports, `resolve.rs` | files merged, files in progress | merge, import by name | lowering | merged as written; cycles reported |
| Cirq lowering, `ir_lower.rs` | parameters, overrides, port map, open modules, names taken | declare, instantiate, return | assembly | scopes end with their body; unique names; connected as written; ends |
| MNA assembly, `mna_ir.rs`, `mna.rs` | row counters, branch names, instances | count, hand out rows, couple | every analysis | every unknown has one owner and is read where it was written |
| Analysis dispatcher, `circuit.rs`, `measure.rs` | result plots, temperature | run an analysis, post-process, measure | all analyses | the result is what the circuit declares, in order, at its temperature |
| Operating-point solver, `newton.rs`, `simulate.rs` | stepped conductance, adaptive factor, source factor, device voltage memory | direct NR, two gmin steppings, source stepping | load closure, device stamps | result is of the circuit asked for; tries everything enabled; ends |
| DC sweep, `simulate.rs` | right-hand side edited in place, warm start, result vectors | set source, solve, next outer step | OP solver, line stamps | every point is the circuit of that point |
| Transient step controller, `transient.rs` `run_tran` | time, suggested step, method flags, bootstrap counter, line and device histories, output vectors | attempt, reject, accept, pause, complete | breakpoint table, one-step NR solve, line models | moves forward; never steps over a corner; corners integrated with BE; rollback complete; ends |
| Breakpoint table, `transient.rs` | sorted vector, cursor | build, `insert`, `next_after`, `is_at_breakpoint` | step controller | behaves as a set; no corner lost |
| Pause/resume, `transient.rs`, `thevenin-control/exec.rs` | snapshot, stop condition | `stop when`, `tran`, `resume` | step controller, session | one contiguous trace; the snapshot is the latest run's |
| Control session, `context.rs`, `exec.rs`, `measure.rs` | plots, current plot, counters, vectors, variables, snapshot | analyses, `setplot`, `let`, `measure`, `resume` | all analyses | names and indices stay valid; results go where the documentation says |
| Control flow, `exec.rs` | call stack, open scripts, exit code | blocks, `if`, `foreach`, `while`, `repeat`, `source`, `quit` | session | loops and sourcing are bounded; quit and errors unwind completely |
| Language registry, control parser, vector expressions | none at run time | parse, evaluate | control flow | pure functions |
| Device models, sparse LU, AC/noise/PZ/TF/sensitivity | matrices, companions | stamp, factor, solve | solver, transient loop | numerical |
| Lines, switches, waveforms | histories, latches | evaluate, accept | transient loop | state follows accepted steps only |
| Importer's items, writers, CLI, XSPICE | text and trees | translate, print | everything | pure translation |

`PROJECT.json` lists each of these with its status, and under `hazards` the
lines where something hard to test can go wrong, with the property that would
notice.

## 2. Modules

Text to circuit first, then the analyses, then scripts.

### NetlistParse

`Netlist::parse`: `preprocess` joins physical lines to logical ones,
`process_conditionals` keeps the branches taken, and the loop over items collects
subcircuits and makes one netlist per analysis.  `phase` is the pass under way.  A
line has a `shape`, by which it is joined, and a `word`, what it says; conditions
compare one parameter with one value.  The parsers of single lines are left out.

### SpiceText, IncludeExpansion, LibExpansion, SubcktFlattening, SpiceFrontEnd

`SpiceText` has the lines and items and what they have in common: sections of a
library file, `Parsed` for the nesting of `.subckt`, paths as sequences of names
with `.` and `..`.  The other three are one recursive function each, its recursion
an explicit stack: `expand_text`, `process_items`, `expand_subckt_call`.

| TLA+ | Code |
|---|---|
| `texts`, `visiting`, `out` | the calls of `expand_text`, its `visiting` set, the text written |
| `calls` | the calls of `process_items`, with the item vector each splices into |
| `frames`, `flat` | the calls of `expand_subckt_call` with node map, parameters and definitions; `flat_items` |
| `Text_`; `scope`, `sound` | no code: the reference text; history, the values a body should have |

`SpiceFrontEnd` composes them the two ways the program does: parse, `process_libs`,
flatten (the way of `tests/harness.rs`) and `preprocess_includes`, parse, flatten
(`import_spice`).  An expression is a literal or a name, so the arithmetic of
`expr.rs`, `.func` and the text of B sources are not there.

`remap_element` treats kinds of elements differently, so a line has a `kind`, one of
`ElementKind`; kinds treated alike differ in name only.  `Renamed`, `Copied` and `Unmapped`
say where the code maps and where it copies: the models of resistors, diodes, BJTs,
MOSFETs, JFETs and MESFETs are renamed for the instance, those of all other kinds keep the name
they have (`subckt.rs:694-708`); expressions are resolved but for a source's waveform (760), the
length and lumps of an urc (670) and a behavioral source's text; nets are mapped but for
the ground of coupled lines (606) and a line taken over verbatim (673).  A source with a waveform has
its `dc` and `ac` values resolved, which is the kind "source", and its waveform copied, which is the
kind "waveform".  Left out are references to other elements (the inductors of a `K`, the sources
that `F`, `H` and `W` sense), which always get the prefix of the instance, and the nets in the text
of a behavioral source, of which those in `v()` are mapped like any other.

### CirqSyntax, ImportResolution, Elaboration, CirqFrontEnd

`CirqSyntax` has the items of Cirq sources.  `ImportResolution` is
`resolve_items`: `visited` and `inProgress` are the code's two sets, a frame is a
call.  `Elaboration` is `lower_circuit_body_prefixed` with its two passes over a
body; `netRemap`, `params` and `overrides` are the maps that `lower_module_inst`
swaps at each instance and `saved` is what it puts back.  A dotted name is the
sequence of its parts, a bus line is a net.  `own`, `bound` and `scope` of a frame
are history, and so are `worth` and `meant` of an element: the value and the nets that
the text gives it, against which the values and nets pushed are compared.
`CirqFrontEnd` is `compile_file`: it resolves, stops if that reported an error, and
lowers what is left.  `Syntax` and `Connectable` say what the theorems take of the sources:
that they are trees, and that they connect instances as the language manual has it.
`MCElaboration` and `MCImportResolution` instantiate the parts
by themselves for statements that fail.

### MnaAssembly

`stamp_circuit`: the first pass numbers the nets and counts branches and inner
nodes, the second hands the rows out element by element, the last couples
inductors.  `TotalNumNodes` is the recount of `mna.rs:417` by which every reader of a
solution finds a branch.  `inst.inside` and `inst.branches` are the rows an
instance was given, `terminals` those of its nets and `controls` those it senses.  Of a
resistance only the sign matters, of the inner nodes of an instance their number; array connections of
XSPICE elements are scalars; nets are already normalised.  Errors: an unknown
sensed source, a line or a code model without its model, too few connections, a K
that names something else than an inductor.  `Countable`, `Recountable` and `NamesApart`
say which circuits the theorems are about: those whose inner nodes the two passes, and then
the readers, count with the same result, and those whose names differ in more than case.

### Analyses

`simulate` of `circuit.rs`, with `simulate_single` and `simulate_multi_temp`: one
action runs the next analysis of the list at the temperature of the round, with
the parameters that the lookup by kind finds, on a system assembled afresh, and
appends the plots that kind leaves.  Analyses may fail; `four` and `fft` need a
transient; a `.dc` is run by `DcSweep`'s actions on the same state (`SweepStarts`,
`SweepRuns`, `SweepEnds`), so the points in a plot are the points of the sweep.  At the end
the measurements read the plots.  The numerical loops over frequencies have one
outcome or the other.

### Transient, TimeMarch

`Transient` is `run_tran`'s loop; one action is one iteration, from the loop
test to `continue`, the end of the body or a return.

| TLA+ | Code |
|---|---|
| `t`, `h`, `first`, `forceBE`, `bootstrap` | `t`, `h`, `is_first_step`, `force_be`, `gear_bootstrap_steps_remaining` |
| `pending` | `breakpoints.times[next_idx..]` |
| `lineTime` | the time the TXL/CPL convolution state stands at |
| `latchTime` | the time of the attempt that last wrote the switch latches |
| `lastSample`, `ordered` | the end of `time_vec`, and whether it ever failed to grow |
| `totalIters`, `outcome` | `total_nr_iterations`, `TranOutcome` or `Err` |
| `SolveFails`, `SolveFailsAtFloor`, `ItersExhausted` | the three ways out of the `match solve_timestep` |
| `LteReject` | truncation error too large, lines rolled back, retry |
| `AcceptTrap`, `AcceptBE`, `AcceptLines`, `AcceptFree` | the four branches that schedule the next step, then the acceptance of this one |
| `Complete`, `Resume` | the loop ends; `execute_resume` starts the second leg |

Abstractions.  Time is in integer ticks, so `h * 0.1` and the shrink by eight are
rounded down and landing on a corner is exact.  The one-step solve may converge
after any number of iterations in `Iterations` or fail; the truncation-error
estimate may be any member of `NewHs`, from one step to the next without
relation.  That is far more than a circuit can do, so what holds here holds for
every circuit.  One assumption is about the estimate: it is not below `h_min`
(`EstimateAssumption`).  The tolerance that `estimate_new_timestep` divides by
has a term proportional to 1/h, so its value behaves like the square root of the
step at worst and stays orders of magnitude above `h_min`, which is 1e-9 of the
print step.  Without the assumption the loop would retry one attempt for ever;
this is a limit of the code worth knowing rather than a detail of the model.

`landed`, `accepted`, `lastMethod` and `ordered` are history variables, and
`AcceptedCap` bounds the second.  `parity` is one too: an attempt that leaves the
loop's state as it was would be a stuttering step, and a retry repeated for ever
would escape `RunEnds`; the parity of the attempts makes each one a step.  `odd`
does the same in `OpSolver`.

`TimeMarch` is the contract without step control: time advances, never past
`TStop`, never over a corner more than `MinBreak` away; a completed run has
arrived.  `Transient` implements it with `now <- t, status <- outcome,
breaks <- run.breaks`.  "More than `MinBreak` away" is part of the contract
because the table really does drop what is nearer.

### BreakpointTable, BreakpointSet

`BreakpointTable` is the struct: `times`, `nextIdx`, and its methods as actions
whose results go to `upcoming` and `flagged`.  `BreakpointSet` is the view
`Transient` has of it, a set.  The vector implements the set under
`pending <- {times[i] : i \in nextIdx..Len(times)}`, provided the clock of
successive calls never goes back, which `Transient` guarantees.  The 1e-15
merge of `from_mna` is equality on the grid.

### OpSolver

One action is one attempt, a call of `try_nr`, with what its caller does with the
outcome.  `phase` says whose attempt is next: `direct`, `gmin` and `gminFinal`
(`gmin_stepping`), `newgmin` and `newgminFinal` (`new_gmin_stepping`), `zero`,
`prelim` and `ramp` (`source_stepping`), then `solved` or `failed`.  Outcomes are
`fails` and three speeds of convergence, which is what the adaptive rules look
at.

Conductances and factors are on a log scale (dividing is subtracting, a square
root halves the level); `FactorMin` is the level of 1.00005.  Source factors are
on a linear one with `Full` for 100 %.  `lastGmin` is the memory of the load
closure and `stale` says whether the devices' previous voltages come from a
failed attempt.  `solved` records which circuit the last converged attempt
belonged to (source factor, diagonal shunt, device gmin), and that is what
`SolutionIsTheCircuit` is about.  The floor of 1e-8 on a ramp step lies below the
scale: the ramp stops at `RaiseMin` first.  The decreasing diagonal of the
preliminary ramp is represented by its first value, since nothing depends on it.

### DcSweep

`run_dc_sweep`: a sweep carries the right-hand side `base` it was assembled with;
`rhs` is `mna.system.rhs`, edited in place; `under` is the vector
the inner sweep works from (`original_rhs`, or `rhs_after_src2` in a double
sweep); `prev` is the number of the point that `prev_solution` is from; `results`
has, for every point, the right-hand side it was solved with, its warm start and
how often each kind of line was stamped into its matrix.  `Stamped` is the
assembler's stamp of a source and defines what a point should be; `SetSource` is
what the sweep does instead of assembling again.

### ControlSession

`SimContext` as a script sees it.  A plot has its name (kind and number), what
an analysis wrote into it (which run, and whether that run was paused or
complete) and the vectors that `let` and `measure` put beside it.  An action is
a command; scripts are arbitrary sequences of commands, with `MaxPlots` and
`MaxStops` as bounds.  `Fails` stands for any error: `?` ends the script.
`runs`, `lastTran`, `stops`, `pauses` and `evaluated` are history.

### ControlFlow

The mutual recursion of `execute` and `execute_one` as an explicit call stack.
`Unwind` is what the code does in each caller when an error or an exit code
comes back, one frame per step, including the removal of a script from
`ctx.sourcing`.  Conditions are nondeterministic; counts of `repeat` and
`foreach` are part of the program text.

### DataLemmas and the modules of proofs

`DataLemmas` has the facts the proofs share: what `Front`, `Last` and `Append` do to a
call stack, that a non-empty set of numbers has a least one and a bounded one a greatest,
and that `FlattenSeq` is a join.  The proofs are in
`TransientProofs`, `OpSolverProofs`, `AnalysesProofs` (with `DcSweep`), `ControlProofs`
(`ControlFlow`, `ControlSession` and `NetlistParse`), `AssemblyProofs` (`MnaAssembly` and
`BreakpointTable`), `CirqFrontEndProofs` (with `ImportResolution` and `Elaboration`) and
`SpiceFrontEndProofs` (with `IncludeExpansion` and `SubcktFlattening`).  Two
components of one module of proofs must not share names, hence `SessionSpec` of
`ControlSession`, `ParseSpec` of `NetlistParse` and `AssemblySpec` of `MnaAssembly`.

## 3. Runs

Passing runs, with their bounds and why they are enough.  A property that is the
conjunction of several named ones is one obligation of the code seen from several
sides.

* **netlist_parse** - every file of four lines over nine kinds for the joining
  (comments, blanks, lone backslashes, `.control`), an `.if` and four more lines over
  seven kinds for the conditions, with the parameter set or not, six lines over
  five kinds for nesting and forks: enough for a block in a branch in a block left
  open, and for two analyses with items before, between and after.
  `ContinuationsAttach`, `KeptAsNested`, `ForksAsWritten`.
* **spice_front_end** - libraries three deep in two directories, with lines
  that lead back through `..`; every triple of requests among three included
  files, in diamonds, cycles and cycles that wind through `..`, found in the
  directory of the file that asks, in that of the source or on the search path;
  depth limits of 2
  and 3 (20 and 64 in the code) so that both are reached; subcircuits nested,
  local, recursive, with and without defaults and overrides.  Left out are a library
  section that asks for itself and, beyond the depth limit, a file that is found from
  the wrong directory, both below; `ValuesAsScoped` is about instances whose
  overrides the caller could work out and about expressions that are not copied, `NamesAsScoped`
  about the kinds and places that are mapped.  One of the bodies has the others as well: a switch,
  coupled lines, a waveform, an urc, a behavioral source and a verbatim line.  `TextInPlace`, `VisitingIsOpen`,
  `ValuesAsScoped`, `NamesAsScoped` (models and nets), `ImportEnds`.
* **cirq_front_end** - three files that import one another plainly and by name in
  all combinations, a fourth found on the search path, files that are missing,
  faulty or unreadable; modules that instantiate pairs, wrap one another, call
  themselves directly, mutually and under a condition, with overrides, wrong
  arguments, and names used twice by every kind of element.  `CyclesReported`,
  `MergedAsWritten`, `GuardsAreExact` (`InProgressIsOpen`, `NoRecursion`,
  `ScopeIsOpenBodies`), `PathsUnique`, `ValuesAsScoped`, `InstancesConnected`,
  `CompileEnds`.
* **mna_assembly** - all ordered pairs from a stock that has every arm of the two
  passes, triples of the elements with rows of their own, quadruples of those
  that refer to others by name; names that differ in case; with and without a
  registry of code models.  Nothing in the passes relates more than an element, the one it
  refers to and what shifts the rows between them.  `UnknownsOwned`,
  `ReadersFindRows`, `ControlsReachSource`.
* **analyses** - sweeps up, down, off the grid, of one point, with a zero step and
  with a step of the wrong sign, in both positions, of voltage sources and of current sources
  grounded at either end; up to three analyses of different kinds in every
  order; no, one and two temperatures, also twice the same; three measurements out of seven,
  of plots that exist and do not.  `PointsAreAsked`, `GuessIsNeighbour`,
  `ResultAsDeclared` (`EveryAnalysisRuns`, `InOrder`, `AtItsTemperature`,
  `CompleteHasAll`, `SweepsAsDeclared`, `MeasuresAsDeclared`).  Left out are sweeps of a current
  source inside another, lossy lines, two analyses of one kind and measurements on complex
  plots, all below.
* **op_solver** - all 64 combinations of the settings, a scale on which the factor
  shrinks through several values to its minimum; both branches of the
  preliminary ramp.  `SolutionIsTheCircuit`, `FailsAfterAll`, `StepsBetween`,
  `SolverEnds`.
* **transient** - two families of runs.  Stepping: three methods, with and without
  truncation-error control, with and without lines, corners at 50, 52 and 60
  with `MinBreak` 3, so two nearer than `MinBreak` and one clear of them, with and
  without one at 0.  Pausing: pauses at 0, on a corner, 1 and 3 ticks from one, away from
  all and at `TStop`, recording from 0, 31 and 60.  `TStop` 80 and `HMax` 32 leave
  room to grow from `HInit` = 1 to the cap several times; the estimates 2, 5, 16, 31
  and 70 reach every branch of the growth and rejection rules; `Itl5` = 2 with
  solves of 0 or 3 iterations lets the budget end a run at any solve.
  `PendingCoversFuture`, `LinesInStep`, `SamplesIncrease`, `PauseNotSkipped`,
  `CornersUseBE`, `GearHasHistory`, the refinement `MarchSpec`, and `RunEnds`.
* **breakpoint_table** - tables of up to three entries over ten instants, all
  sequences of calls: enough for an insertion before, between and after, at each
  distance around `MinBreak` = 2.  `ImplementsSet`, `InsertKeepsSeparation`.
* **control_session** - three plots, two stop conditions, two measurement names:
  enough for two transients with another plot between them.  `NamesUnique`,
  `PauseIsOwned` (`PausedPlotExists`, `SnapshotIsLatest`, `StopIsOneShot`).
* **control_flow** - scripts that source each other directly, inside `if`,
  `foreach` and `while`, a missing file, a quit on the last allowed iteration,
  counts from 0 to one above the cap of 3 (10,000 in the code; only the order of
  the tests at the cap matters).  `GuardIsExact` (`SourcingIsOpen`, `NoReentry`),
  `QuitNeverFails`, `EveryScriptEnds`.

The type invariants of the modules are no properties of these runs; those of
`Transient`, `OpSolver`, `Analyses` and `ControlSession` are proved instead.

Two runs end in a counterexample, each against a sentence of the repository
(`findings` in `PROJECT.json` quotes it):

| Run | What the code does |
|---|---|
| mna_recount | the recount leaves out level 2 MOSFETs and BSIM2: branch currents are read, and swept sources written, too early by their inner nodes |
| elab_ports | inside a module, the ports of a nested instance go to the circuit's nets of the same names |

Further statements that do not hold, each with a configuration that shows it
(`tlc -config <cfg> <module>`, the module being the one the configuration is named after, or
`ControlSession` for MCControlSession; where a configuration serves several statements, its first
lines say how to switch):

| Statement | Configuration | What the sources say, and what the code does |
|---|---|---|
| `PointsAreAsked` | MCDcSweep_open | `simulate.rs:684`: "`original_rhs` is the RHS after initial assembly (before any sweep modifications)".  With a current source inside another sweep, the base of the inner sweep still has its last value in it (`simulate.rs:817`); wrong from the second outer step on |
| `LinesStampedOnce` | MCDcSweep_open | `simulate.rs:545`: "Stamp transmission-line DC equations (not in base matrix)".  A sweep puts them there (760), and the load closure adds them again |
| `EveryAnalysisRuns` | MCAnalyses_open | `circuit.rs`: "Runs **every** analysis the circuit declares, in order".  Of two analyses of one kind the first is run twice, for the parameters are looked up by kind |
| `MeasuresReturn` | MCAnalyses_open | `measure.rs:61`: "looks up the matching analysis plot (`tran*`, `dc*`, `ac*`, …)".  A measurement on a complex plot panics (`as_real`) |
| `OverridesApply` | MCSpiceFrontEnd_override | `subckt.rs:16`: "instance params override subcircuit defaults".  An override that names a top-level parameter is evaluated among the callee's own parameters (226), fails, and the default stays |
| `SourcesResolved` | MCSpiceFrontEnd_override | `subckt.rs:749`: "Resolve a Source's expressions".  Its waveform is copied (760), so a parameter of the subcircuit in it stays a name, and the netlist's parameter of that name, or none, takes its place.  The length and lumps of an urc fare alike (670) |
| `ModelsRemapped` | MCSpiceFrontEnd_override | `subckt.rs:682`: "Remap model references in an element if they match a locally-scoped model".  Of switches, lines, urc and XSPICE elements they keep their name (708), while the model is hoisted under the instance's |
| `NodesRemapped` | MCSpiceFrontEnd_override | `subckt.rs:349`: "Remap all node references in an element".  The ground of coupled lines (606) and a verbatim line (673) keep theirs, so an inner net or a port becomes a net of the netlist |
| `UnknownsOwned` | MCMnaAssembly_recount | The passes test a model's resistances differently (`!= 0`, `> 0`) and count the body node of an SOI-FD device differently (1427, 2848): a row is left without an equation or handed out twice |
| `LatchSettled` | MCTransient_latch | `switch.rs:219`: "so the next timestep can read the value the switch settled at".  A rejected attempt leaves the latches as its iterations set them |
| `AttemptsStartClean` | MCOpSolver_memory | `device_stamp.rs:495`: "Called before each NR attempt to prevent state corruption from carrying over between failed attempts".  The closure resets only when gmin changes (`simulate.rs:532`) |
| `ResumeReplacesPausedLeg` | MCControlSession_open | `exec.rs:400`: "The resumed result replaces the paused leg's plot rather than adding a new one".  It replaces whatever plot is current |
| `MeasureBindsItsResult` | MCControlSession_open | `exec.rs:521`: the result is "bound as a control variable named after the measurement".  It is read from the first plot of measurements, so a second `measure` binds the value of the first, or nothing |
| `GlobalsAreShared` | MCElaboration_ports | `docs/cirq-spec/03-circuits-and-modules.md:176`: "All module instances share this net".  Names in an instance are prefixed whether they are global or not |
| `ShadowingAllowed` | MCElaboration_ports | `docs/cirq-spec/05-parameters.md:22`: a module's parameter "shadows top.vdd inside child".  It is refused as a duplicate (`ir_lower.rs:517`) |
| `PlainImportsMerge` | MCImportResolution_mixed | `docs/cirq-spec/03-circuits-and-modules.md:317`: "its top-level declarations (modules, models, functions) are merged".  Not after a named import of the same file, which has recorded it as merged (`resolve.rs:113`) |
| `LibsEnd` (as `ImportEnds`) | MCSpiceFrontEnd with `LibProjects <- SelfLib`, `IncludeProjects <- NoProjects` | `libproc.rs:62`: the depth limit is there to "prevent infinite recursion".  Past it the items are returned as they are, and the caller, which looks at spliced items again, starts over: a section that asks for itself is expanded for ever |

Other places where the modules, following the code, depart from what a comment
or a reader would expect.  They are visible in the definitions and have no
configuration:

* `Return` of `LibExpansion`: the items of a section beyond the depth limit are returned
  as they are and looked at again by the caller, in the caller's directory
  (`libproc.rs:63`, `:108`); a `.lib` line among them means another file, or none, than
  beside its own.  With a file `b` beside `a` in `MCSpiceFrontEnd`, and its limit of 2,
  TLC finds `TextInPlace` violated; in the code it takes more than 20 levels.
* `ItersExhausted`: the iterations of failed solves are not counted against ITL5
  (`transient.rs:1580`; `newton.rs:51-53` speaks of the cumulative count).
* `NextAfter`, `WithPause`: a pause within `min_break` of a corner, or of the
  current time, is not in the table, so the run pauses at the first step after it
  (`transient.rs:1387-1391` says it lands exactly there).
* `Resume` of `Transient`: the snapshot has no `t_start`, so a run paused before `t_start`
  records from the pause on when resumed (`exec.rs:421`).
* `BreakpointTable`'s `Init`: `from_mna` merges only equal times, so entries may be
  closer than `min_break` (`transient.rs:306`; the comment at 328 calls the
  separation an invariant).  `InsertKeepsSeparation` is what `insert` does promise.
* `Steps`: the number of steps is rounded to nearest, so `0 10 4` ends at 12
  (`simulate.rs:674`).
* `LineStamps`: ideal lines of a linear circuit are never stamped in a sweep
  (`simulate.rs:765`).
* `NextTest`: `while` aborts after exactly `MAX_LOOP_ITERS` runs of its body without
  testing the condition again, `repeat` allows that many (`exec.rs:148`).
* `ForksAsWritten`: the netlist of an analysis misses what stands between it and the
  last analysis (`parse.rs:2229`).
* Parameters set inside a subcircuit's body count in the conditions of the top level; a name a
  condition does not know is 0; a comment after a backslash is glued to the
  statement (`parse.rs`).
* `IncludeExpansion`: the filter on the active section is never on, so section markers
  are only dropped (`preprocess.rs:13-16` says otherwise); one section of a file that
  asks for another of the same file is refused as circular.
* Local definitions of subcircuits are found by the calls of whoever calls them
  (`collect_subckt_defs`); references to models of an enclosing subcircuit are not renamed for an
  instance (`ModelRef`: only `Top.models` count); defaults that are no numbers are dropped
  (`Numbers`).
* `urc` elements are entered without looking their names up (`ir_lower.rs:884`), which
  `PathsUnique` makes an exception; two instances of one name whose elements have
  different names are both accepted, and their inner nets are the same.
* Of `F`, `H` and `K` the name of a source means the last one of that name, of a sweep
  the first; `ControlsReachSource` is about circuits whose names are unique.
* Measurements read the first plot of their kind, so under several temperatures the
  first temperature's.

Seen while reading, in code that is not modelled:

* `noise.rs` uses a fixed 300.15 K whatever the circuit's temperature, and takes its gain
  from the AC excitations instead of from the noise source it has looked up.
* The small-signal analyses stamp some of the device classes only (`stamp_ac_devices` and
  `build_jacobian` leave out level 2 and 3 MOSFETs, BSIM1/2, VDMOS, lines, switches and others)
  without saying so.
* `device_stamp.rs:848`: the companion bypass compares with "the values they had at the last
  full evaluation", but those are overwritten on bypassed iterations too, so a reused
  companion may drift without bound; the reset of the voltage memory omits BSIM2.
* `dc temp` (`exec.rs:716-795`) leaves the last temperature in the session's circuit and
  accumulates its step; the command `run` runs the first declared analysis only.

`CHECK_DEADLOCK FALSE` is set where the system may really stop: a script ends, a
front end returns, the solver has an answer, a result is complete.

## 4. Fairness

The program is one thread.  In `Transient` weak fairness is on
`Iteration \/ Complete`: the loop runs while its condition holds.  Nothing obliges
a user to resume, so `Resume` is not fair.  In `OpSolver`, `ControlFlow`,
`CirqFrontEnd` and `SpiceFrontEnd` weak fairness is on `Next`, a call that has
started goes on.  Which outcome an iteration, a solve, a condition or a file has is
never assumed fair: `RunEnds`, `SolverEnds`, `EveryScriptEnds`, `CompileEnds` and
`ImportEnds` hold however the outcomes fall.

## 5. Proofs

`TransientProofs` proves, for all constants that satisfy `StepAssumption`,
`RunAssumption` and `EstimateAssumption`: `TypeCorrect`, `LinesStayInStep`,
`SamplesAlwaysIncrease`, `TableCoversFuture`, `PauseNeverSkipped`,
`CornersAlwaysUseBE`, `GearAlwaysHasHistory` and `Refinement`.

All but the first rest on one inductive invariant, `IInv` (`Invariance`).  None of its
parts is inductive alone.  That samples increase needs `lastSample <= t`.  That corners are
integrated with BE needs `LandedForcesBE`: once a failed attempt has moved the
table past a corner, `force_be` is the only memory of it, and a
truncation-error rejection cannot disturb it, being reached from a trapezoidal
step only.  That Gear has history needs `BootstrapCounts`: the counter only goes
down on steps that are accepted, and the first step is one more.  That a pause
is not skipped needs `PauseAhead`, and completion needs `EndReached`.  The
refinement uses `PendingCoversFuture` together with the clamp of `StepSize`: a
corner that is far enough to be seen is in the table, and the step stops there.

`OpSolverProofs` proves, for all constants that satisfy `LevelAssumption` and
`OptionsAssumption`: `TypeCorrect`, `SolutionsAreOfTheCircuit`,
`StepsStayBetween`, `GivesUpLast`.  Its invariant adds to the types that the
strategies tried so far are those that precede the current phase under the
settings, that the ramp is open exactly while the sources are not at full, and
that a step lies between the target and the last good one.  `FailsAfterAll`
follows from the first, `SolutionIsTheCircuit` from the second: the ramp can end
in `solved` only through an attempt at full sources with no shunt.

`AnalysesProofs` proves, for all circuits that satisfy the typing assumptions of `DcSweep`
and `Analyses`: `DispatcherIsTyped`, `GuessesAreNeighbours`, `SweepsAreComplete`,
`SweepsKeepTheRest` and `ResultsAreAsDeclared`.  The first part is about the sweep, alone and
under the dispatcher: `SweepOK` says that at any time the right-hand side is the one asked for
*but in the rows of the inner source* (`Off`), which is all that can be said between two
points, since `SetSource` overwrites only those rows; the number of results and the two
counters are tied by the division that numbers the points (`DivisionIsUnique`).
`SweepsKeepTheRest` has the hypothesis `VoltageInside`: a voltage source inside, or one
source only.  Without it the statement is false, and MCDcSweep_open.cfg has the
counterexample (a current source inside leaves its last value in the base of the next round).
The second part is about the result: the plots of a finished analysis stay together and none is
from an analysis that has not finished (`BlocksOK`, `PlotsOK`), so the order of the plots is the
order of rounds and declarations.  `ResultsAreAsDeclared` has the hypothesis `Sound`: no two
analyses of one kind, and `VoltageInside` for each sweep; MCAnalyses_open.cfg and
MCDcSweep_open.cfg show what happens otherwise.

`AssemblyProofs` proves, for all circuits that satisfy `CircuitsAssumption`,
`UnknownsStayOwned`, `ReadersStayRight` and `ControlsStayConnected`.  The rows are sums over
lists: what the first pass counts up to an element, what the second has handed out up to one,
what the readers add up over the instances.  A sum is a recursive function, and all that is
needed of it (`TotalOfMore`, `TotalAgrees`, `TotalGrows`) comes from the least index at which
it could fail.  The steps are proved by what they do to the counters (`StepCases`): one that
counts an element, gives it its rows, passes it, refuses, or couples.  Of the invariant
(`AssemblyInvariant`), `FirstPass` says that the counters are the sums over the elements seen,
that these have rows for their nets, and that the map of names holds the position of an
element of that name; `Handing` and `Owners` that the rows given so far are exactly those
from the first to the counter, none twice; `Naming` that the list of names runs along with
the branches; `Wiring` and `Recounting` the same for what instances refer to and for the sum of
`total_num_nodes`.  None of the three theorems holds without a hypothesis, and each hypothesis
names what the code counts twice in different ways:
* `Alike`: negative resistances of GaAs devices are counted but not all handed out, and so is
  the body node of an SOI-FD device whose body is grounded, and a BSIM2 that is dropped leaves
  its nodes behind (MCMnaAssembly_recount.cfg says how to see it);
* `Recounts`: level 2 MOSFETs and BSIM2 have no inner node, which the recount would miss (run
  mna_recount);
* `NamesApart`, for the third: of two elements of one name, the map keeps the last and a sweep
  finds the first.

`MCMnaAssembly` assumes the three of its circuits (`SoundAssumption`), so that TLC evaluates
them on every run.

The same module proves `TableImplementsSet`, the refinement of `BreakpointSet`, and
`PausesKeepSeparation`, for every table, separation and sequence of calls whose clock does not
go back.  The invariant (`Table`) is that the vector is strictly increasing and the cursor is in
it or just after it.  That `insert` puts the new entry where it belongs, and that its two
neighbours are the nearest entries, follow from the increasing order; that the cursor stays
right needs that nothing is inserted behind it.

`ControlProofs` has both halves of the interpreter, and the parser of the netlist.
* `GuardStaysExact`: `ctx.sourcing` is the set of the scripts on the call stack and none is on
  it twice.  Pushing, popping and replacing the top frame change the set of open scripts by the
  top one at most; removing a script on the way out is right only because no other frame has
  the same, which is the second half of the property.
* `QuitStaysClean`, `StopIsFinal`: an exit code and an error exclude each other, and once one is
  there every step is a return that leaves both alone.
* `LoopsAreCapped`: no open `while` has begun its body more than `MaxLoopIters` times.
* `SessionIsTyped`, `AnalysesKeepTheirNames`, `PauseStaysOwned`, for the session.  Names stay
  unique because the counter of a kind is not below any number in use (`PlotsOK`); a pause
  stays owned because only a transient writes a paused plot, and it replaces the snapshot by
  its own or by none (`PauseOK`).
* `ContinuationsStayAttached`, `ForksStayAsWritten` and `LinesStayChosen`, for the parser.  For
  the first, `Lined` says that the lines collected so far are increasing and disjoint and that
  comments stand alone, `Joined` that the line to continue is the last one that is no comment.
  The order of two logical lines is known only when the later is no comment, because the text
  after a comment goes on with the line before it.  For the second, `Keeping` says that the
  lines kept rise through the file and `Shared` that every fork has exactly the items before its
  analysis, which are the first ones, and that a later fork has at least as many: so what the
  last one lacks is what is written after the last analysis, and adding that to each leaves
  every fork in order.  For the third, the reference counts the `.if` and `.endif` between two
  lines and the code keeps a stack: `Stack` says that the blocks around the next line, from the
  outermost, have as many blocks open inside them as there are above them, which is what makes
  an `.endif` close the last one.  `Told` says what the two flags of a block mean (`taken`: it
  and all blocks around it have chosen the branch they are in; `any`: the blocks around it have,
  and one of its tests held), and `Remembered` that the parameters are those of the lines kept.
  The reference is an equation for the set of lines kept, in which a line depends on earlier
  ones only: it has one solution, and needs no recursion.

`CirqFrontEndProofs` proves `GuardsStayExact`, `CyclesStayReported`, `MergesStayAsWritten`,
`PathsStayUnique`, `ValuesStayScoped` and `InstancesStayConnected`.  `ProjectsAssumption` is all
that is assumed of a disk: finitely many files, each with a name.
* Guards and paths, for every project.  The two recursions have the same shape: what the code
  marks by hand is what the frames of the stack stand for (`Marks` for files, `InstancesOK` for
  modules, `Scoped` for parameters).  For the parameters this needs more than their names: a
  frame's saved parameters are those of the frames below it, so that putting them back leaves
  exactly the bodies still open.
* Cycles, for every project of items (`ItemsOfFiles`).  The reference is a closure; the code is a
  depth-first search that goes through a file imported as a whole once and through one imported
  in part as often as it is asked.  First, that as many steps as there are files reach all there
  is (`SpreadCloses`, from cardinalities: each step but the last adds a file).  Then the
  invariant (`ImportsOK`): each call was made by an import of the one before it (`Routed`), so an
  import of an open file closes a cycle; and as long as none has been reported there is a set S
  that holds what has been visited except the open files, holds all it reaches and no file that
  reaches itself, and what an open call imports is in S, still to be read or the next call
  (`Resolved`).  A call that ends puts its file into S.  So skipping a file already merged loses
  no cycle, and at the end all that is reached is in S, which has none.
* Merges, where no file is imported both as a whole and in part (the premise of the property;
  MCImportResolution_mixed.cfg shows why) and every declaration is written in one place
  (`WrittenOnce`).  `MergeOK` says that no export is lost and no declaration read twice
  (`ReadOK`); that what a merged file declares or asks for has been read, is still to be read, or
  is being read by the call it awaits (`Covered`); that what has been read is not ahead any more
  (`Fresh`); and that a bare declaration is in one place among the results of the open calls
  (`Once`).  What a call returns to its caller are the items it has read, each from a place of
  its own, with the contents of the exports asked for: that a join of sequences has exactly one
  place for each is a lemma (`Placed`).
* Values, for every project whose sources are trees (`Syntax`: sets T, I, A close the items of
  files, of bodies and the arguments under containment; the sets of all items reachable from
  the projects do).  `ValuesAsScoped` is far from inductive: a parameter of an instance that
  shadows one of the caller has the wrong value until the error is found.  The invariant
  (`Values`) says that while nothing is reported, the values declared and the overrides that wait
  are those of the text (`Matches`), *unless* a parameter already in scope is still to be
  declared by this body, so that an error is certain (`Live`, `Pending`); and that the same
  holds of every waiting body with what it saved (`Chain`).  How an argument list is bound is a
  recursive function of its length; `BoundSoFar` is shown for every length from the least one
  at which it could fail.
* Connections, for sources that are also `Connectable`: positional arguments before named ones
  (03-circuits-and-modules.md), distinct ports, and no element of a module on a global net.
  The last is needed: MCElaboration_ports.cfg shows that a global net in a module is taken
  for a net of the instance.  The invariant (`Connected`) says that in the circuit and in its own
  instances `netRemap` is the history `bound` of the innermost body (`Wired`), and that the map
  each waiting body saved is its own (`Callers`).  That the code, which counts the ports bound so
  far, finds the port the language gives a positional argument is `ConnectedSoFar`: as long as
  all arguments are positional the ports bound are the first ones (`IndexOfPort`), which
  fails with a named argument before them.  Deeper than one instance `netRemap` holds names of
  the caller's body and the property is false, as the same configuration shows.

`MCCirqFrontEnd` assumes `Syntax`, `Connectable` and `WrittenOnce` of its projects
(`SyntaxAssumption`, `ConnectableAssumption`, `OnceAssumption`), so that TLC evaluates them: no
hypothesis is empty.

`SpiceFrontEndProofs` proves `VisitingStaysOpen`, `IncludesStayInPlace`, `NamesStayScoped` and
`ValuesStayScoped`, for all projects whose files are lines (`SourcesAssumption`) and whose search
directories are paths (`SearchDirsAssumption`).
* Included texts: the paths marked are those of the open calls (`Marks`), and a run which began
  with libraries never opens an include, nor the other way round (`OneWay`).
* What is included.  `IncludesStayInPlace` is the half of `TextInPlace` that is about includes:
  what is written and what the open calls have still to write are the reference together
  (`Awaiting`, an invariant while no error is found and no call is too deep).  The rest of a call
  is what stands for its remaining lines, with one level of nesting less per call (`RestOf`), so
  a line that is written moves from the second to the first, and a call takes the place of the
  line it answers.  The reference reads files where `File` says, the code where the joined
  path says: `..` makes these differ, and a path that comes back is another path.  What they have
  in common is what the next path leads to from either (`FileOfJoin`, `SameDirectory`), as a line
  asks for a file and never for the directory above (`IsLine`).
* Both ways into the flattening (the expanded text, parsed, and the netlist with its libraries
  spliced) keep lines lines and items items (`Sourced`): every body at any depth is one of a set
  that is closed under taking bodies (`Closed`), which is what replaces an induction over texts.
* Names and values.  `FlatOK` says of every open call that its nets lead to inner nets of an
  instance around it or to nets the netlist writes (`NetInside`), that its parameters have the
  values of its scope once the netlist's are filled in, as long as no override was dropped
  (`Agree`), and, for models, that each one an emitted element refers to is in the result or to be
  hoisted by the call that awaits it (`Provided`); of the first call, that it is the netlist
  itself (`FirstOK`).  At the end no call is open, so every model is there.  Overrides are given
  in order and the last of a name counts; `Overridden` is a recursive function of their number,
  and `Said` what it comes to when all of them are numbers.  Where the code drops an override or
  copies an expression, a net or a reference to a model, neither theorem makes a claim:
  `ElementOK`, what the invariant says of an element, has the same exceptions as the properties,
  and the statements without them are refuted (MCSpiceFrontEnd_override.cfg).

Only model-checked:
* the liveness properties: liveness and `ENABLED` are out of the prover's reach;
* `LibsInPlace`, the half of `TextInPlace` that is about libraries: `process_libs` splices
  items, the reference splices text and parses it.  That the two commute needs every section
  to be whole (an open `.subckt` in a section takes in what follows it in the netlist in one
  of them only) and a parser whose nesting is counted over the whole file to be the same on
  its pieces; beyond the depth limit it needs every path to mean the same from the caller's
  directory.  It is not true of every project, and the run shows it for those of
  `MCSpiceFrontEnd`.

## 6. Not modelled

Floating point, device equations, factorisation and convolution: their correctness
is numerical, and this is most of the program's text (the BSIM and SOI models
alone are a quarter of it).  Parsers of single lines, printers, the item-by-item
translation of `import_netlist`, parameter checks of the elements in `ir_lower.rs`:
translation without state of its own.  In the session, `set`, `define`, `save`,
`alter`, `write` and `dc temp`: they change variables, the circuit or files, none of
which the properties here distinguish; analyses that return several plots count as
one there, `Analyses` has them all.  A transient's device charge histories: they are
updated in `Advance` with everything else that an accepted step updates, and no
rejected path touches them.  `PROJECT.json` gives the reason for each component.

## 7. Plan

Built so far: `Transient` with `TimeMarch` (the core of the program), `BreakpointTable`,
`ControlSession`, `ControlFlow`, `OpSolver`, `DcSweep`; then the front ends
(`CirqFrontEnd`, `SpiceFrontEnd`, `NetlistParse`), `MnaAssembly` and `Analyses`.

Proved so far: every safety property a run checks, but the half of `TextInPlace` that is about
libraries.

And models that would follow: `TlineHistory` (the delay buffer of an ideal line and what a
resume loses), `SwitchLatch` (thresholds under accepted and rejected attempts),
`CompanionBypass` (the drift noted above, under `OpSolver`'s attempts), `Waveforms` (corners
enumerated against corners evaluated), `Session` (`ControlFlow` with `ControlSession`,
`dc temp` and `alter`).
