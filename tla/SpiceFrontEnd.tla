--------------------------- MODULE SpiceFrontEnd ----------------------------
(***************************************************************************)
(* The two ways a SPICE netlist becomes a flat circuit.  "libs" is the way *)
(* of thevenin/tests/harness.rs: parse, process_libs (LibExpansion),       *)
(* resolve_netlist_exprs, import_netlist.  "includes" is import_spice of   *)
(* cirq-spice-import: preprocess_includes (IncludeExpansion), parse,       *)
(* import_netlist.  import_netlist begins with flatten_netlist             *)
(* (SubcktFlattening).                                                     *)
(***************************************************************************)
EXTENDS Integers, Sequences, SpiceText

CONSTANTS LibProjects, IncludeProjects,     \* the inputs of either way
          SearchDirs, MaxLibDepth, MaxIncludeDepth, Literals, MaxNesting

ASSUME LimitsAssumption ==
    MaxLibDepth \in Nat /\ MaxIncludeDepth \in Nat /\ MaxNesting \in Nat

\* The files of a project are lines.
ASSUME SourcesAssumption ==
    \A p \in LibProjects \cup IncludeProjects :
        IsSource(p.root) /\ \A f \in DOMAIN p.files : IsSource(p.files[f])

\* Directories are sequences.
ASSUME SearchDirsAssumption ==
    IsSequence(SearchDirs) /\ \A k \in DOMAIN SearchDirs : IsSequence(SearchDirs[k])

VARIABLES project, calls, libError,                     \* process_libs
          texts, visiting, out, includeError,           \* preprocess_includes
          frames, flat, failure,                        \* flatten_netlist
          result      \* "" while working, then what the importer returns

Libs == INSTANCE LibExpansion
            WITH Projects <- LibProjects, MaxDepth <- MaxLibDepth, error <- libError
Includes == INSTANCE IncludeExpansion
            WITH Projects <- IncludeProjects, MaxDepth <- MaxIncludeDepth, error <- includeError
Calls == INSTANCE SubcktFlattening

libVars == <<calls, libError>>
includeVars == <<texts, visiting, out, includeError>>
flatVars == <<frames, flat, failure>>
vars == <<project, libVars, includeVars, flatVars, result>>

\* One of the two expanders works on the project, the other has nothing to do.
Init ==
    /\ \/ Libs!Init /\ texts = <<>> /\ visiting = {} /\ out = <<>> /\ includeError = ""
       \/ Includes!Init /\ calls = <<>> /\ libError = ""
    /\ Calls!Init
    /\ result = ""

ByLibs == calls # <<>>
ExpandLibs ==
    /\ ByLibs /\ Libs!Expand
    /\ UNCHANGED <<includeVars, flatVars, result>>

ExpandIncludes ==
    /\ ~ ByLibs /\ Includes!Expand
    /\ UNCHANGED <<libVars, flatVars, result>>

Expanded == IF ByLibs THEN Libs!Finished ELSE Includes!Finished
HasError == libError # "" \/ includeError # ""

\* resolve_netlist_exprs: what names a .param of the netlist becomes its value, on
\* the netlist's own lines.
Known(items) == Calls!Numbers(items, Calls!Of(items, "param"))
WithValue(x, known) == [x EXCEPT !.value = Calls!Valued(@, known)]
ResolveExprs(items) ==
    [i \in DOMAIN items |->
        IF items[i].op \in {"element", "call"}
        THEN [WithValue(items[i], Known(items)) EXCEPT
                 !.params = [k \in DOMAIN @ |-> WithValue(@[k], Known(items))]]
        ELSE items[i]]

Refuse ==
    /\ Expanded /\ HasError /\ result = ""
    /\ result' = "refused"
    /\ UNCHANGED <<project, libVars, includeVars, flatVars>>

StartFlattening ==
    /\ Expanded /\ ~ HasError
    /\ \E items \in {IF ByLibs THEN ResolveExprs(Libs!Output) ELSE Parsed(Includes!Output)} :
          Calls!Begin(items)
    /\ UNCHANGED <<project, libVars, includeVars, result>>

FlattenNetlist ==
    /\ Calls!Flatten
    /\ UNCHANGED <<project, libVars, includeVars, result>>

Return ==
    /\ frames # <<>> /\ Calls!Finished /\ result = ""
    /\ result' = IF failure = "" THEN "circuit" ELSE "failed"
    /\ UNCHANGED <<project, libVars, includeVars, flatVars>>

Next == ExpandLibs \/ ExpandIncludes \/ Refuse \/ StartFlattening \/ FlattenNetlist \/ Return

Spec == Init /\ [][Next]_vars

\* The importer is one thread that runs until it returns.
FairSpec == Spec /\ WF_vars(Next)

-----------------------------------------------------------------------------
\* In either way the text that a line asks for comes in the place of that line, at
\* every depth (process_libs, preprocess_includes).
LibsInPlace == ByLibs => Libs!SplicedInPlace
IncludesInPlace == ~ ByLibs => Includes!IncludedInPlace
TextInPlace == LibsInPlace /\ IncludesInPlace

\* The guard against cycles of includes.
VisitingIsOpen == ByLibs \/ Includes!VisitingIsOpen

\* Values, models and nets of the elements of subcircuits at any depth are those
\* of their instances, for the kinds and places that flattening maps.
ValuesAsScoped == Calls!ValuesAsScoped
NamesAsScoped == frames # <<>> => Calls!ModelsAsScoped /\ Calls!NetsStayInside

\* import_spice and the libs way return, whatever files include and subcircuits call
\* each other; with the one exception of a library section that asks for itself,
\* which LibProjects leaves out (see LibsEnd).
ImportEnds == <>(result # "")

\* Four sentences of subckt.rs that the code does not keep.
OverridesApply == Calls!OverridesApply      \* "instance params override subcircuit defaults"
SourcesResolved == Calls!SourcesResolved    \* "Resolve a Source's expressions."
ModelsRemapped == Calls!ModelsRemapped      \* "Remap model references in an element ..."
NodesRemapped == Calls!NodesRemapped        \* "Remap all node references in an element."
=============================================================================
