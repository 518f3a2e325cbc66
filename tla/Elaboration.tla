---------------------------- MODULE Elaboration ----------------------------
(***************************************************************************)
(* How cirq-frontend/src/ir_lower.rs flattens a circuit: module bodies are *)
(* lowered in place, under a hierarchical prefix, in a context whose name  *)
(* maps are swapped at each instance and put back after it.  The recursion *)
(* of lower_circuit_body_prefixed is the stack; a frame is one call.       *)
(*                                                                         *)
(* A dotted name is the sequence of its parts.  An expression is a literal *)
(* or the name of a parameter; a bus line is a net like any other.         *)
(***************************************************************************)
EXTENDS Integers, Sequences, FiniteSets, SequencesExt

CONSTANTS Sources,    \* the inputs: sequences of top-level declarations
          Literals,   \* the values of expressions
          False       \* the literal a condition takes for false

VARIABLES moduleDefs,   \* module_defs
          stack,        \* the calls of lower_circuit_body_prefixed, innermost last
          instStack,    \* module_inst_stack
          netRemap,     \* net_remap: port -> the name the caller wrote
          params,       \* param_values
          overrides,    \* param_overrides
          globals,      \* the nets marked is_global
          models,       \* the names of model_by_name
          elements,     \* the elements pushed, in order
          diags         \* the kinds of error reported

context == <<netRemap, params, overrides>>
vars == <<moduleDefs, stack, instStack, context, globals, models, elements, diags>>

NoNames == [n \in {} |-> <<>>]
Only(f, S) == [x \in DOMAIN f \cap S |-> f[x]]
With(f, n, value) == [x \in DOMAIN f \cup {n} |-> IF x = n THEN value ELSE f[x]]

\* todo is what collect_pass1 has still to see, flat what it deferred to pass 2,
\* saved the caller's context.  Three fields are history: own, the parameters
\* declared here; bound, the nets the ports stand for; and scope, the values the
\* parameters should have.
Frame(prefix, body, saved, bound, scope) ==
    [prefix |-> prefix, todo |-> body, flat |-> <<>>, saved |-> saved,
     own |-> {}, bound |-> bound, scope |-> scope]

Top == Last(stack)
Replace(frame) == Append(Front(stack), frame)
Report(kind) == diags' = diags \cup {kind}

Init ==
    /\ moduleDefs = NoNames
    /\ stack = <<>>
    /\ instStack = <<>>
    /\ netRemap = NoNames
    /\ params = NoNames
    /\ overrides = NoNames
    /\ globals = {"gnd"}
    /\ models = {}
    /\ elements = <<>>
    /\ diags = {}

\* The top-level declarations of one kind, and their names.
OfKind(source, kind) ==
    {i \in DOMAIN source : source[i].op = "declare" /\ source[i].kind = kind}
Named(source, kind) == {source[i].name : i \in OfKind(source, kind)}

\* The declaration of name n that is left in the table.
LastOf(source, kind, n) ==
    source[CHOOSE i \in OfKind(source, kind) :
              /\ source[i].name = n
              /\ \A j \in OfKind(source, kind) : source[j].name = n => j <= i]

FirstBody(source) ==
    LET circuits == OfKind(source, "circuit")
    IN  IF circuits = {} THEN <<>>
        ELSE source[CHOOSE i \in circuits : \A j \in circuits : i <= j].body

\* lower_to_ir_with_languages: the top-level models and modules are registered,
\* then the body of the first circuit is lowered.
Begin(source) ==
    LET cards == OfKind(source, "model")
    IN  /\ stack = <<>>
        /\ moduleDefs' = [n \in Named(source, "module") |-> LastOf(source, "module", n).def]
        /\ models' = Named(source, "model")
        /\ diags' = (IF \E i, j \in cards : i # j /\ source[i].name = source[j].name
                     THEN {"model"} ELSE {})
                    \cup (IF OfKind(source, "circuit") = {} THEN {"circuit"} ELSE {})
        /\ stack' = <<Frame(<<>>, FirstBody(source), <<>>, NoNames, NoNames)>>
        /\ UNCHANGED <<instStack, context, globals, elements>>

-----------------------------------------------------------------------------
\* Expressions and names.

Evaluates(e) == e \in Literals \cup DOMAIN params
Eval(e) == IF e \in Literals THEN e ELSE params[e]

\* (mutant: a port's name is looked up in the instance's own scope)
Resolve_Prefixed(n) ==
    IF n = "gnd" THEN <<"gnd">>
    ELSE IF n \in DOMAIN netRemap THEN Append(Top.prefix, netRemap[n])
    ELSE Append(Top.prefix, n)

\* resolve_net_name_prefixed
Resolve(n) ==
    IF n = "gnd" THEN <<"gnd">>
    ELSE IF n \in DOMAIN netRemap THEN <<netRemap[n]>>
    ELSE Append(Top.prefix, n)

\* What the language says n stands for in the innermost instance.
Meaning(n) ==
    IF n = "gnd" THEN <<"gnd">>
    ELSE IF n \in DOMAIN Top.bound THEN Top.bound[n]
    ELSE IF n \in globals THEN <<n>>
    ELSE Append(Top.prefix, n)

\* What e should be worth there.
Worth(e) == IF e \in Literals THEN e ELSE Top.scope[e]

-----------------------------------------------------------------------------
\* Pass 1, collect_pass1: declarations, in source order.

InPass1 == stack # <<>> /\ Top.todo # <<>>
Item == Head(Top.todo)
Seen(frame) == [frame EXCEPT !.todo = Tail(@), !.flat = Append(@, Item)]

Declares(op) == InPass1 /\ Item.op = op

\* A value is given to a parameter of this body; should is what the language
\* gives it.
Bind(value, should) ==
    /\ params' = With(params, Item.name, value)
    /\ stack' = Replace([Seen(Top) EXCEPT !.own = @ \cup {Item.name},
                                          !.scope = With(@, Item.name, should)])

\* What a parameter not declared yet should be: what the instance says, or its default.
Wanted == IF Item.name \in DOMAIN Top.scope THEN Top.scope[Item.name] ELSE Worth(Item.value)

\* (mutant: a parameter that has a default keeps it)
IsOverridden_OnlyRequired(n) == n \in DOMAIN overrides /\ Item.value = ""

\* param_overrides.remove(name) is Some
IsOverridden(n) == n \in DOMAIN overrides

\* lower_param: duplicate, overridden, defaulted or left open.
DeclareParam ==
    /\ Declares("param")
    /\ IF Item.name \in DOMAIN params
       THEN /\ Report("duplicate")
            /\ stack' = Replace(Seen(Top))
            /\ UNCHANGED context
       ELSE IF IsOverridden(Item.name)
       THEN /\ Bind(overrides[Item.name], Wanted)
            /\ overrides' = Only(overrides, DOMAIN overrides \ {Item.name})
            /\ UNCHANGED <<netRemap, diags>>
       ELSE IF Evaluates(Item.value)
       THEN Bind(Eval(Item.value), Wanted) /\ UNCHANGED <<netRemap, overrides, diags>>
       ELSE /\ IF Item.value = "" THEN UNCHANGED diags ELSE Report("undefined")
            /\ stack' = Replace(Seen(Top))
            /\ UNCHANGED context
    /\ UNCHANGED <<moduleDefs, instStack, globals, models, elements>>

\* lower_let: like a parameter that no instance can override.
DeclareLet ==
    /\ Declares("let")
    /\ IF Item.name \notin DOMAIN params /\ Evaluates(Item.value)
       THEN Bind(Eval(Item.value), Worth(Item.value)) /\ UNCHANGED diags
       ELSE /\ Report(IF Item.name \in DOMAIN params THEN "duplicate" ELSE "undefined")
            /\ stack' = Replace(Seen(Top))
            /\ UNCHANGED params
    /\ UNCHANGED <<moduleDefs, instStack, netRemap, overrides, globals, models, elements>>

\* lower_model_def: model names are one table for the whole circuit.
DefineModel ==
    /\ Declares("model")
    /\ IF Item.name \in models
       THEN Report("model") /\ UNCHANGED models
       ELSE models' = models \cup {Item.name} /\ UNCHANGED diags
    /\ stack' = Replace(Seen(Top))
    /\ UNCHANGED <<moduleDefs, instStack, context, globals, elements>>

\* intern_net(name, true): the net of that name is marked.
DeclareGlobal ==
    /\ Declares("global")
    /\ globals' = globals \cup {Item.name}
    /\ stack' = Replace(Seen(Top))
    /\ UNCHANGED <<moduleDefs, instStack, context, models, elements, diags>>

\* An inline module takes its name from then on, in every body.
DefineModule ==
    /\ Declares("module")
    /\ moduleDefs' = With(moduleDefs, Item.name, Item.def)
    /\ stack' = Replace(Seen(Top))
    /\ UNCHANGED <<instStack, context, globals, models, elements, diags>>

\* resolve_conditional_branch: the branch is spliced in, and its declarations are
\* made, before the items that follow.
TakeBranch ==
    /\ Declares("if")
    /\ LET rest(branch) == Replace([Top EXCEPT !.todo = branch \o Tail(@)])
       IN  IF Evaluates(Item.value)
           THEN /\ stack' = rest(IF Eval(Item.value) # False THEN Item.then ELSE Item.other)
                /\ UNCHANGED diags
           ELSE stack' = rest(<<>>) /\ Report("condition")
    /\ UNCHANGED <<moduleDefs, instStack, context, globals, models, elements>>

\* Elements and instances wait for pass 2.
Defer ==
    /\ \E op \in {"element", "urc", "instance"} : Declares(op)
    /\ stack' = Replace(Seen(Top))
    /\ UNCHANGED <<moduleDefs, instStack, context, globals, models, elements, diags>>

-----------------------------------------------------------------------------
\* Pass 2: elements and instances.

InPass2 == stack # <<>> /\ Top.todo = <<>> /\ Top.flat # <<>>
Next2 == Head(Top.flat)
Done2(frame) == [frame EXCEPT !.flat = Tail(@)]
Lowers(op) == InPass2 /\ Next2.op = op

Path == Append(Top.prefix, Next2.name)
Taken == {elements[i].path : i \in DOMAIN elements}

\* Already handled in pass 1.
SkipDeclaration ==
    /\ \E op \in {"param", "let", "model", "global", "module"} : Lowers(op)
    /\ stack' = Replace(Done2(Top))
    /\ UNCHANGED <<moduleDefs, instStack, context, globals, models, elements, diags>>

\* (mutant: the unprefixed name is looked up)
IsTaken_Local == <<Next2.name>> \in Taken

\* element_by_name.contains_key
IsTaken == Path \in Taken

\* An element with the nets it is connected to and those its body means; one of them
\* may be the inner net of a urc line.
Placed(path, written, inner) ==
    [path |-> path, depth |-> Len(Top.prefix), written |-> written, urc |-> inner # 0,
     nets  |-> [i \in DOMAIN written |-> IF i = inner THEN Path \o <<"m">> ELSE Resolve(written[i])],
     meant |-> [i \in DOMAIN written |-> IF i = inner THEN Path \o <<"m">> ELSE Meaning(written[i])],
     value |-> IF Evaluates(Next2.value) THEN Eval(Next2.value) ELSE "",
     worth |-> IF Evaluates(Next2.value) THEN Worth(Next2.value) ELSE ""]

\* lower_element_prefixed: an element is pushed although its model or its value is
\* an error.
PlaceElement ==
    /\ Lowers("element")
    /\ IF IsTaken
       THEN Report("element") /\ UNCHANGED elements
       ELSE /\ elements' = Append(elements, Placed(Path, Next2.nets, 0))
            /\ diags' = diags \cup (IF Evaluates(Next2.value) THEN {} ELSE {"undefined"})
                              \cup (IF Next2.model \in models \cup {""} THEN {} ELSE {"model"})
    /\ stack' = Replace(Done2(Top))
    /\ UNCHANGED <<moduleDefs, instStack, context, globals, models>>

\* lower_urc_element: the line becomes two resistors around an inner net; its own
\* name is never entered.
PlaceUrc ==
    /\ Lowers("urc")
    /\ IF IsTaken \/ ~ Evaluates(Next2.value)
       THEN Report(IF IsTaken THEN "element" ELSE "undefined") /\ UNCHANGED elements
       ELSE /\ elements' = elements \o
                  <<Placed(Append(Path, "rlo"), <<Next2.nets[1], "m">>, 2),
                    Placed(Append(Path, "rhi"), <<"m", Next2.nets[2]>>, 1)>>
            /\ UNCHANGED diags
    /\ stack' = Replace(Done2(Top))
    /\ UNCHANGED <<moduleDefs, instStack, context, globals, models>>

Def == moduleDefs[Next2.module]
ParamNames(def) == {def.body[i].name : i \in {j \in DOMAIN def.body : def.body[j].op = "param"}}

\* Overrides are evaluated in the caller's scope.
OverrideValue(e) == Eval(e)

\* One argument of an instance; a positional one has no name and goes to the port
\* whose index is the number of ports bound so far.
Argument(bindings, arg) ==
    LET port(p) == [bindings EXCEPT !.ports = With(@, p, arg.value)]
        index == Cardinality(DOMAIN bindings.ports) + 1
    IN  IF arg.name = ""
        THEN IF index <= Len(Def.ports) THEN port(Def.ports[index])
             ELSE [bindings EXCEPT !.bad = TRUE]
        ELSE IF arg.name \in ToSet(Def.ports) THEN port(arg.name)
        ELSE IF arg.name \in ParamNames(Def) /\ Evaluates(arg.value)
        THEN [bindings EXCEPT !.params = With(@, arg.name, OverrideValue(arg.value))]
        ELSE [bindings EXCEPT !.bad = TRUE]

\* What is bound after k arguments.
Bound[k \in 0..Len(Next2.args)] ==
    IF k = 0 THEN [ports |-> NoNames, params |-> NoNames, bad |-> FALSE]
    ELSE Argument(Bound[k - 1], Next2.args[k])

Bindings == Bound[Len(Next2.args)]

\* The same by the language: the k-th positional argument is for the k-th port, a named one
\* for the port or parameter of its name, and what it says is said in the instantiating
\* body.  Of several for one name the last counts.
Positional(k) ==
    {i \in DOMAIN Next2.args :
        Next2.args[i].name = "" /\ Cardinality({j \in 1..i : Next2.args[j].name = ""}) = k}
Given(n) == {i \in DOMAIN Next2.args : Next2.args[i].name = n}
Said(n) == Next2.args[CHOOSE i \in Given(n) : \A j \in Given(n) : j <= i].value
For(k) == Positional(k) \cup Given(Def.ports[k])
PortNet(k) == Next2.args[CHOOSE i \in For(k) : \A j \in For(k) : j <= i].value
MeantPorts ==
    LET bound == {k \in DOMAIN Def.ports : For(k) # {}}
    IN  [p \in {Def.ports[k] : k \in bound} |->
            Meaning(PortNet(CHOOSE k \in bound : Def.ports[k] = p))]
MeantParams ==
    {p \in ParamNames(Def) \ (ToSet(Def.ports) \cup {""}) :
        Given(p) # {} /\ Evaluates(Said(p))}
MeantScope ==
    [p \in MeantParams \cup DOMAIN Top.scope |->
        IF p \in MeantParams THEN Worth(Said(p)) ELSE Top.scope[p]]

\* module_inst_stack.contains
IsOpen(m) == \E i \in DOMAIN instStack : instStack[i] = m

\* (mutant: the refused instance is looked at again)
Skipped_Not(frame) == frame

Skipped(frame) == Done2(frame)

\* The early returns of lower_local_module_inst and its caller, in their order.
RefuseInstance ==
    /\ Lowers("instance")
    /\ \/ IsTaken /\ Report("element")
       \/ ~ IsTaken /\ Next2.module \notin DOMAIN moduleDefs /\ Report("module")
       \/ ~ IsTaken /\ Next2.module \in DOMAIN moduleDefs /\ IsOpen(Next2.module)
          /\ Report("recursive")
    /\ stack' = Replace(Skipped(Top))
    /\ UNCHANGED <<moduleDefs, instStack, context, globals, models, elements>>

\* The ports and overrides of this instance replace those of the enclosing one;
\* its parameters stay visible.
Swap(bindings) ==
    /\ netRemap' = bindings.ports
    /\ overrides' = bindings.params
    /\ UNCHANGED params

\* lower_local_module_inst (and its twin lower_module_inst): the body is lowered
\* under the instance's prefix.
Instantiate ==
    /\ Lowers("instance")
    /\ ~ IsTaken /\ Next2.module \in DOMAIN moduleDefs /\ ~ IsOpen(Next2.module)
    /\ Swap(Bindings)
    /\ IF Bindings.bad THEN Report("argument") ELSE UNCHANGED diags
    /\ instStack' = Append(instStack, Next2.module)
    /\ stack' = Append(Replace(Done2(Top)),
                       Frame(Path, Def.body, context, MeantPorts, MeantScope))
    /\ UNCHANGED <<moduleDefs, globals, models, elements>>

Restore(saved) == netRemap' = saved[1] /\ params' = saved[2] /\ overrides' = saved[3]

\* The body of an instance is done.
Return ==
    /\ Len(stack) > 1 /\ Top.todo = <<>> /\ Top.flat = <<>>
    /\ Restore(Top.saved)
    /\ instStack' = Front(instStack)
    /\ stack' = Front(stack)
    /\ UNCHANGED <<moduleDefs, globals, models, elements, diags>>

Lower ==
    \/ DeclareParam \/ DeclareLet \/ DefineModel \/ DeclareGlobal \/ DefineModule \/ TakeBranch
    \/ Defer
    \/ SkipDeclaration \/ PlaceElement \/ PlaceUrc \/ RefuseInstance \/ Instantiate
    \/ Return

Next == Lower \/ \E source \in Sources : Begin(source)

Spec == Init /\ [][Next]_vars

\* Lowering is one thread that runs to the end.
FairSpec == Spec /\ WF_vars(Next)

-----------------------------------------------------------------------------
Finished == Len(stack) = 1 /\ Top.todo = <<>> /\ Top.flat = <<>>
Accepted == Finished /\ diags = {}

Diagnostics == {"duplicate", "undefined", "model", "condition", "element", "module",
                "recursive", "argument", "circuit"}
IsName(n) == Len(n) > 0

TypeOK ==
    /\ Len(instStack) = (IF stack = <<>> THEN 0 ELSE Len(stack) - 1)
    /\ ToSet(instStack) \subseteq DOMAIN moduleDefs
    /\ \A n \in DOMAIN params : params[n] \in Literals
    /\ \A n \in DOMAIN overrides : overrides[n] \in Literals
    /\ \A i \in DOMAIN elements :
          /\ elements[i].value \in Literals \cup {""}
          /\ \A k \in DOMAIN elements[i].nets : IsName(elements[i].nets[k])
    /\ diags \subseteq Diagnostics

\* The parameters in scope are those of the bodies being lowered, so that none of
\* an instance outlives it, however the bodies nest (lower_module_inst: "must not
\* leak to outer scope or collide across multiple instantiations").
ScopeIsOpenBodies == DOMAIN params = UNION {stack[i].own : i \in DOMAIN stack}

\* No module is instantiated inside itself, through other modules or under a
\* conditional.
NoRecursion == \A i, j \in DOMAIN instStack : instStack[i] = instStack[j] => i = j

\* No element takes a name that the flat circuit has, whatever instances are called
\* and in whatever order they come; the resistors of a urc line are entered without
\* being looked up.
PathsUnique ==
    \A i, j \in DOMAIN elements :
        i < j /\ elements[i].path = elements[j].path => elements[j].urc

\* In an accepted circuit every element has the value its body's scope gives it:
\* an override, evaluated where the instance is written, else the default, else
\* what the instantiating bodies declare.
ValuesAsScoped ==
    Accepted => \A i \in DOMAIN elements : elements[i].value = elements[i].worth

\* In an accepted circuit elements of the circuit and of its own instances are
\* connected to the nets their bodies name: ports to the caller's nets, other
\* names to nets of the instance.
InstancesConnected ==
    Accepted => \A i \in DOMAIN elements :
        elements[i].depth <= 1 => elements[i].nets = elements[i].meant

\* Lowering ends, whatever modules instantiate each other.
LoweringEnds == <>Finished

-----------------------------------------------------------------------------
\* lower_module_inst: "Map module ports to caller nets", at every depth.
ConnectedAsWritten ==
    Accepted => \A i \in DOMAIN elements : elements[i].nets = elements[i].meant

\* 03-circuits-and-modules.md: "All module instances share this net".
GlobalsAreShared ==
    Accepted => \A i \in DOMAIN elements : \A k \in DOMAIN elements[i].nets :
        elements[i].written[k] \in globals => elements[i].nets[k] = <<elements[i].written[k]>>

\* 05-parameters.md: a parameter of a module "shadows" one of the circuit, so a name
\* is a duplicate in its own body only.
ShadowingAllowed ==
    [][stack # <<>> /\ "duplicate" \in diags' \ diags => Item.name \in Top.own]_vars
=============================================================================
