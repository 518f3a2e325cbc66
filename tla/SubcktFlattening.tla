-------------------------- MODULE SubcktFlattening --------------------------
(***************************************************************************)
(* flatten_netlist of thevenin/src/subckt.rs: every X call is replaced by  *)
(* the elements of the subcircuit it names, with their nets mapped, their  *)
(* names prefixed and their parameters substituted.  The recursion of      *)
(* expand_subckt_call is the stack; a frame is one call.                   *)
(*                                                                         *)
(* A dotted name is the sequence of its parts; an expression is a literal  *)
(* or the name of a parameter.                                             *)
(***************************************************************************)
EXTENDS Integers, Sequences, FiniteSets, SpiceText

CONSTANTS Literals,     \* the values of expressions
          MaxNesting    \* MAX_RECURSION_DEPTH

VARIABLES frames,       \* the calls, innermost last; the first is the netlist itself
          flat,         \* flat_items
          failure       \* "" or the SubcktError that ended the work

vars == <<frames, flat, failure>>

\* The places of the items of one kind, their names, and the last item of a name.
Of(items, op) == {i \in DOMAIN items : items[i].op = op}
NamesAt(items, places) == {items[i].name : i \in places}
Latest(items, places, n) == items[Max({i \in places : items[i].name = n})]

\* What f says, and where it says nothing what g says.
Over(f, g) == [x \in DOMAIN f \cup DOMAIN g |-> IF x \in DOMAIN f THEN f[x] ELSE g[x]]
With(map, name, value) == Over([n \in {name} |-> value], map)

\* collect_subckt_defs over the definitions visible to the caller.
DefsWith(defs, items) ==
    LET own == Of(items, "subckt")
    IN  Over([n \in NamesAt(items, own) |-> Latest(items, own, n)], defs)

\* The parameters at these places that are given as numbers.
Numbers(params, places) ==
    LET known == {i \in places : params[i].value \in Literals}
    IN  [n \in NamesAt(params, known) |-> Latest(params, known, n).value]

\* todo is what the call has still to see.  def, scope and sound are history: the
\* body's definition, the values its parameters should have, and whether every
\* parameter on the way here was given a value the caller could work out.
Netlist(items) ==
    [path |-> <<>>, todo |-> items, nodes |-> <<>>, params |-> <<>>,
     defs |-> DefsWith(<<>>, items), models |-> {}, items |-> items,
     globals |-> UNION {ToSet(items[i].nets) : i \in Of(items, "global")},
     scope |-> Numbers(items, Of(items, "param")), sound |-> TRUE]

Init ==
    /\ frames = <<>>
    /\ flat = <<>>
    /\ failure = ""

Begin(items) ==
    /\ frames = <<>>
    /\ frames' = <<Netlist(items)>>
    /\ UNCHANGED <<flat, failure>>

Top == Last(frames)
Item == Head(Top.todo)
Passed == Append(Front(frames), [Top EXCEPT !.todo = Tail(@)])
Sees(op) == frames # <<>> /\ failure = "" /\ Top.todo # <<>> /\ Item.op = op
Inside == Len(frames) > 1

\* remap_node; at the top level nets keep their names.
Remap(net) ==
    IF net = "0" \/ ~ Inside THEN <<net>>
    ELSE IF net \in DOMAIN Top.nodes THEN Top.nodes[net]
    ELSE IF net \in frames[1].globals THEN <<net>>
    ELSE Append(Top.path, net)
RemapAll(nets) == [i \in DOMAIN nets |-> Remap(nets[i])]

\* The places of an element whose nets remap_element copies as they are written: the
\* ground of coupled lines, and all of a line it knows nothing of.
Unmapped(x) ==
    {i \in DOMAIN x.nets : x.kind = "raw" \/ (x.kind = "cpl" /\ i = Len(x.nets))}
Nets(x) ==
    [i \in DOMAIN x.nets |-> IF i \in Unmapped(x) THEN <<x.nets[i]>> ELSE Remap(x.nets[i])]

\* What an expression is worth where params are known: a number is itself, and a
\* name they do not have stays.
Valued(e, params) == IF e \in DOMAIN params \ Literals THEN params[e] ELSE e

\* resolve_expr
Resolved(e) == Valued(e, Top.params)

\* What e should be worth in the body.
Worth(e) == Valued(e, Top.scope)

-----------------------------------------------------------------------------
\* The kinds whose models remap_model_ref looks at.  Switches, lines, urc and XSPICE
\* elements keep the name they have, though the model is hoisted under another.
Renamed == {"resistor", "diode", "bjt", "mosfet", "jfet", "mesa"}

\* remap_model_ref
ModelRef(x) ==
    IF x.kind \in Renamed /\ x.model \in Top.models
    THEN Append(Top.path, x.model) ELSE <<x.model>>

\* The kinds whose expressions remap_element copies: waveforms of sources, length and
\* lumps of an urc, the text of a behavioral source.
Copied == {"waveform", "urc", "behavioral"}
Value(x) == IF x.kind \in Copied THEN x.value ELSE Resolved(x.value)

PlaceElement ==
    /\ Sees("element")
    /\ flat' = Append(flat,
           [op |-> "element", kind |-> Item.kind, path |-> Append(Top.path, Item.name),
            nets |-> Nets(Item), model |-> ModelRef(Item), value |-> Value(Item),
            own |-> Item.model \in Top.models, worth |-> Worth(Item.value), sound |-> Top.sound])
    /\ frames' = Passed
    /\ UNCHANGED failure

\* Models are hoisted under the name of their instance.
HoistModel ==
    /\ Sees("model")
    /\ flat' = Append(flat, [op |-> "model", path |-> Append(Top.path, Item.name)])
    /\ frames' = Passed
    /\ UNCHANGED failure

\* Definitions were collected at the call, and so were a body's parameters; of
\* other lines those of the netlist are kept, which no property looks at.
PassItem ==
    /\ \E op \in {"subckt", "param", "global", "lib", "section", "endl", "include"} : Sees(op)
    /\ frames' = Passed
    /\ UNCHANGED <<flat, failure>>

Callee == Top.defs[Item.model]

\* The three errors of expand_subckt_call, in their order.
FailCall ==
    /\ Sees("call")
    /\ \/ Len(frames) > MaxNesting /\ failure' = "recursion"
       \/ Len(frames) <= MaxNesting /\ Item.model \notin DOMAIN Top.defs /\ failure' = "undefined"
       \/ /\ Len(frames) <= MaxNesting /\ Item.model \in DOMAIN Top.defs
          /\ Len(Item.nets) # Len(Callee.nets)
          /\ failure' = "ports"
    /\ UNCHANGED <<frames, flat>>

\* (mutant: a default is not replaced)
Override_Kept(map, p) ==
    IF p.name \notin DOMAIN map /\ p.value \in Literals THEN With(map, p.name, p.value) ELSE map

\* One instance parameter.  A name is looked up among the parameters of the
\* subcircuit called, and the override is dropped if it is not there.
Override(map, p) ==
    IF p.value \in Literals THEN With(map, p.name, p.value)
    ELSE IF p.value \in DOMAIN map THEN With(map, p.name, map[p.value])
    ELSE map

\* All of them, one after the other.
Overridden(params, given) ==
    LET map[k \in 0..Len(given)] == IF k = 0 THEN params ELSE Override(map[k - 1], given[k])
    IN  map[Len(given)]

\* (mutant: the nets of a nested call are passed as they are written)
CallNets_Raw(nets) == [i \in DOMAIN nets |-> <<nets[i]>>]

CallNets(nets) == RemapAll(nets)

Ports(nets) ==
    LET passed == CallNets(nets)
    IN  [p \in ToSet(Callee.nets) |-> passed[Max({k \in DOMAIN Callee.nets : Callee.nets[k] = p})]]

\* The parameters of the call: defaults, then what the call gives, resolved first
\* with the caller's parameters, then the .param lines of the body.
Given == [i \in DOMAIN Item.params |-> [Item.params[i] EXCEPT !.value = Resolved(@)]]
BodyParams == Of(Callee.body, "param")
BodyNumbers == Numbers(Callee.body, BodyParams)
Defaults == Numbers(Callee.params, DOMAIN Callee.params)
CallParams == Over(BodyNumbers, Overridden(Defaults, Given))

\* The same by the language: what a call says is said where the call is written.
CallScope ==
    LET said == [n \in NamesAt(Item.params, DOMAIN Item.params) |->
                    Worth(Latest(Item.params, DOMAIN Item.params, n).value)]
    IN  Over(BodyNumbers, Over(said, Over(Defaults, frames[1].scope)))
AllNumbers(params, places) == \A i \in places : params[i].value \in Literals

EnterCall ==
    /\ Sees("call")
    /\ Len(frames) <= MaxNesting /\ Item.model \in DOMAIN Top.defs
    /\ Len(Item.nets) = Len(Callee.nets)
    /\ frames' = Append(Passed,
           [path |-> Append(Top.path, Item.name), todo |-> Callee.body,
            nodes |-> Ports(Item.nets), params |-> CallParams,
            defs |-> DefsWith(Top.defs, Callee.body),
            models |-> NamesAt(Callee.body, Of(Callee.body, "model")), items |-> Callee.body,
            globals |-> {}, scope |-> CallScope,
            sound |-> /\ Top.sound /\ AllNumbers(Callee.params, DOMAIN Callee.params)
                      /\ AllNumbers(Callee.body, BodyParams) /\ AllNumbers(Given, DOMAIN Given)])
    /\ UNCHANGED <<flat, failure>>

\* (mutant: the call does not return)
Returned_Not(stack) == stack

Returned(stack) == Front(stack)

LeaveCall ==
    /\ Inside /\ failure = "" /\ Top.todo = <<>>
    /\ frames' = Returned(frames)
    /\ UNCHANGED <<flat, failure>>

Flatten == PlaceElement \/ HoistModel \/ PassItem \/ FailCall \/ EnterCall \/ LeaveCall

-----------------------------------------------------------------------------
Finished == failure # "" \/ (Len(frames) = 1 /\ Top.todo = <<>>)
Succeeded == Finished /\ failure = ""

Elements == {flat[i] : i \in {j \in DOMAIN flat : flat[j].op = "element"}}
Models == {flat[i].path : i \in {j \in DOMAIN flat : flat[j].op = "model"}}

\* The importer resolves what names are left with the parameters of the netlist.
Final(e) == Valued(e, frames[1].scope)

\* The value of every element, at any depth, is the one its innermost instance
\* gives it: the instance's, else the default of the subcircuit it is an instance of,
\* else the netlist's; where every override could be worked out by the caller, and but
\* for the kinds whose expressions are copied.
ValuesAsScoped ==
    \A e \in Elements : e.sound /\ e.kind \notin Copied => Final(e.value) = e.worth

\* An element of a kind that remap_model_ref looks at refers to the model its own body
\* defines, hoisted from that very instance, and any element elsewhere to one of the
\* netlist's.
ModelsAsScoped ==
    Succeeded => \A e \in Elements :
        /\ e.own /\ e.kind \in Renamed => e.model \in Models /\ Front(e.model) = Front(e.path)
        /\ ~ e.own => Len(e.model) = 1

\* An inner net of an instance is on elements of that instance only, and no inner
\* net of a body becomes a net of the netlist that the netlist does not write; but for
\* the places that are copied.
Written == (UNION {ToSet(item.nets) : item \in ToSet(frames[1].items)}) \cup {"0"}
IsInside(n, e) == IF Len(n) = 1 THEN n[1] \in Written ELSE IsPrefix(Front(n), e.path)
NetsStayInside ==
    \A e \in Elements : \A i \in DOMAIN e.nets \ Unmapped(e) : IsInside(e.nets[i], e)

\* Four sentences of subckt.rs that do not hold of it.

\* "Instance params override subcircuit defaults".
OverridesApply == \A e \in Elements : e.kind \notin Copied => Final(e.value) = e.worth

\* "Resolve a Source's expressions."  Not those of its waveform.
SourcesResolved ==
    \A e \in Elements : e.sound /\ e.kind \in {"source", "waveform"} => Final(e.value) = e.worth

\* "Remap model references in an element if they match a locally-scoped model."  Not
\* those of the kinds that are not in Renamed.
ModelsRemapped == Succeeded => \A e \in Elements : e.own => e.model \in Models

\* "Remap all node references in an element."  Not those of Unmapped.
NodesRemapped == \A e \in Elements : \A i \in DOMAIN e.nets : IsInside(e.nets[i], e)
=============================================================================
