---------------------------- MODULE MnaAssembly -----------------------------
(***************************************************************************)
(* stamp_circuit of thevenin/src/mna_ir.rs: a circuit becomes a linear     *)
(* system.  The unknowns are the voltages of the nodes, of the nodes       *)
(* inside devices, and the currents of the branches, in this order.  A     *)
(* first pass over the elements counts them, a second one hands their      *)
(* rows out and stamps, a third one couples inductors.  Whoever reads the  *)
(* solution counts the nodes once more (MnaSystem::total_num_nodes).       *)
(***************************************************************************)
EXTENDS Integers, Sequences, FiniteSets, SequencesExt

CONSTANTS Circuits,   \* [elements : Seq(Element), registry : BOOLEAN]
          Ground,     \* the net "0"
          Lower       \* to_lowercase, on the names of the circuits

\* An element has a kind, a name, its nets, the values r of the resistances of its
\* model and instance (only the sign is kept), the names refs of the elements it
\* names, the width of a coupled line, the ports of a code model (TRUE: one with a
\* branch of its own), and known: the model it names is there and can be built.

VARIABLES circuit,
          phase,          \* "index", "stamp", "couple", then "done" or "error"
          at,             \* the element a pass is at
          nodes,          \* node_map: the nets in the order of their rows
          vsourceCount, internalCount, offsets,         \* what the first pass counts
          vsourceIdx, internalIdx, vsourceNames,        \* what the second hands out
          instances,      \* what the solver and the writers read
          couplings       \* mutual_couplings

counts == <<vsourceCount, internalCount, offsets>>
handed == <<vsourceIdx, internalIdx, vsourceNames, instances>>
assemblyVars == <<circuit, phase, at, nodes, counts, handed, couplings>>

ASSUME CircuitsAssumption ==
    \A c \in Circuits :
        /\ c.registry \in BOOLEAN
        /\ c.elements \in Seq(ToSet(c.elements))
        /\ \A e \in ToSet(c.elements) :
              /\ e.nodes \in Seq(ToSet(e.nodes)) /\ e.ports \in Seq(BOOLEAN)
              /\ IsFiniteSet(DOMAIN e.r) /\ \A n \in DOMAIN e.r : e.r[n] \in Int
              /\ e.width \in Nat
              /\ e.name \in DOMAIN Lower

ASSUME LowerAssumption ==
    \A n \in DOMAIN Lower : Lower[n] \in DOMAIN Lower /\ Lower[Lower[n]] = Lower[n]

None == -1
Element == circuit.elements[at]
AtElement(pass, kinds) ==
    phase = pass /\ at <= Len(circuit.elements) /\ Element.kind \in kinds

Plain == {"R", "C", "I", "G", "BI", "S"}      \* neither a branch nor a node inside
Named == {"V", "L", "E", "H", "BV"}           \* one branch, under the element's name
Controlled == {"F", "H", "W"}                 \* names the source whose current it senses
Lines == {"O", "Y", "T", "P"}                 \* LTRA, TXL, ideal and coupled lines
-----------------------------------------------------------------------------
(* Nodes inside a device.                                                  *)

Positive(e, names) == {n \in names \cap DOMAIN e.r : e.r[n] > 0}
Nonzero(e, names) == {n \in names \cap DOMAIN e.r : e.r[n] # 0}

\* Devices whose nodes come with the resistances of their model, and these.
GaAs == {"mesfet", "hfet", "mesa"}
Modelled == {"diode", "bjt", "jfet", "vdmos", "mos1", "mos2", "mos3", "mos6", "hisim"} \cup GaAs
RdRs == {"rd", "rs"}
Gates == {"rg", "rf", "ri"}
ModelR(kind) ==
    CASE kind = "diode" -> {"rs"}
      [] kind = "bjt" -> {"rb", "rc", "re"}
      [] kind = "vdmos" -> RdRs \cup {"rg"}
      [] kind \in {"hfet", "mesa"} -> RdRs \cup Gates
      [] OTHER -> RdRs
VbicR == {"rcx", "rbx", "re", "rs", "rth"}

\* Devices whose drain and source resistances are a sheet resistance times squares.
Soi == {"soiDD", "soiPD", "soiFD"}
Sheet == {"bsim1", "bsim2", "bsim3", "bsim4"} \cup Soi
HasSquares(e, n) == IF n \in DOMAIN e.r THEN e.r[n] > 0 ELSE e.kind = "bsim1"
SheetNodes(e) ==
    {n \in {"nrd", "nrs"} :
        \/ Positive(e, {"rsh"}) # {} /\ HasSquares(e, n)
        \/ e.kind = "bsim4" /\ Nonzero(e, {"rdsmod"}) # {}}

Devices == Modelled \cup Sheet \cup {"vbic"}

HasBody(e) == Len(e.nodes) = 5
Row(net) == IF net \in ToSet(nodes) THEN (CHOOSE k \in DOMAIN nodes : nodes[k] = net) - 1
            ELSE None

\* internal_node_count of the model, as the first pass asks for it
Reserved(e) ==
    CASE e.kind \in GaAs -> Cardinality(Nonzero(e, ModelR(e.kind)))
      [] e.kind = "vbic" -> 3 + Cardinality(Positive(e, VbicR))
      [] e.kind \in {"soiDD", "soiPD"} -> 1 + Cardinality(SheetNodes(e))
      [] e.kind = "soiFD" -> (IF HasBody(e) THEN 1 ELSE 0) + Cardinality(SheetNodes(e))
      [] e.kind \in Sheet \ Soi -> Cardinality(SheetNodes(e))
      [] OTHER -> Cardinality(Positive(e, ModelR(e.kind)))

\* The nodes the second pass hands out.
SoiNodes(e) ==
    SheetNodes(e) \cup
    IF e.kind = "soiFD" /\ (~ HasBody(e) \/ Row(e.nodes[5]) = None) THEN {} ELSE {"body"}

VbicNodes_NotThermal(e) == {"ci", "bi", "bp"} \cup Positive(e, {"rcx", "rbx", "re", "rs"})

VbicNodes(e) == {"ci", "bi", "bp"} \cup Positive(e, VbicR)

HfetNodes(e) == Nonzero(e, RdRs) \cup Positive(e, Gates)
MetalNodes(e) == Positive(e, ModelR(e.kind))      \* MESFET and MESA
ModelNodes(e) == Positive(e, ModelR(e.kind))      \* diode, BJT, JFET and MOS levels
Inside(e) ==
    CASE e.kind = "vbic" -> VbicNodes(e)
      [] e.kind = "hfet" -> HfetNodes(e)
      [] e.kind \in GaAs \ {"hfet"} -> MetalNodes(e)
      [] e.kind \in Soi -> SoiNodes(e)
      [] e.kind \in Sheet \ Soi -> SheetNodes(e)
      [] OTHER -> ModelNodes(e)

\* The elements whose model the two passes read alike.
Countable(e) ==
    /\ e.kind \in GaAs =>
          \A n \in DOMAIN e.r : e.r[n] >= 0 \/ (e.kind = "hfet" /\ n \in RdRs)
    /\ e.kind = "soiFD" /\ HasBody(e) => e.nodes[5] # Ground
    /\ e.kind = "bsim2" /\ ~ e.known => SheetNodes(e) = {}
-----------------------------------------------------------------------------
(* First pass.                                                             *)

AssemblyInit ==
    /\ circuit \in Circuits
    /\ phase = "index" /\ at = 1
    /\ nodes = <<>>
    /\ vsourceCount = 0 /\ internalCount = 0 /\ offsets = <<>>
    /\ vsourceIdx = 0 /\ internalIdx = 0 /\ vsourceNames = <<>> /\ instances = <<>>
    /\ couplings = <<>>

\* NodeMap::index: a net gets the next row when it is first seen, the ground none.
Indexed(e, ks) ==
    LET seen[k \in 0..Len(e.nodes)] ==
            IF k = 0 THEN nodes
            ELSE IF k \notin ks \/ e.nodes[k] \in {Ground} \cup ToSet(seen[k - 1]) THEN seen[k - 1]
            ELSE Append(seen[k - 1], e.nodes[k])
    IN  seen[Len(e.nodes)]

\* A code model has no use for connections beyond its ports.
Connected(e) == DOMAIN e.nodes \cap (IF e.kind = "A" THEN DOMAIN e.ports ELSE DOMAIN e.nodes)

IndexNets ==
    /\ nodes' = Indexed(Element, Connected(Element))
    /\ at' = at + 1
    /\ UNCHANGED <<circuit, phase, handed, couplings>>

IndexPlain ==
    /\ AtElement("index", Plain \cup {"F", "W"})
    /\ IndexNets /\ UNCHANGED counts

IndexNamed_Late ==
    /\ AtElement("index", Named)
    /\ IndexNets
    /\ offsets' = [n \in DOMAIN offsets \cup {Lower[Element.name]} |->
                      IF n = Lower[Element.name] THEN vsourceCount + 1 ELSE offsets[n]]
    /\ vsourceCount' = vsourceCount + 1
    /\ UNCHANGED internalCount

\* The map from names to branches keeps the last element of a name.
IndexNamed ==
    /\ AtElement("index", Named)
    /\ IndexNets
    /\ offsets' = [n \in DOMAIN offsets \cup {Lower[Element.name]} |->
                      IF n = Lower[Element.name] THEN vsourceCount ELSE offsets[n]]
    /\ vsourceCount' = vsourceCount + 1
    /\ UNCHANGED internalCount

IndexLine ==
    /\ AtElement("index", Lines)
    /\ IndexNets
    /\ vsourceCount' = vsourceCount + 2 * Element.width
    /\ UNCHANGED <<internalCount, offsets>>

OwnPorts(e) == {p \in DOMAIN e.ports : e.ports[p]}
HasCode == circuit.registry /\ Element.known
IndexXspice ==
    /\ AtElement("index", {"A"}) /\ HasCode
    /\ IndexNets
    /\ vsourceCount' = vsourceCount + Cardinality(OwnPorts(Element))
    /\ UNCHANGED <<internalCount, offsets>>

IndexDevice ==
    /\ AtElement("index", Devices)
    /\ IndexNets
    /\ internalCount' = internalCount + Reserved(Element)
    /\ UNCHANGED <<vsourceCount, offsets>>

\* The branches begin after the nodes the first pass has counted.
NNodes == Len(nodes) + internalCount
Dim == NNodes + vsourceCount

StartStamping ==
    /\ phase = "index" /\ at > Len(circuit.elements)
    /\ phase' = "stamp" /\ at' = 1
    /\ internalIdx' = Len(nodes)
    /\ UNCHANGED <<circuit, nodes, counts, vsourceIdx, vsourceNames, instances, couplings>>
-----------------------------------------------------------------------------
(* Second pass.                                                            *)

Consecutive(from, n) == [k \in 1..n |-> from + k - 1]

\* What an element leaves behind; the names of its branches go to vsource_names.
Stamped(inside, branches, names, controls) ==
    /\ instances' = Append(instances,
           [element |-> Element, terminals |-> [k \in Connected(Element) |-> Row(Element.nodes[k])],
            inside |-> inside, branches |-> branches, controls |-> controls])
    /\ vsourceNames' = vsourceNames \o names
    /\ vsourceIdx' = vsourceIdx + Len(names)
    /\ internalIdx' = internalIdx + Len(inside)
    /\ at' = at + 1
    /\ UNCHANGED <<circuit, phase, nodes, counts, couplings>>

Refuse ==
    /\ phase' = "error"
    /\ UNCHANGED <<circuit, at, nodes, counts, handed, couplings>>

StampPlain ==
    /\ AtElement("stamp", Plain)
    /\ Stamped(<<>>, <<>>, <<>>, <<>>)

OwnName == <<Element.name>>
StampNamed ==
    /\ AtElement("stamp", Named \ Controlled)
    /\ Stamped(<<>>, <<NNodes + vsourceIdx>>, <<OwnName>>, <<>>)

\* F, H and W find the branch they sense in the map of the first pass.
Refers(e) == \A k \in DOMAIN e.refs : Lower[e.refs[k]] \in DOMAIN offsets
Referred(e) == [k \in DOMAIN e.refs |-> NNodes + offsets[Lower[e.refs[k]]]]

StampControlled ==
    /\ AtElement("stamp", Controlled) /\ Refers(Element)
    /\ IF Element.kind = "H"
       THEN Stamped(<<>>, <<NNodes + vsourceIdx>>, <<OwnName>>, Referred(Element))
       ELSE Stamped(<<>>, <<>>, <<>>, Referred(Element))

RefuseControlled ==
    /\ AtElement("stamp", Controlled) /\ ~ Refers(Element)
    /\ Refuse

\* Lines remember their branches counted from the first branch, not from row 0.
LineNames(e) ==
    [k \in 1..(2 * e.width) |->
        <<Lower[e.name], IF k <= e.width THEN "branch1" ELSE "branch2", (k - 1) % e.width>>]
StampLine ==
    /\ AtElement("stamp", Lines) /\ Element.known
    /\ Stamped(<<>>, Consecutive(vsourceIdx, 2 * Element.width), LineNames(Element), <<>>)

RefuseLine ==
    /\ AtElement("stamp", Lines) /\ ~ Element.known
    /\ Refuse

PortNames(e) ==
    [k \in 1..Cardinality(OwnPorts(e)) |->
        <<e.name, CHOOSE p \in OwnPorts(e) : Cardinality({q \in OwnPorts(e) : q <= p}) = k>>]
Complete(e) == e.known /\ Len(e.nodes) >= Len(e.ports)

StampXspice ==
    /\ AtElement("stamp", {"A"}) /\ circuit.registry /\ Complete(Element)
    /\ Stamped(<<>>, Consecutive(NNodes + vsourceIdx, Cardinality(OwnPorts(Element))),
               PortNames(Element), <<>>)

RefuseXspice ==
    /\ AtElement("stamp", {"A"}) /\ circuit.registry /\ ~ Complete(Element)
    /\ Refuse

StampDevice ==
    /\ AtElement("stamp", Devices)
    /\ Element.kind # "bsim2" \/ Element.known
    /\ Stamped(Consecutive(internalIdx, Cardinality(Inside(Element))), <<>>, <<>>, <<>>)

\* A BSIM2 transistor whose effective size is no size leaves its nodes and no instance.
DropDevice ==
    /\ AtElement("stamp", Devices)
    /\ Element.kind = "bsim2" /\ ~ Element.known
    /\ internalIdx' = internalIdx + Cardinality(Inside(Element))
    /\ at' = at + 1
    /\ UNCHANGED <<circuit, phase, nodes, counts, vsourceIdx, vsourceNames, instances, couplings>>

StartCoupling ==
    /\ phase = "stamp" /\ at > Len(circuit.elements)
    /\ phase' = "couple" /\ at' = 1
    /\ UNCHANGED <<circuit, nodes, counts, handed, couplings>>
-----------------------------------------------------------------------------
(* Third pass.                                                             *)

\* What a pass has nothing to do with: K belongs to the third one alone, code models
\* need a registry, and the first pass leaves the unknown ones to the second to report.
Pass ==
    /\ \/ AtElement("index", {"K"}) \/ AtElement("stamp", {"K"})
       \/ AtElement("index", {"A"}) /\ ~ HasCode
       \/ AtElement("stamp", {"A"}) /\ ~ circuit.registry
       \/ phase = "couple" /\ at <= Len(circuit.elements) /\ Element.kind # "K"
    /\ at' = at + 1
    /\ UNCHANGED <<circuit, phase, nodes, counts, handed, couplings>>

IsInductor(row) ==
    \E i \in DOMAIN instances :
        instances[i].element.kind = "L" /\ instances[i].branches = <<row>>
CanCouple(e) == Refers(e) /\ \A k \in DOMAIN e.refs : IsInductor(Referred(e)[k])

Couple ==
    /\ AtElement("couple", {"K"}) /\ CanCouple(Element)
    /\ couplings' = Append(couplings, [element |-> Element, rows |-> Referred(Element)])
    /\ at' = at + 1
    /\ UNCHANGED <<circuit, phase, nodes, counts, handed>>

RefuseCoupling ==
    /\ AtElement("couple", {"K"}) /\ ~ CanCouple(Element)
    /\ Refuse

Return ==
    /\ phase = "couple" /\ at > Len(circuit.elements)
    /\ phase' = "done"
    /\ UNCHANGED <<circuit, at, nodes, counts, handed, couplings>>

Index == IndexPlain \/ IndexNamed \/ IndexLine \/ IndexXspice \/ IndexDevice
Stamp ==
    \/ StampPlain \/ StampNamed \/ StampControlled \/ RefuseControlled
    \/ StampLine \/ RefuseLine \/ StampXspice \/ RefuseXspice
    \/ StampDevice \/ DropDevice
AssemblyNext == Index \/ StartStamping \/ Stamp \/ StartCoupling
                \/ Pass \/ Couple \/ RefuseCoupling \/ Return

AssemblySpec == AssemblyInit /\ [][AssemblyNext]_assemblyVars
-----------------------------------------------------------------------------
(* What the readers of the solution go by.                                 *)

\* total_num_nodes: of some devices the rows they hold are counted, some are not in
\* the sum, and the others are asked for their model's count again.
Held == {"diode", "bsim3", "bsim4"} \cup Soi
Unread == {"mos2", "bsim2"}

Recounted_NoHisim(inst) ==
    CASE inst.element.kind \in Held -> Len(inst.inside)
      [] inst.element.kind \in Devices \ (Held \cup Unread \cup {"hisim"}) ->
             Reserved(inst.element)
      [] OTHER -> 0

Recounted(inst) ==
    CASE inst.element.kind \in Held -> Len(inst.inside)
      [] inst.element.kind \in Devices \ (Held \cup Unread) -> Reserved(inst.element)
      [] OTHER -> 0

Total(f, n) ==
    LET sum[k \in 0..n] == IF k = 0 THEN 0 ELSE sum[k - 1] + f[k]
    IN  sum[n]

TotalNumNodes ==
    Len(nodes) + Total([i \in DOMAIN instances |-> Recounted(instances[i])], Len(instances))

\* The devices the sum leaves out have no node inside.
Recountable(e) ==
    /\ e.kind = "mos2" => Positive(e, ModelR("mos2")) = {}
    /\ e.kind = "bsim2" => SheetNodes(e) = {}

\* Where op, ac, dc and tran read the i-th branch current from.
ReadRow(i) == TotalNumNodes + i - 1

\* The rows an instance stamps: those it was given, or its offsets from the recount.
UsedRows(inst) ==
    IF inst.element.kind \in Lines
    THEN [k \in DOMAIN inst.branches |-> TotalNumNodes + inst.branches[k]]
    ELSE inst.branches

\* find_sweep_source: the first branch with the name, whatever its case
SweepRow(name) ==
    LET found == {b \in DOMAIN vsourceNames :
                     Len(vsourceNames[b]) = 1 /\ Lower[vsourceNames[b][1]] = Lower[name]}
    IN  ReadRow(CHOOSE b \in found : \A c \in found : b <= c)
-----------------------------------------------------------------------------
Branch(inst, k) == inst.branches[k] + IF inst.element.kind \in Lines THEN NNodes ELSE 0

\* Every unknown has one owner: the rows are the nets, then the nodes inside devices,
\* then the branches; none is handed out twice, none is left without an equation, and
\* no pass runs over what the first one counted.
OwnersApart ==
    \A i, j \in DOMAIN instances :
        /\ \A k \in DOMAIN instances[i].inside : \A l \in DOMAIN instances[j].inside :
              instances[i].inside[k] = instances[j].inside[l] => i = j /\ k = l
        /\ \A k \in DOMAIN instances[i].branches : \A l \in DOMAIN instances[j].branches :
              Branch(instances[i], k) = Branch(instances[j], l) => i = j /\ k = l
OwnersInBounds ==
    \A i \in DOMAIN instances :
        /\ \A k \in DOMAIN instances[i].inside :
              instances[i].inside[k] \in Len(nodes)..(NNodes - 1)
        /\ \A k \in DOMAIN instances[i].branches :
              Branch(instances[i], k) \in NNodes..(Dim - 1)
NoneLeft ==
    \A row \in Len(nodes)..(Dim - 1) :
        \E i \in DOMAIN instances :
            \/ \E k \in DOMAIN instances[i].inside : instances[i].inside[k] = row
            \/ \E k \in DOMAIN instances[i].branches : Branch(instances[i], k) = row
UnknownsOwned ==
    /\ phase = "stamp" => internalIdx <= NNodes /\ vsourceIdx <= vsourceCount
    /\ OwnersApart /\ OwnersInBounds
    /\ phase = "done" => NoneLeft

\* The solution is read where it was written: the current printed under a branch's
\* name is the unknown its element stamped, lines stamp the rows they were given, and
\* a terminal is the row of its net.
ReadersFindRows ==
    phase = "done" =>
        /\ \A i \in DOMAIN instances : \A k \in DOMAIN instances[i].branches :
              \E b \in DOMAIN vsourceNames :
                 /\ ReadRow(b) = UsedRows(instances[i])[k]
                 /\ ReadRow(b) = NNodes + b - 1
                 /\ Lower[vsourceNames[b][1]] = Lower[instances[i].element.name]
        /\ \A i \in DOMAIN instances :
              \A k \in DOMAIN instances[i].terminals :
                 instances[i].element.nodes[k] # Ground =>
                     /\ instances[i].terminals[k] \in 0..(Len(nodes) - 1)
                     /\ nodes[instances[i].terminals[k] + 1] = instances[i].element.nodes[k]

\* A current-controlled element senses the branch of the element it names, a K couples
\* two inductors it names, and a sweep of that name moves the same row, if no two
\* elements share a name up to case.
NamesApart(c) ==
    \A i, j \in DOMAIN c.elements : Lower[c.elements[i].name] = Lower[c.elements[j].name] => i = j
Sensed(refs, rows) ==
    \A k \in DOMAIN refs :
        /\ \E i \in DOMAIN instances :
              /\ Lower[instances[i].element.name] = Lower[refs[k]]
              /\ rows[k] \in ToSet(instances[i].branches)
        /\ SweepRow(refs[k]) = rows[k]
ControlsReachSource ==
    phase = "done" =>
        /\ \A i \in DOMAIN instances :
              instances[i].element.kind \in Controlled =>
                  Sensed(instances[i].element.refs, instances[i].controls)
        /\ \A c \in DOMAIN couplings : Sensed(couplings[c].element.refs, couplings[c].rows)
=============================================================================
