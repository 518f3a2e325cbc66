----------------------------- MODULE CirqSyntax -----------------------------
(***************************************************************************)
(* The items of Cirq sources, as Elaboration and ImportResolution take     *)
(* them: an item has all the fields, the ones of its kind set.             *)
(***************************************************************************)
EXTENDS Sequences

Blank(op, name) == [op |-> op, name |-> name, value |-> "", def |-> <<>>, then |-> <<>>,
                    other |-> <<>>, nets |-> <<>>, model |-> "", module |-> "", args |-> <<>>]

param(n, e) == [Blank("param", n) EXCEPT !.value = e]
let(n, e) == [Blank("let", n) EXCEPT !.value = e]
model(n) == Blank("model", n)
global(n) == Blank("global", n)
module(n, def) == [Blank("module", n) EXCEPT !.def = def]
cond(e, then, other) == [Blank("if", "") EXCEPT !.value = e, !.then = then, !.other = other]
element(n, nets, e, m) == [Blank("element", n) EXCEPT !.nets = nets, !.value = e, !.model = m]
R(n, nets, e) == element(n, nets, e, "")
urc(n, nets, e) == [Blank("urc", n) EXCEPT !.nets = nets, !.value = e]
inst(n, m, args) == [Blank("instance", n) EXCEPT !.module = m, !.args = args]
at(net) == [name |-> "", value |-> net]
arg(n, v) == [name |-> n, value |-> v]

Body(ports, body) == [ports |-> ports, body |-> body]

\* Top-level declarations.
Circuit(n, body) == [op |-> "declare", kind |-> "circuit", name |-> n, body |-> body]
Module(n, def) == [op |-> "declare", kind |-> "module", name |-> n, def |-> def]
Card(n) == [op |-> "declare", kind |-> "model", name |-> n, device |-> "diode"]
CardOf(n, d) == [op |-> "declare", kind |-> "model", name |-> n, device |-> d]
Import(path) == [op |-> "import", path |-> path, names |-> {}]
ImportNames(names, path) == [op |-> "import", path |-> path, names |-> names]
Export(n, items) == [op |-> "export", name |-> n, items |-> items]
File(state, items) == [state |-> state, items |-> items]
=============================================================================
