---------------------------- MODULE NetlistParse ----------------------------
(***************************************************************************)
(* Netlist::parse of thevenin-types/src/parse.rs: physical lines are       *)
(* joined to logical ones (preprocess), .if blocks choose among those      *)
(* (process_conditionals), and the items left are shared out: each         *)
(* analysis command makes a netlist of its own (parse).                    *)
(*                                                                         *)
(* A physical line has a shape, by which it is joined, and a word, what it *)
(* says; words are                                                         *)
(*   item, analysis, subckt, ends, end: a line of that kind                *)
(*   param: .param name=value;  if, elseif: a test of name against value   *)
(*   else, endif                                                           *)
(* A line of a file is known by its index.  What is joined to a line adds   *)
(* nothing to what it says, and the lines of a .control block are items.    *)
(***************************************************************************)
EXTENDS Integers, Sequences, FiniteSets, SequencesExt

CONSTANT Sources    \* files: sequences of [shape, slash, word, name, value]

\* bare: a "\\" and nothing else; slash: the line ends in a "\\".
Shapes == {"text", "plus", "comment", "blank", "bare", "control", "endc"}

VARIABLES source,
          phase,        \* "join", "choose", "parse", then "done" or "empty"
          at,           \* the line of this phase looked at next
          logical,      \* the logical lines: the indices of their pieces
          attach,       \* last_noncomment: where a continuation goes, 0 for nowhere
          pending,      \* pending_backslash
          inControl,    \* in_control
          blocks,       \* the open .if blocks: [taken, any]
          params,       \* the parameters conditions see
          kept,         \* the logical lines left by process_conditionals
          depth,        \* the .subckt definitions open
          items,        \* the netlist's items so far: top-level logical lines
          forks         \* the netlists: [items, analysis]

joinVars == <<logical, attach, pending, inControl>>
chooseVars == <<blocks, params, kept>>
parseVars == <<depth, items, forks>>
parserVars == <<source, phase, at, joinVars, chooseVars, parseVars>>

ParseInit ==
    /\ source \in Sources
    /\ phase = "join"
    /\ at = 1
    /\ logical = <<>> /\ attach = 0 /\ pending = FALSE /\ inControl = FALSE
    /\ blocks = <<>> /\ params = <<>> /\ kept = <<>>
    /\ depth = 0 /\ items = <<>> /\ forks = <<>>

-----------------------------------------------------------------------------
\* preprocess: one physical line at a time.

Physical == source[at]
Joins == phase = "join" /\ at <= Len(source)
NewLine == logical' = Append(logical, <<at>>)
Glue == logical' = [logical EXCEPT ![attach] = Append(@, at)]
JoinStep == at' = at + 1 /\ UNCHANGED <<source, phase, chooseVars, parseVars>>

\* In a .control block lines are passed on as they are, up to .endc.
PassControl ==
    /\ Joins /\ (inControl \/ Physical.shape = "control")
    /\ NewLine
    /\ inControl' = (Physical.shape = "control" \/ (inControl /\ Physical.shape # "endc"))
    /\ attach' = IF Physical.shape \in {"control", "endc"} THEN Len(logical) + 1 ELSE attach
    /\ pending' = FALSE
    /\ JoinStep

Outside == Joins /\ ~ inControl /\ Physical.shape # "control"

SkipBlank ==
    /\ Outside /\ Physical.shape = "blank"
    /\ UNCHANGED joinVars
    /\ JoinStep

\* The line before ended in "\": this one goes on it, whatever it is.
GlueBackslash ==
    /\ Outside /\ Physical.shape # "blank" /\ pending
    /\ IF attach # 0 /\ Physical.shape # "bare" THEN Glue ELSE UNCHANGED logical
    /\ pending' = Physical.slash
    /\ UNCHANGED <<attach, inControl>>
    /\ JoinStep

\* A line of a "\" only.
Bare ==
    /\ Outside /\ Physical.shape = "bare" /\ ~ pending
    /\ pending' = TRUE
    /\ UNCHANGED <<logical, attach, inControl>>
    /\ JoinStep

\* A "+" line goes on the last line that is no comment; before any it is dropped.
GluePlus ==
    /\ Outside /\ Physical.shape = "plus" /\ ~ pending
    /\ IF attach # 0 THEN Glue ELSE UNCHANGED logical
    /\ pending' = Physical.slash
    /\ UNCHANGED <<attach, inControl>>
    /\ JoinStep

\* (mutant: a comment is a line to go on)
AfterComment_Attaches == Len(logical) + 1

AfterComment == attach

Comment ==
    /\ Outside /\ Physical.shape = "comment" /\ ~ pending
    /\ NewLine
    /\ attach' = AfterComment
    /\ UNCHANGED <<pending, inControl>>
    /\ JoinStep

StartLine ==
    /\ Outside /\ Physical.shape \in {"text", "endc"} /\ ~ pending
    /\ NewLine
    /\ attach' = Len(logical) + 1
    /\ pending' = Physical.slash
    /\ UNCHANGED inControl
    /\ JoinStep

EndJoin ==
    /\ phase = "join" /\ at > Len(source)
    /\ phase' = "choose" /\ at' = 1
    /\ UNCHANGED <<source, joinVars, chooseVars, parseVars>>

-----------------------------------------------------------------------------
\* process_conditionals: one logical line at a time.

LineOf(n) == source[logical[n][1]]
Chooses(word) == phase = "choose" /\ at <= Len(logical) /\ LineOf(at).word = word
ChooseStep == at' = at + 1 /\ UNCHANGED <<source, phase, joinVars, parseVars>>

AllTaken(open) == \A k \in DOMAIN open : open[k].taken
Active == AllTaken(blocks)

\* eval_condition: a name no .param has given a value is 0.
Holds(line) == (IF line.name \in DOMAIN params THEN params[line.name] ELSE 0) = line.value

\* Stray .elseif and .else are dropped.
SetLast(block) ==
    IF blocks = <<>> THEN UNCHANGED blocks ELSE blocks' = Append(Front(blocks), block)

OpenBlock ==
    /\ Chooses("if")
    /\ LET taken == Active /\ Holds(LineOf(at))
       IN  blocks' = Append(blocks, [taken |-> taken, any |-> taken])
    /\ UNCHANGED <<params, kept>>
    /\ ChooseStep

\* (mutant: a second branch of a block may be taken)
MayTake_Again == blocks # <<>> /\ AllTaken(Front(blocks))

\* parent_active and not any_taken
MayTake == blocks # <<>> /\ ~ Last(blocks).any /\ AllTaken(Front(blocks))

Branch(taken) == [taken |-> taken, any |-> Last(blocks).any \/ taken]

ElseIf ==
    /\ Chooses("elseif")
    /\ SetLast(Branch(MayTake /\ Holds(LineOf(at))))
    /\ UNCHANGED <<params, kept>>
    /\ ChooseStep

Else ==
    /\ Chooses("else")
    /\ SetLast(Branch(MayTake))
    /\ UNCHANGED <<params, kept>>
    /\ ChooseStep

EndIf ==
    /\ Chooses("endif")
    /\ blocks' = IF blocks = <<>> THEN <<>> ELSE Front(blocks)
    /\ UNCHANGED <<params, kept>>
    /\ ChooseStep

With(map, name, value) ==
    [n \in DOMAIN map \cup {name} |-> IF n = name THEN value ELSE map[n]]

Ordinary == {"item", "param", "analysis", "subckt", "ends", "end"}

KeepLine ==
    /\ \E word \in Ordinary : Chooses(word)
    /\ kept' = IF Active THEN Append(kept, at) ELSE kept
    /\ params' = IF Active /\ LineOf(at).word = "param"
                 THEN With(params, LineOf(at).name, LineOf(at).value) ELSE params
    /\ UNCHANGED blocks
    /\ ChooseStep

\* The first line left is the title.
EndChoose ==
    /\ phase = "choose" /\ at > Len(logical)
    /\ phase' = "parse" /\ at' = 2
    /\ UNCHANGED <<source, joinVars, chooseVars, parseVars>>

-----------------------------------------------------------------------------
\* parse: one logical line at a time; a .subckt holds the lines up to its .ends.

Word == LineOf(kept[at]).word
ParseEnds == at \in DOMAIN kept => depth = 0 /\ Word = "end"
Parses == phase = "parse" /\ ~ ParseEnds
ParseStep == at' = at + 1 /\ UNCHANGED <<source, phase, joinVars, chooseVars>>

AddItem ==
    /\ Parses /\ depth = 0 /\ Word \in {"item", "param", "ends", "subckt"}
    /\ items' = Append(items, kept[at])
    /\ depth' = IF Word = "subckt" THEN 1 ELSE 0
    /\ UNCHANGED forks
    /\ ParseStep

\* Lines of a body; an analysis there is ignored.
AddToBody ==
    /\ Parses /\ depth > 0
    /\ depth' = CASE Word = "subckt" -> depth + 1 [] Word = "ends" -> depth - 1 [] OTHER -> depth
    /\ UNCHANGED <<items, forks>>
    /\ ParseStep

Fork ==
    /\ Parses /\ depth = 0 /\ Word = "analysis"
    /\ forks' = Append(forks, [items |-> items, analysis |-> kept[at]])
    /\ UNCHANGED <<depth, items>>
    /\ ParseStep

\* (mutant: what the first netlist lacks is added to each)
Trailing_First == SubSeq(items, Len(Head(forks).items) + 1, Len(items))

Trailing == SubSeq(items, Len(Last(forks).items) + 1, Len(items))

\* ParseError::Empty
RefuseEmpty ==
    /\ phase = "parse" /\ kept = <<>>
    /\ phase' = "empty"
    /\ UNCHANGED <<source, at, joinVars, chooseVars, parseVars>>

\* What follows the last analysis is added to every netlist; without an analysis
\* there is one netlist, for .op.
Finish ==
    /\ phase = "parse" /\ kept # <<>> /\ ParseEnds
    /\ phase' = "done"
    /\ forks' = IF forks = <<>> THEN <<[items |-> items, analysis |-> 0]>>
                ELSE [k \in DOMAIN forks |-> [forks[k] EXCEPT !.items = @ \o Trailing]]
    /\ UNCHANGED <<source, at, joinVars, chooseVars, depth, items>>

ParseNext ==
    \/ PassControl \/ SkipBlank \/ GlueBackslash \/ Bare \/ GluePlus \/ Comment \/ StartLine \/ EndJoin
    \/ OpenBlock \/ ElseIf \/ Else \/ EndIf \/ KeepLine \/ EndChoose
    \/ AddItem \/ AddToBody \/ Fork \/ RefuseEmpty \/ Finish

ParseSpec == ParseInit /\ [][ParseNext]_parserVars

-----------------------------------------------------------------------------
\* A continuation is on the logical line of the line that it continues: the nearest
\* one before it that is no comment; comments between them stay lines of their own,
\* and every line is on one logical line at most, in the order of the file.
Pieces == UNION {ToSet(logical[n]) : n \in DOMAIN logical}
ContinuationsAttach ==
    /\ \A n \in DOMAIN logical : \A i, j \in DOMAIN logical[n] :
          i < j => /\ logical[n][i] < logical[n][j]
                   /\ source[logical[n][1]].shape # "comment"
    /\ \A m, n \in DOMAIN logical : m # n => ToSet(logical[m]) \cap ToSet(logical[n]) = {}
    /\ \A n \in DOMAIN logical : \A p \in ToSet(logical[n]) : \A q \in Pieces :
          p > logical[n][1] /\ q > logical[n][1] /\ q < p /\ q \notin ToSet(logical[n])
          => source[q].shape = "comment"

\* The reference for .if blocks, on the logical lines: those a line is inside of, the
\* heads of its block up to it, and whether the block has chosen the branch it is in,
\* when these lines are chosen.
HowMany(word, from, to) == Cardinality({k \in from..to : LineOf(k).word = word})
BlocksAround(j) ==
    {i \in 1..j - 1 : /\ LineOf(i).word = "if"
                      /\ \A k \in i + 1..j - 1 : HowMany("endif", i + 1, k) <= HowMany("if", i + 1, k)}
Heads(i, j) ==
    {i} \cup {h \in i + 1..j - 1 : /\ LineOf(h).word \in {"elseif", "else"}
                                   /\ Max(BlocksAround(h)) = i}
Given(chosen, h) ==
    {k \in chosen : k < h /\ LineOf(k).word = "param" /\ LineOf(k).name = LineOf(h).name}
Worth(chosen, h) ==
    IF Given(chosen, h) = {} THEN 0 ELSE LineOf(Max(Given(chosen, h))).value
IsTrue(chosen, h) == LineOf(h).word = "else" \/ Worth(chosen, h) = LineOf(h).value
InBranch(chosen, i, j) ==
    LET branch == Max(Heads(i, j))
    IN  IsTrue(chosen, branch) /\ \A h \in Heads(i, j) \ {branch} : ~ IsTrue(chosen, h)

\* A line is kept exactly when every block around it has chosen the branch it is in:
\* the first one whose test holds, with the parameters kept before the test, in
\* whatever way blocks are nested, skipped or left open.  (A test depends on the lines
\* before it only, so that one set of lines satisfies this.)
KeptAsNested ==
    phase # "join" =>
        \A j \in 1..(IF phase = "choose" THEN at - 1 ELSE Len(logical)) :
            LineOf(j).word \in Ordinary =>
                (j \in ToSet(kept) <=> \A i \in BlocksAround(j) : InBranch(ToSet(kept), i, j))

InOrder(lines) == \A i, j \in DOMAIN lines : i < j => lines[i] < lines[j]

\* Each netlist has what is written before its analysis and what is written after the
\* last one, each once and in order; it misses what is between.
ForksAsWritten ==
    phase = "done" =>
        \A f \in ToSet(forks) :
            LET last == Last(forks).analysis
            IN  /\ InOrder(f.items)
                /\ ToSet(f.items) = {n \in ToSet(items) : n < f.analysis \/ n > last \/ last = 0}
=============================================================================
