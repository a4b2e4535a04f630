----------------------------- MODULE Structured -----------------------------
(***************************************************************************)
(* Where the jumps of nested structures go, when Assembler assembles the   *)
(* macros of structure.asm.  The nesting is found from the lines alone, as *)
(* a reader finds it, and the jumps must agree with it.                    *)
(***************************************************************************)
EXTENDS Assembler, FiniteSets

CONSTANT Closes     \* what closes each structure: [opener -> closers]

Openers == DOMAIN Closes
Closers == UNION {Closes[o] : o \in Openers}

\* What a line is about: its macro, or its command.
What(line) == IF line[1].t = "@" THEN line[1].text ELSE line[1].t

\* The openers that are not closed by the lines, innermost last.
OpenAt(lines) ==
  FoldLeft(LAMBDA acc, i :
             CASE What(lines[i].line) \in Openers -> Append(acc, i)
               [] What(lines[i].line) \in Closers -> Front(acc)
               [] OTHER -> acc,
           <<>>, [i \in DOMAIN lines |-> i])

Inside(lines) == [i \in DOMAIN OpenAt(lines) |-> What(lines[OpenAt(lines)[i]].line)]

\* The structure line i closes or is directly inside of.
OpenerOf(i) == Last(OpenAt(SubSeq(src, 1, i - 1)))

\* The line that closes what line i opens.
CloserOf(i) ==
  Min({j \in i + 1 .. Len(src) : What(src[j].line) \in Closers /\ OpenerOf(j) = i})

\* The ELSE of the IF at line i.
ElseOf(i) ==
  {j \in i + 1 .. CloserOf(i) : What(src[j].line) = "ELSE" /\ OpenerOf(j) = i}

\* The loop that a break inside of an IF is about.
LoopOf(i) ==
  LET around == OpenAt(SubSeq(src, 1, i - 1))
  IN  around[Max({n \in DOMAIN around : What(src[around[n]].line) \in
                    {"WHILE_ZERO", "ForIA2B"}})]

Start(i) == src[i].at
End(i) == IF i = Len(src) THEN address ELSE src[i + 1].at

\* Where the jump of line i to a label with this text must go.
Target(i, text) ==
  CASE text \in {"True", "DoCase1"} -> End(i)
    [] text = "ENDIF" ->
         IF ElseOf(i) = {} THEN Start(CloserOf(i)) ELSE End(Min(ElseOf(i)))
    [] text = "JustEnd" -> Start(CloserOf(OpenerOf(i)))
    [] text = "NextCase" -> End(CloserOf(i))
    [] text = "EndCase" -> Start(CloserOf(OpenerOf(OpenerOf(i))))
    [] text \in {"LoopTop", "TopLoop"} -> Start(OpenerOf(i))
    [] text = "ForTop" -> Start(OpenerOf(i)) + 1
    [] text = "ENDWHEN" -> End(CloserOf(OpenerOf(i)))
    [] text \in {"ExitLoop", "NextEnd"} ->
         IF What(src[i].line) \in Openers THEN End(CloserOf(i)) ELSE End(CloserOf(LoopOf(i)))

Complete == stop = "done" /\ OpenAt(src) = <<>>

\* In a nest of structures every jump goes where the nesting says: out of an IF to
\* its own ELSE or end, out of a loop or a case to its own end, back to its own top,
\* whatever is nested in it and whatever skipped blocks are around and between.
JumpsNest ==
  Complete =>
    \A u \in uses : u.name[2] # 0 => mem[u.at] = Target(u.line, u.name[1])

\* The conditional blocks of a program pair as its lines do, and no macro or block makes
\* the assembler fail: the blocks inside the macros open and close with them, in skipped
\* text too, where only labels and blocks are looked at.  The stack of unique numbers
\* is empty after complete structures: nothing that follows is taken to be inside of
\* one.
BlocksPair ==
  /\ stop = "error" => What(Last(src).line) \notin Openers \cup Closers /\ MacroStack = <<>>
  /\ (stop = "no" /\ top.cmdq = <<>>) \/ stop = "done" =>
       Len(blocks) = Len(SelectSeq(Inside(src), LAMBDA o : o \in {"IFDEF", "IFNDEF"}))
  /\ Complete => MacroStack = <<>>

\* WHILECONTINUE goes to the top of the loop it is in.  The code fails this: it
\* takes the IF off the stack before it looks for the loop below it.
ContinueContinues ==
  /\ Complete => \A u \in uses : What(src[u.line].line) = "WHILECONTINUE"
                   => mem[u.at] = Start(LoopOf(u.line))
  /\ stop = "error" => \A i \in DOMAIN src : What(src[i].line) # "WHILECONTINUE"

-----------------------------------------------------------------------------
\* The one definition of a name that has one.
TheDef(name) == CHOOSE d \in defs : d.name = name
DefinedOnce(name) == Cardinality({d \in defs : d.name = name}) = 1

\* A definition that a reference may mean: in the same file, with the same idea of
\* whether the name is global; or one that is not local, from a file or for a name
\* that looks for such, or seen already.
Visible(d, u) ==
  IF d.file = u.file THEN u.global = (d.key[2] = NoScope) \/ u.file = Main
  ELSE d.key[2] = NoScope /\ (u.file = Main \/ u.global \/ d \in u.seen)

Lonely(u) == \A w \in uses : w.at = u.at => w = u

\* A label that is local to a file is not found from another one: a reference
\* there, to a label that comes later or is missing, is left for the patching.  The
\* code fails this: a name that is not found is looked for among the labels of all
\* files, and one of the main file is found before a file's own.
LocalsPrivate ==
  stop = "done" =>
    \A u \in uses : Lonely(u) =>
      \A d \in defs : d.name = u.name /\ d.file # u.file /\ d.key[2] # NoScope
                         => mem[u.at] \in {Hole} \cup {e.value : e \in defs \ {d}}
=============================================================================
