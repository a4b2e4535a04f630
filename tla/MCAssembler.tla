---------------------------- MODULE MCAssembler ----------------------------
(***************************************************************************)
(* Programs for Assembler, a line at a time: nests of structures with      *)
(* conditional blocks around and in them, or names in a main file and the  *)
(* files it loads.                                                         *)
(***************************************************************************)
EXTENDS Assembler24, StructureMacros, TLC

CONSTANTS
  MaxNameLines, MaxStructureLines,  \* how long a program of names or of structures may be
  MaxBankLines,                     \* and one with banks
  Orgs,                             \* the addresses of .ORG and .DATA
  Values,                           \* the numbers that names are made equal to
  WhileBreaks                       \* the macros that leave or repeat a WHILE

MCCloses ==
  [IF_ZERO |-> {"ENDIF"}, IF_NEQ_S |-> {"ENDIF"}, WHILE_ZERO |-> {"ENDWHILE"},
   WHEN |-> {"ENDWHEN"}, LOOP |-> {"UNTIL_ZERO"}, ForIA2B |-> {"Next"},
   SWITCH |-> {"ENDCASE"}, CASE_RANGE_AA |-> {"CBREAK", "CASE_FALLTHRU"},
   CDEFAULT |-> {"CBREAK", "CASE_FALLTHRU"}, IFDEF |-> {"ENDBLOCK"}, IFNDEF |-> {"ENDBLOCK"}]
  @@ "CASE" :> {"CBREAK", "CASE_FALLTHRU"}

MCNames == {<<"x", 0>>}

Call(m) == <<Token("@", m, 0)>>
Calls(S) == {Call(m) : m \in S}

\* A macro that is undefined, for conditions.
Conditions == {<<Token("IFDEF", "x", 0)>>, <<Token("IFNDEF", "x", 0)>>}
EndBlockLine == <<Token("ENDBLOCK", "", 0)>>

Innermost(lines) == IF Inside(lines) = <<>> THEN "none" ELSE Last(Inside(lines))
DirectLines(lines) == {lines[i].line : i \in {i \in DOMAIN lines :
   i > Last(OpenAt(lines)) /\ Len(OpenAt(SubSeq(lines, 1, i))) = Len(OpenAt(lines))}}
HasLine(lines, m) == Call(m) \in DirectLines(lines)

\* A break stands in an IF that is directly in its loop.
BreaksIn(lines, loop, m) ==
  LET n == Len(Inside(lines))
  IN  IF n >= 2 /\ Inside(lines)[n] \in {"IF_ZERO", "IF_NEQ_S"} /\ Inside(lines)[n - 1] = loop
        THEN {Call(m)} ELSE {}

Structures ==
  {"IF_ZERO", "IF_NEQ_S", "WHILE_ZERO", "WHEN", "LOOP", "ForIA2B", "SWITCH"}

\* The ones that are nested in others.
Nested == {"IF_ZERO", "WHILE_ZERO", "ForIA2B", "SWITCH"}

StructureLines(lines) ==
  LET in == Innermost(lines)
  IN  CASE in \in {"IF_ZERO", "IF_NEQ_S"} ->
             Calls(Nested \cup {"ENDIF"}) \cup Conditions
             \cup (IF HasLine(lines, "ELSE") THEN {} ELSE {Call("ELSE")})
             \cup UNION {BreaksIn(lines, "WHILE_ZERO", b) : b \in WhileBreaks}
             \cup BreaksIn(lines, "ForIA2B", "FORBREAK")
        [] in = "WHEN" ->
             Calls(Nested) \cup (IF HasLine(lines, "DO_ZERO") THEN {Call("ENDWHEN")}
                                                                  ELSE {Call("DO_ZERO")})
        [] in = "SWITCH" -> Calls({"CASE", "CASE_RANGE_AA", "CDEFAULT", "ENDCASE"})
        [] in \in {"IFDEF", "IFNDEF"} -> Calls(Structures) \cup {EndBlockLine} \cup Conditions
        [] in = "none" -> Calls(Structures) \cup Conditions
        [] OTHER -> Calls(Nested) \cup Calls(Closes[in])

Ref(n) == <<Token("ref", n, 0)>>
Def(n) == <<Token(":", n, 0)>>
GlobalLine(n) == <<Token("G", n, 0)>>

\* A command with a number, names with a value and a name as an operand.
At(how, a) == <<[t |-> how, a |-> a, at |-> 0]>>
Valued ==
  UNION {{<<[t |-> "=", text |-> nm[1], at |-> 0, a |-> a]>> : a \in Values}
         \cup {<<[t |-> ".ORG", of |-> nm[1], at |-> 0]>>} : nm \in Names}

\* Each file is loaded once.
LoadLines == {<<Token("L", lib, 0)>> : lib \in Libs} \cup {<<Token("I", inc, 0)>> : inc \in Incs}

\* The end of the code is used in the last line.
EndLines(lines, max, n) == IF Len(lines) = max - 1 THEN {Ref(n)} ELSE {}

NameLines(lines, file) ==
  EndLines(lines, MaxNameLines, "END__") \cup
  UNION {{Ref(n), Def(n), GlobalLine(n)} : n \in {nm[1] : nm \in Names}}
  \cup (IF file # Main THEN {} ELSE
          {load \in LoadLines : ~ \E i \in DOMAIN lines : lines[i].line = load}
          \cup {At(how, a) : how \in {".ORG", ".DATA"}, a \in Orgs} \cup Valued
          \cup {<<Token("::", nm[1], 0)>> : nm \in Names} \cup {<<Token("string", "", 0)>>})

\* A program is one of structures or one of names, as its first line says.
OfStructures(lines) ==
  \/ What(lines[1].line) \in {"IFDEF", "IFNDEF"}
  \/ lines[1].line[1].t = "@"

MCNextLines(lines, file) ==
  (IF lines = <<>> \/ (OfStructures(lines) /\ Len(lines) < MaxStructureLines)
     THEN StructureLines(lines) ELSE {})
  \cup (IF lines = <<>> \/ (~ OfStructures(lines) /\ Len(lines) < MaxNameLines)
          THEN NameLines(lines, file) ELSE {})

-----------------------------------------------------------------------------
\* Programs in two banks.  A bank is switched to where code follows, and copied to
\* once; one conditional block is open at a time.
Already(lines, line) == \E i \in DOMAIN lines : lines[i].line = line

BankLines(lines, file) ==
  EndLines(lines, MaxBankLines, "__DEND") \cup
  UNION {{Ref(n), Def(n), <<Token(".ENTRY", n, 0)>>} : n \in {nm[1] : nm \in Names}}
  \cup (IF lines # <<>> /\ What(Last(lines).line) = ".CODE" THEN {} ELSE
          {At(".CODE", b) : b \in 0 .. 1})
  \cup (IF file # Main THEN {GlobalLine(nm[1]) : nm \in Names} ELSE
          {line \in {<<Token("L", lib, 0)>> : lib \in Libs}
                     \cup {At(".DATACOPY", b) : b \in 0 .. 1} : ~ Already(lines, line)}
          \cup (IF Inside(lines) = <<>> THEN {<<Token("IFDEF", nm[1], 0)>> : nm \in Names}
                                        ELSE {EndBlockLine})
          \cup {At(".ORG", Max(Orgs)), At(".DATA", 1)} \cup Valued
          \cup {GlobalLine(nm[1]) : nm \in Names} \cup {<<Token("::", nm[1], 0)>> : nm \in Names})

MCNextLines24(lines, file) ==
  IF Len(lines) < MaxBankLines THEN BankLines(lines, file) ELSE {}
=============================================================================
