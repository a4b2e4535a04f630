----------------------------- MODULE Assembler -----------------------------
(***************************************************************************)
(* The assembler of cpu.py: files that load files, conditional blocks,     *)
(* macros with their stack of unique numbers, labels and their scopes, and *)
(* references patched when the last file is done.                          *)
(*                                                                         *)
(* A command is a sequence of tokens.  Executing one consumes some of them *)
(* and puts the others back in front of the queue.  Each instruction, word *)
(* and string takes one address here.                                      *)
(***************************************************************************)
EXTENDS Integers, Sequences, SequencesExt, FiniteSetsExt

CONSTANTS
  Names,                 \* names of labels in source files
  Macros,                \* the bodies of the macros: sequences of tokens
  Libs, Incs,            \* the files that L and I load
  NextLines(_, _),       \* the lines a file may have next, after what was read
  AddressSize,           \* 2^16 in the program
  MaxLines               \* bound: lines of all files of a program

NoSegment == -1
NoScope == ""
Main == "main"
Hole == -1

\* A token is a command's name with a text, a number "a" or the name "of" a number;
\* "at" is where its own name is made: 0 outside of macros, the number of a macro's
\* expansion, or %V, %W and %0 before they are replaced.
V == -1
W == -2
Zero == -3

Plain == STRING \ {"L", "I", "@"}

Tokens ==
  [t : Plain, text : STRING, at : Int]
  \cup [t : Plain, text : STRING, at : Int, a : Nat]
  \cup [t : Plain, a : Nat, at : Int]
  \cup [t : Plain, of : STRING, at : Int]
  \cup [t : {"L"}, text : Libs, at : Int]
  \cup [t : {"I"}, text : Incs, at : Int]
  \cup [t : {"@"}, text : DOMAIN Macros, at : Int]

Texts == Seq(Tokens)

\* The commands that move the place where code goes.
Moves(text) == \E i \in DOMAIN text : text[i].t \in {".", ".ORG"}

\* A file is loaded by L or by I, and macros do not move the code.
ASSUME AssemblerAssumption ==
  /\ AddressSize \in Nat \ {0} /\ MaxLines \in Nat
  /\ Libs \cap Incs = {} /\ Main \notin Libs \cup Incs /\ NoScope \notin Libs
  /\ \A m \in DOMAIN Macros : Macros[m] \in Texts /\ ~ Moves(Macros[m])

VARIABLES
  open,      \* the files being read, innermost last: [file, lorg, local, cmdq]
  blocks,    \* MacroBlockStack: is each open block executing
  MacroStack, unique,
  defined,   \* the macros MF has defined
  address, dataaddress, DataSegment, highaddress, highwater, Entry,
  FileLabels, GlobeLabels, GlobalDeclarations, LocVarHist,
  FWORDLIST,
  mem,       \* the words that hold labels
  stop,      \* "no", "error" (raiseerror, or an exception) or "done"
  src,       \* history: the lines read, with their file, address and whether they count
  uses, defs \* history: references and labels assembled

place  == <<address, dataaddress, DataSegment, highaddress, highwater, Entry>>
labels == <<FileLabels, GlobeLabels, GlobalDeclarations, LocVarHist, defs>>
refs   == <<FWORDLIST, mem, uses>>
stacks == <<MacroStack, unique, defined>>
vars   == <<open, blocks, stacks, place, labels, refs, stop, src>>

\* The names that stand for the ends of the code, and are global, are given.
InitWith(ends) ==
  /\ open = <<[file |-> Main, lorg |-> "global", local |-> Main, cmdq |-> <<>>]>>
  /\ blocks = <<>> /\ MacroStack = <<>> /\ unique = 0 /\ defined = {}
  /\ address = 0 /\ dataaddress = 0 /\ DataSegment = NoSegment
  /\ highaddress = 0 /\ highwater = 0 /\ Entry = 0
  /\ FileLabels = <<>> /\ GlobeLabels = <<>> /\ GlobalDeclarations = {<<n, 0>> : n \in ends}
  /\ LocVarHist = <<>> /\ FWORDLIST = <<>> /\ mem = <<>>
  /\ stop = "no" /\ src = <<>> /\ uses = {} /\ defs = {}

Init == InitWith({"END__"})

top == Last(open)
cmd == Head(top.cmdq)
key == cmd[1]
is_executing == \A i \in DOMAIN blocks : blocks[i]

Set(f, x, v) == [y \in DOMAIN f \cup {x} |-> IF y = x THEN v ELSE f[y]]

-----------------------------------------------------------------------------
(***************************************************************************)
(* The queue of commands.                                                  *)
(***************************************************************************)
\* A text is split at its semicolons, and empty commands are dropped.
Put(cmds, token) ==
  IF token.t # ";" THEN [cmds EXCEPT ![Len(cmds)] = Append(@, token)]
  ELSE IF Last(cmds) = <<>> THEN cmds ELSE Append(cmds, <<>>)

split_source_commands(text) ==
  LET cmds[i \in 0 .. Len(text)] ==
        IF i = 0 THEN << <<>> >> ELSE Put(cmds[i - 1], text[i])
  IN  IF Last(cmds[Len(text)]) = <<>> THEN Front(cmds[Len(text)]) ELSE cmds[Len(text)]

enqueue_front(text) ==
  open' = [open EXCEPT ![Len(open)].cmdq = split_source_commands(text) \o Tail(@)]

Fails ==
  /\ stop' = "error"
  /\ UNCHANGED <<open, blocks, stacks, place, labels, refs, src>>

\* %S, %P, %V and %W of a whole command, from left to right.  %S pushes the number
\* of the last macro expanded.
Substitute(acc, token) ==
  LET size == Len(acc.stack)
      deep == -token.at
  IN  CASE ~ acc.ok -> acc
        [] acc.ok /\ token.t = "%S" -> [acc EXCEPT !.stack = Append(@, unique)]
        [] acc.ok /\ token.t = "%P" ->
             IF size = 0 THEN [acc EXCEPT !.ok = FALSE] ELSE [acc EXCEPT !.stack = Front(@)]
        [] acc.ok /\ token.t \notin {"%S", "%P"} /\ token.at \in {V, W} ->
             IF size < deep THEN [acc EXCEPT !.ok = FALSE]
             ELSE [acc EXCEPT !.text =
                     Append(@, [token EXCEPT !.at = acc.stack[size + 1 - deep]])]
        [] OTHER -> [acc EXCEPT !.text = Append(@, token)]

substitute_macro_stack_opts(text) ==
  LET acc[i \in 0 .. Len(text)] ==
        IF i = 0 THEN [ok |-> TRUE, stack |-> MacroStack, text |-> <<>>]
        ELSE Substitute(acc[i - 1], text[i])
  IN  acc[Len(text)]

\* A macro's text, with %0 replaced, and what followed the call.
expand_macro_invocation(macro, rest) ==
  [i \in DOMAIN Macros[macro] |->
     LET token == Macros[macro][i]
     IN  IF token.at = Zero THEN [token EXCEPT !.at = unique + 1] ELSE token] \o rest

Expands(text) ==
  /\ unique' = unique + 1
  /\ enqueue_front(expand_macro_invocation(text[1].text, Tail(text)))

-----------------------------------------------------------------------------
(***************************************************************************)
(* Labels.  A label's key is its name with its scope: the file it is local *)
(* to, or NoScope.  The names macros make begin with _ and are never local.*)
(***************************************************************************)
\* Mutant of IsLocalVar: a global declaration counts in the main file only.
IsLocalVarAlways(name) ==
  <<name, IF name[2] # 0 \/ top.lorg = "global" THEN NoScope ELSE top.local>>

IsLocalVar(name) ==
  <<name, IF name[2] # 0 \/ name \in GlobalDeclarations \/ top.lorg = "global"
            THEN NoScope ELSE top.local>>

\* A token's name: its text, and the number of the macro's frame or 0.
NameOf(token) == <<token.text, token.at>>

\* The previous value ends before this address.
UpdateVarHistory(k, v, a) ==
  LET old == IF k \in DOMAIN LocVarHist THEN LocVarHist[k] ELSE <<>>
      closed == [i \in DOMAIN old |->
                   IF i = Len(old) THEN [old[i] EXCEPT !.end = a - 1] ELSE old[i]]
  IN  LocVarHist' = Set(LocVarHist, k, Append(closed, [value |-> v, start |-> a, end |-> Hole]))

\* Where a reference finds no label: values that local labels of this name, of
\* whatever file, had at this address.
FindHistoricVal(k, a) ==
  LET held == {e \in UNION {ToSet(LocVarHist[j]) : j \in {j \in DOMAIN LocVarHist :
                                   j[1] = k[1] /\ k[2] = NoScope /\ j[2] # NoScope}} :
                 e.start <= a /\ (e.end = Hole \/ a <= e.end)}
  IN  {e.value : e \in {e \in held : \A f \in held : f.start <= e.start}}

Str2Word(v) == v % AddressSize

\* The values a name may have on the first pass; none when it is unresolved.
decode_token(name, a) ==
  LET plain == <<name, NoScope>>
      local == IsLocalVar(name)
      found == IF plain \in DOMAIN FileLabels THEN {FileLabels[plain]}
               ELSE IF name \in DOMAIN GlobeLabels THEN {GlobeLabels[name]}
               ELSE IF local \in DOMAIN FileLabels THEN {FileLabels[local]}
               ELSE FindHistoricVal(local, a)
  IN  {Str2Word(v) : v \in found}

\* The value of a command's operand, a number or a name.
FirstPassVal(token) ==
  IF "a" \in DOMAIN token THEN {token.a} ELSE decode_token(<<token.of, 0>>, address)

NamesValue(name, v) ==
  /\ FileLabels' = Set(FileLabels, IsLocalVar(name), v)
  /\ GlobeLabels' = IF name \in GlobalDeclarations THEN Set(GlobeLabels, name, v)
                                                   ELSE GlobeLabels
  /\ UNCHANGED GlobalDeclarations

DefinesLabel(name, v) ==
  /\ NamesValue(name, v)
  /\ UpdateVarHistory(IsLocalVar(name), v, v)
  /\ defs' = defs \cup {[name |-> name, file |-> top.file, key |-> IsLocalVar(name), value |-> v]}

-----------------------------------------------------------------------------
(***************************************************************************)
(* The commands, once the stack operators of their text are replaced.      *)
(***************************************************************************)
Bigger(a, b) == IF a > b THEN a ELSE b

\* ":name"
Label(token) ==
  /\ DefinesLabel(NameOf(token), address)
  /\ UNCHANGED <<place, refs, stop, defined>>

\* Mutant of Highest: a forward reference leaves it alone.
HighestOfValues(a, found) == IF found = {} THEN highwater ELSE Bigger(highwater, a)

\* Words raise highwater; strings do not.
Highest(a, found) == Bigger(highwater, a)

\* A name as a word: its value, or room for it.
DecodesName(name, a) ==
  LET found == decode_token(name, a)
      use   == [name |-> name, file |-> top.file, at |-> a, line |-> Len(src),
                global |-> name \in GlobalDeclarations,
                seen |-> {d \in defs : d.name = name}]
  IN  /\ IF found = {}
           THEN /\ FWORDLIST' = Append(FWORDLIST, [symbol |-> IsLocalVar(name), address |-> a])
                /\ mem' = Set(mem, a, Hole)
           ELSE /\ \E v \in found : mem' = Set(mem, a, v)
                /\ UNCHANGED FWORDLIST
      /\ uses' = uses \cup {use}
      /\ highwater' = Highest(a + 1, found)

DecodeStr(token) ==
  /\ address' = address + 1
  /\ \/ token.t = "ref" /\ DecodesName(NameOf(token), address)
     \/ token.t = "raw" /\ highwater' = Bigger(highwater, address + 1) /\ UNCHANGED refs
     \/ token.t = "string" /\ UNCHANGED <<highwater, refs>>

\* A raw word, instruction or string.
Raw(token) ==
  /\ DecodeStr(token)
  /\ highaddress' = Bigger(Bigger(highaddress, address), dataaddress)
  /\ UNCHANGED <<dataaddress, DataSegment, Entry, labels, stop, defined>>

\* "::name word".  Without a data segment the code then reads a field that its
\* context does not have.
DataLabel(token) ==
  LET a == IF DataSegment = NoSegment THEN address ELSE dataaddress
  IN  /\ DefinesLabel(NameOf(token), a)
      /\ highwater' = Bigger(highwater, a + 1)
      /\ IF DataSegment = NoSegment
           THEN stop' = "error" /\ address' = a + 1 /\ UNCHANGED <<dataaddress, highaddress>>
           ELSE /\ dataaddress' = a + 1
                /\ highaddress' = Bigger(highaddress, a + 1)
                /\ UNCHANGED <<stop, address>>
      /\ UNCHANGED <<DataSegment, Entry, refs, defined>>

\* "=name v"
Equate(token, v) ==
  LET name == NameOf(token)
  IN  /\ FileLabels' = Set(FileLabels, IsLocalVar(name), v)
      /\ defs' = defs \cup {[name |-> name, file |-> top.file, key |-> IsLocalVar(name),
                             value |-> v]}
      /\ UNCHANGED <<GlobeLabels, GlobalDeclarations, place, refs, stop, defined>>

\* ". a" sets the entry point only once; ".ORG a" each time.
Org(token, a) ==
  /\ address' = a
  /\ Entry' = IF token.t = ".ORG" \/ Entry = 0 THEN a ELSE Entry
  /\ UNCHANGED <<dataaddress, DataSegment, highaddress, highwater, labels, refs, stop, defined>>

Data(a) ==
  /\ DataSegment' = a /\ dataaddress' = a
  /\ UNCHANGED <<address, highaddress, highwater, Entry, labels, refs, stop, defined>>

\* The commands with an operand that must have a value.
Evaluated(token, v) ==
  CASE token.t = "=" -> Equate(token, v) /\ UpdateVarHistory(IsLocalVar(NameOf(token)), v, address)
    [] token.t \in {".", ".ORG"} -> Org(token, v)
    [] token.t = ".DATA" -> Data(v)

NoValue ==
  stop' = "error" /\ UNCHANGED <<place, labels, refs, defined>>

Global(token) ==
  /\ GlobalDeclarations' = GlobalDeclarations \cup {NameOf(token)}
  /\ UNCHANGED <<FileLabels, GlobeLabels, LocVarHist, defs, place, refs, stop, defined>>

MF(token) ==
  /\ defined' = defined \cup {NameOf(token)}
  /\ UNCHANGED <<place, labels, refs, stop>>

execute_assembler_command(token) ==
  CASE token.t = ":" -> Label(token)
    [] token.t = "::" -> DataLabel(token)
    [] token.t \in {"=", ".", ".ORG", ".DATA"} ->
         IF FirstPassVal(token) = {} THEN NoValue
         ELSE \E v \in FirstPassVal(token) : Evaluated(token, v)
    [] token.t = "G" -> Global(token)
    [] token.t = "MF" -> MF(token)
    [] OTHER -> Raw(token)

\* L opens a scope of its own, named after the file; I stays in the scope it is in,
\* but the labels of what it loads are not local to it.
Loads(text) ==
  LET token == text[1]
      rest  == split_source_commands(Tail(text)) \o Tail(top.cmdq)
  IN  open' = Append([open EXCEPT ![Len(open)].cmdq = rest],
                     [file |-> token.text, cmdq |-> <<>>,
                      lorg |-> IF token.t = "L" THEN "local" ELSE "global",
                      local |-> IF token.t = "L" THEN token.text ELSE top.local])

-----------------------------------------------------------------------------
(***************************************************************************)
(* loadfile: one turn of its loop.                                         *)
(***************************************************************************)
Working == stop = "no" /\ top.cmdq # <<>>

\* A condition asks for a name: a macro, a label of this file's scope, or a global.
macro_or_label_exists(name) ==
  \/ name \in defined
  \/ IsLocalVar(name) \in DOMAIN FileLabels
  \/ name \in DOMAIN GlobeLabels

evaluate_condition(token) == macro_or_label_exists(NameOf(token)) = (token.t = "IFDEF")

\* Mutant of handle_skipped_label: what follows a label is skipped with it.
handle_skipped_label_all == <<>>

\* What is left of a skipped label's command: an ENDBLOCK may be in it.
handle_skipped_label == Tail(cmd)

\* In a block that is not executing.  Macros are expanded to find the blocks in
\* them, and what is not about blocks is dropped up to the next semicolon.
Skip ==
  /\ Working /\ ~ is_executing
  /\ CASE key.t = "@" -> Expands(cmd) /\ UNCHANGED blocks
       [] key.t = "ENDBLOCK" ->
            blocks' = Front(blocks) /\ enqueue_front(Tail(cmd)) /\ UNCHANGED unique
       [] key.t \in {"IFDEF", "IFNDEF"} ->
            blocks' = Append(blocks, FALSE) /\ enqueue_front(Tail(cmd)) /\ UNCHANGED unique
       [] key.t \in {":", "::"} ->
            enqueue_front(IF key.t = ":" THEN handle_skipped_label ELSE <<>>)
            /\ UNCHANGED <<blocks, unique>>
       [] OTHER -> enqueue_front(<<>>) /\ UNCHANGED <<blocks, unique>>
  /\ UNCHANGED <<MacroStack, defined, place, labels, refs, stop, src>>

EndBlock ==
  /\ Working /\ is_executing /\ key.t = "ENDBLOCK"
  /\ IF blocks = <<>>
       THEN Fails
       ELSE /\ blocks' = Front(blocks) /\ enqueue_front(Tail(cmd))
            /\ UNCHANGED <<stacks, place, labels, refs, stop, src>>

Condition ==
  /\ Working /\ is_executing /\ key.t \in {"IFDEF", "IFNDEF"}
  /\ blocks' = Append(blocks, evaluate_condition(key))
  /\ enqueue_front(Tail(cmd))
  /\ UNCHANGED <<stacks, place, labels, refs, stop, src>>

\* Everything else, after the stack operators of the whole command.
done == substitute_macro_stack_opts(cmd)

Substitutes ==
  /\ Working /\ is_executing /\ key.t \notin {"ENDBLOCK", "IFDEF", "IFNDEF"}
  /\ done.ok /\ MacroStack' = done.stack
  /\ UNCHANGED <<blocks, src>>

SubstitutionFails ==
  /\ Working /\ is_executing /\ key.t \notin {"ENDBLOCK", "IFDEF", "IFNDEF"}
  /\ ~ done.ok /\ Fails

NothingToExecute ==
  /\ Substitutes /\ done.text = <<>> /\ enqueue_front(<<>>)
  /\ UNCHANGED <<unique, defined, place, labels, refs, stop>>

ExpandsMacro ==
  /\ Substitutes /\ done.text # <<>> /\ done.text[1].t = "@" /\ Expands(done.text)
  /\ UNCHANGED <<defined, place, labels, refs, stop>>

LoadsFile ==
  /\ Substitutes /\ done.text # <<>> /\ done.text[1].t \in {"L", "I"} /\ Loads(done.text)
  /\ UNCHANGED <<unique, defined, place, labels, refs, stop>>

\* What the loop does by itself; the rest is for the commands.
LoopExecutes == SubstitutionFails \/ NothingToExecute \/ ExpandsMacro

TakesCommand ==
  /\ Substitutes /\ done.text # <<>> /\ done.text[1].t \notin {"@", "L", "I"}
  /\ enqueue_front(Tail(done.text)) /\ UNCHANGED unique

Execute ==
  \/ LoopExecutes
  \/ LoadsFile
  \/ TakesCommand /\ execute_assembler_command(done.text[1])

ReadsOneOf(lines) ==
  /\ stop = "no" /\ top.cmdq = <<>> /\ Len(src) < MaxLines
  /\ \E line \in {line \in lines : line \in Texts} :
       /\ open' = [open EXCEPT ![Len(open)].cmdq = split_source_commands(line)]
       /\ src' = Append(src, [file |-> top.file, line |-> line, at |-> address,
                              counts |-> is_executing])
  /\ UNCHANGED <<blocks, stacks, place, labels, refs, stop>>

\* The next line of the file.
read_next_source_command == ReadsOneOf(NextLines(src, top.file))

\* After the last file of the outermost call every reference is patched that has a
\* label by then.
Patch(m, known, r) ==
  IF r.symbol \in DOMAIN known THEN Set(m, r.address, Str2Word(known[r.symbol])) ELSE m

PatchFrom(m, known) ==
  LET patched[i \in 0 .. Len(FWORDLIST)] ==
        IF i = 0 THEN m ELSE Patch(patched[i - 1], known, FWORDLIST[i])
  IN  patched[Len(FWORDLIST)]

end_address ==
  Max({highwater, highaddress, address} \cup
      IF DataSegment = NoSegment THEN {} ELSE {dataaddress})

\* The names for the ends of the code, with their addresses.
Publishes(ends) ==
  LET with(f, keys) == [y \in DOMAIN f \cup DOMAIN keys |->
                          IF y \in DOMAIN keys THEN ends[keys[y]] ELSE f[y]]
  IN  /\ GlobeLabels' = with(GlobeLabels, [y \in {<<n, 0>> : n \in DOMAIN ends} |-> y[1]])
      /\ FileLabels' = with(FileLabels,
                            [y \in {<<<<n, 0>>, NoScope>> : n \in DOMAIN ends} |-> y[1][1]])

resolve_all_forward_references ==
  /\ Publishes([END__ |-> end_address])
  /\ mem' = PatchFrom(mem, FileLabels')

\* The end of a file.  A file that another one loads leaves highaddress where its
\* own code ended.
EndsFile(AtTheEnd) ==
  /\ stop = "no" /\ top.cmdq = <<>>
  /\ IF Len(open) = 1
       THEN AtTheEnd /\ stop' = "done" /\ UNCHANGED <<highaddress, open>>
       ELSE /\ open' = Front(open) /\ highaddress' = address
            /\ UNCHANGED <<mem, GlobeLabels, FileLabels, stop>>
  /\ UNCHANGED <<blocks, stacks, address, dataaddress, DataSegment, highwater, Entry,
                 GlobalDeclarations, LocVarHist, defs, FWORDLIST, uses, src>>

EndOfFile == EndsFile(resolve_all_forward_references)

Next ==
  \/ read_next_source_command \/ EndOfFile
  \/ Skip \/ EndBlock \/ Condition \/ Execute

Spec == Init /\ [][Next]_vars
=============================================================================
