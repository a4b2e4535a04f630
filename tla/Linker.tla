------------------------------- MODULE Linker -------------------------------
(***************************************************************************)
(* The dynamic libraries of cpu.py.  "#USE f" asks for a function; "D lib" *)
(* writes a copy of a library without the functions that nobody asked for  *)
(* to a temporary file, and loads that file.  Processes that assemble      *)
(* programs share the directory of temporary files, and each removes what  *)
(* earlier ones have left there.                                           *)
(***************************************************************************)
EXTENDS Integers, Sequences, SequencesExt

CONSTANTS
  Procs,        \* the processes
  Libraries,    \* what libraries there may be: [name -> lines], a line being [kind, name, uses]
  NoFunction, NoLibrary,
  Keeps,        \* whether a process is given -K
  Requests,     \* what a "#USE" in a program names
  MaxProgramLines  \* bound on the lines of a program

\* A FUNCTION has a name, and NoFunction is none.
IsText(text) ==
  /\ Len(text) \in Nat /\ DOMAIN text = 1 .. Len(text)
  /\ \A i \in DOMAIN text :
       /\ text[i].kind \in {"FUNCTION", "ENDFUNCTION", "USE", "text"}
       /\ text[i].kind = "FUNCTION" => text[i].name # NoFunction

ASSUME LibrariesAssumption == \A known \in Libraries : \A l \in DOMAIN known : IsText(known[l])

VARIABLES
  libs,     \* the libraries, which do not change
  files,    \* the temporary files: [their names -> what is in them]
  pc,       \* where each process is
  lines,    \* how many lines of its program it has read
  lib,      \* the library of the D it is at
  listed,   \* the files it is to prune, of those it has listed
  temp,     \* the name of its temporary file
  UseRequested,
  selected, pending,        \* ResolveUses
  DynamicLibraryTempFiles,
  keep,     \* its KeepDynamicLibraries
  linked,   \* history: what it has loaded: [the library, the lines, what was asked for]
  lost      \* history: the processes whose temporary file others have removed

state     == <<pc, lines, lib, listed, temp>>
resolving == <<UseRequested, selected, pending>>
linkvars  == <<libs, files, state, resolving, DynamicLibraryTempFiles, keep, linked, lost>>

NoFile == <<>>

LinkInit ==
  /\ libs \in Libraries
  /\ files = <<>>
  /\ pc \in [Procs -> {"main", "done"}] /\ lines = [p \in Procs |-> 0]
  /\ lib = [p \in Procs |-> NoLibrary]
  /\ listed = [p \in Procs |-> {}] /\ temp = [p \in Procs |-> NoFile]
  /\ UseRequested = [p \in Procs |-> {}]
  /\ selected = [p \in Procs |-> {}] /\ pending = [p \in Procs |-> {}]
  /\ DynamicLibraryTempFiles = [p \in Procs |-> {}]
  /\ keep \in [Procs -> Keeps]
  /\ linked = [p \in Procs |-> <<>>] /\ lost = {}

Goto(p, from, to) == pc[p] = from /\ pc' = [pc EXCEPT ![p] = to]

\* The names are the library's with something random, which is new each time.
base(f) == f[1]
owner(f) == f[2]

Removed(f) == [g \in DOMAIN files \ {f} |-> files[g]]
Written(f, text) == [g \in DOMAIN files \cup {f} |-> IF g = f THEN text ELSE files[g]]

-----------------------------------------------------------------------------
(***************************************************************************)
(* Reading a library.                                                      *)
(***************************************************************************)
NothingRead ==
  [current |-> NoFunction, body |-> <<>>, uses |-> <<>>, use |-> {}, chunk |-> <<>>, chunks |-> <<>>]

WithKey(f, x, v) == [y \in DOMAIN f \cup {x} |-> IF y = x THEN v ELSE f[y]]

flush_global(l) ==
  IF l.chunk = <<>> THEN l
  ELSE [l EXCEPT !.chunks = Append(@, [kind |-> "global", data |-> l.chunk]), !.chunk = <<>>]

\* Line i of a library.  A FUNCTION ends the one it is in; one of a name that there
\* is takes its place.
ReadLine(l, line, i) ==
  CASE line.kind = "FUNCTION" ->
         [flush_global(l) EXCEPT !.current = line.name,
                                 !.body = WithKey(@, line.name, <<i>>),
                                 !.uses = WithKey(@, line.name, {}),
                                 !.chunks = Append(@, [kind |-> "function", data |-> line.name])]
    [] line.kind = "ENDFUNCTION" /\ l.current # NoFunction ->
         [l EXCEPT !.body[l.current] = Append(@, i), !.current = NoFunction]
    [] line.kind = "USE" /\ l.current = NoFunction -> [l EXCEPT !.use = @ \cup line.uses]
    [] line.kind = "USE" /\ l.current # NoFunction ->
         [l EXCEPT !.uses[l.current] = @ \cup line.uses]
    [] line.kind = "text" /\ l.current # NoFunction ->
         [l EXCEPT !.body[l.current] = Append(@, i)]
    [] line.kind = "text" /\ l.current = NoFunction -> [l EXCEPT !.chunk = Append(@, i)]
    [] OTHER -> l

Scan(text) ==
  LET read[i \in 0 .. Len(text)] ==
        IF i = 0 THEN NothingRead ELSE ReadLine(read[i - 1], text[i], i)
  IN  flush_global(read[Len(text)])

\* What each function of a library uses.
UsesOf(l) == Scan(libs[l]).uses

\* What is written of it: everything outside of functions, and the selected ones.
Filtered(l, chosen) ==
  FlattenSeq([k \in DOMAIN l.chunks |->
    LET chunk == l.chunks[k]
    IN  IF chunk.kind = "global" THEN chunk.data
        ELSE IF chunk.data \in chosen THEN l.body[chunk.data] ELSE <<>>])

-----------------------------------------------------------------------------
(***************************************************************************)
(* The program, and its D directives.                                      *)
(***************************************************************************)
\* "#USE f" in the program.
Use(p) ==
  /\ pc[p] = "main" /\ lines[p] < MaxProgramLines
  /\ lines' = [lines EXCEPT ![p] = @ + 1]
  /\ \E names \in Requests : UseRequested' = [UseRequested EXCEPT ![p] = @ \cup names]
  /\ UNCHANGED <<libs, files, pc, lib, listed, temp, selected, pending,
                 DynamicLibraryTempFiles, keep, linked, lost>>

\* "D lib" lists the files that begin with the library's name.
D(p) ==
  /\ Goto(p, "main", "prune") /\ lines[p] < MaxProgramLines
  /\ lines' = [lines EXCEPT ![p] = @ + 1]
  /\ \E l \in DOMAIN libs :
       /\ lib' = [lib EXCEPT ![p] = l]
       /\ listed' = [listed EXCEPT ![p] = {f \in DOMAIN files : base(f) = l}]
  /\ UNCHANGED <<libs, files, temp, resolving, DynamicLibraryTempFiles, keep, linked, lost>>

\* It removes them one by one, whosever they are, if they are still there.
PruneOldDynamicLibraries(p) ==
  /\ pc[p] = "prune"
  /\ \E f \in listed[p] :
       /\ listed' = [listed EXCEPT ![p] = @ \ {f}]
       /\ files' = Removed(f)
       /\ lost' = lost \cup {q \in Procs \ {p} : temp[q] = f}
  /\ UNCHANGED <<libs, pc, lines, lib, temp, resolving, DynamicLibraryTempFiles, keep, linked>>

\* mkstemp makes an empty file of a new name.
CreateTempFilename(p) ==
  /\ Goto(p, "prune", "made") /\ listed[p] = {}
  /\ LET f == <<lib[p], p, lines[p]>>
     IN  /\ temp' = [temp EXCEPT ![p] = f]
         /\ files' = Written(f, <<>>)
  /\ UNCHANGED <<libs, lines, lib, listed, resolving, DynamicLibraryTempFiles, keep, linked, lost>>

\* Mutant of NoteTempFile: only the D directive knows the name.
NotesNothing(p) ==
  /\ Goto(p, "made", "scan")
  /\ UNCHANGED <<libs, files, lines, lib, listed, temp, resolving, DynamicLibraryTempFiles, keep,
                 linked, lost>>

\* The name is noted before the library is read.
NoteTempFile(p) ==
  /\ Goto(p, "made", "scan")
  /\ DynamicLibraryTempFiles' = [DynamicLibraryTempFiles EXCEPT ![p] = @ \cup {temp[p]}]
  /\ UNCHANGED <<libs, files, lines, lib, listed, temp, resolving, keep, linked, lost>>

\* The library is read.  What it asks for itself, outside of functions, counts for
\* the D directives to come as well.
ReadLibrary(p) ==
  /\ Goto(p, "scan", "resolve")
  /\ UseRequested' = [UseRequested EXCEPT ![p] = @ \cup Scan(libs[lib[p]]).use]
  /\ selected' = [selected EXCEPT ![p] = {}]
  /\ pending' = [pending EXCEPT ![p] = UseRequested'[p]]
  /\ UNCHANGED <<libs, files, lines, lib, listed, temp, DynamicLibraryTempFiles, keep, linked, lost>>

\* A library that is not found, or a FUNCTION without a name, ends the program.
StopsReading(p) ==
  /\ Goto(p, "scan", "exit")
  /\ UNCHANGED <<libs, files, lines, lib, listed, temp, resolving, DynamicLibraryTempFiles, keep, linked, lost>>

\* Mutant of ResolveUses: what a function uses is taken without what that uses.
ResolveUsesOnce(p) ==
  /\ pc[p] = "resolve"
  /\ \E name \in pending[p] :
       LET u == UsesOf(lib[p])
           known == name \in DOMAIN u /\ name \notin selected[p]
       IN  /\ selected' = [selected EXCEPT ![p] =
                             IF known THEN @ \cup {name} \cup
                               (u[name] \cap DOMAIN u) ELSE @]
           /\ pending' = [pending EXCEPT ![p] = @ \ {name}]
  /\ UNCHANGED <<libs, files, state, UseRequested, DynamicLibraryTempFiles, keep, linked, lost>>

\* Mutant of ResolveUses: a function that has been selected is taken up again.
ResolveUsesAgain(p) ==
  /\ pc[p] = "resolve"
  /\ \E name \in pending[p] :
       LET u == UsesOf(lib[p])
           known == name \in DOMAIN u
       IN  /\ selected' = [selected EXCEPT ![p] = IF known THEN @ \cup {name} ELSE @]
           /\ pending' = [pending EXCEPT ![p] =
                (@ \ {name}) \cup (IF known THEN u[name] ELSE {})]
  /\ UNCHANGED <<libs, files, state, UseRequested, DynamicLibraryTempFiles, keep, linked, lost>>

\* One turn of the loop of ResolveUses: names that are no function of this library
\* are dropped.
ResolveUses(p) ==
  /\ pc[p] = "resolve"
  /\ \E name \in pending[p] :
       LET u == UsesOf(lib[p])
           known == name \in DOMAIN u /\ name \notin selected[p]
       IN  /\ selected' = [selected EXCEPT ![p] = IF known THEN @ \cup {name} ELSE @]
           /\ pending' = [pending EXCEPT ![p] =
                (@ \ {name}) \cup (IF known THEN u[name] \ selected'[p] ELSE {})]
  /\ UNCHANGED <<libs, files, state, UseRequested, DynamicLibraryTempFiles, keep, linked, lost>>

\* Mutant of WriteLibrary: the copy is cleaned up where it is made.
WriteLibraryCleaned(p) ==
  /\ Goto(p, "resolve", "written") /\ pending[p] = {}
  /\ files' = Removed(temp[p])
  /\ UNCHANGED <<libs, lines, lib, listed, temp, resolving, DynamicLibraryTempFiles, keep, linked, lost>>

\* Mutant of WriteLibrary: it keeps what was asked for, without what that uses.
WriteLibraryAsked(p) ==
  /\ Goto(p, "resolve", "written") /\ pending[p] = {}
  /\ files' = Written(temp[p], Filtered(Scan(libs[lib[p]]), UseRequested[p]))
  /\ lost' = lost \ {p}
  /\ UNCHANGED <<libs, lines, lib, listed, temp, resolving, DynamicLibraryTempFiles, keep, linked>>

\* open(..., "w") makes the file when it is not there any more.
WriteLibrary(p) ==
  /\ Goto(p, "resolve", "written") /\ pending[p] = {}
  /\ files' = Written(temp[p], Filtered(Scan(libs[lib[p]]), selected[p]))
  /\ lost' = lost \ {p}
  /\ UNCHANGED <<libs, lines, lib, listed, temp, resolving, DynamicLibraryTempFiles, keep, linked>>

\* loadfile reads the copy; without it the program ends.
loadfile(p) ==
  /\ pc[p] = "written"
  /\ IF temp[p] \in DOMAIN files
       THEN /\ pc' = [pc EXCEPT ![p] = "loaded"]
            /\ linked' = [linked EXCEPT ![p] =
                 Append(@, [lib |-> lib[p], text |-> files[temp[p]], asked |-> UseRequested[p]])]
       ELSE pc' = [pc EXCEPT ![p] = "failed"] /\ UNCHANGED linked
  /\ UNCHANGED <<libs, files, lines, lib, listed, temp, resolving, DynamicLibraryTempFiles, keep, lost>>

\* A file that is removed is not in the list any more; one that was gone stays.
Forgets(p, f) ==
  IF f \in DOMAIN files THEN DynamicLibraryTempFiles[p] \ {f} ELSE DynamicLibraryTempFiles[p]

\* The program goes on, or ends: there was no copy, or an error in it.
FilterLibraryCleanUp(p) ==
  /\ Goto(p, "loaded", "main") \/ Goto(p, "loaded", "exit") \/ Goto(p, "failed", "exit")
  /\ temp' = [temp EXCEPT ![p] = NoFile]
  /\ IF keep[p] THEN UNCHANGED <<files, DynamicLibraryTempFiles>>
     ELSE /\ files' = Removed(temp[p])
          /\ DynamicLibraryTempFiles' =
               [DynamicLibraryTempFiles EXCEPT ![p] = Forgets(p, temp[p])]
  /\ lost' = lost \ {p}
  /\ UNCHANGED <<libs, lines, lib, listed, resolving, keep, linked>>

\* The program is assembled, or has an error in its own lines.
EndOfProgram(p) ==
  /\ Goto(p, "main", "end") \/ Goto(p, "main", "exit")
  /\ UNCHANGED <<libs, files, lines, lib, listed, temp, resolving, DynamicLibraryTempFiles, keep, linked, lost>>

\* Registered with atexit, so that it runs however the program ends.
FilterLibraryExitCleanUp(p) ==
  /\ Goto(p, "exit", "done") \/ Goto(p, "end", "done")
  /\ files' = IF keep[p] THEN files
              ELSE [f \in DOMAIN files \ DynamicLibraryTempFiles[p] |-> files[f]]
  /\ temp' = [temp EXCEPT ![p] = NoFile]
  /\ UNCHANGED <<libs, lines, lib, listed, resolving, DynamicLibraryTempFiles, keep, linked, lost>>

\* A process that is killed runs nothing any more.
Kill(p) ==
  /\ pc[p] \notin {"done", "killed"}
  /\ pc' = [pc EXCEPT ![p] = "killed"]
  /\ temp' = [temp EXCEPT ![p] = NoFile]
  /\ UNCHANGED <<libs, files, lines, lib, listed, resolving, DynamicLibraryTempFiles, keep, linked, lost>>

Step(p) ==
  \/ Use(p) \/ D(p) \/ PruneOldDynamicLibraries(p) \/ CreateTempFilename(p) \/ NoteTempFile(p)
  \/ ReadLibrary(p) \/ StopsReading(p) \/ ResolveUses(p) \/ WriteLibrary(p) \/ loadfile(p)
  \/ FilterLibraryCleanUp(p) \/ EndOfProgram(p) \/ FilterLibraryExitCleanUp(p) \/ Kill(p)

LinkNext == \E p \in Procs : Step(p)

LinkSpec == LinkInit /\ [][LinkNext]_linkvars

-----------------------------------------------------------------------------
(***************************************************************************)
(* Properties.                                                             *)
(***************************************************************************)
Closed(S, u) == \A f \in S : u[f] \cap DOMAIN u \subseteq S

\* The functions that are asked for, and those that these use, in turn.
Needed(u, roots) ==
  {f \in DOMAIN u : \A S \in SUBSET DOMAIN u :
     roots \cap DOMAIN u \subseteq S /\ Closed(S, u) => f \in S}

\* "Only the requested functions and the routines they depend upon are included":
\* the loop selects the least set, whatever order it takes the names in and however
\* functions use each other.
LinksNeeded ==
  \A p \in Procs : pc[p] = "written" => selected[p] = Needed(UsesOf(lib[p]), UseRequested[p])

\* The function a line of a library is in.
FunctionOf(text, i) ==
  LET opens == {j \in 1 .. i : /\ text[j].kind = "FUNCTION"
                              /\ \A k \in j .. i - 1 : text[k].kind # "ENDFUNCTION"}
  IN  IF opens = {} THEN NoFunction ELSE text[CHOOSE j \in opens : \A k \in opens : k <= j].name

\* The lines of a library that a program which asks for these names is to get.
LinesOf(text, roots) ==
  LET needed == Needed(Scan(text).uses, roots)
  IN  {i \in DOMAIN text :
         /\ text[i].kind # "USE"
         /\ IF FunctionOf(text, i) = NoFunction THEN text[i].kind = "text"
            ELSE FunctionOf(text, i) \in needed}
Lines(l, roots) == LinesOf(libs[l], roots)

\* Each of them once, in their order.
InOrder(s, S) == ToSet(s) = S /\ \A i, j \in DOMAIN s : i < j => s[i] < s[j]

OneOfEach(text) ==
  \A i, j \in DOMAIN text :
    text[i].kind = "FUNCTION" /\ text[j].kind = "FUNCTION" /\ text[i].name = text[j].name
      => i = j

Loaded(p) == ToSet(linked[p])

\* What is loaded is the library without the functions that are not needed: every
\* other line once, in its order, though other processes remove and make files of the
\* same library meanwhile.
LoadsTheLines ==
  \A p \in Procs : pc[p] = "loaded" =>
    LET k == Last(linked[p])
    IN  OneOfEach(libs[k.lib]) => InOrder(k.text, Lines(k.lib, k.asked))

\* The code fails this for a library that has two functions of one name: both places
\* get the lines of the second.
LoadsEveryLine ==
  \A p \in Procs : pc[p] = "loaded" =>
    LET k == Last(linked[p]) IN InOrder(k.text, Lines(k.lib, k.asked))

\* A program that is alone always finds the copy it has made.
FindsItsCopy == \A p \in Procs : pc[p] = "failed" => p \in lost

\* "Normal runs remove these generated files on exit", when they end with an error as
\* well: what is left is from a process that was killed, or given -K.
NothingLeft ==
  \A f \in DOMAIN files : pc[owner(f)] = "done" => keep[owner(f)]

\* Functions that use each other do not keep the loop from ending: every turn selects
\* one more function of the library, or leaves fewer names to look at.
LoopEnds ==
  [][\A p \in Procs : pc[p] = "resolve" /\ <<selected[p], pending[p]>>' # <<selected[p], pending[p]>> =>
       \/ selected[p] \subseteq selected'[p] /\ selected[p] # selected'[p]
       \/ selected[p] = selected'[p] /\ pending'[p] \subseteq pending[p]]_linkvars

\* README.md: "D string.ld", then "#USE strcpy".  The code fails this: what is asked
\* for after the D is not in the copy that it has loaded.
UsesLinked ==
  \A p \in Procs : pc[p] = "end" =>
    \A k \in Loaded(p) : \E j \in Loaded(p) :
      /\ j.lib = k.lib
      /\ UseRequested[p] \cap DOMAIN UsesOf(k.lib) \subseteq Needed(UsesOf(j.lib), j.asked)

\* The code fails this: what a function uses of another library is not asked for there.
DependenciesLinked ==
  \A p \in Procs : pc[p] = "end" =>
    \A j, k \in Loaded(p) : \A f \in Needed(UsesOf(j.lib), j.asked) :
      UsesOf(j.lib)[f] \cap DOMAIN UsesOf(k.lib) \subseteq Needed(UsesOf(k.lib), k.asked)
=============================================================================
