------------------------------ MODULE Terminal ------------------------------
(***************************************************************************)
(* The terminal of the emulator, as its two backends set it.  Each keeps   *)
(* its own copy of what it found when a program first asked for raw mode:  *)
(* _saved_attrs and _saved_flags in cpu.py, g_saved_attrs and              *)
(* g_saved_flags in speedCPU.c.  The attributes are restored at the end of *)
(* the process from a third copy, old_settings; the flag that makes reads  *)
(* return at once is not among them.                                       *)
(***************************************************************************)
EXTENDS Integers

CONSTANT NotSaved    \* no copy: a value that is not a state of the terminal

States == [line : BOOLEAN, echo : BOOLEAN, block : BOOLEAN]

ASSUME TerminalAssumption == NotSaved \notin States

VARIABLES
  term,    \* line: line mode, with Ctrl-C; echo; block: reads wait
  saved    \* what each backend found before raw mode, or NotSaved

Backend == {"py", "c"}
Usual == [line |-> TRUE, echo |-> TRUE, block |-> TRUE]

TermInit == term = Usual /\ saved = [b \in Backend |-> NotSaved]

\* Mutant of SetRaw: every call saves.
SetRawSaves(b) ==
  /\ saved' = [saved EXCEPT ![b] = term]
  /\ term' = [line |-> FALSE, echo |-> FALSE, block |-> FALSE]

\* Only the first of several calls saves.
SetRaw(b) ==
  /\ saved' = [saved EXCEPT ![b] = IF @ = NotSaved THEN term ELSE @]
  /\ term' = [line |-> FALSE, echo |-> FALSE, block |-> FALSE]

\* What is restored, with nothing saved nothing.
BeforeRaw(b) == IF saved[b] = NotSaved THEN term ELSE saved[b]

ReSetRaw(b) ==
  /\ term' = BeforeRaw(b)
  /\ saved' = [saved EXCEPT ![b] = NotSaved]

SetEcho(on) == term' = [term EXCEPT !.echo = on] /\ UNCHANGED saved

restored(t) == [t EXCEPT !.line = TRUE, !.echo = TRUE]

restore_tty == term' = restored(term) /\ UNCHANGED saved
=============================================================================
