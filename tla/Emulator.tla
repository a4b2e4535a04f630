------------------------------ MODULE Emulator ------------------------------
(***************************************************************************)
(* Running a program in cpu.py: the run loops of both backends, faults,    *)
(* Ctrl-C, and the debugger that calls the run loops an instruction at a   *)
(* time, and is itself entered from inside them.                           *)
(*                                                                         *)
(* debugger() never returns: its loop ends by leaving the process.  So one *)
(* that is entered inside a command takes that command's place, and the    *)
(* calls below it are never seen again; job is the innermost one.          *)
(***************************************************************************)
EXTENDS Terminal, FiniteSets

CONSTANTS
  Programs,     \* programs: functions from addresses to instructions
  Line,         \* the source line of each address; NoLine where there is none
  NoLine,
  Goals,        \* arguments of r and g
  Stops,        \* addresses at which breakpoints are set
  Steps,        \* arguments of n
  WatchFor,     \* values of watch points
  NoWatch,      \* no watch point
  MaxSP,        \* places on the hardware stack
  MaxTemps,     \* bound: so many temporary breakpoints at an address, then no more
  MaxRan        \* bound: so many instructions of a command are counted

\* Programs fill memory from 0 on, and instructions refer to addresses in it; a place
\* that the user goes to is in the program, and lines are known of all of it.
ASSUME EmulatorAssumption ==
  /\ \A p \in Programs :
       /\ IsFiniteSet(DOMAIN p) /\ DOMAIN p = 0 .. Cardinality(DOMAIN p) - 1
       /\ 0 \in DOMAIN p
       /\ \A a \in DOMAIN p : p[a].to \in DOMAIN p
       /\ Goals \subseteq DOMAIN p
       /\ DOMAIN p \subseteq DOMAIN Line
  /\ MaxTemps \in Nat /\ MaxRan \in Nat /\ Steps \subseteq Nat

VARIABLES
  prog, fast,   \* the program and -f
  debug,        \* context.Debug > 0: each instruction is disassembled
  pc, sp, cell, \* the machine; cell is the word that watch points look at
  job,          \* what is under way: "run" or a command of the debugger
  phase,        \* "eval" inside evalpc, "check" between its calls
  breaks, temps,\* breakpoints, tempbreakpoints (how often each is in the list)
  watch,        \* the watch point, or NoWatch
  exit,         \* the process has ended
  ran           \* history: instructions executed by the command under way

cpu == <<pc, sp, cell>>
points == <<breaks, temps, watch>>
tty == <<term, saved>>
vars == <<prog, fast, debug, cpu, job, phase, points, exit, ran, tty>>

Addr == DOMAIN prog
Last == Cardinality(Addr)
Values == {0, 1}
Tests == {"eq", "ne"}

Prompt == [cmd |-> "prompt"]
Run == [cmd |-> "run"]

Init ==
  /\ prog \in Programs /\ fast \in BOOLEAN /\ debug \in BOOLEAN
  /\ pc = 0 /\ sp = 0 /\ cell = 0
  /\ job \in {Run, Prompt}
  /\ phase = IF job = Run THEN "eval" ELSE "check"
  /\ breaks = {} /\ temps = [a \in Addr |-> 0] /\ watch = NoWatch
  /\ exit = FALSE /\ ran = 0
  /\ TermInit

-----------------------------------------------------------------------------
(***************************************************************************)
(* One instruction.                                                        *)
(***************************************************************************)
instr == prog[pc]
after == (pc + 1) % Last

Faults ==
  \/ instr.op = "pop" /\ sp = 0
  \/ instr.op = "push" /\ sp = MaxSP

\* The program's terminal calls go to the backend that executes it.
Polls(b) ==
  CASE instr.op = "raw"    -> SetRaw(b)
    [] instr.op = "reset"  -> ReSetRaw(b)
    [] instr.op = "noecho" -> SetEcho(FALSE)
    [] instr.op = "echo"   -> SetEcho(TRUE)
    [] OTHER -> UNCHANGED tty

Computes ==
  /\ pc' \in CASE instr.op = "jump"   -> {instr.to}
               [] instr.op = "branch" -> {instr.to, after}
               [] OTHER -> {after}
  /\ sp' = CASE Faults -> sp
             [] instr.op = "push" -> sp + 1
             [] instr.op = "pop" -> sp - 1
             [] OTHER -> sp
  /\ cell' \in IF instr.op = "store" THEN Values ELSE {cell}

\* The process ends, and atexit restores the terminal's attributes.
Leave ==
  /\ exit' = TRUE /\ job' = Prompt /\ phase' = "check"
  /\ restore_tty

\* A debugger is entered, from inside of whatever is under way.
Enter == job' = Prompt /\ phase' = "check"

Count == ran' = IF ran < MaxRan THEN ran + 1 ELSE ran

\* evalpc goes on, or returns to the command that called it.
Returns == UNCHANGED job /\ phase' = IF job = Run THEN "eval" ELSE "check"

\* _evalpc_py: a fault enters the debugger, the end ends the process.
PyExec ==
  /\ phase = "eval" /\ ~ fast
  /\ Count
  /\ Computes
  /\ debug' = IF instr.op = "toggle" THEN ~ debug ELSE debug
  /\ \/ instr.op = "end" /\ Leave
     \/ Faults /\ Enter /\ restore_tty /\ UNCHANGED exit
     \/ instr.op # "end" /\ ~ Faults /\ Returns /\ Polls("py") /\ UNCHANGED exit
  /\ UNCHANGED <<prog, fast, points>>

\* In _evalpc_c with no return code: one step was asked for, and tracing is off.
CReturns == job # Run /\ ~ debug

CFine ==
  /\ instr.op \notin {"end", "toggle"} /\ ~ Faults
  /\ UNCHANGED job
  /\ phase' = IF CReturns THEN "check" ELSE "eval"
  /\ Polls("c") /\ UNCHANGED <<exit, debug>>

\* RC_DEBUG_TOGGLE: the loop goes on, and the step does not count as one.
CToggle ==
  /\ instr.op = "toggle"
  /\ debug' = ~ debug
  /\ UNCHANGED <<job, phase, tty, exit>>

\* _handle_return_code ends the process for RC_END_PROGRAM.
CEnd == instr.op = "end" /\ Leave /\ UNCHANGED debug

\* For a fault it prints, and the command goes on; a run that was not started
\* by the debugger is over.
CFault ==
  /\ Faults
  /\ IF job = Run THEN Leave
                  ELSE UNCHANGED <<job, exit, tty>> /\ phase' = "check"
  /\ UNCHANGED debug

\* RC_USER_HALT: Ctrl-C came while C was executing an instruction with no other
\* return code.
CHalt ==
  /\ instr.op \notin {"end", "toggle"} /\ ~ Faults
  /\ term.line
  /\ Enter /\ Polls("c") /\ UNCHANGED <<exit, debug>>

CExec ==
  /\ phase = "eval" /\ fast
  /\ Count
  /\ Computes
  /\ CFine \/ CToggle \/ CEnd \/ CFault \/ CHalt
  /\ UNCHANGED <<prog, fast, points>>

\* shandler: Ctrl-C between two instructions, or in Python inside one, when its
\* size has been added to pc and nothing else of it is done.
shandler ==
  /\ ~ exit /\ term.line
  /\ pc' \in {pc} \cup IF phase = "eval" /\ ~ fast THEN {after} ELSE {}
  /\ Enter /\ restore_tty
  /\ UNCHANGED <<prog, fast, debug, sp, cell, points, exit, ran>>

-----------------------------------------------------------------------------
(***************************************************************************)
(* The debugger's loops, between two calls of evalpc.                      *)
(***************************************************************************)
Step == phase' = "eval"
Checking(c) == phase = "check" /\ job.cmd = c

Watched ==
  watch # NoWatch /\ IF watch.test = "eq" THEN cell = watch.value ELSE cell # watch.value

AddTemp(t, a) == [t EXCEPT ![a] = IF @ < MaxTemps THEN @ + 1 ELSE @]
RemoveTemp(t, a) == [t EXCEPT ![a] = IF @ > 0 THEN @ - 1 ELSE @]

\* Mutant of NextLeft: the loop does not count its turns.
NextLeftAgain == job.left

\* The turns that are left after this one.
NextLeft == job.left - 1

\* Before the call of evalpc in n.
NextCall ==
  /\ Checking("n") /\ job.called = FALSE
  /\ IF job.left = 0
       THEN job' = Prompt /\ UNCHANGED phase
       ELSE job' = [job EXCEPT !.called = TRUE, !.old = pc, !.left = NextLeft] /\ Step
  /\ UNCHANGED <<prog, fast, debug, cpu, points, exit, ran, tty>>

\* Mutant of NextSpent: what is removed is where the step began.
NextSpentOld(t) == RemoveTemp(t, job.old)

\* The address whose temporary breakpoint is taken off the list.
NextSpent(t) == RemoveTemp(t, pc)

\* After it: a watch point leaves a temporary breakpoint where the step began,
\* and a breakpoint there ends the command.
NextCheck ==
  /\ Checking("n") /\ job.called
  /\ LET t    == IF Watched THEN AddTemp(temps, job.old) ELSE temps
         stop == job.old \in breaks \/ t[job.old] > 0
     IN  /\ job' = IF stop THEN Prompt ELSE [job EXCEPT !.called = FALSE]
         /\ temps' = IF stop THEN NextSpent(t) ELSE t
  /\ UNCHANGED <<prog, fast, debug, cpu, phase, breaks, watch, exit, ran, tty>>

\* Mutant of ContinueStops: permanent breakpoints only.
ContinueStopsPermanent(t) == pc \in breaks /\ ~ job.first

\* AtLeastOne: not where the command began.
ContinueStops(t) == (pc \in breaks \/ t[pc] > 0) /\ ~ job.first

\* One turn of the loop of c, up to evalpc.
Continue ==
  /\ Checking("c")
  /\ LET t == IF Watched THEN AddTemp(temps, pc) ELSE temps
     IN  IF ContinueStops(t)
           THEN job' = Prompt /\ temps' = RemoveTemp(t, pc) /\ UNCHANGED phase
           ELSE job' = [job EXCEPT !.first = FALSE] /\ temps' = t /\ Step
  /\ UNCHANGED <<prog, fast, debug, cpu, breaks, watch, exit, ran, tty>>

\* One turn of the loop of s.  A PUSH of an address close ahead and then a JMP is
\* a call: it is run until that address, and no breakpoint is looked at.
SourceStep ==
  /\ Checking("s")
  /\ LET near   == instr.op = "push" /\ instr.to \in pc .. pc + 12
         call   == instr.op = "jump" /\ job.pushed
         inside == job.over /\ pc # job.back
     IN  CASE inside -> Step /\ UNCHANGED job
           [] job.over /\ ~ inside -> job' = [job EXCEPT !.over = FALSE] /\ UNCHANGED phase
           [] ~ job.over /\ call ->
                job' = [job EXCEPT !.over = TRUE, !.pushed = FALSE] /\ UNCHANGED phase
           [] ~ job.over /\ ~ call /\ NoLine \in {job.line, Line[pc]} ->
                Step /\ job' = [cmd |-> "one"]
           [] ~ job.over /\ ~ call /\ NoLine \notin {job.line, Line[pc]} ->
                IF Line[pc] # job.line
                  THEN job' = Prompt /\ UNCHANGED phase
                  ELSE /\ Step
                       /\ job' = [job EXCEPT !.pushed = near,
                                             !.back = IF near THEN instr.to ELSE @]
  /\ UNCHANGED <<prog, fast, debug, cpu, points, exit, ran, tty>>

\* The single instruction with which s ends where there are no source lines.
SourceOne ==
  /\ Checking("one")
  /\ job' = Prompt
  /\ UNCHANGED <<prog, fast, debug, cpu, phase, points, exit, ran, tty>>

-----------------------------------------------------------------------------
(***************************************************************************)
(* The commands.  n, s and c start their loop; the others are done at once.*)
(***************************************************************************)
AtPrompt == ~ exit /\ job = Prompt

Starts(j) ==
  /\ AtPrompt
  /\ job' = j /\ ran' = 0
  /\ UNCHANGED <<prog, fast, debug, cpu, phase, points, exit, tty>>

n(k)  == Starts([cmd |-> "n", left |-> k, called |-> FALSE, old |-> pc])
c     == Starts([cmd |-> "c", first |-> TRUE])
s     == Starts([cmd |-> "s", line |-> Line[pc], pushed |-> FALSE, back |-> pc,
                 over |-> FALSE])

\* Without an argument r goes to the entry, which is 0 here.
r(a) ==
  /\ AtPrompt /\ pc' = a /\ sp' = 0
  /\ UNCHANGED <<prog, fast, debug, cell, job, phase, points, exit, ran, tty>>

g(a) ==
  /\ AtPrompt /\ pc' = a
  /\ UNCHANGED <<prog, fast, debug, sp, cell, job, phase, points, exit, ran, tty>>

m(v) ==
  /\ AtPrompt /\ cell' = v
  /\ UNCHANGED <<prog, fast, debug, pc, sp, job, phase, points, exit, ran, tty>>

\* With nothing to pop it is a fault, inside the debugger.
spop ==
  /\ AtPrompt
  /\ IF sp = 0 THEN restore_tty /\ UNCHANGED sp
               ELSE sp' = sp - 1 /\ UNCHANGED tty
  /\ UNCHANGED <<prog, fast, debug, pc, cell, job, phase, points, exit, ran>>

SetsPoints(bs, ts, w) ==
  /\ AtPrompt
  /\ breaks' = bs /\ temps' = ts /\ watch' = w
  /\ UNCHANGED <<prog, fast, debug, cpu, job, phase, exit, ran, tty>>

b(a)        == SetsPoints(breaks \cup {a}, temps, watch)
tb(a)       == SetsPoints(breaks, AddTemp(temps, a), watch)
cb          == SetsPoints({}, temps, watch)
bwhen(v, t) == SetsPoints(breaks, temps, [value |-> v, test |-> t])
clearwhen   == SetsPoints(breaks, temps, NoWatch)

\* The debugger's own terminal commands are Python's: PollReSetRawFunc and
\* PollSetEchoFunc, in either mode.
TtyCommand ==
  /\ AtPrompt
  /\ UNCHANGED <<prog, fast, debug, cpu, job, phase, points, exit, ran>>

\* tty and ttyreset.
ttyreset ==
  /\ TtyCommand
  /\ saved' = [saved EXCEPT !["py"] = NotSaved]
  /\ term' = [BeforeRaw("py") EXCEPT !.echo = TRUE]

ttyraw == TtyCommand /\ SetRaw("py")

\* q; the end of the input, and spush, whose test names an undefined variable, end
\* the process too, with a traceback.
q == AtPrompt /\ Leave /\ UNCHANGED <<prog, fast, debug, cpu, points, ran>>

Executes == PyExec \/ CExec
Loops == NextCall \/ NextCheck \/ Continue \/ SourceStep \/ SourceOne

Commands ==
  \/ c \/ s \/ spop \/ cb \/ clearwhen \/ ttyreset \/ ttyraw \/ q
  \/ \E k \in Steps : n(k)
  \/ \E a \in Goals : r(a) \/ g(a)
  \/ \E a \in Stops : b(a) \/ tb(a)
  \/ \E v \in Values : m(v)
  \/ \E v \in WatchFor, t \in Tests : bwhen(v, t)

Next == Executes \/ Loops \/ shandler \/ Commands

\* What is under way goes on; the user need not type anything.
Spec == Init /\ [][Next]_vars /\ WF_vars(Executes) /\ WF_vars(Loops)

-----------------------------------------------------------------------------
\* The Fast loop does not come back after each instruction when it disassembles.
Toggles == \E a \in Addr : prog[a].op = "toggle"
StepsOnce == ~ fast \/ (~ debug /\ ~ Toggles)

\* c executes no instruction at a breakpoint, except where it began (the loop of
\* the command looks at pc and the loop of evalpc executes: an instruction at a
\* breakpoint runs if one of them goes on where the other should have looked).
BreaksHold ==
  StepsOnce /\ job.cmd = "c" /\ phase = "eval" /\ ran > 0
    => pc \notin breaks /\ temps[pc] = 0

\* A temporary breakpoint goes off the list only when a command stops there.
TempsSpent ==
  [][\A a \in Addr : temps'[a] < temps[a] => pc = a /\ job' = Prompt]_vars

\* In line mode, with reads that wait.
Cooked(t) == t.line /\ t.block

\* Raw mode can be undone as long as it lasts: while the terminal is not cooked the
\* backend keeps a copy, and what it keeps is cooked, so that PollReSetRaw and
\* ttyreset lead back to line mode and to reads that wait.  Between raw and reset come
\* further raws of the program and of the debugger, faults, and Ctrl-C, after which
\* the attributes are restored and the flag is not.  It is about Python's backend: in
\* Fast mode the program's calls keep a copy in C and the debugger's one in Python,
\* and either can be of the other's raw mode.
RawUndone ==
  ~ fast => /\ saved["py"] # NotSaved => Cooked(saved["py"])
            /\ saved["py"] = NotSaved => Cooked(term)

\* n comes back to the prompt or the process ends, whatever faults, breakpoints
\* and Ctrl-C come between.
NextReturns == (StepsOnce /\ job.cmd = "n") ~> (job = Prompt)
=============================================================================
