--------------------------- MODULE EmulatorProofs ---------------------------
(***************************************************************************)
(* For all programs and everything that the user types: c holds at         *)
(* breakpoints, temporary breakpoints are spent only where a command       *)
(* stops, and raw mode can be undone.                                      *)
(***************************************************************************)
EXTENDS Emulator, FiniteSetTheorems, TLAPS

Lines == {Line[a] : a \in DOMAIN Line}

Jobs ==
  {Run, Prompt, [cmd |-> "one"]}
  \cup [cmd : {"c"}, first : BOOLEAN]
  \cup [cmd : {"n"}, left : Int, called : BOOLEAN, old : Addr]
  \cup [cmd : {"s"}, line : Lines, pushed : BOOLEAN, back : Addr, over : BOOLEAN]

TypeOK ==
  /\ prog \in Programs /\ fast \in BOOLEAN /\ debug \in BOOLEAN
  /\ pc \in Addr
  /\ job \in Jobs /\ phase \in {"eval", "check"}
  /\ temps \in [Addr -> Nat]
  /\ exit \in BOOLEAN /\ ran \in Nat
  /\ term \in States /\ saved \in [Backend -> States \cup {NotSaved}]

\* At the prompt no instruction is under way; a process that has ended is as at the
\* prompt; raw mode can be undone; c that has not begun has executed nothing.
EInv ==
  /\ TypeOK
  /\ job = Prompt => phase = "check"
  /\ exit => job = Prompt
  /\ RawUndone
  /\ job.cmd = "c" /\ job.first => phase = "check" /\ ran = 0
  /\ BreaksHold

-----------------------------------------------------------------------------
\* Execution stays in the program.
LEMMA AfterInProgram ==
  ASSUME prog \in Programs, pc \in Addr
  PROVE  after \in Addr
<1>1. Last \in Nat /\ Addr = 0 .. Last - 1
  BY EmulatorAssumption, FS_CardinalityType DEF Addr, Last
<1> QED
  BY <1>1 DEF after

LEMMA ComputesInProgram ==
  ASSUME prog \in Programs, pc \in Addr, Computes
  PROVE  pc' \in Addr
<1>1. instr.to \in Addr
  BY EmulatorAssumption DEF instr, Addr
<1> QED
  BY <1>1, AfterInProgram DEF Computes

\* The terminal's calls keep its types.
LEMMA PollsTyped ==
  ASSUME NEW x \in Backend, term \in States, saved \in [Backend -> States \cup {NotSaved}],
         Polls(x)
  PROVE  term' \in States /\ saved' \in [Backend -> States \cup {NotSaved}]
<1>1. CASE SetRaw(x)
  BY <1>1 DEF SetRaw, States
<1>2. CASE ReSetRaw(x)
  BY <1>2 DEF ReSetRaw, BeforeRaw
<1>3. ASSUME NEW on \in BOOLEAN, SetEcho(on)
      PROVE  term' \in States /\ saved' \in [Backend -> States \cup {NotSaved}]
  BY <1>3 DEF SetEcho, States
<1>4. CASE UNCHANGED tty
  BY <1>4 DEF tty
<1> QED
  BY <1>1, <1>2, <1>3, <1>4 DEF Polls

\* Python's calls keep what undoes them, and so does the restoring of the attributes,
\* which leaves the copy alone.
LEMMA PollsUndone ==
  ASSUME term \in States, saved \in [Backend -> States \cup {NotSaved}],
         RawUndone, Polls("py"), fast' = fast
  PROVE  RawUndone'
<1> SUFFICES ASSUME ~ fast
             PROVE  RawUndone'
  BY DEF RawUndone
<1> USE DEF RawUndone, Cooked, Backend
<1>1. CASE SetRaw("py")
  <2>1. term # NotSaved
    BY TerminalAssumption
  <2> QED
    BY <1>1, <2>1 DEF SetRaw
<1>2. CASE ReSetRaw("py")
  BY <1>2 DEF ReSetRaw, BeforeRaw
<1>3. ASSUME NEW on \in BOOLEAN, SetEcho(on) PROVE RawUndone'
  BY <1>3 DEF SetEcho, States
<1>4. CASE UNCHANGED tty
  BY <1>4 DEF tty
<1> QED
  BY <1>1, <1>2, <1>3, <1>4 DEF Polls

LEMMA RestoreUndone ==
  ASSUME TypeOK, RawUndone, restore_tty, fast' = fast
  PROVE  RawUndone'
BY DEF TypeOK, restore_tty, restored, RawUndone, Cooked, States

LEMMA KeptUndone ==
  ASSUME EInv, UNCHANGED <<fast, tty>>
  PROVE  RawUndone'
BY DEF EInv, RawUndone, tty

-----------------------------------------------------------------------------
LEMMA InitEInv == Init => EInv
<1> SUFFICES ASSUME Init PROVE EInv
  OBVIOUS
<1>1. pc \in Addr
  BY EmulatorAssumption DEF Init, Addr
<1>2. TypeOK
  BY <1>1 DEF Init, TypeOK, Jobs, TermInit, Usual, States
<1>3. RawUndone
  BY DEF Init, TermInit, Usual, Backend, RawUndone, Cooked
<1> QED
  BY <1>2, <1>3 DEF Init, EInv, BreaksHold, Run, Prompt

\* Leaving restores the terminal and takes the place of what was under way.
LEMMA LeaveEInv ==
  ASSUME EInv, Leave, pc' \in Addr, ran' \in Nat, debug' \in BOOLEAN,
         UNCHANGED <<prog, fast, points>>
  PROVE  EInv'
<1>1. TypeOK'
  BY DEF EInv, TypeOK, Leave, restore_tty, restored, States, points, Jobs, Addr
<1>2. RawUndone'
  BY RestoreUndone DEF EInv, Leave
<1> QED
  BY <1>1, <1>2 DEF EInv, Leave, BreaksHold, Prompt

\* So does entering the debugger, from a process that goes on.
LEMMA EnterEInv ==
  ASSUME EInv, Enter, ~ exit, exit' = exit, pc' \in Addr, ran' \in Nat, debug' \in BOOLEAN,
         term' \in States, saved' \in [Backend -> States \cup {NotSaved}],
         RawUndone', UNCHANGED <<prog, fast, points>>
  PROVE  EInv'
<1>1. TypeOK'
  BY DEF EInv, TypeOK, Enter, points, Jobs, Addr
<1> QED
  BY <1>1 DEF EInv, Enter, BreaksHold, Prompt

LEMMA RestoreTyped ==
  ASSUME TypeOK, restore_tty
  PROVE  term' \in States /\ saved' \in [Backend -> States \cup {NotSaved}]
BY DEF TypeOK, restore_tty, restored, States

\* No instruction is under way in a process that has ended.
LEMMA EvalRuns ==
  ASSUME EInv, phase = "eval"
  PROVE  ~ exit /\ job # Prompt /\ (job.cmd = "c" => ~ job.first)
BY DEF EInv

LEMMA CountTyped == ASSUME TypeOK, Count PROVE ran' \in Nat
BY DEF TypeOK, Count

LEMMA PyExecEInv == ASSUME EInv, PyExec PROVE EInv'
<1>1. TypeOK /\ phase = "eval" /\ pc' \in Addr /\ ran' \in Nat /\ debug' \in BOOLEAN
  BY ComputesInProgram, CountTyped DEF EInv, TypeOK, PyExec
<1>2. ~ exit /\ UNCHANGED <<prog, fast, points>>
  BY <1>1, EvalRuns DEF PyExec
<1>3. CASE Leave
  BY <1>1, <1>2, <1>3, LeaveEInv
<1>4. CASE Enter /\ restore_tty /\ UNCHANGED exit
  BY <1>1, <1>2, <1>4, EnterEInv, RestoreTyped, RestoreUndone DEF EInv
<1>5. CASE Returns /\ Polls("py") /\ UNCHANGED exit
  <2>1. TypeOK'
    BY <1>1, <1>2, <1>5, PollsTyped DEF TypeOK, Returns, Backend, points, Jobs, Addr
  <2>2. job.cmd = "c" => phase' = "check" /\ ~ job.first
    BY <1>1, <1>5, EvalRuns DEF Returns, Run
  <2>3. RawUndone'
    BY <1>1, <1>2, <1>5, PollsUndone DEF EInv, TypeOK
  <2> QED
    BY <2>1, <2>2, <2>3, <1>1, <1>2, <1>5, EvalRuns DEF EInv, Returns, BreaksHold
<1> QED
  BY <1>3, <1>4, <1>5 DEF PyExec

LEMMA CExecEInv == ASSUME EInv, CExec PROVE EInv'
<1>1. TypeOK /\ phase = "eval" /\ pc' \in Addr /\ ran' \in Nat
  BY ComputesInProgram, CountTyped DEF EInv, TypeOK, CExec
<1>2. ~ exit /\ UNCHANGED <<prog, fast, points>> /\ fast
  BY <1>1, EvalRuns DEF CExec
<1>3. job # Prompt /\ (job.cmd = "c" => ~ job.first)
  BY <1>1, EvalRuns
\* While it traces, or a program may turn tracing on, nothing is said of c.
<1>4. ASSUME TypeOK', ~ exit', job' = job, phase' = "check" \/ ~ StepsOnce'
      PROVE  EInv'
  BY <1>2, <1>3, <1>4 DEF EInv, RawUndone, BreaksHold
<1>5. CASE CFine
  <2>1. TypeOK'
    BY <1>1, <1>2, <1>5, PollsTyped DEF TypeOK, CFine, Backend, points, Jobs, Addr
  <2>2. CASE job = Run
    BY <2>1, <2>2, <1>2, <1>3, <1>5 DEF EInv, CFine, CReturns, RawUndone, BreaksHold, Run
  <2>3. CASE job # Run
    BY <2>1, <2>3, <1>2, <1>4, <1>5 DEF CFine, CReturns, StepsOnce
  <2> QED
    BY <2>2, <2>3
<1>6. CASE CToggle
  <2>1. TypeOK'
    BY <1>1, <1>2, <1>6 DEF TypeOK, CToggle, points, tty, Jobs, Addr
  <2>2. ~ StepsOnce'
    BY <1>1, <1>2, <1>6 DEF StepsOnce, Toggles, CToggle, instr, TypeOK, Addr
  <2> QED
    BY <2>1, <2>2, <1>2, <1>4, <1>6 DEF CToggle
<1>7. CASE CEnd
  BY <1>1, <1>2, <1>7, LeaveEInv DEF CEnd, TypeOK
<1>8. CASE CFault
  <2>1. CASE job = Run
    BY <2>1, <1>1, <1>2, <1>8, LeaveEInv DEF CFault, TypeOK
  <2>2. CASE job # Run
    <3>1. TypeOK'
      BY <2>2, <1>1, <1>2, <1>8 DEF TypeOK, CFault, points, tty, Jobs, Addr
    <3> QED
      BY <3>1, <2>2, <1>2, <1>4, <1>8 DEF CFault
  <2> QED
    BY <2>1, <2>2
<1>9. CASE CHalt
  BY <1>1, <1>2, <1>9, EnterEInv, PollsTyped DEF CHalt, TypeOK, Backend, RawUndone
<1> QED
  BY <1>5, <1>6, <1>7, <1>8, <1>9 DEF CExec

LEMMA ShandlerEInv == ASSUME EInv, shandler PROVE EInv'
<1>1. pc' \in Addr
  BY AfterInProgram DEF EInv, TypeOK, shandler
<1> QED
  BY <1>1, EnterEInv, RestoreTyped, RestoreUndone DEF EInv, TypeOK, shandler

-----------------------------------------------------------------------------
\* In a process that goes on, and where c is not under way, the types are enough.
LEMMA QuietEInv ==
  ASSUME TypeOK', RawUndone', ~ exit', job'.cmd # "c", job' = Prompt => phase' = "check"
  PROVE  EInv'
BY DEF EInv, BreaksHold

LEMMA LoopRuns == ASSUME EInv, job.cmd # "prompt" PROVE ~ exit
BY DEF EInv, Prompt

LEMMA AddTempTyped ==
  ASSUME NEW t \in [Addr -> Nat], NEW a
  PROVE  AddTemp(t, a) \in [Addr -> Nat]
<1>1. CASE a \in Addr
  <2>1. t[a] \in Nat
    BY <1>1
  <2> QED
    BY <1>1, <2>1 DEF AddTemp
<1>2. CASE a \notin Addr
  BY <1>2 DEF AddTemp
<1> QED
  BY <1>1, <1>2

LEMMA RemoveTempTyped ==
  ASSUME NEW t \in [Addr -> Nat], NEW a
  PROVE  RemoveTemp(t, a) \in [Addr -> Nat]
<1>1. CASE a \in Addr
  <2>1. t[a] \in Nat
    BY <1>1
  <2> QED
    BY <1>1, <2>1 DEF RemoveTemp
<1>2. CASE a \notin Addr
  BY <1>2 DEF RemoveTemp
<1> QED
  BY <1>1, <1>2

LEMMA NextCallEInv == ASSUME EInv, NextCall PROVE EInv'
<1>1. ~ exit
  BY LoopRuns DEF NextCall, Checking
<1>u. RawUndone'
  BY KeptUndone DEF NextCall, tty
<1>2. job \in [cmd : {"n"}, left : Int, called : BOOLEAN, old : Addr]
  BY DEF EInv, TypeOK, NextCall, Checking, Jobs, Run, Prompt
<1>3. CASE job.left = 0
  <2>1. TypeOK'
    BY <1>3 DEF EInv, TypeOK, NextCall, Jobs, Addr, cpu, points, tty
  <2> QED
    BY <1>1, <1>3, <2>1, <1>u, QuietEInv DEF NextCall, Checking, Prompt
<1>4. CASE job.left # 0
  <2>1. job' = [job EXCEPT !.called = TRUE, !.old = pc, !.left = NextLeft] /\ phase' = "eval"
    BY <1>4 DEF NextCall, Step
  <2>2. job' \in [cmd : {"n"}, left : Int, called : BOOLEAN, old : Addr]
    <3>1. NextLeft \in Int /\ pc \in Addr
      BY <1>2 DEF NextLeft, EInv, TypeOK
    <3> QED
      BY <1>2, <2>1, <3>1
  <2>3. Addr' = Addr
    BY DEF NextCall, Addr
  <2>4. TypeOK'
    BY <2>1, <2>2, <2>3 DEF EInv, TypeOK, NextCall, Jobs, cpu, points, tty
  <2> QED
    BY <1>1, <2>2, <2>4, <1>u, QuietEInv DEF NextCall, Prompt
<1> QED
  BY <1>3, <1>4

LEMMA NextCheckEInv == ASSUME EInv, NextCheck PROVE EInv'
<1>1. ~ exit
  BY LoopRuns DEF NextCheck, Checking
<1>u. RawUndone'
  BY KeptUndone DEF NextCheck, tty
<1>2. job \in [cmd : {"n"}, left : Int, called : BOOLEAN, old : Addr]
  BY DEF EInv, TypeOK, NextCheck, Checking, Jobs, Run, Prompt
<1>3. temps' \in [Addr -> Nat]
  BY AddTempTyped, RemoveTempTyped DEF EInv, TypeOK, NextCheck, NextSpent
<1>4. TypeOK'
  BY <1>2, <1>3 DEF EInv, TypeOK, NextCheck, Jobs, Addr, cpu, tty
<1> QED
  BY <1>1, <1>2, <1>4, <1>u, QuietEInv DEF NextCheck, Checking, Prompt

\* The loop of c goes on only away from breakpoints, or at its first turn.
LEMMA ContinueEInv == ASSUME EInv, Continue PROVE EInv'
<1>1. ~ exit
  BY LoopRuns DEF Continue, Checking
<1>u. RawUndone'
  BY KeptUndone DEF Continue, tty
<1>2. job \in [cmd : {"c"}, first : BOOLEAN]
  BY DEF EInv, TypeOK, Continue, Checking, Jobs, Run, Prompt
<1>3. temps' \in [Addr -> Nat]
  BY AddTempTyped, RemoveTempTyped DEF EInv, TypeOK, Continue
<1>4. TypeOK'
  BY <1>2, <1>3 DEF EInv, TypeOK, Continue, Step, Jobs, Addr, cpu, tty
<1>5. CASE job' = Prompt /\ phase' = phase
  BY <1>1, <1>4, <1>5, <1>u, QuietEInv DEF Continue, Checking, Prompt
<1>6. ASSUME job' = [job EXCEPT !.first = FALSE], Step, ~ ContinueStops(temps')
      PROVE  EInv'
  <2>1. ~ job'.first /\ job'.cmd = "c"
    BY <1>2, <1>6
  <2>2. job.first => ran' = 0
    BY <1>2 DEF EInv, Continue
  <2>3. (pc \notin breaks /\ temps'[pc] = 0) \/ job.first
    BY <1>2, <1>3, <1>6 DEF ContinueStops, EInv, TypeOK
  <2>4. BreaksHold'
    BY <2>2, <2>3 DEF BreaksHold, Continue, cpu
  <2> QED
    BY <1>1, <1>u, <1>4, <2>1, <2>4 DEF EInv, Continue, Prompt
<1> QED
  BY <1>5, <1>6 DEF Continue

LEMMA SourceStepEInv == ASSUME EInv, SourceStep PROVE EInv'
<1> DEFINE Sources == [cmd : {"s"}, line : Lines, pushed : BOOLEAN, back : Addr, over : BOOLEAN]
<1>1. ~ exit
  BY LoopRuns DEF SourceStep, Checking
<1>u. RawUndone'
  BY KeptUndone DEF SourceStep, tty
<1>2. job \in Sources
  BY DEF EInv, TypeOK, SourceStep, Checking, Jobs, Run, Prompt
<1>3. instr.to \in Addr
  BY EmulatorAssumption DEF EInv, TypeOK, instr, Addr
<1>4. /\ job' \in Sources \/ job' = [cmd |-> "one"] \/ (job' = Prompt /\ phase' = phase)
      /\ phase' \in {phase, "eval"}
  BY <1>2, <1>3 DEF SourceStep, Step
<1>5. TypeOK'
  BY <1>4 DEF EInv, TypeOK, SourceStep, Jobs, Addr, cpu, points, tty
<1> QED
  BY <1>1, <1>4, <1>5, <1>u, QuietEInv DEF SourceStep, Checking, Prompt

LEMMA SourceOneEInv == ASSUME EInv, SourceOne PROVE EInv'
<1>1. ~ exit
  BY LoopRuns DEF SourceOne, Checking
<1>u. RawUndone'
  BY KeptUndone DEF SourceOne, tty
<1>2. TypeOK'
  BY DEF EInv, TypeOK, SourceOne, Jobs, Addr, cpu, points, tty
<1> QED
  BY <1>1, <1>2, <1>u, QuietEInv DEF SourceOne, Checking, Prompt

-----------------------------------------------------------------------------
\* A command that is done at once leaves the prompt.
LEMMA AtOnceEInv ==
  ASSUME EInv, AtPrompt, TypeOK', RawUndone', UNCHANGED <<job, phase, exit>>
  PROVE  EInv'
BY QuietEInv DEF EInv, AtPrompt, Prompt

LEMMA StartsEInv ==
  ASSUME EInv, NEW j \in Jobs, Starts(j), j # Prompt
  PROVE  EInv'
<1>1. TypeOK'
  BY DEF EInv, TypeOK, Starts, Jobs, Addr, cpu, points, tty
<1> QED
  BY <1>1, KeptUndone DEF EInv, Starts, AtPrompt, BreaksHold, tty

LEMMA SetsPointsEInv ==
  ASSUME EInv, NEW bs, NEW ts \in [Addr -> Nat], NEW w, SetsPoints(bs, ts, w)
  PROVE  EInv'
<1>1. TypeOK'
  BY DEF EInv, TypeOK, SetsPoints, Jobs, Addr, cpu, tty
<1> QED
  BY <1>1, AtOnceEInv, KeptUndone DEF SetsPoints, tty

LEMMA CommandsEInv == ASSUME EInv, Commands PROVE EInv'
<1> USE DEF EInv, TypeOK
<1>1. CASE c
  BY <1>1, StartsEInv DEF c, Jobs, Prompt
<1>2. CASE s
  <2>1. Line[pc] \in Lines
    BY EmulatorAssumption DEF Lines, Addr
  <2> QED
    BY <1>2, <2>1, StartsEInv DEF s, Jobs, Prompt
<1>3. ASSUME NEW k \in Steps, n(k) PROVE EInv'
  <2> DEFINE j == [cmd |-> "n", left |-> k, called |-> FALSE, old |-> pc]
  <2>1. k \in Int
    BY EmulatorAssumption
  <2>2. j \in [cmd : {"n"}, left : Int, called : BOOLEAN, old : Addr]
    BY <2>1
  <2>3. j \in Jobs /\ j # Prompt
    BY <2>2 DEF Jobs, Prompt
  <2>4. Starts(j)
    BY <1>3 DEF n
  <2> HIDE DEF j
  <2> QED
    BY <2>3, <2>4, StartsEInv
<1>4. CASE spop
  <2>1. TypeOK'
    BY <1>4, RestoreTyped DEF spop, tty, points, Addr, Jobs
  <2>2. RawUndone'
    BY <1>4, RestoreUndone, KeptUndone DEF spop, tty
  <2> QED
    BY <1>4, <2>1, <2>2, AtOnceEInv DEF spop
<1>5. CASE cb \/ clearwhen
  BY <1>5, SetsPointsEInv DEF cb, clearwhen
<1>6. ASSUME NEW a \in Stops, b(a) \/ tb(a) PROVE EInv'
  BY <1>6, SetsPointsEInv, AddTempTyped DEF b, tb
<1>7. ASSUME NEW v \in WatchFor, NEW t \in Tests, bwhen(v, t) PROVE EInv'
  BY <1>7, SetsPointsEInv DEF bwhen
<1>8. CASE ttyreset
  <2>1. TypeOK'
    BY <1>8 DEF ttyreset, TtyCommand, BeforeRaw, States, Backend, cpu, points, Addr, Jobs
  <2>2. RawUndone'
    BY <1>8 DEF ttyreset, TtyCommand, BeforeRaw, States, Backend, RawUndone, Cooked
  <2> QED
    BY <1>8, <2>1, <2>2, AtOnceEInv DEF ttyreset, TtyCommand
<1>9. CASE ttyraw
  <2>1. TypeOK'
    BY <1>9 DEF ttyraw, TtyCommand, SetRaw, States, Backend, cpu, points, Addr, Jobs
  <2>2. RawUndone'
    <3>1. term # NotSaved
      BY TerminalAssumption
    <3> QED
      BY <1>9, <3>1 DEF ttyraw, TtyCommand, SetRaw, Backend, RawUndone, Cooked
  <2> QED
    BY <1>9, <2>1, <2>2, AtOnceEInv DEF ttyraw, TtyCommand
<1>10. CASE q
  BY <1>10, LeaveEInv DEF q, cpu
<1>11. ASSUME NEW a \in Goals, r(a) \/ g(a) PROVE EInv'
  <2>1. a \in Addr
    BY EmulatorAssumption DEF Addr
  <2>2. TypeOK'
    BY <1>11, <2>1 DEF r, g, tty, points, Addr, Jobs
  <2> QED
    BY <1>11, <2>2, AtOnceEInv, KeptUndone DEF r, g, tty
<1>12. ASSUME NEW v \in Values, m(v) PROVE EInv'
  <2>1. TypeOK'
    BY <1>12 DEF m, tty, points, Addr, Jobs
  <2> QED
    BY <1>12, <2>1, AtOnceEInv, KeptUndone DEF m, tty
<1> QED
  BY <1>1, <1>2, <1>3, <1>4, <1>5, <1>6, <1>7, <1>8, <1>9, <1>10, <1>11, <1>12 DEF Commands

LEMMA NextEInv == ASSUME EInv, [Next]_vars PROVE EInv'
<1>1. CASE Next
  BY <1>1, PyExecEInv, CExecEInv, ShandlerEInv, NextCallEInv, NextCheckEInv, ContinueEInv,
     SourceStepEInv, SourceOneEInv, CommandsEInv DEF Next, Executes, Loops
<1>2. CASE UNCHANGED vars
  BY <1>2 DEF vars, cpu, points, tty, EInv, TypeOK, Jobs, Addr, RawUndone, Cooked, BreaksHold,
     StepsOnce, Toggles
<1> QED
  BY <1>1, <1>2

\* The emulator and its debugger keep the invariant, whatever is run and typed.
THEOREM EmulatorInvariant == Spec => []EInv
<1>1. EInv /\ [Next]_vars => EInv'
  BY NextEInv
<1> QED
  BY <1>1, InitEInv, PTL DEF Spec

\* BreaksHold: c never executes an instruction at a breakpoint, but for its first.
THEOREM BreakpointsHold == Spec => []BreaksHold
<1>1. EInv => BreaksHold
  BY DEF EInv
<1> QED
  BY <1>1, EmulatorInvariant, PTL

\* RawUndone: with Python's backend, whatever is run and typed, a reset of raw mode
\* leads back to line mode and to reads that wait.
THEOREM RawModeUndone == Spec => []RawUndone
<1>1. EInv => RawUndone
  BY DEF EInv
<1> QED
  BY <1>1, EmulatorInvariant, PTL

-----------------------------------------------------------------------------
\* Adding takes nothing off the list, and removing takes from one place.
LEMMA AddTempGrows ==
  ASSUME NEW t \in [Addr -> Nat], NEW x, NEW a \in Addr
  PROVE  AddTemp(t, x)[a] >= t[a]
BY DEF AddTemp

LEMMA RemoveTempElsewhere ==
  ASSUME NEW t \in [Addr -> Nat], NEW x, NEW a \in Addr, a # x
  PROVE  RemoveTemp(t, x)[a] = t[a]
BY DEF RemoveTemp

LEMMA SpentAtPc ==
  ASSUME TypeOK, [Next]_vars, NEW a \in Addr, temps'[a] < temps[a]
  PROVE  pc = a /\ job' = Prompt
<1>1. temps' # temps
  BY DEF TypeOK
<1>2. CASE NextCheck
  <2> DEFINE t == IF Watched THEN AddTemp(temps, job.old) ELSE temps
  <2>1. t \in [Addr -> Nat] /\ t[a] >= temps[a]
    BY AddTempTyped, AddTempGrows DEF TypeOK
  <2>2. temps' = t \/ (temps' = RemoveTemp(t, pc) /\ job' = Prompt)
    BY <1>2 DEF NextCheck, NextSpent
  <2> HIDE DEF t
  <2>3. temps' # t
    BY <2>1 DEF TypeOK
  <2> QED
    BY <2>1, <2>2, <2>3, RemoveTempElsewhere DEF TypeOK
<1>3. CASE Continue
  <2> DEFINE t == IF Watched THEN AddTemp(temps, pc) ELSE temps
  <2>1. t \in [Addr -> Nat] /\ t[a] >= temps[a]
    BY AddTempTyped, AddTempGrows DEF TypeOK
  <2>2. temps' = t \/ (temps' = RemoveTemp(t, pc) /\ job' = Prompt)
    BY <1>3 DEF Continue
  <2> HIDE DEF t
  <2>3. temps' # t
    BY <2>1 DEF TypeOK
  <2> QED
    BY <2>1, <2>2, <2>3, RemoveTempElsewhere DEF TypeOK
<1>4. ASSUME NEW x \in Stops, tb(x) PROVE FALSE
  BY <1>4, AddTempGrows, AddTempTyped DEF tb, SetsPoints, TypeOK
<1>5. ~ (Executes \/ NextCall \/ SourceStep \/ SourceOne \/ shandler \/ UNCHANGED vars)
  BY <1>1 DEF Executes, PyExec, CExec, NextCall, SourceStep, SourceOne, shandler, points, vars
<1>6. ~ (c \/ s \/ spop \/ cb \/ clearwhen \/ ttyreset \/ ttyraw \/ q)
  BY <1>1 DEF c, s, spop, cb, clearwhen, ttyreset, ttyraw, q, Starts, SetsPoints, TtyCommand, points
<1>7. ~ \E k \in Steps : n(k)
  BY <1>1 DEF n, Starts, points
<1>8. \A x : ~ (r(x) \/ g(x) \/ b(x) \/ m(x))
  BY <1>1 DEF r, g, b, m, SetsPoints, points
<1>9. \A v, w : ~ bwhen(v, w)
  BY <1>1 DEF bwhen, SetsPoints
<1> QED
  BY <1>2, <1>3, <1>4, <1>5, <1>6, <1>7, <1>8, <1>9 DEF Next, Loops, Commands

\* TempsSpent: a temporary breakpoint goes off the list only where a command stops.
THEOREM TemporariesSpent == Spec => TempsSpent
<1>1. EInv /\ [Next]_vars => [\A a \in Addr : temps'[a] < temps[a] => pc = a /\ job' = Prompt]_vars
  BY SpentAtPc DEF EInv
<1> QED
  BY <1>1, EmulatorInvariant, PTL DEF Spec, TempsSpent
=============================================================================
