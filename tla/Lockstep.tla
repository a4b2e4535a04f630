------------------------------ MODULE Lockstep ------------------------------
(***************************************************************************)
(* The emulators side by side, as evalpc runs them for the option -X       *)
(* (CrossCheck): C executes the next instruction, then Python executes it  *)
(* from the same registers and stack, and Python's machine is the one that *)
(* goes on.  evalpc is the same in cpu.py, whose machines have no          *)
(* segments, and in cpu24.py, whose machines have.                         *)
(*                                                                         *)
(* The "snapshot" and the "independent copies" of memory are memspace[:],  *)
(* which of a NumPy array is the same memory: Python starts with what C    *)
(* has stored, and at the terminal where C has left it.                    *)
(***************************************************************************)
EXTENDS PyCpu24, CCpu

CONSTANTS
  Starts,    \* machines that earlier instructions have left
  Args,      \* operands
  MaxSteps   \* bound on the instructions executed

ASSUME LockstepAssumption == (\A s \in Starts : IsMachine(s)) /\ Args \subseteq WordSet

VARIABLES
  m,       \* the machine before the last instruction
  last,    \* the last instruction
  py, c,   \* what each emulator made of it
  halted,  \* evalpc has left its loop
  steps

vars == <<m, last, py, c, halted, steps>>

InstructionsOf(machine) ==
  Instructions(Args) \cup IF machine.seg.vm24 THEN SegmentInstructions ELSE {}

\* _evalpc_py of cpu.py or of cpu24.py.
Python(machine, i) ==
  IF machine.seg.vm24 THEN PyStep24(machine, i) ELSE PyStep(machine, i)

Init ==
  /\ m \in Starts
  /\ last = [op |-> "none", mode |-> "", arg |-> 0]
  /\ py = {m} /\ c = {m}
  /\ halted = FALSE
  /\ steps = 0

\* Mutant of Shared: the bytes that C stores get lost.
SharedLost(machine, after) == [machine EXCEPT !.mem = [a \in DOMAIN @ |-> 0]]

\* The machine, with the memory and the terminal as C has left them.
Shared(machine, after) ==
  IF after = {} THEN machine
  ELSE LET q == CHOOSE q \in after : TRUE
       IN  [machine EXCEPT !.mem = q.mem, !.out = q.out, !.typed = q.typed]

\* A return code 0 from either emulator ends the loop, and 0 is what both give
\* for an instruction that went well.  The debugger calls evalpc again for the
\* next instruction.
evalpc(i) ==
  /\ steps < MaxSteps
  /\ m' \in py
  /\ i \in InstructionsOf(m')
  /\ last' = i
  /\ c'  = CStep(m', i)
  /\ py' = Python(Shared(m', c'), i)
  /\ halted' = (c' # {} \/ py' # {})
  /\ steps' = steps + 1

Next == \E i \in Instructions(Args) \cup SegmentInstructions : evalpc(i)

Spec == Init /\ [][Next]_vars

-----------------------------------------------------------------------------
\* What Python makes of the instruction when C has not been there before.
Alone == IF last.op = "none" THEN py ELSE Python(m, last)

Is24 == m.seg.vm24

\* The command of CAST or POLL.
Command ==
  IF last.op \in Services /\ m.sp > 0
    THEN Named(IF last.op = "CAST" THEN Casts ELSE Polls, peek0(m)) ELSE "none"

Pointed == get16(m, last.arg)

\* The offsets of the words in memory that the instruction reads or writes.
Addresses ==
  CASE Command = "PrintHexII" -> {Pointed}
    [] Command = "Print32II"  -> Pointed .. Pointed + 2
    [] last.mode = "I"  -> {last.arg}
    [] last.mode = "II" -> {last.arg, get16(m, last.arg)}
    [] last.mode = "S" /\ last.op \in {"PUSH", "POP"} /\ m.sp > 0 -> {peek0(m)}
    [] last.mode = "" /\ last.op \in CondJumps \cup {"JMP"} -> {last.arg}
    [] OTHER -> {}

\* The text that Python stores of the line.
StoredLine(typed) == Among(typed, Taken(typed, LineMax), Printable)

\* The last address of a bank: there a word wraps around in C, while Python refuses
\* it or, in cpu.py, reads 0.  cpu24.py looks at the instruction's own bytes too, and
\* the services of both want room behind their operand and their text.
AtTheEdge ==
  \/ MAXMEMSP \in Addresses
  \/ Is24 /\ Size(last) = 3 /\ m.pc > MAXMEMSP - 3
  \/ last.op \in Services /\ ~ RoomAt(last.arg)
  \/ Command = "ReadStrI" /\ ~ RoomAt(last.arg + Len(StoredLine(m.typed)) - 1)

Contains(text, S) == \E k \in DOMAIN text : text[k] \in S
NotAscii == Ascii .. Byte - 1
RawInOne == (RawErrPy \ RawErrC) \cup (RawErrC \ RawErrPy)

\* A line that both read to its end: one shorter than C's room for it, without a zero.
WholeLine(typed) ==
  LineLength(typed) < LineMax /\ \A k \in 1 .. LineLength(typed) : typed[k] # 0

\* The services that the emulators do differently:
\* - PrintBinI and Print32SignS leave a word too many in Python, which dumps the stack
\*   from its top, ends a control character with a line end, and prints a whole word as
\*   one character;
\* - a byte that is not ASCII goes out as it is in C, and as UTF-8 in Python; of error
\*   messages, C prints a backspace in digits, and Python as it is;
\* - of a number, C leaves the rest of the line, and stores what is no word;
\* - for a line without text Python stores nothing; of a long line C takes one character
\*   less, and what follows a zero is no text in C.
OwnWay ==
  \/ Command \in {"PrintBinI", "Print32SignS", "StackDump", "ReadIntI"}
  \/ Command = "PrintStr"    /\ Contains(text_at(m, last.arg), NotAscii)
  \/ Command = "PrintStrI"   /\ Contains(text_at(m, Pointed), NotAscii)
  \/ Command = "PrintErrMsg" /\ Contains(text_at(m, last.arg), RawInOne)
  \/ Command = "PrintChar"   /\ Pointed % Byte \notin Space - 1 .. Ascii - 1
  \/ Command = "PrintCharI"  /\ Pointed >= Ascii
  \/ Command = "ReadStrI"    /\ (StoredLine(m.typed) = <<>> \/ ~ WholeLine(m.typed))

\* The machines without their flags.
SameRest(p, q) ==
  /\ p.pc = q.pc /\ p.sp = q.sp /\ p.mem = q.mem /\ Live(p) = Live(q) /\ p.seg = q.seg
  /\ p.out = q.out /\ p.typed = q.typed

\* Away from the last address the two emulators go to the same instruction, with the
\* same stack, memory and segments, though each has its own arithmetic; and but for the
\* services above, they print the same and read the same from the terminal.
SameMachine == ~ AtTheEdge /\ ~ OwnWay => \A p \in Alone, q \in c : SameRest(p, q)

\* They agree on zero and negative after every instruction, and on carry and
\* overflow after every one but OR, AND and XOR: so a conditional jump that
\* tests what an instruction promises goes the same way in both.
SameFlags ==
  ~ AtTheEdge =>
    \A p \in Alone, q \in c :
      \A bit \in {1, 2} \cup IF last.op \in Logic THEN {} ELSE {4, 8} :
        Has(p.flags, bit) = Has(q.flags, bit)

\* The first line begins with a number, and has no minus behind its first character.
NumberFirst(typed) ==
  LET IsDigit(k) == k <= LineLength(typed) /\ typed[k] \in DOMAIN Digit
  IN  /\ IsDigit(1) \/ (IsDigit(2) /\ typed[1] = Dash)
      /\ \A k \in 2 .. LineLength(typed) : typed[k] # Dash

\* A program that one of them stops is stopped by the other: except that Python lets
\* DUP read below an empty stack and passes over a service that does not exist; that C
\* lets FJMPS leave its bank in ring 0 and refuses no address; and at the console, that
\* Python raises an error for a word that is no character, a surrogate, and that each
\* has its own idea of a line without a number at its beginning, or with a minus further
\* on: Python collects the digits and minuses of one line, C looks at the first
\* characters that are not white, in a later line too.  So '5-3' stops Python, and 'a5'
\* stops C.
SameFaults ==
  /\ c = {} /\ Alone # {} =>
       \/ last.op = "DUP" /\ m.sp = 0
       \/ last.op \in Services /\ Command = "none"
       \/ Command = "ReadIntI" /\ ~ NumberFirst(m.typed)
  /\ Alone = {} /\ c # {} =>
       \/ AtTheEdge
       \/ last.op = "FJMPS" /\ m.seg.ring = 0
       \/ Command = "PrintCharI" /\ Encoded[Pointed] = <<>>
       \/ Command = "ReadIntI" /\ ~ NumberFirst(m.typed)

\* A store through a pointer that overwrites the pointer.
OverItsPointer ==
  last.op = "POP" /\ last.mode = "II"
    /\ {last.arg, last.arg + 1} \cap {get16(m, last.arg), get16(m, last.arg) + 1} # {}

\* The check does not disturb the program: the machine that goes on is what Python
\* alone would have made, although C has stored before Python reads; except for a
\* store over its own pointer, what C stores where Python refuses, and the terminal,
\* on which both print and from which both read.
CheckFollows ==
  ~ AtTheEdge /\ ~ OverItsPointer /\ last.op \notin Services => py = Alone

\* Bank 0 as the memory of cpu.py's machine.
LowBank(machine) == [machine EXCEPT !.mem = [a \in WordSet |-> machine.mem[a]], !.seg = NoSegments]

\* In ring 0 the 24-bit emulator is the 16-bit one, whatever the segment registers
\* and a prefix hold, and other banks stay as they are: away from the last address,
\* and but for ADM, which takes a word there.
RingZero ==
  Is24 /\ m.seg.ring = 0 /\ last \in Instructions(Args) /\ last.op # "ADM" /\ ~ AtTheEdge =>
    /\ {LowBank(p) : p \in Alone} = PyStep(LowBank(m), last)
    /\ \A p \in Alone : \A a \in DOMAIN m.mem \ WordSet : p.mem[a] = m.mem[a]

\* 'independent copy for Python': what Python executes does not depend on C.  The
\* code fails this: both work on the same memory.
CopiesIndependent == py = Alone

\* 'Don't touch CF/OF here, leave them for OverCarryTest': the logic
\* instructions, which make no such test, leave carry and overflow alone.
LogicKeepsCarry ==
  last.op \in Logic => \A p \in Alone, bit \in {4, 8} : Has(p.flags, bit) = Has(m.flags, bit)

\* 'if 6 it will print just ascii code of lower byte of operand', '16 is like 6, but
\* will print lower byte of value at [address]': a character is one byte.  Python prints
\* the whole word.
PrintsOneByte ==
  Command \in {"PrintChar", "PrintCharI"} =>
    \A p \in Alone \cup c : \A item \in {p.out[k] : k \in DOMAIN p.out} :
      Len(item[2]) = 1 /\ Len(item[2][1]) = 1

\* 'FJMPS requires Ring 1': in ring 0 the code stays in bank 0.  C fails this.
RingZeroCode == \A p \in Alone \cup c : p.seg.ring = 0 => p.seg.cs = 0
=============================================================================
