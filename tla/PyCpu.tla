------------------------------- MODULE PyCpu --------------------------------
(***************************************************************************)
(* The Python emulator: the opt* methods of class microcpu in cpu.py.      *)
(* Not executing an instruction stands for raiseerror, or an exception of  *)
(* Python that nobody catches.                                             *)
(***************************************************************************)
EXTENDS Machine

Bit(b, k) == IF b THEN k ELSE 0

ZF(flags) == Has(flags, 1)
NF(flags) == Has(flags, 2)
CF(flags) == Has(flags, 4)
OF(flags) == Has(flags, 8)

fetchStack(m, k) == m.hw[m.sp - 1 - k]

StoreAcum(m, w) == [m EXCEPT !.hw[m.sp - 1] = w]

\* The last address reads as 0.
getwordat(m, a) ==
  IF a = MAXMEMSP THEN 0 ELSE m.mem[a] + Byte * m.mem[a + 1]

putwordat(m, a, w) ==
  [m EXCEPT !.mem[a] = w % Byte, !.mem[a + 1] = w \div Byte]

optPUSH(m, w) ==
  When(m.sp < Depth, [m EXCEPT !.hw[m.sp] = w, !.sp = @ + 1])

optPOPNULL(m) == When(m.sp >= 1, [m EXCEPT !.sp = @ - 1])

-----------------------------------------------------------------------------
(***************************************************************************)
(* Flags.                                                                  *)
(***************************************************************************)

\* The new word has only ZF and NF; carry and overflow are gone.
SetFlags(r) == Bit(r = 0, 1) + Bit(Negative(r), 2)

OverCarryTest(flags, c, o) == flags + Bit(c, 4) + Bit(o, 8)

FlagsAfterMinus(a, b) ==
  OverCarryTest(SetFlags(Minus(a, b)), Borrow(a, b), OverflowOfMinus(a, b))

FlagsAfterPlus(a, b) ==
  OverCarryTest(SetFlags(Plus(a, b)), Carry(a, b), OverflowOfPlus(a, b))

-----------------------------------------------------------------------------
(***************************************************************************)
(* Arithmetic, comparison and logic: the second operand, whether its       *)
(* address is accepted, and the result.                                    *)
(***************************************************************************)

\* The stack has what is fetched from it.
Stacked(m, mode) == m.sp >= IF mode = "S" THEN 2 ELSE 1

\* CMPI and SUBI, and their last step in CMPII and SUBII, read any address.
Unchecked == {"CMP", "SUB"}

AddressOK(m, i) ==
  CASE i.mode = "I"  -> i.op \in Unchecked \/ i.arg # MAXMEMSP
    [] i.mode = "II" -> /\ i.arg # MAXMEMSP
                        /\ i.op \in Unchecked \/ getwordat(m, i.arg) # MAXMEMSP
    [] OTHER         -> TRUE

Operand(m, i) ==
  CASE i.mode = ""   -> i.arg
    [] i.mode = "I"  -> getwordat(m, i.arg)
    [] i.mode = "II" -> getwordat(m, getwordat(m, i.arg))
    [] i.mode = "S"  -> fetchStack(m, 0)

\* XORS stores its result twice, before and after it drops the top.
optALU(m, i) ==
  When(Stacked(m, i.mode) /\ AddressOK(m, i),
    LET a    == fetchStack(m, IF i.mode = "S" THEN 1 ELSE 0)
        b    == Operand(m, i)
        r    == CASE i.op = "ADD" -> Plus(a, b)
                  [] i.op \in {"SUB", "CMP"} -> Minus(a, b)
                  [] OTHER -> Logical[i.op][<<a, b>>]
        f    == CASE i.op = "ADD" -> FlagsAfterPlus(a, b)
                  [] i.op \in {"SUB", "CMP"} -> FlagsAfterMinus(a, b)
                  [] OTHER -> SetFlags(r)
        n    == [m EXCEPT !.flags = f]
        left == IF i.op = "XOR" THEN StoreAcum(n, r) ELSE n
    IN  IF i.op = "CMP" THEN n
        ELSE IF i.mode = "S" THEN StoreAcum([left EXCEPT !.sp = @ - 1], r)
        ELSE StoreAcum(n, r))

\* Rotates through carry, shifts into carry, complements.  RLTC and SHL keep
\* of the flag word only the other three flags.
optOnTop(m, i) ==
  When(m.sp >= 1,
    LET a   == fetchStack(m, 0)
        low == a % 2 = 1
        cin == CF(m.flags)
        r   == CASE i.op = "RRTC"  -> a \div 2 + Bit(cin, Half)
                 [] i.op = "RLTC"  -> ((2 * a) % WordSize) + Bit(cin, 1)
                 [] i.op = "SHR"   -> a \div 2
                 [] i.op = "SHL"   -> (2 * a) % WordSize
                 [] i.op = "INV"   -> WordSize - 1 - a
                 [] i.op = "COMP2" -> (WordSize - a) % WordSize
        f   == CASE i.op \in {"RRTC", "SHR"} ->
                      m.flags - Bit(cin, 4) + Bit(low, 4)
                 [] i.op \in {"RLTC", "SHL"} ->
                      Bit(ZF(m.flags), 1) + Bit(NF(m.flags), 2)
                        + Bit(OF(m.flags), 8) + Bit(Negative(a), 4)
                 [] OTHER -> SetFlags(r)
    IN  StoreAcum([m EXCEPT !.flags = f], r))

-----------------------------------------------------------------------------
(***************************************************************************)
(* The stack and memory.                                                   *)
(***************************************************************************)

\* Nothing tells DUP that the stack is empty: hwstack[-1] is the last slot.
optDUP(m) == optPUSH(m, m.hw[(m.sp + Depth - 1) % Depth])

optSWP(m) ==
  When(m.sp >= 2,
    [m EXCEPT !.hw[m.sp - 1] = m.hw[m.sp - 2], !.hw[m.sp - 2] = m.hw[m.sp - 1]])

optPushFrom(m, i) ==
  CASE i.mode = ""   -> optPUSH(m, i.arg)
    [] i.mode = "I"  -> IF i.arg = MAXMEMSP THEN {}
                        ELSE optPUSH(m, getwordat(m, i.arg))
    [] i.mode = "II" -> IF getwordat(m, i.arg) = MAXMEMSP THEN {}
                        ELSE optPUSH(m, getwordat(m, getwordat(m, i.arg)))
    [] i.mode = "S"  -> When(m.sp >= 1,
                             StoreAcum(m, getwordat(m, fetchStack(m, 0))))

\* Storing a word at the last address runs off the memory.
optPOPI(m, a) ==
  When(m.sp >= 1 /\ a # MAXMEMSP,
       putwordat([m EXCEPT !.sp = @ - 1], a, fetchStack(m, 0)))

\* Mutant of optPOPS: the value is taken from the top, the address below it.
optPOPSSwapped(m) ==
  When(m.sp >= 2 /\ fetchStack(m, 1) # MAXMEMSP,
       putwordat([m EXCEPT !.sp = @ - 2], fetchStack(m, 1), fetchStack(m, 0)))

optPOPS(m) ==
  When(m.sp >= 2 /\ fetchStack(m, 0) # MAXMEMSP,
       putwordat([m EXCEPT !.sp = @ - 2], fetchStack(m, 0), fetchStack(m, 1)))

optPopTo(m, i) ==
  CASE i.mode = "I"  -> optPOPI(m, i.arg)
    [] i.mode = "II" -> optPOPI(m, getwordat(m, i.arg))
    [] i.mode = "S"  -> optPOPS(m)

-----------------------------------------------------------------------------
(***************************************************************************)
(* Jumps, and the flag word itself.                                        *)
(***************************************************************************)

\* The address is checked whether or not the jump is taken.
optJump(m, i) ==
  LET taken == CASE i.op = "JMPZ" -> ZF(m.flags) [] i.op = "JMPN" -> NF(m.flags)
                 [] i.op = "JMPC" -> CF(m.flags) [] i.op = "JMPO" -> OF(m.flags)
                 [] i.op = "JMP"  -> TRUE
  IN  IF i.mode = "I" THEN {[m EXCEPT !.pc = getwordat(m, i.arg)]}
      ELSE When(i.arg # MAXMEMSP, IF taken THEN [m EXCEPT !.pc = i.arg] ELSE m)

optPlain(m, i) ==
  CASE i.op = "NOP"     -> {m}
    [] i.op = "DUP"     -> optDUP(m)
    [] i.op = "SWP"     -> optSWP(m)
    [] i.op = "POPNULL" -> optPOPNULL(m)
    [] i.op = "JMPS"    -> When(m.sp >= 1, [m EXCEPT !.pc = fetchStack(m, 0),
                                                     !.sp = @ - 1])
    [] i.op = "FCLR"    -> {[m EXCEPT !.flags = 0]}
    [] i.op = "FSAV"    -> optPUSH(m, m.flags)
    [] i.op = "FLOD"    -> When(m.sp >= 1, [m EXCEPT !.flags = fetchStack(m, 0),
                                                     !.sp = @ - 1])
    [] i.op = "SCLR"    -> {[m EXCEPT !.sp = 0]}
    [] i.op = "SRPT"    -> optPUSH(m, m.sp)

-----------------------------------------------------------------------------
(***************************************************************************)
(* CAST and POLL.  The last addresses are refused, also where the operand  *)
(* is a number to print.  A command that nobody knows does nothing, and    *)
(* stays on the stack.                                                     *)
(***************************************************************************)
RoomAt(a) == a < MAXMEMSP - Slack

\* Two words; the second one must not lie past the memory.
doubleAt(m, a) == Double(getwordat(m, a), getwordat(m, a + 2))
DoubleOK(a)    == a + 2 <= MAXMEMSP

\* Each byte of a text: a control character in digits, but for some, others by chr();
\* PrintErrMsg has digits for what is not ASCII as well.
castText(text) ==
  [k \in DOMAIN text |->
     IF text[k] < Space /\ text[k] \notin RawText THEN hex02(text[k]) ELSE Encoded[text[k]]]
castError(text) ==
  [k \in DOMAIN text |->
     IF (text[k] < Space \/ text[k] >= Ascii) /\ text[k] \notin RawErrPy
       THEN hex02(text[k]) ELSE Encoded[text[k]]]

\* A control character goes out with a line end.
castChar(v) == IF v < Space - 1 THEN <<v, NewLine>> ELSE Encoded[v]

signed16(v) == IF Negative(v) THEN -(WordSize - 1 - (v - 1)) ELSE v

\* PrintBinI leaves the command on the stack; the whole word that PrintCharI prints may
\* be no character.
castWords(m, cmd, a) ==
  LET n == [m EXCEPT !.sp = @ - 1]
      v == getwordat(m, a)
  IN  CASE cmd = "PrintStr"    -> {Prints(n, "text", castText(TextAt(m.mem, a)))}
        [] cmd = "PrintErrMsg" -> {Prints(n, "error", castError(TextAt(m.mem, a)))}
        [] cmd = "PrintStrI"  -> {Prints(n, "text", castText(TextAt(m.mem, v)))}
        [] cmd = "PrintInt"   -> {Prints(n, "number", a)}
        [] cmd \in {"PrintIntI", "PrintIntUI"} -> {Prints(n, "number", v)}
        [] cmd = "PrintSignI" -> {Prints(n, "number", signed16(v))}
        [] cmd = "PrintBinI"  -> {Prints(m, "binary", v)}
        [] cmd = "PrintChar"  -> {Prints(n, "text", <<castChar(m.mem[a])>>)}
        [] cmd = "PrintCharI" -> When(Encoded[v] # <<>>, Prints(n, "text", <<Encoded[v]>>))
        [] cmd = "PrintHexI"  -> {Prints(n, "hex", v)}
        [] cmd = "PrintHexII" -> {Prints(n, "hex", getwordat(m, v))}

\* Print32SignS takes only one of its words off the stack.
castDoubles(m, cmd, a) ==
  LET n == [m EXCEPT !.sp = @ - 1]
      v == getwordat(m, a)
      OnStack == Double(fetchStack(n, 1), fetchStack(n, 0))
      Drop(k) == [n EXCEPT !.sp = @ - k]
  IN  CASE cmd = "Print32I"     -> {Prints(n, "number", doubleAt(m, a))}
        [] cmd = "Print32SignI" -> {Prints(n, "number", SignedDouble(doubleAt(m, a)))}
        [] cmd = "Print32II"    -> IF DoubleOK(v) THEN {Prints(n, "number", doubleAt(m, v))}
                                   ELSE {}
        [] cmd = "Print32S"     -> IF n.sp < 2 THEN {}
                                   ELSE {Prints(Drop(2), "number", OnStack)}
        [] cmd = "Print32SignS" -> IF n.sp < 2 THEN {}
                                   ELSE {Prints(Drop(1), "number", SignedDouble(OnStack))}

\* From the top down.
castStackDump(m) ==
  LET n == [m EXCEPT !.sp = @ - 1]
  IN  {Prints(n, "stack", [k \in 1 .. n.sp |-> fetchStack(n, k - 1)])}

optCAST(m, a) ==
  IF ~ RoomAt(a) \/ m.sp = 0 THEN {}
  ELSE LET cmd == Named(Casts, fetchStack(m, 0)) IN
    CASE cmd = "none"      -> {m}
      [] cmd = "StackDump" -> castStackDump(m)
      [] cmd \in {"Print32I", "Print32SignI", "Print32II", "Print32S", "Print32SignS"} ->
           castDoubles(m, cmd, a)
      [] OTHER             -> castWords(m, cmd, a)

\* Every digit and minus of the line, 0 where there is none.
justnum(typed) == Among(typed, Taken(typed, LineMax), DOMAIN Digit \cup {Dash})

\* int() takes a minus only before the digits, and raises an error elsewhere.
IsNumeral(s) == s = <<>> \/ (s[Len(s)] # Dash /\ \A k \in 2 .. Len(s) : s[k] # Dash)
int(s) ==
  CASE s = <<>> -> 0
    [] s # <<>> /\ s[1] = Dash -> -Value(Tail(s))
    [] OTHER -> Value(s)

\* Numbers that are no word, and the last word, are stored as 0.
pollInt(m, a) ==
  LET number == int(justnum(m.typed))
      v == IF number < WordSize - 1 /\ number >= -(Half - 1) THEN number ELSE 0
  IN  When(IsNumeral(justnum(m.typed)),
        putwordat([m EXCEPT !.typed = Unread(@, Taken(@, LineMax))], a, v % WordSize))

\* Each character is stored as a word: so the next byte is 0 after the last one,
\* and memory stays as it is when there is none.
pollStr(m, a) ==
  LET taken == Taken(m.typed, LineMax)
      text  == Among(m.typed, taken, Printable)
      n     == Len(text)
  IN  When(n = 0 \/ a + n <= MAXMEMSP - Slack,
        [m EXCEPT !.typed = Unread(@, taken),
                  !.mem = [b \in DOMAIN @ |->
                             IF b \in a .. a + n - 1 THEN text[b - a + 1]
                             ELSE IF n > 0 /\ b = a + n THEN 0 ELSE @[b]]])

pollChar(m, a) ==
  {putwordat([m EXCEPT !.typed = AfterChar(@)], a, NextChar(m.typed))}

pollTime(m) ==
  UNION {optPUSH(n, Now \div WordSize) : n \in optPUSH(m, Now % WordSize)}

optPOLL(m, a) ==
  IF ~ RoomAt(a) \/ m.sp = 0 THEN {}
  ELSE LET cmd == Named(Polls, fetchStack(m, 0))
           n   == [m EXCEPT !.sp = @ - 1]
       IN  CASE cmd = "none"     -> {m}
             [] cmd = "ReadIntI" -> pollInt(n, a)
             [] cmd = "ReadStrI" -> pollStr(n, a)
             [] cmd \in {"ReadCharI", "ReadCINoWait"} -> pollChar(n, a)
             [] cmd = "ReadTime" -> pollTime(n)

optService(m, i) == IF i.op = "CAST" THEN optCAST(m, i.arg) ELSE optPOLL(m, i.arg)

-----------------------------------------------------------------------------
\* One turn of the loop of _evalpc_py: pc goes past the instruction first.  ADM
\* toggles a flag outside of the machine.
PyStep(machine, i) ==
  LET m == [machine EXCEPT !.pc = (@ + Size(i)) % WordSize] IN
    CASE i.op \in Arithmetic \cup Logic -> optALU(m, i)
      [] i.op \in OnTop                 -> optOnTop(m, i)
      [] i.op \in CondJumps \cup {"JMP"} -> optJump(m, i)
      [] i.op = "PUSH"                  -> optPushFrom(m, i)
      [] i.op = "POP"                   -> optPopTo(m, i)
      [] i.op \in Plain                 -> optPlain(m, i)
      [] i.op \in Services              -> optService(m, i)
      [] i.op = "ADM"                   -> {m}
=============================================================================
