-------------------------------- MODULE CCpu --------------------------------
(***************************************************************************)
(* The C emulator: step_once in speedCPU.c, for the 16-bit machine         *)
(* (g_vm24 == NULL: ~ seg.vm24) and the 24-bit one.  Not executing an      *)
(* instruction stands for an RC_ code.  Addresses wrap around inside their *)
(* bank, and each instruction updates only the flags it names.             *)
(***************************************************************************)
EXTENDS Machine

FL_Z == 1
FL_N == 2
FL_C == 4
FL_O == 8

\* The flag word without a bit, and with the bit set to a truth value.
Without(flags, bit) == IF Has(flags, bit) THEN flags - bit ELSE flags
Put(flags, bit, b)  == Without(flags, bit) + IF b THEN bit ELSE 0

set_zn(flags, r) == Put(Put(flags, FL_Z, r = 0), FL_N, r >= Half)

set_cf_of_add(flags, a, b, r) ==
  Put(Put(flags, FL_C, a + b >= WordSize),
      FL_O, (a >= Half) = (b >= Half) /\ (r >= Half) # (a >= Half))

\* Mutant of set_cf_of_sub: equal words borrow.
set_cf_of_sub_loose(flags, a, b, r) ==
  Put(Put(flags, FL_C, a <= b),
      FL_O, (a >= Half) # (b >= Half) /\ (r >= Half) # (a >= Half))

set_cf_of_sub(flags, a, b, r) ==
  Put(Put(flags, FL_C, a < b),
      FL_O, (a >= Half) # (b >= Half) /\ (r >= Half) # (a >= Half))

vm_data_address(m, a) ==
  LET bank == IF m.seg.override # NoOverride THEN m.seg.override ELSE m.seg.ds
  IN  (a % WordSize) + IF m.seg.vm24 /\ m.seg.ring = 1 THEN WordSize * bank ELSE 0

get16(m, a) == m.mem[vm_data_address(m, a)] + Byte * m.mem[vm_data_address(m, a + 1)]

put16(m, a, w) ==
  [m EXCEPT !.mem[vm_data_address(m, a)] = w % Byte,
            !.mem[vm_data_address(m, a + 1)] = w \div Byte]

\* Mutant of push16: the last slot is never used.
push16_short(m, w) ==
  When(m.sp < Depth - 1, [m EXCEPT !.hw[m.sp] = w, !.sp = @ + 1])

push16(m, w) == When(m.sp < Depth, [m EXCEPT !.hw[m.sp] = w, !.sp = @ + 1])
peek0(m)     == m.hw[m.sp - 1]
peek1(m)     == m.hw[m.sp - 2]
set_top(m, w) == [m EXCEPT !.hw[m.sp - 1] = w]

\* The word that the operand of a three-byte instruction gives.
argument(m, i) ==
  CASE i.mode = ""   -> i.arg
    [] i.mode = "I"  -> get16(m, i.arg)
    [] i.mode = "II" -> get16(m, get16(m, i.arg))

-----------------------------------------------------------------------------
\* The ALU: on the top and an operand, or on the two top words.
step_ALU(m, i) ==
  LET two == i.mode = "S"
      a   == IF two THEN peek1(m) ELSE peek0(m)
      b   == IF two THEN peek0(m) ELSE argument(m, i)
      sum == (a + b) % WordSize
      dif == (a - b) % WordSize
      n   == IF two THEN [m EXCEPT !.sp = @ - 1] ELSE m
      Logic2(r) == set_top([n EXCEPT !.flags = set_zn(@, r)], r)
  IN  When(m.sp >= IF two THEN 2 ELSE 1,
        CASE i.op = "CMP" ->
               [m EXCEPT !.flags = set_cf_of_sub(set_zn(@, dif), a, b, dif)]
          [] i.op = "ADD" -> set_top(
               [n EXCEPT !.flags = set_cf_of_add(set_zn(@, sum), a, b, sum)], sum)
          [] i.op = "SUB" -> set_top(
               [n EXCEPT !.flags = set_cf_of_sub(set_zn(@, dif), a, b, dif)], dif)
          [] i.op \in Logic -> Logic2(Logical[i.op][<<a, b>>]))

step_OnTop(m, i) ==
  When(m.sp >= 1,
    LET a     == peek0(m)
        carry == IF Has(m.flags, FL_C) THEN 1 ELSE 0
        right == Put(m.flags, FL_C, a % 2 = 1)
        left  == Put(m.flags, FL_C, a >= Half)
        Set(f, w) == set_top([m EXCEPT !.flags = f], w)
        Bare(w)   == Set(set_zn(0, w), w)
    IN  CASE i.op = "RRTC"  -> Set(right, a \div 2 + Half * carry)
          [] i.op = "RLTC"  -> Set(left, ((2 * a) % WordSize) + carry)
          [] i.op = "SHR"   -> Set(right, a \div 2)
          [] i.op = "SHL"   -> Set(left, (2 * a) % WordSize)
          [] i.op = "INV"   -> Bare(WordSize - 1 - a)
          [] i.op = "COMP2" -> Bare((WordSize - a) % WordSize))

step_PUSH(m, i) ==
  IF i.mode = "S" THEN When(m.sp >= 1, set_top(m, get16(m, peek0(m))))
                  ELSE push16(m, argument(m, i))

step_POP(m, i) ==
  IF i.mode = "S"
    THEN When(m.sp >= 2, put16([m EXCEPT !.sp = @ - 2], peek0(m), peek1(m)))
    ELSE When(m.sp >= 1,
           put16([m EXCEPT !.sp = @ - 1],
                 IF i.mode = "I" THEN i.arg ELSE get16(m, i.arg), peek0(m)))

step_JMP(m, i) ==
  LET tested == [JMPZ |-> FL_Z, JMPN |-> FL_N, JMPC |-> FL_C, JMPO |-> FL_O] IN
    {IF i.op = "JMP" \/ Has(m.flags, tested[i.op])
       THEN [m EXCEPT !.pc = argument(m, i)] ELSE m}

step_Plain(m, i) ==
  CASE i.op = "NOP"     -> {m}
    [] i.op = "DUP"     -> IF m.sp >= 1 THEN push16(m, peek0(m)) ELSE {}
    [] i.op = "SWP"     -> When(m.sp >= 2,
         [m EXCEPT !.hw[m.sp - 1] = peek1(m), !.hw[m.sp - 2] = peek0(m)])
    [] i.op = "POPNULL" -> When(m.sp >= 1, [m EXCEPT !.sp = @ - 1])
    [] i.op = "JMPS"    -> When(m.sp >= 1, [m EXCEPT !.pc = peek0(m), !.sp = @ - 1])
    [] i.op = "FCLR"    -> {[m EXCEPT !.flags = 0]}
    [] i.op = "FSAV"    -> push16(m, m.flags)
    [] i.op = "FLOD"    -> When(m.sp >= 1, [m EXCEPT !.flags = peek0(m), !.sp = @ - 1])
    [] i.op = "SCLR"    -> {[m EXCEPT !.sp = 0]}
    [] i.op = "SRPT"    -> push16(m, m.sp)

-----------------------------------------------------------------------------
(***************************************************************************)
(* CAST and POLL.  The command is off the stack before it is looked at; an *)
(* unknown one ends the program.                                           *)
(***************************************************************************)
text_at(m, a) == TextAt([k \in WordSet |-> m.mem[vm_data_address(m, k)]], a)
double_at(m, a) == Double(get16(m, a), get16(m, a + 2))
low_byte(w) == w % Byte

\* Each byte is put out as it is, or in two digits.
put_text(text) ==
  [k \in DOMAIN text |->
     IF text[k] < Space /\ text[k] \notin RawText THEN hex02(text[k]) ELSE <<text[k]>>]
put_error(text) ==
  [k \in DOMAIN text |->
     IF (text[k] < Space \/ text[k] >= Ascii) /\ text[k] \notin RawErrC
       THEN hex02(text[k]) ELSE <<text[k]>>]

cast_word(n, cmd, arg) ==
  LET argi == get16(n, arg) IN
    CASE cmd = "PrintStr"    -> Prints(n, "text", put_text(text_at(n, arg)))
      [] cmd = "PrintErrMsg" -> Prints(n, "error", put_error(text_at(n, arg)))
      [] cmd = "PrintStrI"  -> Prints(n, "text", put_text(text_at(n, argi)))
      [] cmd = "PrintInt"   -> Prints(n, "number", arg)
      [] cmd \in {"PrintIntI", "PrintIntUI"} -> Prints(n, "number", argi)
      [] cmd = "PrintSignI" -> Prints(n, "number", Signed(argi))
      [] cmd = "PrintBinI"  -> Prints(n, "binary", argi)
      [] cmd = "PrintChar"  -> Prints(n, "text", <<<<n.mem[vm_data_address(n, arg)]>>>>)
      [] cmd = "PrintCharI" -> Prints(n, "text", <<<<low_byte(argi)>>>>)
      [] cmd = "PrintHexI"  -> Prints(n, "hex", argi)
      [] cmd = "PrintHexII" -> Prints(n, "hex", get16(n, argi))

cast_double(n, cmd, arg) ==
  LET Drop == [n EXCEPT !.sp = @ - 2]
      Of   == Double(peek1(n), peek0(n))
  IN  CASE cmd = "Print32I"     -> {Prints(n, "number", double_at(n, arg))}
        [] cmd = "Print32SignI" -> {Prints(n, "number", SignedDouble(double_at(n, arg)))}
        [] cmd = "Print32II"    -> {Prints(n, "number", double_at(n, get16(n, arg)))}
        [] cmd = "Print32S"     -> When(n.sp >= 2, Prints(Drop, "number", Of))
        [] cmd = "Print32SignS" -> When(n.sp >= 2, Prints(Drop, "number", SignedDouble(Of)))

\* The dump goes from the bottom up.
handle_cast(m, arg) ==
  LET cmd == Named(Casts, peek0(m))
      n   == [m EXCEPT !.sp = @ - 1]
  IN  CASE cmd = "none"      -> {}
        [] cmd = "StackDump" -> {Prints(n, "stack", [k \in 1 .. n.sp |-> n.hw[k - 1]])}
        [] cmd \in {"Print32I", "Print32SignI", "Print32II", "Print32S", "Print32SignS"} ->
             cast_double(n, cmd, arg)
        [] OTHER             -> {cast_word(n, cmd, arg)}

\* The last of the characters of S that come behind the first k.
run_end(typed, k, S) ==
  CHOOSE e \in k .. Len(typed) :
    (\A j \in k + 1 .. e : typed[j] \in S) /\ (e = Len(typed) \/ typed[e + 1] \notin S)

\* strtol does not go past the largest number.
strtol(v) == CASE v > LongMax -> LongMax [] v < -LongMax - 1 -> -LongMax - 1 [] OTHER -> v

\* scanf passes over white space, line ends too, and takes a sign.
before_digits(typed) ==
  LET start == run_end(typed, 0, White)
  IN  IF start < Len(typed) /\ typed[start + 1] \in {Dash, PlusSign} THEN start + 1 ELSE start

\* It takes the digits behind them, and leaves the rest of the line.
poll_int(n, arg) ==
  LET start == before_digits(n.typed)
      end   == run_end(n.typed, start, DOMAIN Digit)
      value == Value(SubSeq(n.typed, start + 1, end))
      v     == strtol(IF start > 0 /\ n.typed[start] = Dash THEN -value ELSE value)
  IN  When(end > start, put16([n EXCEPT !.typed = Unread(@, end)], arg, v % WordSize))

\* What fgets takes of the line has room for a zero; strlen ends it at the first zero.
fgets_takes(typed) == Taken(typed, LineMax - 1)
strlen(typed) ==
  CHOOSE n \in 0 .. fgets_takes(typed) :
    /\ n = fgets_takes(typed) \/ typed[n + 1] = 0
    /\ \A k \in 1 .. n : typed[k] # 0

\* The text and a zero, byte by byte, as long as there are addresses.
poll_str(n, arg) ==
  LET text  == Among(n.typed, strlen(n.typed), Printable) \o <<0>>
      first == vm_data_address(n, arg)
  IN  When(arg + Len(text) - 1 <= MAXMEMSP,
        [n EXCEPT !.typed = Unread(@, fgets_takes(@)),
                  !.mem = [a \in DOMAIN @ |->
                             IF a \in first .. first + Len(text) - 1
                               THEN text[a - first + 1] ELSE @[a]]])

handle_poll(m, arg) ==
  LET cmd == Named(Polls, peek0(m))
      n   == [m EXCEPT !.sp = @ - 1]
  IN  CASE cmd = "none"     -> {}
        [] cmd = "ReadIntI" -> poll_int(n, arg)
        [] cmd = "ReadStrI" -> poll_str(n, arg)
        [] cmd \in {"ReadCharI", "ReadCINoWait"} ->
             {put16([n EXCEPT !.typed = AfterChar(@)], arg, NextChar(n.typed))}
        [] cmd = "ReadTime" -> IF n.sp > Depth - 2 THEN {}
             ELSE UNION {push16(k, Now \div WordSize) : k \in push16(n, Now % WordSize)}

step_Service(m, i) ==
  IF m.sp = 0 THEN {}
  ELSE IF i.op = "CAST" THEN handle_cast(m, i.arg) ELSE handle_poll(m, i.arg)

-----------------------------------------------------------------------------
(***************************************************************************)
(* The instructions of the 24-bit machine.                                 *)
(***************************************************************************)
step_ADM(m) ==
  IF ~ m.seg.vm24 THEN {m}
  ELSE When(m.sp >= 1 /\ peek0(m) \in {0, 1},
            [m EXCEPT !.sp = @ - 1, !.seg = Ring(@, peek0(m))])

\* A prefix names the bank that its register has now.
step_Prefix(m, i) ==
  LET bank == CASE i.op = "CSO" -> m.seg.cs [] i.op = "DSO" -> m.seg.ds
                [] i.op = "ESO" -> m.seg.es
  IN  {[m EXCEPT !.seg.override = IF m.seg.ring = 1 THEN bank ELSE 0]}

step_SGET(m, i) ==
  IF i.arg > 2 THEN {} ELSE push16(m, <<m.seg.cs, m.seg.ds, m.seg.es>>[i.arg + 1])

step_SSET(m, i) ==
  When(i.arg \in {1, 2} /\ m.sp >= 1 /\ peek0(m) < Banks,
    IF i.arg = 1 THEN [m EXCEPT !.sp = @ - 1, !.seg.ds = peek0(m)]
                 ELSE [m EXCEPT !.sp = @ - 1, !.seg.es = peek0(m)])

\* In ring 0 as well.
step_FJMPS(m) ==
  When(m.sp >= 2 /\ peek1(m) < Banks,
       [m EXCEPT !.seg.cs = peek1(m), !.pc = peek0(m), !.sp = @ - 2])

step_Segments(m, i) ==
  CASE i.op = "ADM"      -> step_ADM(m)
    [] i.op \in Prefixes -> step_Prefix(m, i)
    [] i.op = "SSO"      -> {}
    [] i.op = "SGET"     -> step_SGET(m, i)
    [] i.op = "SSET"     -> step_SSET(m, i)
    [] i.op = "FJMPS"    -> step_FJMPS(m)

\* The switch of step_once.
switch(m, i) ==
  CASE i.op \in Arithmetic \cup Logic  -> step_ALU(m, i)
    [] i.op \in OnTop                  -> step_OnTop(m, i)
    [] i.op \in CondJumps \cup {"JMP"} -> step_JMP(m, i)
    [] i.op = "PUSH"                   -> step_PUSH(m, i)
    [] i.op = "POP"                    -> step_POP(m, i)
    [] i.op \in Plain                  -> step_Plain(m, i)
    [] i.op \in Services               -> step_Service(m, i)
    [] i.op \in OfSegments             -> step_Segments(m, i)

\* What is not a prefix uses up the one before it.
CStep(machine, i) ==
  LET after == switch([machine EXCEPT !.pc = (@ + Size(i)) % WordSize], i)
  IN  IF i.op \in Prefixes THEN after
      ELSE {[m EXCEPT !.seg.override = NoOverride] : m \in after}
=============================================================================
