------------------------------ MODULE Machine -------------------------------
(***************************************************************************)
(* The state of an EX716 CPU and its instructions, as the emulators know   *)
(* them: cpu.py (class microcpu, module PyCpu), the 24-bit cpu24.py        *)
(* (module PyCpu24), and speedCPU.c (step_once, module CCpu) for both.     *)
(*                                                                         *)
(* A machine is a record: pc and flags, the stack pointer sp, the array hw *)
(* of stack slots (a slot at or above sp keeps the last word put there),   *)
(* memory, in bytes, and seg, what a 24-bit machine has besides: whether   *)
(* it is one (vm24), SegmentMode ("ring"), the banks CS, DS, ES, and the   *)
(* bank that a prefix has named for the next instruction.  A physical      *)
(* address is bank * WordSize + offset.                                    *)
(*                                                                         *)
(* Executing an instruction gives a set: the next machine, or no machine   *)
(* where the emulator gives up the program (Python raises an error and     *)
(* enters the debugger, C returns an error code).                          *)
(*                                                                         *)
(* out is what the program has printed, as items: what was printed, and in *)
(* which form; typed are the characters that wait at the terminal, of      *)
(* ASCII and without carriage returns.                                     *)
(*                                                                         *)
(* An instruction is a record: op, and how it finds its operand (mode: a   *)
(* constant "", the memory at arg "I", the memory that the word at arg     *)
(* points to "II", or the stack "S").  Fetching it from memory is left out.*)
(***************************************************************************)
EXTENDS Words, Sequences

CONSTANTS
  Byte,     \* a byte is a number below Byte: 256 on the machine
  Depth,    \* stack slots: 253 on the machine
  Banks,    \* banks of the 24-bit machine: 256
  Casts,    \* the commands of CAST, a function from their numbers to their names
  Polls,    \* the commands of POLL
  Slack,    \* CAST and POLL of Python refuse the last addresses: 11 and one
  Ascii,    \* the characters of ASCII are below it: 128
  Space,    \* a character below it is a control character: 32
  NewLine,  \* one of them: 10
  RawText, RawErrPy, RawErrC,   \* those that PrintStr prints as they are, and those that
                                \* PrintErrMsg does, in Python and in C
  Encoded,  \* the bytes that chr() of a word is written as: UTF-8; none for a surrogate
  Digit,    \* the digits, and what they are worth
  Radix,    \* ten
  Dash, PlusSign,   \* the signs of a number
  White,    \* what scanf takes for white space
  LineMax,  \* the room for a line: 256
  LongMax,  \* scanf gives no number beyond it: 2^63 - 1
  Logical,  \* OR, AND and XOR of two words, bit by bit
  Now       \* the time, in two words

\* Instructions that look at each bit, and the names of the commands.
Logic     == {"OR", "AND", "XOR"}
CastNames ==
  {"PrintStr", "PrintInt", "PrintIntI", "PrintSignI", "PrintBinI", "PrintChar",
   "PrintErrMsg", "StackDump", "PrintStrI", "PrintIntUI", "PrintCharI", "PrintHexI",
   "PrintHexII", "Print32I", "Print32II", "Print32S", "Print32SignI", "Print32SignS"}
PollNames == {"ReadIntI", "ReadStrI", "ReadCharI", "ReadCINoWait", "ReadTime"}

ASSUME MachineAssumption ==
  /\ Byte \in Nat /\ Byte * Byte = WordSize /\ Half % 8 = 0
  /\ Depth \in 1 .. WordSize - 1 /\ Banks \in 1 .. WordSize
  /\ \A w \in DOMAIN Casts : Casts[w] \in CastNames
  /\ \A w \in DOMAIN Polls : Polls[w] \in PollNames
  /\ Slack \in Nat /\ Slack >= 2
  /\ Ascii \in 1 .. Byte /\ Space \in 1 .. Ascii
  /\ RawText \cup RawErrPy \cup RawErrC \subseteq 0 .. Space - 1
  /\ Encoded \in [WordSet -> Seq(0 .. Byte - 1)] /\ \A c \in 0 .. Ascii - 1 : Encoded[c] = <<c>>
  /\ White \subseteq 0 .. Ascii - 1 /\ NewLine \in White /\ NewLine < Space
  /\ DOMAIN Digit \subseteq 0 .. Ascii - 1 /\ \A d \in DOMAIN Digit : Digit[d] \in Nat
  /\ Dash \in 0 .. Ascii - 1 /\ {Dash, PlusSign} \cap DOMAIN Digit = {}
  /\ White \cap (DOMAIN Digit \cup {Dash, PlusSign}) = {}
  /\ Radix \in Nat /\ LongMax \in Nat /\ LineMax \in Nat /\ LineMax >= 2
  /\ Logical \in [Logic -> [WordSet \X WordSet -> WordSet]]
  /\ Now \in 0 .. WordSize * WordSize - 1

MAXMEMSP == WordSize - 1    \* the last address of a bank

\* segment_override where no prefix has been executed.
NoOverride == -1

\* The 16-bit machine: no segments.
NoSegments ==
  [vm24 |-> FALSE, ring |-> 0, cs |-> 0, ds |-> 0, es |-> 0, override |-> NoOverride]

\* ADM gives ring 0 or 1; ring 0 has all banks at 0.
Ring(seg, r) ==
  [IF r = 0 THEN [seg EXCEPT !.cs = 0, !.ds = 0, !.es = 0] ELSE seg
     EXCEPT !.ring = r, !.override = NoOverride]

\* What a machine is: a record of these fields.
Fields == {"pc", "flags", "sp", "hw", "mem", "seg", "out", "typed"}
Whole(m) == m = [field \in Fields |-> m[field]]

IsMachine(m) ==
  /\ Whole(m)
  /\ m.pc \in WordSet /\ m.flags \in WordSet
  /\ m.sp \in 0 .. Depth /\ m.hw \in [0 .. Depth - 1 -> WordSet]
  /\ m.seg \in [vm24 : BOOLEAN, ring : {0, 1}, cs : 0 .. Banks - 1, ds : 0 .. Banks - 1,
                es : 0 .. Banks - 1, override : {NoOverride} \cup 0 .. Banks - 1]
  /\ m.seg.vm24 \/ m.seg = NoSegments
  /\ m.mem \in [IF m.seg.vm24 THEN 0 .. Banks * WordSize - 1 ELSE WordSet -> 0 .. Byte - 1]
  /\ m.typed \in Seq(0 .. Ascii - 1)

\* The flag word has the bit 1, 2, 4 or 8.
Has(flags, bit) == (flags \div bit) % 2 = 1

\* What a program can see of the stack.
Live(m) == [s \in 0 .. m.sp - 1 |-> m.hw[s]]

\* The machine m, provided the guard holds.
When(guard, m) == IF guard THEN {m} ELSE {}

-----------------------------------------------------------------------------
(***************************************************************************)
(* What CAST and POLL print and read.  Here are the commands of the        *)
(* console; those of the disks are in BlockDevice, and those that stop the *)
(* program, toggle the trace or set the terminal in Emulator.              *)
(***************************************************************************)

\* The name of the command that word w is the number of.
Named(commands, w) == IF w \in DOMAIN commands THEN commands[w] ELSE "none"

Prints(m, form, what) == [m EXCEPT !.out = Append(@, <<form, what>>)]

\* %02x of a byte: two digits, which a number past the bytes stands for.
hex02(c) == <<Byte + c>>

\* The bytes of a bank from offset a up to a zero or the last address.
TextAt(bank, a) ==
  LET end == CHOOSE e \in a .. MAXMEMSP :
               /\ e = MAXMEMSP \/ bank[e] = 0
               /\ \A k \in a .. e - 1 : bank[k] # 0
  IN  [k \in 1 .. end - a |-> bank[a + k - 1]]

\* A number of two words, and the one it stands for with a sign.
Double(low, high) == low + WordSize * high
SignedDouble(v)   == IF v >= Half * WordSize THEN v - WordSize * WordSize ELSE v

\* The length of the first line of what was typed, with its end.
LineLength(typed) ==
  IF \E k \in DOMAIN typed : typed[k] = NewLine
    THEN CHOOSE k \in DOMAIN typed :
           typed[k] = NewLine /\ \A j \in 1 .. k - 1 : typed[j] # NewLine
    ELSE Len(typed)

\* What is read of the line where at most limit characters are taken.
Taken(typed, limit) == IF LineLength(typed) < limit THEN LineLength(typed) ELSE limit
Unread(typed, n)    == SubSeq(typed, n + 1, Len(typed))

\* Those of the first n characters that are kept: among the first k they are among[k].
Among(typed, n, keep) ==
  LET among[k \in 0 .. Len(typed)] ==
        IF k = 0 THEN <<>>
        ELSE IF typed[k] \in keep THEN Append(among[k - 1], typed[k]) ELSE among[k - 1]
  IN  among[n]

Printable == Space .. Ascii - 1

\* The number that digits are written for: that of the first k is value[k].
Value(digits) ==
  LET value[k \in 0 .. Len(digits)] ==
        IF k = 0 THEN 0 ELSE Radix * value[k - 1] + Digit[digits[k]]
  IN  value[Len(digits)]

\* The next character, 0 at the end of the input.
NextChar(typed)  == IF typed = <<>> THEN 0 ELSE Head(typed)
AfterChar(typed) == IF typed = <<>> THEN <<>> ELSE Tail(typed)

-----------------------------------------------------------------------------
(***************************************************************************)
(* The instructions.                                                       *)
(***************************************************************************)
Arithmetic == {"CMP", "ADD", "SUB"}
OnTop      == {"RRTC", "RLTC", "SHR", "SHL", "INV", "COMP2"}
Services   == {"CAST", "POLL"}
CondJumps  == {"JMPZ", "JMPN", "JMPC", "JMPO"}
Plain      == {"NOP", "DUP", "SWP", "POPNULL", "JMPS", "FCLR", "FSAV", "FLOD",
               "SCLR", "SRPT"}
Prefixes   == {"CSO", "DSO", "ESO"}
OfSegments == Prefixes \cup {"ADM", "SSO", "SGET", "SSET", "FJMPS"}

\* The instructions whose operands are among Args.
Instructions(Args) ==
  LET With(ops, modes) == [op : ops, mode : modes, arg : Args]
      Bare(ops, mode)  == [op : ops, mode : {mode}, arg : {0}]
  IN  UNION {With(Arithmetic \cup Logic \cup {"PUSH"}, {"", "I", "II"}),
             Bare(Arithmetic \cup Logic \cup {"PUSH", "POP"}, "S"),
             With({"POP"}, {"I", "II"}),
             With(CondJumps \cup {"JMP"} \cup Services, {""}), With({"JMP"}, {"I"}),
             Bare(OnTop \cup Plain \cup {"ADM"}, "")}

\* Those of the 24-bit machine besides.
SegmentInstructions ==
  [op : OfSegments \ {"SGET", "SSET"}, mode : {""}, arg : {0}]
  \cup [op : {"SGET", "SSET"}, mode : {""}, arg : 0 .. 3]

\* Three bytes with an operand in the code, one byte without.
Size(i) ==
  IF i.op \in OnTop \cup Plain \cup (OfSegments \ {"SGET", "SSET"}) \/ i.mode = "S"
    THEN 1 ELSE 3
=============================================================================
