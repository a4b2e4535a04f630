----------------------------- MODULE FlagMacros -----------------------------
(***************************************************************************)
(* The macros of lib/common.mc that set or clear one flag, and the         *)
(* rotations built on them, run instruction by instruction by one of the   *)
(* two emulators.  The macros leave a flag to be tested, or to be shifted  *)
(* in, by an instruction that comes later.                                 *)
(***************************************************************************)
EXTENDS PyCpu, CCpu, Sequences, Functions

CONSTANTS
  Backend,    \* "python" or "c"
  Starts,     \* machines with a word on the stack
  MaxMacros   \* bound on the macros a program uses

ASSUME StartsAssumption == \A s \in Starts : IsMachine(s)

VARIABLES
  m,       \* the machine
  macro,   \* the macro being run
  before,  \* the machine it was started on
  todo,    \* its instructions still to execute
  count

macrovars == <<m, macro, before, todo, count>>

Step(machine, i) ==
  IF Backend = "python" THEN PyStep(machine, i) ELSE CStep(machine, i)

Imm(op, w) == [op |-> op, mode |-> "", arg |-> w]

\* A constant of the 16-bit source, at the width of the model.
Scaled(w) == (w * WordSize) \div 65536

-----------------------------------------------------------------------------
(***************************************************************************)
(* The macros.                                                             *)
(***************************************************************************)

CLC  == <<Imm("PUSH", 1), Imm("XOR", 1), Imm("XOR", 1), Imm("POPNULL", 0)>>

SETC == <<Imm("PUSH", MAXMEMSP), Imm("ADD", 1), Imm("POPNULL", 0)>>
CLO  == <<Imm("PUSH", 0), Imm("ADD", 0), Imm("POPNULL", 0)>>

\* Mutant of SETO: 16383, whose double does not reach the sign bit.
SETOSmall ==
  <<Imm("PUSH", Scaled(16383)), Imm("ADD", Scaled(16383)), Imm("POPNULL", 0)>>

SETO ==
  <<Imm("PUSH", Scaled(40000)), Imm("ADD", Scaled(40000)), Imm("POPNULL", 0)>>

CLZ  == <<Imm("PUSH", 1), Imm("SUB", 2), Imm("POPNULL", 0)>>
SETZ == <<Imm("PUSH", 1), Imm("SUB", 1), Imm("POPNULL", 0)>>
SETN == <<Imm("PUSH", 0), Imm("SUB", 1), Imm("POPNULL", 0)>>
CLN  == <<Imm("PUSH", 2), Imm("SUB", 1), Imm("POPNULL", 0)>>

\* Mutant of ROL: the carry is whatever it was.
ROLOpen(n) == [k \in 1 .. n |-> Imm("RLTC", 0)]

\* ROL1 .. ROL5 and RORn: the carry starts clear.
ROL(n) == CLC \o [k \in 1 .. n |-> Imm("RLTC", 0)]
ROR(n) == CLC \o [k \in 1 .. n |-> Imm("RRTC", 0)]

FlagMacro ==
  [CLC |-> CLC, SETC |-> SETC, CLO |-> CLO, SETO |-> SETO, CLZ |-> CLZ,
   SETZ |-> SETZ, SETN |-> SETN, CLN |-> CLN]

Rotation ==
  [ROL1 |-> ROL(1), ROL2 |-> ROL(2), ROL5 |-> ROL(5),
   ROR1 |-> ROR(1), ROR2 |-> ROR(2), ROR5 |-> ROR(5)]

Code(name) ==
  IF name \in DOMAIN FlagMacro THEN FlagMacro[name] ELSE Rotation[name]

-----------------------------------------------------------------------------
MacroInit ==
  /\ m \in Starts
  /\ macro = "none" /\ before = m
  /\ todo = << >>
  /\ count = 0

\* The program goes on to its next macro.
Begin(name) ==
  /\ todo = << >> /\ count < MaxMacros
  /\ macro' = name /\ before' = m
  /\ todo' = Code(name)
  /\ count' = count + 1
  /\ UNCHANGED m

Execute ==
  /\ todo # << >>
  /\ m' \in Step(m, Head(todo))
  /\ todo' = Tail(todo)
  /\ UNCHANGED <<macro, before, count>>

MacroNext ==
  \/ \E name \in DOMAIN FlagMacro \cup DOMAIN Rotation : Begin(name)
  \/ Execute

MacroSpec == MacroInit /\ [][MacroNext]_macrovars

-----------------------------------------------------------------------------
Flags(machine) ==
  [z |-> Has(machine.flags, 1), n |-> Has(machine.flags, 2),
   c |-> Has(machine.flags, 4), o |-> Has(machine.flags, 8)]

\* 'Clear Carry (CC)', 'Set Carry (SC)', 'Clear Overflow (CLO)' and so on: when
\* it is done, a macro has given its flag its value, and the stack is as it was.
FlagsAsNamed ==
  todo = << >> /\ macro \in DOMAIN FlagMacro =>
    /\ Live(m) = Live(before)
    /\ LET f == Flags(m) IN
         CASE macro = "CLC"  -> ~ f.c [] macro = "SETC" -> f.c
           [] macro = "CLO"  -> ~ f.o [] macro = "SETO" -> f.o
           [] macro = "CLZ"  -> ~ f.z [] macro = "SETZ" -> f.z
           [] macro = "SETN" -> f.n   [] macro = "CLN"  -> ~ f.n

\* A word with the carry above it, turned as on a wheel of one bit more than a word has:
\* p is 2, 4 or 32, for as many places as that has zeros.
Wheel == 2 * WordSize

TurnedLeft(w, p)  == (w % (Wheel \div p)) * p + (w \div (Wheel \div p))
TurnedRight(w, p) == (w % p) * (Wheel \div p) + (w \div p)

\* 'Rotate Left n bits (pure, deterministic)': what a rotation makes of the top
\* word depends on that word and on n, and not on the flags it starts with.
RotationsPure ==
  todo = << >> /\ macro \in DOMAIN Rotation =>
    LET w == before.hw[before.sp - 1]
        p == CASE macro \in {"ROL1", "ROR1"} -> 2
               [] macro \in {"ROL2", "ROR2"} -> 4
               [] macro \in {"ROL5", "ROR5"} -> 32
        turned == IF macro \in {"ROL1", "ROL2", "ROL5"} THEN TurnedLeft(w, p)
                                                       ELSE TurnedRight(w, p)
    IN  /\ m.sp = before.sp
        /\ m.hw[m.sp - 1] = turned % WordSize
        /\ Flags(m).c = (turned >= WordSize)
=============================================================================
