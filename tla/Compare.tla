------------------------------ MODULE Compare -------------------------------
(***************************************************************************)
(* Comparisons in EX716 programs.  The CPU has jumps on each flag after a  *)
(* CMP and none on "less" or "greater": those are macros that combine      *)
(* flags, the J* macros of lib/common.mc, and on them stand the IF, WHILE  *)
(* and CASE blocks of lib/structure.asm.                                   *)
(*                                                                         *)
(* A J* macro is the condition under which it jumps, given the flags; a    *)
(* block is the condition under which its body is entered.  A program is   *)
(* two or three words being compared: what it does with the outcome is its *)
(* own business.                                                           *)
(***************************************************************************)
EXTENDS Words

VARIABLES
  a,    \* the word compared: on the stack
  b,    \* the word it is compared with: the top, a constant or a variable
  hi    \* the upper bound, in a range

vars == <<a, b, hi>>

-----------------------------------------------------------------------------
(***************************************************************************)
(* The jumps of lib/common.mc.                                             *)
(***************************************************************************)
JMPNC(f) == ~ f.c

\* Mutant of CheckSignedLess: the sign of the difference decides.
CheckSignedLessBySign(f) == f.n

\* To the first label of CheckSignedLess, which is "less".
CheckSignedLess(f) == (f.n /\ ~ f.o) \/ (~ f.n /\ f.o)

JLT(f) == ~ f.z /\ CheckSignedLess(f)
JLE(f) == f.z \/ CheckSignedLess(f)

\* JGT and JGE spell out CheckSignedGreater.
CheckSignedGreater(f) == (f.n /\ f.o) \/ (~ f.n /\ ~ f.o)

JGT(f) == ~ f.z /\ CheckSignedGreater(f)
JGE(f) == f.z \/ CheckSignedGreater(f)

JULT(f) == ~ JMPNC(f)
JULE(f) == f.z \/ ~ JMPNC(f)
JUGE(f) == JMPNC(f)

\* Mutant of JUGT: equal is not looked at.
JUGTLoose(f) == ~ f.c

JUGT(f) == ~ f.z /\ ~ f.c

-----------------------------------------------------------------------------
(***************************************************************************)
(* The blocks of lib/structure.asm: the jump after CMP leaves the block.   *)
(* The _S forms compare the word below the top with the top, the _A and _V *)
(* forms the top with a constant or a variable.                            *)
(***************************************************************************)
IFSigned(f) ==
  [LT |-> ~ JGE(f), LE |-> ~ JGT(f), GE |-> ~ JLT(f), GT |-> ~ JLE(f)]

\* The _A and _V forms; IF_UGE_S has the signed jump.
IFUnsigned(f) ==
  [LT |-> ~ JUGE(f), LE |-> ~ JUGT(f), GE |-> ~ JULT(f), GT |-> ~ JULE(f)]

IF_UGE_S(f) == ~ JLT(f)

\* The jumps that leave a WHILE loop at its top.
WHILESigned(f) ==
  [LT |-> ~ JGE(f), LE |-> ~ JGT(f), GE |-> ~ JLT(f), GT |-> ~ JLE(f)]

WHILEUnsigned(f) == [LT |-> ~ JUGE(f), GT |-> ~ JULE(f)]

\* Mutant of INRANGE: the upper bound is left out of the range.
INRANGEOpen(f, g) == ~ JLT(f) /\ ~ JGE(g)

\* IF_INRANGE_* and CASE_RANGE_*: two comparisons, with f from the lower bound
\* and g from the upper one; likewise the unsigned ones.
INRANGE(f, g)  == ~ JLT(f) /\ ~ JGT(g)
UINRANGE(f, g) == ~ JULT(f) /\ ~ JUGT(g)

-----------------------------------------------------------------------------
Init == a = 0 /\ b = 0 /\ hi = 0

\* The program computes other words to compare.
Load(x, y, z) == a' = x /\ b' = y /\ hi' = z

Next == \E x, y, z \in WordSet : Load(x, y, z)

Spec == Init /\ [][Next]_vars

-----------------------------------------------------------------------------
TypeOK == a \in WordSet /\ b \in WordSet /\ hi \in WordSet

\* 'A < B: NF XOR OF' and so on: the signed jumps and blocks agree with the
\* order of the numbers that the words stand for, across the point where the
\* difference does not fit in a word.
SignedOrder ==
  LET f == FlagsOfMinus(a, b)
      x == Signed(a)
      y == Signed(b)
      order == [LT |-> x < y, LE |-> x <= y, GE |-> x >= y, GT |-> x > y]
  IN  /\ [LT |-> JLT(f), LE |-> JLE(f), GE |-> JGE(f), GT |-> JGT(f)] = order
      /\ IFSigned(f) = order
      /\ WHILESigned(f) = order

\* 'A < B: CF == 1' and so on: the unsigned ones agree with the words.
UnsignedOrder ==
  LET f == FlagsOfMinus(a, b)
      order == [LT |-> a < b, LE |-> a <= b, GE |-> a >= b, GT |-> a > b]
  IN  /\ [LT |-> JULT(f), LE |-> JULE(f), GE |-> JUGE(f), GT |-> JUGT(f)] = order
      /\ IFUnsigned(f) = order
      /\ WHILEUnsigned(f) = [LT |-> a < b, GT |-> a > b]

\* 'CASE_RANGE and CASE_URANGE test inclusive ranges.'
RangesInclusive ==
  LET f == FlagsOfMinus(a, b)
      g == FlagsOfMinus(a, hi)
  IN  /\ INRANGE(f, g) = (Signed(b) <= Signed(a) /\ Signed(a) <= Signed(hi))
      /\ UINRANGE(f, g) = (b <= a /\ a <= hi)

\* 'Unsigned Logic follows here', 'IF_UGE_S will A(SFT) >= B(TOS)'.
UnsignedOnStack == IF_UGE_S(FlagsOfMinus(a, b)) = (a >= b)
=============================================================================
