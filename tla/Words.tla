------------------------------- MODULE Words --------------------------------
(***************************************************************************)
(* Machine words and the arithmetic flags of the EX716 CPU.                *)
(*                                                                         *)
(* A word is a number below 2 * Half (2^16 on the machine, where Half is   *)
(* 0x8000); at Half and above it stands for a negative number.             *)
(***************************************************************************)
EXTENDS Integers

CONSTANT Half    \* the sign bit

ASSUME HalfAssumption == Half \in Nat \ {0}

WordSize == 2 * Half
WordSet  == 0 .. WordSize - 1

Negative(w) == w >= Half

\* The number that w stands for.
Signed(w) == IF Negative(w) THEN w - WordSize ELSE w

\* Sums and differences of words, masked to a word.
Plus(a, b)  == IF a + b >= WordSize THEN a + b - WordSize ELSE a + b
Minus(a, b) == IF a >= b THEN a - b ELSE a - b + WordSize

-----------------------------------------------------------------------------
(***************************************************************************)
(* The flags that a - b and a + b set: zero, negative, carry (a borrow in  *)
(* a difference), overflow.                                                *)
(***************************************************************************)
Borrow(a, b) == a < b
Carry(a, b)  == a + b > WordSize - 1

\* The operands have different signs, and the result does not have a's.
OverflowOfMinus(a, b) ==
  Negative(a) # Negative(b) /\ Negative(Minus(a, b)) # Negative(a)

\* The operands have the same sign, and the result has the other.
OverflowOfPlus(a, b) ==
  Negative(a) = Negative(b) /\ Negative(Plus(a, b)) # Negative(a)

FlagsOfMinus(a, b) ==
  [z |-> Minus(a, b) = 0, n |-> Negative(Minus(a, b)),
   c |-> Borrow(a, b),    o |-> OverflowOfMinus(a, b)]

=============================================================================
