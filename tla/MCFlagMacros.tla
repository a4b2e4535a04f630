---------------------------- MODULE MCFlagMacros ----------------------------
(***************************************************************************)
(* Six-bit words, every word of the four flags, and words to rotate whose  *)
(* bits show where they went.                                              *)
(***************************************************************************)
EXTENDS FlagMacros, Bitwise

\* The macros do not call a service.
Nothing == <<>>
MCEncoded == [w \in WordSet |-> IF w < Byte THEN <<w>> ELSE <<>>]

MCLogical ==
  [op \in Logic |-> [a, b \in WordSet |->
     CASE op = "OR" -> a | b [] op = "AND" -> a & b [] op = "XOR" -> a ^^ b]]

MCStarts ==
  {[pc |-> 0, flags |-> f, sp |-> 1, hw |-> [s \in 0 .. Depth - 1 |-> w],
    mem |-> [a \in WordSet |-> 0], seg |-> NoSegments, out |-> <<>>, typed |-> <<>>] :
     f \in 0 .. 15, w \in {0, 1, 2, 21, 31, 32, 45, 63}}
=============================================================================
