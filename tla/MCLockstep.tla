----------------------------- MODULE MCLockstep -----------------------------
(***************************************************************************)
(* Six-bit words and three-bit bytes, so that a flag word has two bits     *)
(* beyond the four flags; a stack of three slots.                          *)
(***************************************************************************)
EXTENDS Lockstep, Bitwise

Values == {0, 1, 2, 31, 32, 33, 62, 63}

\* Memory where 0 points to the last address, 2 to the middle, 4 to itself and 6 to
\* its own second byte.
Memory ==
  [a \in WordSet |-> CASE a < 2 -> 7 [] a = 4 -> 4 [] a = 5 -> 0 [] a = 6 -> 7 [] a = 7 -> 0
                       [] OTHER -> a % 8]

Machine(pc, flags, sp, hw, mem, seg) ==
  [pc |-> pc, flags |-> flags, sp |-> sp, hw |-> [k \in 0 .. Depth - 1 |-> hw[k + 1]],
   mem |-> mem, seg |-> seg, out |-> <<>>, typed |-> <<>>]

Machines16 ==
  {Machine(0, f, s, <<33, a, b>>, Memory, NoSegments) :
     f \in {0, 12, 51, 60}, s \in 0 .. Depth, a \in Values, b \in Values}

\* Banks that differ; the registers name different ones.
Memory24 == [a \in 0 .. Banks * WordSize - 1 |-> (Memory[a % WordSize] + a \div WordSize) % 8]

\* Ring 0 has its code in bank 0, and a prefix there names bank 0; in ring 1 it names
\* the bank of a register.
Segments ==
  {g \in [vm24 : {TRUE}, ring : {0, 1}, cs : {0, 1}, ds : {0, 1}, es : {2},
          override : {NoOverride, 0, 1, 2}] :
     IF g.ring = 0 THEN g.cs = 0 /\ g.override \in {NoOverride, 0}
                   ELSE g.override \in {NoOverride, g.cs, g.ds, g.es}}

Machines24 ==
  {Machine(p, 12, s, <<33, a, b>>, Memory24, g) :
     p \in {0, 61}, s \in 0 .. Depth, a \in {1, 4}, b \in {0, 4, 63}, g \in Segments}

\* The numbers of cpu.py, but for PrintErrMsg, StackDump and ReadTime, which are 19, 102
\* and 25 there.
MCCasts ==
  [w \in (1 .. 6) \cup (9 .. 12) \cup (16 .. 18) \cup (32 .. 36) |->
     CASE w = 1 -> "PrintStr" [] w = 2 -> "PrintInt" [] w = 3 -> "PrintIntI"
       [] w = 4 -> "PrintSignI" [] w = 5 -> "PrintBinI" [] w = 6 -> "PrintChar"
       [] w = 9 -> "PrintErrMsg" [] w = 10 -> "StackDump"
       [] w = 11 -> "PrintStrI" [] w = 12 -> "PrintIntUI" [] w = 16 -> "PrintCharI"
       [] w = 17 -> "PrintHexI" [] w = 18 -> "PrintHexII" [] w = 32 -> "Print32I"
       [] w = 33 -> "Print32II" [] w = 34 -> "Print32S" [] w = 35 -> "Print32SignI"
       [] w = 36 -> "Print32SignS"]

MCPolls ==
  [w \in {1, 2, 3, 6, 9} |->
     CASE w = 1 -> "ReadIntI" [] w = 2 -> "ReadStrI" [] w = 3 -> "ReadCharI"
       [] w = 6 -> "ReadCINoWait" [] w = 9 -> "ReadTime"]

\* The bytes: 0, the end of a line 1, a backspace 2, a vertical tab 3, which is white
\* and goes out in digits, a plus 4, the digit seven 5, a minus 6, and 7, which is not
\* ASCII.  The word 62 is a surrogate.
MCEncoded ==
  [w \in WordSet |-> CASE w < 7 -> <<w>> [] w = 62 -> <<>> [] OTHER -> <<7, w % 8>>]
MCDigit == [d \in {5} |-> 7]

\* No input, an empty line, a number with another line behind it, a negative one, a
\* number in the second line, one behind white space and a plus, the last word, a number
\* beyond the largest one in a line that is full, a minus without and before a number,
\* two in front of it, one behind it, a text before it and in it, a text without digits
\* that fills the line, one with a zero in it.
Lines ==
  {<<>>, <<1>>, <<5, 1, 5, 1>>, <<6, 5, 1>>, <<1, 5, 1>>, <<3, 4, 5>>, <<5, 5, 1>>, <<5, 5, 5, 1>>,
   <<6, 1>>, <<6, 6, 5, 1>>, <<5, 6, 5, 1>>, <<4, 4, 5>>, <<5, 4, 5>>, <<4, 4, 4, 4, 1>>, <<5, 0, 5>>}

MCLogical ==
  [op \in Logic |-> [a, b \in WordSet |->
     CASE op = "OR" -> a | b [] op = "AND" -> a & b [] op = "XOR" -> a ^^ b]]

\* Machines at a service: its number on top of one, two or three words.
Calling(code, sp, seg) ==
  Machine(0, 12, sp, [k \in 1 .. Depth |-> IF k = sp THEN code ELSE 31 + k],
          IF seg.vm24 THEN Memory24 ELSE Memory, seg)

Callers ==
  LET SomeSegments == {NoSegments} \cup
        {g \in Segments : g.cs = g.ring /\ g.ds = 1 /\ g.override \in {NoOverride, 2}}
      casts == {Calling(code, s, g) :
                  code \in DOMAIN MCCasts \ {1, 2, 3, 6, 9}, s \in 1 .. Depth, g \in SomeSegments}
      both  == {Calling(code, s, g) :
                  code \in DOMAIN MCPolls, s \in 1 .. Depth, g \in SomeSegments}
  IN  casts \cup {[machine EXCEPT !.typed = typed] : machine \in both, typed \in Lines}

MCStarts == Machines16 \cup Machines24 \cup Callers

\* 14 points to the last word but one.
MCArgs == {0, 2, 6, 14, 60, 63}
=============================================================================
