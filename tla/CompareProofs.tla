---------------------------- MODULE CompareProofs ---------------------------
(***************************************************************************)
(* The comparison macros are right at every word width.  The argument is   *)
(* by the signs of the two words: the difference of words of one sign fits *)
(* in a word, and of different signs it overflows exactly when its own     *)
(* sign is wrong.  The FOR loops of module Loops that go down, which test  *)
(* a sign too, are right at every width for the same reason.  So are the   *)
(* macros of FlagMacros that set or clear a flag, and those that rotate,   *)
(* run by either emulator.                                                 *)
(***************************************************************************)
EXTENDS Compare, Loops, FlagMacros, SequenceTheorems, TLAPS

\* Words stay words.
THEOREM WordsStay == Spec => []TypeOK
<1>1. Init => TypeOK
  BY HalfAssumption DEF Init, TypeOK, WordSet, WordSize
<1>2. TypeOK /\ [Next]_vars => TypeOK'
  BY DEF TypeOK, Next, Load, vars
<1> QED
  BY <1>1, <1>2, PTL DEF Spec

\* What NF and OF say of two words: "less" when they differ.
LEMMA SignedLess ==
  ASSUME NEW x \in WordSet, NEW y \in WordSet
  PROVE  /\ ~ (Negative(Minus(x, y)) <=> OverflowOfMinus(x, y))
              <=> Signed(x) < Signed(y)
         /\ Minus(x, y) = 0 <=> x = y
         /\ Signed(x) = Signed(y) <=> x = y
         /\ Signed(x) \in Int /\ Signed(y) \in Int
<1>1. /\ Half \in Nat /\ Half > 0
      /\ x \in Int /\ 0 <= x /\ x < 2 * Half
      /\ y \in Int /\ 0 <= y /\ y < 2 * Half
  BY HalfAssumption DEF WordSet, WordSize
<1>2. CASE x >= Half /\ y >= Half
  BY <1>1, <1>2 DEF Signed, Negative, Minus, OverflowOfMinus, WordSize
<1>3. CASE x >= Half /\ ~ y >= Half
  BY <1>1, <1>3 DEF Signed, Negative, Minus, OverflowOfMinus, WordSize
<1>4. CASE ~ x >= Half /\ y >= Half
  BY <1>1, <1>4 DEF Signed, Negative, Minus, OverflowOfMinus, WordSize
<1>5. CASE ~ x >= Half /\ ~ y >= Half
  BY <1>1, <1>5 DEF Signed, Negative, Minus, OverflowOfMinus, WordSize
<1> QED
  BY <1>2, <1>3, <1>4, <1>5

\* The jumps after CMP, on words x and y.
LEMMA SignedJumps ==
  ASSUME NEW x \in WordSet, NEW y \in WordSet
  PROVE  LET f == FlagsOfMinus(x, y) IN
           /\ JLT(f) <=> Signed(x) < Signed(y)
           /\ JLE(f) <=> Signed(x) <= Signed(y)
           /\ JGT(f) <=> Signed(x) > Signed(y)
           /\ JGE(f) <=> Signed(x) >= Signed(y)
<1> DEFINE f    == FlagsOfMinus(x, y)
           less == Signed(x) < Signed(y)
           same == Signed(x) = Signed(y)
<1>1. /\ f.z = (Minus(x, y) = 0) /\ f.n = Negative(Minus(x, y))
      /\ f.o = OverflowOfMinus(x, y)
  BY DEF FlagsOfMinus
<1>2. /\ f.z <=> same
      /\ ~ (Negative(Minus(x, y)) <=> OverflowOfMinus(x, y)) <=> less
      /\ Signed(x) \in Int /\ Signed(y) \in Int
  BY <1>1, SignedLess
<1>3. ~ (f.n <=> f.o) <=> less
  BY <1>1, <1>2
<1>4. /\ Signed(x) <= Signed(y) <=> less \/ same
      /\ Signed(x) > Signed(y) <=> ~ less /\ ~ same
      /\ Signed(x) >= Signed(y) <=> ~ less
      /\ ~ (less /\ same)
  BY <1>2
<1> HIDE DEF f, less, same
<1>5. /\ CheckSignedLess(f) <=> less
      /\ CheckSignedGreater(f) <=> ~ less
  BY <1>3 DEF CheckSignedLess, CheckSignedGreater
<1>6. /\ JLT(f) <=> less
      /\ JLE(f) <=> less \/ same
      /\ JGT(f) <=> ~ less /\ ~ same
      /\ JGE(f) <=> ~ less
  BY <1>2, <1>4, <1>5 DEF JLT, JLE, JGT, JGE
<1> QED
  BY <1>4, <1>6 DEF f, less

LEMMA UnsignedJumps ==
  ASSUME NEW x \in WordSet, NEW y \in WordSet
  PROVE  LET f == FlagsOfMinus(x, y) IN
           /\ JULT(f) <=> x < y
           /\ JULE(f) <=> x <= y
           /\ JUGT(f) <=> x > y
           /\ JUGE(f) <=> x >= y
<1> DEFINE f == FlagsOfMinus(x, y)
<1>1. f.z = (Minus(x, y) = 0) /\ f.c = (x < y)
  BY DEF FlagsOfMinus, Borrow
<1>2. f.z <=> x = y
  BY <1>1, SignedLess
<1>3. x \in Int /\ y \in Int
  BY DEF WordSet
<1>4. f.c <=> x < y
  BY <1>1
<1>5. /\ x <= y <=> x < y \/ x = y
      /\ x > y <=> ~ (x < y) /\ ~ (x = y)
      /\ x >= y <=> ~ (x < y)
  BY <1>3
<1> HIDE DEF f
<1>6. /\ JULT(f) <=> x < y
      /\ JULE(f) <=> x < y \/ x = y
      /\ JUGT(f) <=> ~ (x < y) /\ ~ (x = y)
      /\ JUGE(f) <=> ~ (x < y)
  BY <1>2, <1>4 DEF JULT, JULE, JUGT, JUGE, JMPNC
<1> QED
  BY <1>5, <1>6 DEF f

-----------------------------------------------------------------------------
\* Every signed jump, IF block and WHILE loop decides by the signed order of
\* the words compared.
THEOREM SignedMacros == Spec => []SignedOrder
<1>1. TypeOK => SignedOrder
  <2> SUFFICES ASSUME TypeOK PROVE SignedOrder
    OBVIOUS
  <2> DEFINE f == FlagsOfMinus(a, b)
             x == Signed(a)
             y == Signed(b)
  <2>1. /\ JLT(f) <=> x < y
        /\ JLE(f) <=> x <= y
        /\ JGT(f) <=> x > y
        /\ JGE(f) <=> x >= y
    BY SignedJumps DEF TypeOK
  <2>2. x \in Int /\ y \in Int
    BY SignedLess DEF TypeOK
  <2>3. /\ x <= y <=> ~ (x > y)
        /\ x >= y <=> ~ (x < y)
    BY <2>2
  <2>4. /\ JLT(f) \in BOOLEAN /\ JLE(f) \in BOOLEAN
        /\ JGT(f) \in BOOLEAN /\ JGE(f) \in BOOLEAN
    BY DEF JLT, JLE, JGT, JGE, CheckSignedLess, CheckSignedGreater, FlagsOfMinus, Negative,
       OverflowOfMinus
  <2> HIDE DEF f, x, y
  <2>5. /\ JLT(f) = (x < y) /\ JLE(f) = (x <= y)
        /\ JGT(f) = (x > y) /\ JGE(f) = (x >= y)
    BY <2>1, <2>4
  <2>6. /\ (~ JGE(f)) = (x < y) /\ (~ JGT(f)) = (x <= y)
        /\ (~ JLT(f)) = (x >= y) /\ (~ JLE(f)) = (x > y)
    BY <2>1, <2>3
  <2> DEFINE order == [LT |-> x < y, LE |-> x <= y, GE |-> x >= y, GT |-> x > y]
  <2>7. [LT |-> JLT(f), LE |-> JLE(f), GE |-> JGE(f), GT |-> JGT(f)] = order
    BY <2>5
  <2>8. IFSigned(f) = order /\ WHILESigned(f) = order
    BY <2>6 DEF IFSigned, WHILESigned
  <2> HIDE DEF order
  <2> QED
    BY <2>7, <2>8 DEF SignedOrder, order, f, x, y
<1> QED
  BY <1>1, WordsStay, PTL

\* Every unsigned one, but IF_UGE_S, decides by the order of the words as they
\* are.
THEOREM UnsignedMacros == Spec => []UnsignedOrder
<1>1. TypeOK => UnsignedOrder
  <2> SUFFICES ASSUME TypeOK PROVE UnsignedOrder
    OBVIOUS
  <2> DEFINE f == FlagsOfMinus(a, b)
  <2>1. /\ JULT(f) <=> a < b
        /\ JULE(f) <=> a <= b
        /\ JUGT(f) <=> a > b
        /\ JUGE(f) <=> a >= b
    BY UnsignedJumps DEF TypeOK
  <2>2. a \in Int /\ b \in Int
    BY DEF TypeOK, WordSet
  <2>3. /\ a <= b <=> ~ (a > b)
        /\ a >= b <=> ~ (a < b)
    BY <2>2
  <2>4. /\ JULT(f) \in BOOLEAN /\ JULE(f) \in BOOLEAN
        /\ JUGT(f) \in BOOLEAN /\ JUGE(f) \in BOOLEAN
    BY DEF JULT, JULE, JUGT, JUGE, JMPNC
  <2> HIDE DEF f
  <2>5. /\ JULT(f) = (a < b) /\ JULE(f) = (a <= b)
        /\ JUGT(f) = (a > b) /\ JUGE(f) = (a >= b)
    BY <2>1, <2>4
  <2>6. /\ (~ JUGE(f)) = (a < b) /\ (~ JUGT(f)) = (a <= b)
        /\ (~ JULT(f)) = (a >= b) /\ (~ JULE(f)) = (a > b)
    BY <2>1, <2>3
  <2> DEFINE order == [LT |-> a < b, LE |-> a <= b, GE |-> a >= b, GT |-> a > b]
  <2>7. [LT |-> JULT(f), LE |-> JULE(f), GE |-> JUGE(f), GT |-> JUGT(f)] = order
    BY <2>5
  <2>8. /\ IFUnsigned(f) = order
        /\ WHILEUnsigned(f) = [LT |-> a < b, GT |-> a > b]
    BY <2>6 DEF IFUnsigned, WHILEUnsigned
  <2> HIDE DEF order
  <2> QED
    BY <2>7, <2>8 DEF UnsignedOrder, order, f
<1> QED
  BY <1>1, WordsStay, PTL

\* The range blocks of IF and CASE include both bounds.
THEOREM RangeMacros == Spec => []RangesInclusive
<1>1. TypeOK => RangesInclusive
  <2> SUFFICES ASSUME TypeOK PROVE RangesInclusive
    OBVIOUS
  <2> DEFINE f == FlagsOfMinus(a, b)
             g == FlagsOfMinus(a, hi)
  <2>1. /\ JLT(f) <=> Signed(a) < Signed(b)
        /\ JULT(f) <=> a < b
        /\ JGT(g) <=> Signed(a) > Signed(hi)
        /\ JUGT(g) <=> a > hi
    BY SignedJumps, UnsignedJumps DEF TypeOK
  <2>2. /\ Signed(a) \in Int /\ Signed(b) \in Int /\ Signed(hi) \in Int
        /\ a \in Int /\ b \in Int /\ hi \in Int
    BY SignedLess DEF TypeOK, WordSet
  <2> HIDE DEF f, g
  <2>3. /\ INRANGE(f, g) <=> Signed(b) <= Signed(a) /\ Signed(a) <= Signed(hi)
        /\ UINRANGE(f, g) <=> b <= a /\ a <= hi
    BY <2>1, <2>2 DEF INRANGE, UINRANGE
  <2>4. INRANGE(f, g) \in BOOLEAN /\ UINRANGE(f, g) \in BOOLEAN
    BY DEF INRANGE, UINRANGE
  <2> QED
    BY <2>3, <2>4 DEF RangesInclusive, f, g
<1> QED
  BY <1>1, WordsStay, PTL

-----------------------------------------------------------------------------
(***************************************************************************)
(* FOR loops that go down.  The index is below the start by a multiple of  *)
(* the step, though it is kept as a word; the test looks at a sign, which  *)
(* is right as long as start and stop are less than half of the words      *)
(* apart, since the last step goes below the stop by no more than itself.  *)
(***************************************************************************)
\* How many words lie above the stop, and how far a step goes down.
span == start - stop
down == WordSize - by

Bounded == form = "ForIdown" /\ span \in 0 .. Half - 1 /\ down \in 1 .. Half

\* Where the index is after k steps, when it does not wrap around.
Below(k) == start - k * down

\* The k-th pass is one for an index above the stop.
PassedAbove(k) == k = 0 \/ (k > 0 /\ Below(k - 1) > stop)

LoopInv ==
  /\ start \in WordSet /\ stop \in WordSet /\ by \in WordSet \ {0} /\ index \in WordSet
  /\ at \in {"top", "body", "next", "out"}
  /\ passes \in Nat
  /\ Bounded =>
       /\ PassedAbove(passes)
       /\ at = "top" => index = Below(passes) \/ index = Below(passes) + WordSize
       /\ at \in {"body", "next"} => passes > 0 /\ index = Below(passes - 1)
       /\ at = "out" =>
            \/ passes > 0 /\ index = Below(passes - 1)
            \/ Below(passes) <= stop

\* One more step.
LEMMA OneMore ==
  ASSUME NEW k \in Nat, NEW s \in Int, NEW d \in Int
  PROVE  s - (k + 1) * d = s - k * d - d
BY SMT

\* The quotient is known by its remainder.
LEMMA QuotientIs ==
  ASSUME NEW x \in Int, NEW d \in Nat \ {0}, NEW k \in Int, k * d <= x, x < k * d + d
  PROVE  x \div d = k
BY SMT

\* A number of passes above the stop is less than the number of words there.
LEMMA FewPasses ==
  ASSUME NEW k \in Nat, NEW d \in Nat \ {0}, NEW s \in Int, k * d < s
  PROVE  k < s
<1>1. k * d >= k
  BY SMT
<1> QED
  BY <1>1

\* The test at the top: the index, which may have wrapped around, against the stop.
LEMMA LeavesBelow ==
  ASSUME LoopInv, Bounded, at = "top"
  PROVE  Leaves <=> Below(passes) <= stop
<1> DEFINE v == Below(passes)
<1>1. /\ start \in 0 .. 2 * Half - 1 /\ stop \in 0 .. 2 * Half - 1 /\ index \in 0 .. 2 * Half - 1
      /\ Half \in Nat /\ Half > 0
      /\ start - stop \in 0 .. Half - 1
      /\ form = "ForIdown" /\ down \in 1 .. Half /\ WordSize = 2 * Half
  BY HalfAssumption DEF LoopInv, Bounded, WordSet, WordSize, span
<1>2. passes * down \in Nat /\ v = start - passes * down
  BY <1>1 DEF Below, LoopInv
<1>3. passes > 0 => v = Below(passes - 1) - down
  BY <1>1, <1>2, OneMore DEF Below, LoopInv
<1>4. v \in Int /\ v <= start /\ (passes = 0 => v = start)
  BY <1>1, <1>2 DEF LoopInv
<1>5. passes = 0 \/ (passes > 0 /\ Below(passes - 1) > stop)
  BY DEF LoopInv, PassedAbove
<1>6. v > stop - Half /\ v - stop <= Half - 1
  <2>1. CASE passes = 0
    BY <2>1, <1>1, <1>4
  <2>2. CASE passes > 0 /\ Below(passes - 1) > stop
    <3>1. Below(passes - 1) = v + down
      BY <2>2, <1>1, <1>3, <1>4 DEF Below, LoopInv
    <3> QED BY <3>1, <2>2, <1>1, <1>4
  <2> QED BY <1>5, <2>1, <2>2
<1>7. index = v \/ index = v + 2 * Half
  BY <1>1 DEF LoopInv
<1> HIDE DEF v
<1>8. Negative(Minus(index, stop)) \/ Minus(index, stop) = 0 <=> v <= stop
  BY <1>1, <1>4, <1>6, <1>7 DEF Negative, Minus
<1>9. Leaves <=> Negative(Minus(index, stop)) \/ Minus(index, stop) = 0
  BY <1>1 DEF Leaves, Compared, FlagsOfMinus, Negative, Minus, WordSize
<1> QED BY <1>8, <1>9 DEF v

\* A loop starts at its test, with no pass done.
LEMMA LoopInvInit == LoopInit => LoopInv
<1> SUFFICES ASSUME LoopInit PROVE LoopInv
  OBVIOUS
<1>1. /\ start \in WordSet /\ stop \in WordSet /\ by \in WordSet \ {0} /\ index \in WordSet
      /\ index = start /\ at = "top" /\ passes = 0
  BY DEF LoopInit, WordSet, WordSize
<1>2. Bounded => index = Below(0)
  BY <1>1, HalfAssumption DEF Bounded, Below, down, WordSet, WordSize
<1> QED
  BY <1>1, <1>2 DEF LoopInv, PassedAbove

\* The test lets an index into the body only above the stop, so there are fewer passes
\* than words.
LEMMA LoopInvTop ==
  ASSUME LoopInv, Top PROVE LoopInv'
<1>1. /\ UNCHANGED <<form, start, stop, by, index, broke>> /\ at = "top"
      /\ IF Leaves THEN at' = "out" /\ passes' = passes
         ELSE at' = "body" /\ passes' = IF passes < MaxPasses THEN passes + 1 ELSE passes
  BY DEF Top, loop
<1>2. at' \in {"out", "body"} /\ passes' \in Nat
  BY <1>1 DEF LoopInv
<1>3. (Bounded' <=> Bounded) /\ (\A k : Below(k)' = Below(k))
  BY <1>1 DEF Bounded, span, down, Below, WordSize
<1>4. ASSUME Bounded, Leaves PROVE Below(passes) <= stop
  BY <1>1, <1>4, LeavesBelow
<1>5. ASSUME Bounded, ~ Leaves
      PROVE  passes < MaxPasses /\ Below(passes) > stop /\ index = Below(passes)
  <2>1. ~ (Below(passes) <= stop)
    BY <1>1, <1>5, LeavesBelow
  <2>2. /\ start \in 0 .. 2 * Half - 1 /\ stop \in 0 .. 2 * Half - 1 /\ index \in 0 .. 2 * Half - 1
        /\ Half \in Nat /\ Half > 0 /\ span \in 0 .. Half - 1 /\ down \in 1 .. Half
        /\ WordSize = 2 * Half /\ span = start - stop /\ passes \in Nat
        /\ MaxPasses = 2 * Half + 1
    BY <1>5, HalfAssumption DEF LoopInv, Bounded, WordSet, WordSize, span, MaxPasses
  <2>3. Below(passes) \in Int /\ Below(passes) = start - passes * down /\ passes * down \in Int
    BY <2>2 DEF Below
  <2>4. passes * down < span
    BY <2>1, <2>2, <2>3
  <2>5. passes < span
    BY <2>2, <2>4, FewPasses
  <2>6. index = Below(passes) \/ index = Below(passes) + WordSize
    BY <1>1, <1>5 DEF LoopInv
  <2> QED
    BY <2>1, <2>2, <2>3, <2>5, <2>6
<1>6. CASE Leaves
  BY <1>1, <1>2, <1>3, <1>4, <1>6 DEF LoopInv, PassedAbove
<1>7. CASE ~ Leaves
  <2>1. at' = "body"
    BY <1>1, <1>7
  <2>2. Bounded => passes' = passes + 1 /\ passes' - 1 = passes /\ passes' > 0
    BY <1>1, <1>5, <1>7 DEF LoopInv
  <2>3. Bounded => PassedAbove(passes)' /\ index = Below(passes' - 1)
    BY <1>1, <1>3, <1>5, <1>7, <2>2 DEF PassedAbove
  <2> QED
    BY <1>1, <1>2, <1>3, <2>1, <2>2, <2>3 DEF LoopInv
<1> QED
  BY <1>6, <1>7

\* NEXT takes the index one step down, around the end of the words if it has to.
LEMMA LoopInvNext ==
  ASSUME LoopInv, NextBy PROVE LoopInv'
<1>1. /\ UNCHANGED <<form, start, stop, by, passes, broke>> /\ at = "next" /\ at' = "top"
      /\ index' = Plus(index, by)
  BY DEF NextBy, loop, Plus, WordSize
<1>2. index' \in WordSet
  BY <1>1, HalfAssumption DEF LoopInv, Plus, WordSet, WordSize
<1>3. (Bounded' <=> Bounded) /\ (\A k : Below(k)' = Below(k))
  BY <1>1 DEF Bounded, span, down, Below, WordSize
<1>4. ASSUME Bounded PROVE index' = Below(passes) \/ index' = Below(passes) + WordSize
  <2>1. /\ start \in Int /\ index \in 0 .. 2 * Half - 1 /\ down \in 1 .. Half /\ Half \in Nat
        /\ WordSize = 2 * Half /\ by = WordSize - down /\ passes \in Nat /\ passes > 0
        /\ index = Below(passes - 1)
    BY <1>1, <1>4, HalfAssumption DEF LoopInv, Bounded, WordSet, WordSize, down
  <2>2. Below(passes) = index - down
    BY <2>1, OneMore DEF Below
  <2> HIDE DEF Bounded
  <2> QED
    BY <1>1, <2>1, <2>2 DEF Plus
<1> QED
  BY <1>1, <1>2, <1>3, <1>4 DEF LoopInv, PassedAbove

\* Nothing else changes the index.
LEMMA LoopInvStep ==
  ASSUME LoopInv, [LoopNext]_loopvars PROVE LoopInv'
<1>1. ASSUME UNCHANGED <<form, start, stop, by, index, passes>>,
             (at = "body" /\ at' \in {"next", "out"}) \/ at' = at
      PROVE  LoopInv'
  BY <1>1 DEF LoopInv, Bounded, PassedAbove, Below, span, down
<1>2. CASE Body
  BY <1>1, <1>2 DEF Body, loop
<1>3. CASE FORBREAK
  BY <1>1, <1>3 DEF FORBREAK, loop
<1>4. CASE FORCONTINUE
  BY <1>1, <1>4 DEF FORCONTINUE, loop
<1>5. CASE UNCHANGED loopvars
  BY <1>1, <1>5 DEF loopvars
<1> QED
  BY <1>2, <1>3, <1>4, <1>5, LoopInvTop, LoopInvNext DEF LoopNext

\* When the loop has been left for its index, the passes are those that the steps
\* between the start and the stop ask for.
LEMMA DownRunsHere ==
  ASSUME LoopInv PROVE DownRuns
<1> SUFFICES ASSUME Bounded
             PROVE  /\ at = "out" /\ Leaves => passes = (span + down - 1) \div down
                    /\ at = "body" => index > stop /\ index <= start
  BY DEF DownRuns, Bounded, span, down, WordSize
<1>1. /\ start \in 0 .. 2 * Half - 1 /\ stop \in 0 .. 2 * Half - 1 /\ index \in 0 .. 2 * Half - 1
      /\ Half \in Nat /\ Half > 0 /\ span \in 0 .. Half - 1 /\ down \in 1 .. Half
      /\ WordSize = 2 * Half /\ span = start - stop /\ passes \in Nat /\ form = "ForIdown"
  BY HalfAssumption DEF LoopInv, Bounded, WordSet, WordSize, span
<1>2. passes * down \in Nat /\ Below(passes) = start - passes * down
  BY <1>1 DEF Below
<1>3. ASSUME passes > 0
      PROVE  /\ Below(passes - 1) = Below(passes) + down /\ Below(passes - 1) <= start
             /\ Below(passes - 1) > stop
  <2>1. Below(passes - 1) = Below(passes) + down
    BY <1>1, <1>2, <1>3, OneMore DEF Below
  <2>2. (passes - 1) * down \in Nat
    BY <1>1, <1>3
  <2> QED
    BY <1>1, <1>3, <2>1, <2>2 DEF Below, LoopInv, PassedAbove
<1>4. ASSUME at = "body" PROVE index > stop /\ index <= start
  BY <1>3, <1>4 DEF LoopInv
<1>5. ASSUME at = "out", Leaves PROVE passes = (span + down - 1) \div down
  <2>1. Below(passes) <= stop
    <3> SUFFICES ASSUME passes > 0, index = Below(passes - 1) PROVE FALSE
      BY <1>5 DEF LoopInv
    <3>1. index > stop /\ index - stop <= Half - 1
      BY <1>1, <1>3
    <3>2. ~ (Negative(Minus(index, stop)) \/ Minus(index, stop) = 0)
      BY <1>1, <3>1 DEF Negative, Minus
    <3> QED
      BY <1>1, <1>5, <3>2 DEF Leaves, Compared, FlagsOfMinus, Negative, Minus, WordSize
  <2>2. span <= passes * down
    BY <1>1, <1>2, <2>1
  <2>3. passes * down <= span + down - 1
    <3>1. CASE passes = 0
      BY <1>1, <3>1
    <3>2. CASE passes > 0
      BY <1>1, <1>2, <1>3, <3>2
    <3> QED
      BY <1>1, <3>1, <3>2
  <2> QED
    BY <1>1, <1>2, <2>2, <2>3, QuotientIs
<1> QED
  BY <1>4, <1>5

\* DownRuns: at every width, a ForIdown over less than half of the words runs for every
\* index above its stop, and as often as its step asks for, also where the last step
\* jumps over the stop and wraps around.
THEOREM DownwardPasses == LoopSpec => []DownRuns
<1>1. LoopSpec => []LoopInv
  BY LoopInvInit, LoopInvStep, PTL DEF LoopSpec
<1> QED
  BY <1>1, DownRunsHere, PTL

-----------------------------------------------------------------------------
(***************************************************************************)
(* The macros that set or clear one flag, on either emulator.  All but CLC *)
(* push a word, add or subtract another one, and drop the result: what the *)
(* flags then are is what Words says of the two.                           *)
(***************************************************************************)
Typed(x) ==
  /\ Whole(x)
  /\ x.sp \in 0 .. Depth /\ x.hw \in [0 .. Depth - 1 -> WordSet]
  /\ x.flags \in Nat

\* A sum of the four flags has exactly the flags that were added.
LEMMA HasBits ==
  ASSUME NEW z \in {0, 1}, NEW n \in {0, 2}, NEW k \in {0, 4}, NEW o \in {0, 8}
  PROVE  /\ z + n + k + o \in Nat
         /\ Has(z + n + k + o, 1) <=> z = 1
         /\ Has(z + n + k + o, 2) <=> n = 2
         /\ Has(z + n + k + o, 4) <=> k = 4
         /\ Has(z + n + k + o, 8) <=> o = 8
BY DEF Has

\* C puts one bit into the flag word, and leaves the other three.
LEMMA PutBit ==
  ASSUME NEW f \in Nat, NEW bit \in {1, 2, 4, 8}, NEW v \in BOOLEAN
  PROVE  /\ Put(f, bit, v) \in Nat
         /\ Has(Put(f, bit, v), bit) <=> v
         /\ \A other \in {1, 2, 4, 8} \ {bit} :
              Has(Put(f, bit, v), other) <=> Has(f, other)
<1>1. CASE bit = 1
  BY <1>1 DEF Put, Without, Has
<1>2. CASE bit = 2
  BY <1>2 DEF Put, Without, Has
<1>3. CASE bit = 4
  BY <1>3 DEF Put, Without, Has
<1>4. CASE bit = 8
  BY <1>4 DEF Put, Without, Has
<1> QED
  BY <1>1, <1>2, <1>3, <1>4

\* What an addition or subtraction makes of two words, and the flags for it.
ResultOf(op, u, w) == IF op = "ADD" THEN Plus(u, w) ELSE Minus(u, w)

FlagsFor(f, op, u, w) ==
  /\ Has(f, 1) <=> ResultOf(op, u, w) = 0
  /\ Has(f, 2) <=> Negative(ResultOf(op, u, w))
  /\ Has(f, 4) <=> IF op = "ADD" THEN Carry(u, w) ELSE Borrow(u, w)
  /\ Has(f, 8) <=> IF op = "ADD" THEN OverflowOfPlus(u, w) ELSE OverflowOfMinus(u, w)

\* Python builds a new flag word.
LEMMA PythonFlags ==
  ASSUME NEW u \in WordSet, NEW w \in WordSet
  PROVE  /\ FlagsAfterPlus(u, w) \in Nat /\ FlagsFor(FlagsAfterPlus(u, w), "ADD", u, w)
         /\ FlagsAfterMinus(u, w) \in Nat /\ FlagsFor(FlagsAfterMinus(u, w), "SUB", u, w)
<1> DEFINE word(r, c, o) ==
      (IF r = 0 THEN 1 ELSE 0) + (IF Negative(r) THEN 2 ELSE 0) + (IF c THEN 4 ELSE 0) + (IF o THEN 8 ELSE 0)
<1>1. \A r : \A c, o \in BOOLEAN :
        /\ word(r, c, o) \in Nat
        /\ Has(word(r, c, o), 1) <=> r = 0
        /\ Has(word(r, c, o), 2) <=> Negative(r)
        /\ Has(word(r, c, o), 4) <=> c
        /\ Has(word(r, c, o), 8) <=> o
  <2> TAKE r
  <2> TAKE c, o \in BOOLEAN
  <2> DEFINE z == IF r = 0 THEN 1 ELSE 0
             n == IF Negative(r) THEN 2 ELSE 0
             k == IF c THEN 4 ELSE 0
             v == IF o THEN 8 ELSE 0
  <2>1. z \in {0, 1} /\ n \in {0, 2} /\ k \in {0, 4} /\ v \in {0, 8}
    OBVIOUS
  <2>2. (z = 1 <=> r = 0) /\ (n = 2 <=> Negative(r)) /\ (k = 4 <=> c) /\ (v = 8 <=> o)
    OBVIOUS
  <2>3. word(r, c, o) = z + n + k + v
    OBVIOUS
  <2> HIDE DEF z, n, k, v, word
  <2> QED
    BY <2>1, <2>2, <2>3, HasBits
<1>2. /\ FlagsAfterPlus(u, w) = word(Plus(u, w), Carry(u, w), OverflowOfPlus(u, w))
      /\ FlagsAfterMinus(u, w) = word(Minus(u, w), Borrow(u, w), OverflowOfMinus(u, w))
  BY DEF FlagsAfterPlus, FlagsAfterMinus, OverCarryTest, SetFlags, Bit, Plus, Minus, Carry, Borrow,
     OverflowOfPlus, OverflowOfMinus, Negative, WordSize
<1>3. Carry(u, w) \in BOOLEAN /\ Borrow(u, w) \in BOOLEAN
      /\ OverflowOfPlus(u, w) \in BOOLEAN /\ OverflowOfMinus(u, w) \in BOOLEAN
  BY DEF Carry, Borrow, OverflowOfPlus, OverflowOfMinus
<1> HIDE DEF word
<1> QED
  BY <1>1, <1>2, <1>3 DEF FlagsFor, ResultOf

\* C changes one flag of the word after the other.
LEMMA CFlags ==
  ASSUME NEW u \in WordSet, NEW w \in WordSet, NEW f \in Nat,
         NEW r \in Int, NEW c \in BOOLEAN, NEW o \in BOOLEAN
  PROVE  LET g == Put(Put(set_zn(f, r), 4, c), 8, o)
         IN  /\ g \in Nat
             /\ Has(g, 1) <=> r = 0
             /\ Has(g, 2) <=> r >= Half
             /\ Has(g, 4) <=> c
             /\ Has(g, 8) <=> o
<1> DEFINE n == r >= Half
           f1 == Put(f, 1, r = 0)
           f2 == Put(f1, 2, n)
           f4 == Put(f2, 4, c)
           f8 == Put(f4, 8, o)
<1>1. n \in BOOLEAN /\ (r = 0) \in BOOLEAN
  BY HalfAssumption
<1>2. f1 \in Nat /\ (Has(f1, 1) <=> r = 0)
  BY <1>1, PutBit
<1>3. f2 \in Nat /\ (Has(f2, 1) <=> r = 0) /\ (Has(f2, 2) <=> n)
  <2> HIDE DEF f1, n
  <2>1. 1 \in {1, 2, 4, 8} \ {2}
    OBVIOUS
  <2>2. f2 \in Nat /\ (Has(f2, 2) <=> n)
    BY <1>1, <1>2, PutBit
  <2>3. Has(f2, 1) <=> Has(f1, 1)
    BY <1>1, <1>2, <2>1, PutBit
  <2> QED
    BY <1>2, <2>2, <2>3
<1>4. f4 \in Nat /\ (Has(f4, 1) <=> r = 0) /\ (Has(f4, 2) <=> n)
      /\ (Has(f4, 4) <=> c)
  <2> HIDE DEF f2, n
  <2>1. {1, 2} \subseteq {1, 2, 4, 8} \ {4}
    OBVIOUS
  <2>2. f4 \in Nat /\ (Has(f4, 4) <=> c)
    BY <1>3, PutBit
  <2>3. \A other \in {1, 2} : Has(f4, other) <=> Has(f2, other)
    BY <1>3, <2>1, PutBit
  <2> QED
    BY <1>3, <2>2, <2>3
<1>5. f8 \in Nat /\ (Has(f8, 1) <=> r = 0) /\ (Has(f8, 2) <=> n)
      /\ (Has(f8, 4) <=> c) /\ (Has(f8, 8) <=> o)
  <2> HIDE DEF f4, n
  <2>1. {1, 2, 4} \subseteq {1, 2, 4, 8} \ {8}
    OBVIOUS
  <2>2. f8 \in Nat /\ (Has(f8, 8) <=> o)
    BY <1>4, PutBit
  <2>3. \A other \in {1, 2, 4} : Has(f8, other) <=> Has(f4, other)
    BY <1>4, <2>1, PutBit
  <2> QED
    BY <1>4, <2>2, <2>3
<1> QED
  BY <1>5 DEF set_zn, FL_Z, FL_N

\* The machine after an instruction: pc goes past it, and nothing of what follows is there yet.
LEMMA Fetched ==
  ASSUME NEW x, Typed(x), NEW i
  PROVE  LET n == [x EXCEPT !.pc = (@ + Size(i)) % WordSize]
         IN  Typed(n) /\ n.sp = x.sp /\ n.hw = x.hw /\ n.flags = x.flags
<1> DEFINE v == (x.pc + Size(i)) % WordSize
<1>1. x = [field \in Fields |-> x[field]]
  BY DEF Typed, Whole
<1> HIDE DEF v
<1>2. /\ [x EXCEPT !.pc = v] = [field \in Fields |-> [x EXCEPT !.pc = v][field]]
      /\ [x EXCEPT !.pc = v].sp = x.sp /\ [x EXCEPT !.pc = v].hw = x.hw
      /\ [x EXCEPT !.pc = v].flags = x.flags
  BY <1>1 DEF Fields
<1> QED
  BY <1>2 DEF Typed, Whole, v

\* What C leaves of a prefix when the instruction is done.
LEMMA Unprefixed ==
  ASSUME NEW x, Typed(x)
  PROVE  LET n == [x EXCEPT !.seg.override = NoOverride]
         IN  Typed(n) /\ n.sp = x.sp /\ n.hw = x.hw /\ n.flags = x.flags
<1>1. x = [field \in Fields |-> x[field]]
  BY DEF Typed, Whole
<1>2. \A v : /\ [x EXCEPT !.seg = v] = [field \in Fields |-> [x EXCEPT !.seg = v][field]]
             /\ [x EXCEPT !.seg = v].sp = x.sp /\ [x EXCEPT !.seg = v].hw = x.hw
             /\ [x EXCEPT !.seg = v].flags = x.flags
  BY <1>1 DEF Fields
<1> DEFINE v == [x.seg EXCEPT !.override = NoOverride]
<1>3. [x EXCEPT !.seg.override = NoOverride] = [x EXCEPT !.seg = v]
  OBVIOUS
<1> HIDE DEF v
<1> QED
  BY <1>2, <1>3 DEF Typed, Whole

\* Changing one register of a machine.
LEMMA SpSet ==
  ASSUME NEW x, Typed(x), NEW sp \in 0 .. Depth
  PROVE  LET y == [x EXCEPT !.sp = sp]
         IN  Typed(y) /\ y.sp = sp /\ y.hw = x.hw /\ y.flags = x.flags
<1>1. x = [field \in Fields |-> x[field]]
  BY DEF Typed, Whole
<1> QED
  BY <1>1 DEF Typed, Whole, Fields

LEMMA HwSet ==
  ASSUME NEW x, Typed(x), NEW hw \in [0 .. Depth - 1 -> WordSet]
  PROVE  LET y == [x EXCEPT !.hw = hw]
         IN  Typed(y) /\ y.sp = x.sp /\ y.hw = hw /\ y.flags = x.flags
<1>1. x = [field \in Fields |-> x[field]]
  BY DEF Typed, Whole
<1> QED
  BY <1>1 DEF Typed, Whole, Fields

LEMMA FlagsSet ==
  ASSUME NEW x, Typed(x), NEW f \in Nat
  PROVE  LET y == [x EXCEPT !.flags = f]
         IN  Typed(y) /\ y.sp = x.sp /\ y.hw = x.hw /\ y.flags = f
<1>1. x = [field \in Fields |-> x[field]]
  BY DEF Typed, Whole
<1> QED
  BY <1>1 DEF Typed, Whole, Fields

\* What an instruction does to a machine, whichever emulator executes it.
Like(x, y) == Typed(y) /\ y.sp = x.sp /\ y.hw = x.hw /\ y.flags = x.flags

Ready(x, i) == [x EXCEPT !.pc = (@ + Size(i)) % WordSize]

\* The kinds of instructions have no operation in common.
LEMMA Kinds ==
  ASSUME NEW op
  PROVE  /\ op \in Arithmetic \cup Logic =>
              op \notin OnTop /\ op \notin CondJumps \cup {"JMP"} /\ op # "PUSH" /\ op # "POP"
                /\ op \notin Plain /\ op \notin Services /\ op # "ADM" /\ op \notin OfSegments
         /\ op \in OnTop =>
              op \notin Arithmetic \cup Logic /\ op \notin CondJumps \cup {"JMP"}
                /\ op # "PUSH" /\ op # "POP"
                /\ op \notin Plain /\ op \notin Services /\ op # "ADM" /\ op \notin OfSegments
         /\ op = "PUSH" =>
              op \notin Arithmetic \cup Logic /\ op \notin OnTop
                /\ op \notin CondJumps \cup {"JMP"} /\ op # "POP"
                /\ op \notin Plain /\ op \notin Services /\ op # "ADM" /\ op \notin OfSegments
         /\ op \in Plain =>
              op \notin Arithmetic \cup Logic /\ op \notin OnTop
                /\ op \notin CondJumps \cup {"JMP"} /\ op # "PUSH" /\ op # "POP"
                /\ op \notin Services /\ op # "ADM" /\ op \notin OfSegments
BY DEF Arithmetic, Logic, OnTop, CondJumps, Plain, Services, OfSegments, Prefixes

\* What each emulator does with the instructions of the macros.
LEMMA PyStepIs ==
  ASSUME NEW x, NEW i
  PROVE  LET n == Ready(x, i) IN
         /\ i.op \in Arithmetic \cup Logic => PyStep(x, i) = optALU(n, i)
         /\ i.op \in OnTop => PyStep(x, i) = optOnTop(n, i)
         /\ i.op = "PUSH" => PyStep(x, i) = optPushFrom(n, i)
         /\ i.op \in Plain => PyStep(x, i) = optPlain(n, i)
<1> DEFINE n == Ready(x, i)
<1>1. PyStep(x, i) =
        CASE i.op \in Arithmetic \cup Logic -> optALU(n, i)
          [] i.op \in OnTop                 -> optOnTop(n, i)
          [] i.op \in CondJumps \cup {"JMP"} -> optJump(n, i)
          [] i.op = "PUSH"                  -> optPushFrom(n, i)
          [] i.op = "POP"                   -> optPopTo(n, i)
          [] i.op \in Plain                 -> optPlain(n, i)
          [] i.op \in Services              -> optService(n, i)
          [] i.op = "ADM"                   -> {n}
  BY DEF PyStep, Ready
<1> HIDE DEF n
<1>2. i.op \in Arithmetic \cup Logic => PyStep(x, i) = optALU(n, i)
  BY <1>1, Kinds
<1>3. i.op \in OnTop => PyStep(x, i) = optOnTop(n, i)
  BY <1>1, Kinds
<1>4. i.op = "PUSH" => PyStep(x, i) = optPushFrom(n, i)
  BY <1>1, Kinds
<1>5. i.op \in Plain => PyStep(x, i) = optPlain(n, i)
  BY <1>1, Kinds
<1> QED
  BY <1>2, <1>3, <1>4, <1>5 DEF n

LEMMA SwitchIs ==
  ASSUME NEW n, NEW i
  PROVE  /\ i.op \in Arithmetic \cup Logic => switch(n, i) = step_ALU(n, i)
         /\ i.op \in OnTop => switch(n, i) = step_OnTop(n, i)
         /\ i.op = "PUSH" => switch(n, i) = step_PUSH(n, i)
         /\ i.op \in Plain => switch(n, i) = step_Plain(n, i)
<1>1. i.op \in Arithmetic \cup Logic => switch(n, i) = step_ALU(n, i)
  BY Kinds DEF switch
<1>2. i.op \in OnTop => switch(n, i) = step_OnTop(n, i)
  BY Kinds DEF switch
<1>3. i.op = "PUSH" => switch(n, i) = step_PUSH(n, i)
  BY Kinds DEF switch
<1>4. i.op \in Plain => switch(n, i) = step_Plain(n, i)
  BY Kinds DEF switch
<1> QED
  BY <1>1, <1>2, <1>3, <1>4

LEMMA CStepIs ==
  ASSUME NEW i, i.op \notin OfSegments, NEW x, NEW y \in CStep(x, i)
  PROVE  \E z \in switch(Ready(x, i), i) : y = [z EXCEPT !.seg.override = NoOverride]
<1>1. i.op \notin Prefixes
  BY DEF OfSegments
<1> QED
  BY <1>1 DEF CStep, Ready

\* So what holds of Python's result and of what C's switch makes, and does not depend on
\* the prefix, holds after a step of either.
LEMMA EitherStep ==
  ASSUME NEW x, NEW i, i.op \notin OfSegments, NEW y \in Step(x, i)
  PROVE  \/ Backend = "python" /\ y \in PyStep(x, i)
         \/ /\ Backend # "python"
            /\ \E z \in switch(Ready(x, i), i) : Typed(z) => Like(z, y)
<1>1. CASE Backend = "python"
  BY <1>1 DEF Step
<1>2. CASE Backend # "python"
  <2>1. PICK z \in switch(Ready(x, i), i) : y = [z EXCEPT !.seg.override = NoOverride]
    BY <1>2, CStepIs DEF Step
  <2>2. Typed(z) => Like(z, y)
    BY <2>1, Unprefixed DEF Like
  <2> QED
    BY <1>2, <2>1, <2>2
<1> QED
  BY <1>1, <1>2

-----------------------------------------------------------------------------
\* PUSH of a word.
PushedOn(x, y, w) ==
  /\ Typed(y) /\ x.sp < Depth /\ y.sp = x.sp + 1
  /\ y.hw[x.sp] = w /\ \A s \in 0 .. x.sp - 1 : y.hw[s] = x.hw[s]
  /\ y.flags = x.flags

LEMMA PushWord ==
  ASSUME Depth \in Nat, NEW x, Typed(x), NEW w \in WordSet,
         NEW y \in When(x.sp < Depth, [x EXCEPT !.hw[x.sp] = w, !.sp = @ + 1])
  PROVE  PushedOn(x, y, w)
<1> DEFINE h == [x.hw EXCEPT ![x.sp] = w]
           z == [x EXCEPT !.hw = h]
<1>1. x.sp < Depth /\ y = [x EXCEPT !.hw = h, !.sp = @ + 1]
  BY DEF When
<1>2. x.sp + 1 \in 0 .. Depth /\ x.sp \in 0 .. Depth - 1 /\ x.flags \in Nat
  BY <1>1 DEF Typed
<1>3. h \in [0 .. Depth - 1 -> WordSet] /\ h[x.sp] = w /\ \A s \in 0 .. x.sp - 1 : h[s] = x.hw[s]
  BY <1>2 DEF Typed
<1>4. y = [z EXCEPT !.sp = x.sp + 1]
  BY <1>1
<1> HIDE DEF h
<1>5. Typed(z) /\ z.sp = x.sp /\ z.hw = h /\ z.flags = x.flags
  BY <1>3, HwSet
<1> HIDE DEF z
<1>6. Typed(y) /\ y.sp = x.sp + 1 /\ y.hw = h /\ y.flags = x.flags
  BY <1>2, <1>4, <1>5, SpSet
<1> QED
  BY <1>1, <1>3, <1>6 DEF PushedOn

LEMMA PushStep ==
  ASSUME Depth \in Nat, NEW x, Typed(x), NEW w \in WordSet,
         NEW y \in Step(x, Imm("PUSH", w))
  PROVE  PushedOn(x, y, w)
<1> DEFINE i == Imm("PUSH", w)
           n == Ready(x, i)
<1>1. i.op = "PUSH" /\ i.mode = "" /\ i.arg = w /\ i.op \notin OfSegments
  BY Kinds DEF Imm
<1>2. Like(x, n)
  BY Fetched DEF Like, Ready
<1>3. y \in Step(x, i)
  OBVIOUS
<1> HIDE DEF i, n
<1>4. /\ optPushFrom(n, i) = optPUSH(n, w)
      /\ step_PUSH(n, i) = push16(n, w)
  BY <1>1 DEF optPushFrom, step_PUSH, argument
<1>5. \A z : z \in optPUSH(n, w) \/ z \in push16(n, w) => PushedOn(n, z, w)
  BY <1>2, PushWord DEF optPUSH, push16, Like
<1>6. \A z : PushedOn(n, z, w) => Typed(z) /\ PushedOn(x, z, w)
  BY <1>2 DEF PushedOn, Like
<1>7. \A z : PushedOn(x, z, w) /\ Like(z, y) => PushedOn(x, y, w)
  BY DEF PushedOn, Like
<1>8. y \in PyStep(x, i) => y \in optPUSH(n, w)
  BY <1>1, <1>4, PyStepIs DEF n
<1>9. switch(n, i) = push16(n, w)
  BY <1>1, <1>4, SwitchIs
<1> QED
  BY <1>1, <1>3, <1>5, <1>6, <1>7, <1>8, <1>9, EitherStep DEF n

\* POPNULL.
Dropped(x, y) == Typed(y) /\ x.sp >= 1 /\ y.sp = x.sp - 1 /\ y.hw = x.hw /\ y.flags = x.flags

LEMMA PopNullStep ==
  ASSUME Depth \in Nat, NEW x, Typed(x), NEW y \in Step(x, Imm("POPNULL", 0))
  PROVE  Dropped(x, y)
<1> DEFINE i == Imm("POPNULL", 0)
           n == Ready(x, i)
<1>1. i.op = "POPNULL" /\ i.op \in Plain
  BY DEF Imm, Plain
<1>2. Like(x, n) /\ i.op \notin OfSegments
  BY <1>1, Fetched, Kinds DEF Like, Ready
<1>3. y \in Step(x, i)
  OBVIOUS
<1> HIDE DEF i, n
<1>4. /\ optPlain(n, i) = optPOPNULL(n)
      /\ step_Plain(n, i) = optPOPNULL(n)
  BY <1>1 DEF optPlain, step_Plain, optPOPNULL
<1>5. ASSUME NEW z \in optPOPNULL(n) PROVE Dropped(n, z)
  <2>1. n.sp >= 1 /\ z = [n EXCEPT !.sp = n.sp - 1]
    BY DEF optPOPNULL, When
  <2>2. n.sp - 1 \in 0 .. Depth /\ n.hw \in [0 .. Depth - 1 -> WordSet] /\ n.flags \in Nat /\ Typed(n)
    BY <1>2, <2>1 DEF Like, Typed
  <2> QED
    BY <2>1, <2>2, SpSet DEF Dropped
<1>6. \A z : Dropped(n, z) => Typed(z) /\ Dropped(x, z)
  BY <1>2 DEF Dropped, Like
<1>7. \A z : Dropped(x, z) /\ Like(z, y) => Dropped(x, y)
  BY DEF Dropped, Like
<1>8. y \in PyStep(x, i) => y \in optPOPNULL(n)
  BY <1>1, <1>4, PyStepIs DEF n
<1>9. switch(n, i) = optPOPNULL(n)
  BY <1>1, <1>4, SwitchIs
<1> QED
  BY <1>2, <1>3, <1>5, <1>6, <1>7, <1>8, <1>9, EitherStep DEF n

-----------------------------------------------------------------------------
\* An instruction on the top of the stack leaves what is below it.
TopOnly(x, y) ==
  Typed(y) /\ x.sp >= 1 /\ y.sp = x.sp /\ \A s \in 0 .. x.sp - 2 : y.hw[s] = x.hw[s]

LEMMA TopSet ==
  ASSUME Depth \in Nat, NEW x, Typed(x), x.sp >= 1, NEW f \in Nat, NEW r \in WordSet
  PROVE  LET y == StoreAcum([x EXCEPT !.flags = f], r)
         IN  TopOnly(x, y) /\ y.flags = f /\ y.hw[x.sp - 1] = r
<1> DEFINE z == [x EXCEPT !.flags = f]
           y == StoreAcum(z, r)
           h == [z.hw EXCEPT ![z.sp - 1] = r]
<1>1. Typed(z) /\ z.sp = x.sp /\ z.hw = x.hw /\ z.flags = f
  BY FlagsSet
<1>2. y = [z EXCEPT !.hw = h]
  BY DEF StoreAcum
<1>3. /\ h \in [0 .. Depth - 1 -> WordSet] /\ \A s \in 0 .. x.sp - 2 : h[s] = x.hw[s]
      /\ h[x.sp - 1] = r
  BY <1>1 DEF Typed
<1> HIDE DEF y, z, h
<1>4. Typed(y) /\ y.sp = z.sp /\ y.hw = h /\ y.flags = z.flags
  BY <1>1, <1>2, <1>3, HwSet
<1> QED
  BY <1>1, <1>3, <1>4 DEF TopOnly, y, z

\* What holds of a result of the instruction proper holds after the step.
LEMMA TopStep ==
  ASSUME NEW x, NEW n, Like(x, n), NEW z, TopOnly(n, z), NEW y, Like(z, y)
  PROVE  TopOnly(x, y) /\ y.flags = z.flags /\ y.hw = z.hw
BY DEF TopOnly, Like

\* ADD and SUB of a word.
LEMMA AddStep ==
  ASSUME Depth \in Nat, NEW op \in {"ADD", "SUB"}, NEW x, Typed(x), NEW w \in WordSet,
         NEW y \in Step(x, Imm(op, w))
  PROVE  TopOnly(x, y) /\ FlagsFor(y.flags, op, x.hw[x.sp - 1], w)
<1> DEFINE i == Imm(op, w)
           n == Ready(x, i)
           u == x.hw[x.sp - 1]
           r == ResultOf(op, u, w)
           f == IF op = "ADD" THEN FlagsAfterPlus(u, w) ELSE FlagsAfterMinus(u, w)
           c == IF op = "ADD" THEN Carry(u, w) ELSE Borrow(u, w)
           o == IF op = "ADD" THEN OverflowOfPlus(u, w) ELSE OverflowOfMinus(u, w)
           g == Put(Put(set_zn(n.flags, r), 4, c), 8, o)
<1>1. i.op = op /\ i.mode = "" /\ i.arg = w
  BY DEF Imm
<1>2. i.op \in Arithmetic \cup Logic /\ i.op \notin OfSegments
  BY <1>1, Kinds DEF Arithmetic
<1>3. Like(x, n)
  BY Fetched DEF Like, Ready
<1>4. y \in Step(x, i)
  OBVIOUS
<1> HIDE DEF i, n
<1>5. x.sp >= 1 => u \in WordSet
  BY DEF Typed
<1>6. ASSUME u \in WordSet
      PROVE  /\ op = "ADD" => r \in WordSet /\ r = Plus(u, w)
             /\ op = "SUB" => r \in WordSet /\ r = Minus(u, w)
             /\ op = "ADD" => r = (u + w) % WordSize
             /\ op = "SUB" => r = (u - w) % WordSize
  BY <1>6, HalfAssumption DEF ResultOf, Plus, Minus, WordSet, WordSize
<1>7. ASSUME NEW z \in optALU(n, i)
      PROVE  TopOnly(n, z) /\ FlagsFor(z.flags, op, u, w)
  <2>1. n.sp >= 1
    BY <1>1 DEF optALU, When, Stacked
  <2>2. fetchStack(n, 0) = u
    BY <1>3, <2>1 DEF fetchStack, Like, Typed
  <2>3. x.sp >= 1 /\ u \in WordSet
    BY <1>3, <1>5, <2>1 DEF Like
  <2>4. Operand(n, i) = w
    BY <1>1 DEF Operand
  <2>5. z = StoreAcum([n EXCEPT !.flags = f], r)
    <3>1. CASE op = "ADD"
      BY <1>1, <1>6, <2>2, <2>3, <2>4, <3>1 DEF optALU, When
    <3>2. CASE op = "SUB"
      BY <1>1, <1>6, <2>2, <2>3, <2>4, <3>2 DEF optALU, When
    <3> QED
      BY <3>1, <3>2
  <2>6. f \in Nat /\ FlagsFor(f, op, u, w)
    BY <2>3, PythonFlags
  <2>7. r \in WordSet /\ Typed(n)
    BY <1>3, <1>6, <2>3 DEF Like
  <2> HIDE DEF f, r, u
  <2> QED
    BY <2>1, <2>5, <2>6, <2>7, TopSet
<1>8. ASSUME NEW z \in step_ALU(n, i)
      PROVE  TopOnly(n, z) /\ FlagsFor(z.flags, op, u, w)
  <2>1. n.sp >= 1
    BY <1>1 DEF step_ALU, When
  <2>2. peek0(n) = u
    BY <1>3 DEF peek0, Like
  <2>3. x.sp >= 1 /\ u \in WordSet /\ n.flags \in Nat /\ Typed(n)
    BY <1>3, <1>5, <2>1 DEF Like, Typed
  <2>4. argument(n, i) = w
    BY <1>1 DEF argument
  <2>5. r \in WordSet /\ r \in Int /\ u \in Int /\ w \in Int
    BY <1>6, <2>3 DEF WordSet
  <2>6. z = StoreAcum([n EXCEPT !.flags = g], r)
    <3> DEFINE A == peek0(n)
               B == argument(n, i)
    <3>1. CASE op = "ADD"
      <4>1. g = set_cf_of_add(set_zn(n.flags, r), u, w, r)
        BY <3>1, <2>3, <2>5, HalfAssumption DEF set_cf_of_add, Carry, OverflowOfPlus, Negative,
           ResultOf, WordSize, FL_C, FL_O
      <4> DEFINE v == (A + B) % WordSize
      <4>2. z = set_top([n EXCEPT !.flags = set_cf_of_add(set_zn(@, v), A, B, v)], v)
        BY <1>1, <3>1 DEF step_ALU, When, Logic
      <4>3. A = u /\ B = w /\ v = r
        BY <1>6, <2>2, <2>3, <2>4, <3>1
      <4> HIDE DEF g, r, v, A, B
      <4> QED
        BY <4>1, <4>2, <4>3 DEF set_top, StoreAcum
    <3>2. CASE op = "SUB"
      <4>1. g = set_cf_of_sub(set_zn(n.flags, r), u, w, r)
        BY <3>2, <2>3, <2>5 DEF set_cf_of_sub, Borrow, OverflowOfMinus, Negative, ResultOf, FL_C,
           FL_O
      <4> DEFINE v == (A - B) % WordSize
      <4>2. z = set_top([n EXCEPT !.flags = set_cf_of_sub(set_zn(@, v), A, B, v)], v)
        BY <1>1, <3>2 DEF step_ALU, When, Logic
      <4>3. A = u /\ B = w /\ v = r
        BY <1>6, <2>2, <2>3, <2>4, <3>2
      <4> HIDE DEF g, r, v, A, B
      <4> QED
        BY <4>1, <4>2, <4>3 DEF set_top, StoreAcum
    <3> QED
      BY <3>1, <3>2
  <2>7. c \in BOOLEAN /\ o \in BOOLEAN
    <3>1. Carry(u, w) \in BOOLEAN /\ Borrow(u, w) \in BOOLEAN
          /\ OverflowOfPlus(u, w) \in BOOLEAN /\ OverflowOfMinus(u, w) \in BOOLEAN
      BY DEF Carry, Borrow, OverflowOfPlus, OverflowOfMinus
    <3> QED
      BY <3>1
  <2>8. g \in Nat /\ FlagsFor(g, op, u, w)
    <3> HIDE DEF c, o, r
    <3>1. /\ g \in Nat
          /\ Has(g, 1) <=> r = 0
          /\ Has(g, 2) <=> r >= Half
          /\ Has(g, 4) <=> c
          /\ Has(g, 8) <=> o
      BY <2>3, <2>5, <2>7, CFlags
    <3> HIDE DEF g
    <3> QED
      BY <3>1 DEF FlagsFor, Negative, c, o, r
  <2> HIDE DEF g, r, u
  <2> QED
    BY <2>1, <2>3, <2>5, <2>6, <2>8, TopSet
<1> HIDE DEF u
<1>9. y \in PyStep(x, i) => y \in optALU(n, i)
  BY <1>2, PyStepIs DEF n
<1>10. switch(n, i) = step_ALU(n, i)
  BY <1>2, SwitchIs
<1>11. \A z : TopOnly(n, z) => Typed(z) /\ Like(z, z)
  BY DEF TopOnly, Like
<1>12. PICK z : TopOnly(n, z) /\ FlagsFor(z.flags, op, u, w) /\ Like(z, y)
  BY <1>2, <1>4, <1>7, <1>8, <1>9, <1>10, <1>11, EitherStep DEF n
<1> QED
  BY <1>3, <1>12, TopStep DEF u

\* XOR with a word: Python leaves no carry, and C the one there was.
LEMMA XorStep ==
  ASSUME Depth \in Nat, Logical["XOR"] \in [WordSet \X WordSet -> WordSet],
         NEW x, Typed(x), NEW w \in WordSet, NEW y \in Step(x, Imm("XOR", w))
  PROVE  TopOnly(x, y) /\ (Has(y.flags, 4) => Backend # "python" /\ Has(x.flags, 4))
<1> DEFINE i == Imm("XOR", w)
           n == Ready(x, i)
           u == x.hw[x.sp - 1]
           r == Logical["XOR"][<<u, w>>]
           f == SetFlags(r)
           g == set_zn(n.flags, r)
<1>1. i.op = "XOR" /\ i.mode = "" /\ i.arg = w
  BY DEF Imm
<1>2. i.op \in Arithmetic \cup Logic /\ i.op \notin OfSegments
  BY <1>1, Kinds DEF Logic
<1>3. Like(x, n)
  BY Fetched DEF Like, Ready
<1>4. y \in Step(x, i)
  OBVIOUS
<1> HIDE DEF i, n
<1>5. x.sp >= 1 => u \in WordSet /\ r \in WordSet
  BY DEF Typed
<1>6. f \in Nat /\ ~ Has(f, 4)
  <2> DEFINE z == IF r = 0 THEN 1 ELSE 0
             s == IF Negative(r) THEN 2 ELSE 0
  <2>1. z \in {0, 1} /\ s \in {0, 2} /\ f = z + s
    BY DEF SetFlags, Bit
  <2> HIDE DEF z, s, f
  <2> QED
    BY <2>1 DEF Has
<1>7. ASSUME NEW z \in optALU(n, i)
      PROVE  TopOnly(n, z) /\ ~ Has(z.flags, 4)
  <2>1. n.sp >= 1
    BY <1>1 DEF optALU, When, Stacked
  <2>2. fetchStack(n, 0) = u
    BY <1>3, <2>1 DEF fetchStack, Like, Typed
  <2>3. r \in WordSet /\ Typed(n)
    BY <1>3, <1>5, <2>1 DEF Like
  <2>4. Operand(n, i) = w
    BY <1>1 DEF Operand
  <2>5. z = StoreAcum([n EXCEPT !.flags = f], r)
    BY <1>1, <2>2, <2>4 DEF optALU, When
  <2> HIDE DEF f, r, u
  <2> QED
    BY <1>6, <2>1, <2>3, <2>5, TopSet
<1>8. ASSUME NEW z \in step_ALU(n, i)
      PROVE  TopOnly(n, z) /\ (Has(z.flags, 4) <=> Has(x.flags, 4))
  <2>1. n.sp >= 1
    BY <1>1 DEF step_ALU, When
  <2>2. peek0(n) = u
    BY <1>3 DEF peek0, Like
  <2>3. r \in WordSet /\ n.flags \in Nat /\ n.flags = x.flags /\ Typed(n)
    BY <1>3, <1>5, <2>1 DEF Like, Typed
  <2>4. argument(n, i) = w
    BY <1>1 DEF argument
  <2>5. z = StoreAcum([n EXCEPT !.flags = g], r)
    <3> DEFINE A == peek0(n)
               B == argument(n, i)
               v == Logical[i.op][<<A, B>>]
    <3>1. z = set_top([n EXCEPT !.flags = set_zn(@, v)], v)
      BY <1>1 DEF step_ALU, When, Logic
    <3>2. v = r
      BY <1>1, <2>2, <2>4
    <3> HIDE DEF v, r
    <3> QED
      BY <3>1, <3>2 DEF set_top, StoreAcum
  <2>6. g \in Nat /\ (Has(g, 4) <=> Has(n.flags, 4))
    <3>1. (r = 0) \in BOOLEAN /\ (r >= Half) \in BOOLEAN
      BY <2>3, HalfAssumption DEF WordSet
    <3> HIDE DEF r
    <3>2. \A e \in Nat, bit \in {1, 2}, v \in BOOLEAN :
            Put(e, bit, v) \in Nat /\ (Has(Put(e, bit, v), 4) <=> Has(e, 4))
      <4>1. \A bit \in {1, 2} : bit \in {1, 2, 4, 8} /\ 4 \in {1, 2, 4, 8} \ {bit}
        OBVIOUS
      <4> QED
        BY <4>1, PutBit
    <3>3. Put(n.flags, 1, r = 0) \in Nat /\ (Has(Put(n.flags, 1, r = 0), 4) <=> Has(n.flags, 4))
      BY <2>3, <3>1, <3>2
    <3> QED
      BY <3>1, <3>2, <3>3 DEF set_zn, FL_Z, FL_N
  <2> HIDE DEF g, r, u
  <2> QED
    BY <2>1, <2>3, <2>5, <2>6, TopSet
<1> HIDE DEF u
<1>9. y \in PyStep(x, i) => y \in optALU(n, i)
  BY <1>2, PyStepIs DEF n
<1>10. switch(n, i) = step_ALU(n, i)
  BY <1>2, SwitchIs
<1>11. \A z : TopOnly(n, z) => Typed(z) /\ Like(z, z)
  BY DEF TopOnly, Like
<1>12. PICK z : /\ TopOnly(n, z) /\ Like(z, y)
                /\ Has(z.flags, 4) => Backend # "python" /\ Has(x.flags, 4)
  BY <1>2, <1>4, <1>7, <1>8, <1>9, <1>10, <1>11, EitherStep DEF n
<1> QED
  BY <1>3, <1>12, TopStep

\* A rotation makes a word of the word on top.
LEMMA RotatedWord ==
  ASSUME NEW u \in WordSet, NEW k \in {0, 1}
  PROVE  ((2 * u) % WordSize) + k \in WordSet /\ u \div 2 + Half * k \in WordSet
<1>1. u \in Int /\ 0 <= u /\ u < 2 * Half /\ Half \in Nat /\ Half > 0
  BY HalfAssumption DEF WordSet, WordSize
<1>2. (2 * u) % (2 * Half) = IF u < Half THEN 2 * u ELSE 2 * u - 2 * Half
  BY <1>1
<1>3. (2 * u) % (2 * Half) >= 0 /\ ((2 * u) % (2 * Half)) + k < 2 * Half
  BY <1>1, <1>2
<1>4. u \div 2 \in Nat /\ u \div 2 < Half /\ (Half * k = 0 \/ Half * k = Half)
  BY <1>1
<1> QED
  BY <1>1, <1>2, <1>3, <1>4 DEF WordSet, WordSize

\* What a rotation makes of the carry and of the word on top.
Rotates(op, x, y) ==
  LET u == x.hw[x.sp - 1]
      k == IF Has(x.flags, 4) THEN 1 ELSE 0
  IN  IF op = "RLTC"
        THEN y.hw[x.sp - 1] = ((2 * u) % WordSize) + k /\ (Has(y.flags, 4) <=> u >= Half)
        ELSE y.hw[x.sp - 1] = u \div 2 + Half * k /\ (Has(y.flags, 4) <=> u % 2 = 1)

LEMMA RotateStep ==
  ASSUME Depth \in Nat, NEW op \in {"RLTC", "RRTC"}, NEW x, Typed(x),
         NEW y \in Step(x, Imm(op, 0))
  PROVE  TopOnly(x, y) /\ Rotates(op, x, y)
<1> DEFINE i == Imm(op, 0)
           n == Ready(x, i)
           u == x.hw[x.sp - 1]
           cin == Has(n.flags, 4)
           k == IF cin THEN 1 ELSE 0
           right == u \div 2 + Half * k
           left == ((2 * u) % WordSize) + k
<1>1. i.op = op /\ i.mode = ""
  BY DEF Imm
<1>2. i.op \in OnTop /\ i.op \notin OfSegments
  BY <1>1, Kinds DEF OnTop
<1>3. Like(x, n)
  BY Fetched DEF Like, Ready
<1>4. y \in Step(x, i)
  OBVIOUS
<1> HIDE DEF i, n
<1>5. x.sp >= 1 => u \in WordSet
  BY DEF Typed
<1>6. \A z \in optOnTop(n, i) : TopOnly(n, z) /\ Rotates(op, n, z)
  <2> SUFFICES ASSUME NEW z \in optOnTop(n, i) PROVE TopOnly(n, z) /\ Rotates(op, n, z)
    OBVIOUS
  <2> DEFINE bit(on, v) == IF on THEN v ELSE 0
             kept == n.flags - bit(cin, 4) + bit(u % 2 = 1, 4)
             made == bit(ZF(n.flags), 1) + bit(NF(n.flags), 2) + bit(Negative(u), 4)
                       + bit(OF(n.flags), 8)
  <2>1. n.sp >= 1
    BY DEF optOnTop, When
  <2>2. fetchStack(n, 0) = u
    BY <1>3, <2>1 DEF fetchStack, Like, Typed
  <2>3. u \in WordSet /\ u \in Int /\ n.flags \in Nat /\ Typed(n) /\ n.hw[n.sp - 1] = u
    BY <1>3, <1>5, <2>1 DEF Like, Typed, WordSet
  <2>4. kept \in Nat /\ (Has(kept, 4) <=> u % 2 = 1)
    <3>1. cin => n.flags >= 4 /\ (n.flags \div 4) % 2 = 1
      BY <2>3 DEF Has
    <3>2. ~ cin => (n.flags \div 4) % 2 = 0
      BY <2>3 DEF Has
    <3> HIDE DEF cin
    <3> QED
      BY <2>3, <3>1, <3>2 DEF Has
  <2>5. made \in Nat /\ (Has(made, 4) <=> u >= Half)
    <3> DEFINE z1 == bit(ZF(n.flags), 1)
               n2 == bit(NF(n.flags), 2)
               c4 == bit(Negative(u), 4)
               o8 == bit(OF(n.flags), 8)
    <3>1. z1 \in {0, 1} /\ n2 \in {0, 2} /\ c4 \in {0, 4} /\ o8 \in {0, 8} /\ (c4 = 4 <=> u >= Half)
      BY DEF Negative
    <3>2. made = z1 + n2 + c4 + o8
      OBVIOUS
    <3> HIDE DEF z1, n2, c4, o8, made
    <3> QED
      BY <3>1, <3>2, HasBits
  <2>6. \/ op = "RRTC" /\ z = StoreAcum([n EXCEPT !.flags = kept], right)
        \/ op = "RLTC" /\ z = StoreAcum([n EXCEPT !.flags = made], left)
    <3>1. bit(cin, 1) = k /\ bit(cin, Half) = Half * k /\ CF(n.flags) = cin
      BY HalfAssumption DEF CF
    <3>2. made = bit(ZF(n.flags), 1) + bit(NF(n.flags), 2) + bit(OF(n.flags), 8)
                   + bit(Negative(u), 4)
      OBVIOUS
    <3> HIDE DEF cin, k, made
    <3>3. CASE op = "RRTC"
      BY <1>1, <2>2, <3>1, <3>3 DEF optOnTop, When, Bit
    <3>4. CASE op = "RLTC"
      BY <1>1, <2>2, <3>1, <3>2, <3>4 DEF optOnTop, When, Bit
    <3> QED
      BY <3>3, <3>4
  <2>7. right \in WordSet /\ left \in WordSet
    BY <2>3, RotatedWord
  <2> HIDE DEF left, right, kept, made, bit
  <2>8. /\ TopOnly(n, z)
        /\ \/ op = "RRTC" /\ z.flags = kept /\ z.hw[n.sp - 1] = right
           \/ op = "RLTC" /\ z.flags = made /\ z.hw[n.sp - 1] = left
    BY <2>1, <2>3, <2>4, <2>5, <2>6, <2>7, TopSet
  <2> QED
    BY <2>3, <2>4, <2>5, <2>8 DEF Rotates, left, right
<1>7. \A z \in step_OnTop(n, i) : TopOnly(n, z) /\ Rotates(op, n, z)
  <2> SUFFICES ASSUME NEW z \in step_OnTop(n, i) PROVE TopOnly(n, z) /\ Rotates(op, n, z)
    OBVIOUS
  <2> DEFINE low == Put(n.flags, 4, u % 2 = 1)
             high == Put(n.flags, 4, u >= Half)
  <2>1. n.sp >= 1
    BY DEF step_OnTop, When
  <2>2. peek0(n) = u
    BY <1>3 DEF peek0, Like
  <2>3. u \in WordSet /\ u \in Int /\ n.flags \in Nat /\ Typed(n) /\ n.hw[n.sp - 1] = u
    BY <1>3, <1>5, <2>1 DEF Like, Typed, WordSet
  <2>4. low \in Nat /\ high \in Nat /\ (Has(low, 4) <=> u % 2 = 1) /\ (Has(high, 4) <=> u >= Half)
    <3>1. (u % 2 = 1) \in BOOLEAN /\ (u >= Half) \in BOOLEAN
      BY <2>3, HalfAssumption
    <3> QED
      BY <2>3, <3>1, PutBit
  <2>5. \/ op = "RRTC" /\ z = StoreAcum([n EXCEPT !.flags = low], right)
        \/ op = "RLTC" /\ z = StoreAcum([n EXCEPT !.flags = high], left)
    <3>1. CASE op = "RRTC"
      BY <1>1, <2>2, <3>1 DEF step_OnTop, When, set_top, StoreAcum, FL_C
    <3>2. CASE op = "RLTC"
      BY <1>1, <2>2, <3>2 DEF step_OnTop, When, set_top, StoreAcum, FL_C
    <3> QED
      BY <3>1, <3>2
  <2>6. right \in WordSet /\ left \in WordSet
    BY <2>3, RotatedWord
  <2> HIDE DEF left, right, low, high
  <2>7. /\ TopOnly(n, z)
        /\ \/ op = "RRTC" /\ z.flags = low /\ z.hw[n.sp - 1] = right
           \/ op = "RLTC" /\ z.flags = high /\ z.hw[n.sp - 1] = left
    BY <2>1, <2>3, <2>4, <2>5, <2>6, TopSet
  <2> QED
    BY <2>3, <2>4, <2>7 DEF Rotates, left, right
<1>8. y \in PyStep(x, i) => y \in optOnTop(n, i)
  BY <1>2, PyStepIs DEF n
<1>9. switch(n, i) = step_OnTop(n, i)
  BY <1>2, SwitchIs
<1>10. \A z : TopOnly(n, z) => Typed(z) /\ Like(z, z)
  BY DEF TopOnly, Like
<1>11. PICK z : TopOnly(n, z) /\ Rotates(op, n, z) /\ Like(z, y)
  BY <1>2, <1>4, <1>6, <1>7, <1>8, <1>9, <1>10, EitherStep DEF n
<1>12. TopOnly(x, y) /\ y.flags = z.flags /\ y.hw = z.hw
  BY <1>3, <1>11, TopStep
<1> HIDE DEF u, k, left, right
<1> QED
  BY <1>3, <1>11, <1>12 DEF Rotates, Like

-----------------------------------------------------------------------------
(***************************************************************************)
(* One more turn of the wheel, which is the carry and the word on top.     *)
(***************************************************************************)
\* Division by a number that is not known.
LEMMA Parts ==
  ASSUME NEW w \in Nat, NEW g \in Nat \ {0}
  PROVE  /\ w \div g \in Nat /\ (w % g) \in 0 .. g - 1
         /\ w = (w \div g) * g + (w % g)
BY SMT

LEMMA PartsAre ==
  ASSUME NEW a1 \in Nat, NEW g \in Nat \ {0}, NEW r \in 0 .. g - 1
  PROVE  (a1 * g + r) \div g = a1 /\ (a1 * g + r) % g = r
<1> DEFINE x == a1 * g + r
<1>1. x \in Nat /\ a1 * g \in Nat /\ a1 * g <= x /\ x < a1 * g + g
  OBVIOUS
<1> HIDE DEF x
<1>2. x \div g = a1
  BY <1>1, QuotientIs
<1>3. x = (x \div g) * g + (x % g)
  BY <1>1, Parts
<1> DEFINE s == x % g
<1>4. s \in Int
  BY <1>1, Parts
<1>5. x = (x \div g) * g + s
  BY <1>3
<1> HIDE DEF s
<1>6. x = a1 * g + s
  BY <1>2, <1>5
<1>7. s = r
  <2> DEFINE y == a1 * g
  <2>1. y \in Int /\ x = y + s /\ x = y + r
    BY <1>1, <1>6 DEF x
  <2> HIDE DEF y
  <2> QED
    BY <1>4, <2>1
<1> QED
  BY <1>2, <1>7 DEF x, s

\* Parts twice as large.
LEMMA Doubled ==
  ASSUME NEW w \in Nat, NEW g \in Nat \ {0}
  PROVE  /\ w \div (2 * g) = (w \div g) \div 2
         /\ (w % (2 * g)) = (IF (w \div g) % 2 = 1 THEN g ELSE 0) + (w % g)
<1> DEFINE q == w \div g
           t == w % g
           k == q \div 2
           c == IF q % 2 = 1 THEN g ELSE 0
           gg == 2 * g
           r == c + t
<1>1. q \in Nat /\ t \in 0 .. g - 1 /\ w = q * g + t
  BY Parts
<1> HIDE DEF q, t
<1>2. k \in Nat /\ ((q = 2 * k /\ c = 0) \/ (q = 2 * k + 1 /\ c = g))
  BY <1>1
<1> HIDE DEF k, c
<1>3. gg \in Nat \ {0} /\ r \in 0 .. gg - 1
  BY <1>1, <1>2
<1>4. w = k * gg + r
  <2>1. CASE q = 2 * k /\ c = 0
    BY <1>1, <1>2, <2>1
  <2>2. CASE q = 2 * k + 1 /\ c = g
    <3>1. q * g = k * (2 * g) + g
      BY <1>2, <2>2
    <3> QED
      BY <1>1, <1>2, <2>2, <3>1
  <2> QED
    BY <1>2, <2>1, <2>2
<1> HIDE DEF gg, r
<1>5. w \div gg = k /\ (w % gg) = r
  BY <1>2, <1>3, <1>4, PartsAre
<1> QED
  BY <1>5 DEF gg, r, k, c, q, t

\* The wheel in p parts.
LEMMA WheelParts ==
  ASSUME Half % 8 = 0, NEW p \in {1, 2, 4, 8, 16}
  PROVE  \E g \in Nat \ {0} :
           g * p = WordSize /\ Wheel \div p = 2 * g /\ Wheel \div (2 * p) = g
<1> DEFINE h == Half \div 8
<1>1. h \in Nat \ {0} /\ Half = 8 * h
  BY HalfAssumption
<1> HIDE DEF h
<1>2. Wheel = 32 * h /\ WordSize = 16 * h
  BY <1>1 DEF WordSize, Wheel
<1>3. CASE p = 1
  BY <1>1, <1>2, <1>3
<1>4. CASE p = 2
  <2>1. (8 * h) * p = WordSize /\ Wheel \div p = 2 * (8 * h) /\ Wheel \div (2 * p) = 8 * h
    BY <1>1, <1>2, <1>4
  <2> QED
    BY <1>1, <2>1
<1>5. CASE p = 4
  <2>1. (4 * h) * p = WordSize /\ Wheel \div p = 2 * (4 * h) /\ Wheel \div (2 * p) = 4 * h
    BY <1>1, <1>2, <1>5
  <2> QED
    BY <1>1, <2>1
<1>6. CASE p = 8
  <2>1. (2 * h) * p = WordSize /\ Wheel \div p = 2 * (2 * h) /\ Wheel \div (2 * p) = 2 * h
    BY <1>1, <1>2, <1>6
  <2> QED
    BY <1>1, <2>1
<1>7. CASE p = 16
  <2>1. h * p = WordSize /\ Wheel \div p = 2 * h /\ Wheel \div (2 * p) = h
    BY <1>1, <1>2, <1>7
  <2> QED
    BY <1>1, <2>1
<1> QED
  BY <1>3, <1>4, <1>5, <1>6, <1>7

LEMMA LeftAgain ==
  ASSUME Half % 8 = 0, NEW w \in WordSet, NEW p \in {1, 2, 4, 8, 16}
  PROVE  LET x == TurnedLeft(w, p)
         IN  /\ x \in 0 .. Wheel - 1
             /\ TurnedLeft(w, 2 * p) = IF x >= WordSize THEN 2 * x - Wheel + 1 ELSE 2 * x
<1>1. PICK g \in Nat \ {0} : g * p = WordSize /\ Wheel \div p = 2 * g /\ Wheel \div (2 * p) = g
  BY WheelParts
<1> DEFINE q == w \div g
           t == w % g
           k == q \div 2
           c == q % 2
<1>2. w \in Nat /\ w < g * p
  BY <1>1, HalfAssumption DEF WordSet, WordSize
<1>3. q \in Nat /\ t \in 0 .. g - 1 /\ w = q * g + t
  BY <1>2, Parts
<1> HIDE DEF q, t
<1>4. k \in Nat /\ c \in {0, 1} /\ q = 2 * k + c
  BY <1>3
<1> HIDE DEF k, c
<1>5. q < p
  <2>1. ASSUME q >= p PROVE FALSE
    <3>1. q * g >= p * g
      BY <1>3, <2>1
    <3> QED
      BY <1>2, <1>3, <3>1
  <2> QED
    BY <1>3, <2>1
<1>6. c * g = IF c = 1 THEN g ELSE 0
  BY <1>4
<1>7. w \div (2 * g) = k /\ (w % (2 * g)) = c * g + t
  <2>1. k = (w \div g) \div 2 /\ c = (w \div g) % 2 /\ t = w % g
    BY DEF k, c, q, t
  <2> QED
    BY <1>2, <1>6, <2>1, Doubled
<1> DEFINE low == t * p + k
<1>8. TurnedLeft(w, p) = c * WordSize + low /\ low \in 0 .. WordSize - 1
  <2>1. TurnedLeft(w, p) = (c * g + t) * p + k
    BY <1>1, <1>7 DEF TurnedLeft
  <2>2. (c * g + t) * p = c * (g * p) + t * p
    BY <1>3, <1>4
  <2>3. t * p \in Nat /\ t * p <= (g - 1) * p /\ (g - 1) * p = g * p - p
    BY <1>3
  <2>4. k < p
    BY <1>4, <1>5
  <2> QED
    BY <1>1, <1>4, <2>1, <2>2, <2>3, <2>4
<1>9. TurnedLeft(w, 2 * p) = 2 * low + c
  <2>1. TurnedLeft(w, 2 * p) = t * (2 * p) + q
    BY <1>1 DEF TurnedLeft, q, t
  <2>2. t * (2 * p) = 2 * (t * p)
    BY <1>3
  <2> QED
    BY <1>3, <1>4, <2>1, <2>2
<1>10. Wheel = 2 * WordSize /\ WordSize \in Nat
  BY HalfAssumption DEF Wheel, WordSize
<1> HIDE DEF low
<1> QED
  BY <1>4, <1>8, <1>9, <1>10

LEMMA RightAgain ==
  ASSUME Half % 8 = 0, NEW w \in WordSet, NEW p \in {1, 2, 4, 8, 16}
  PROVE  LET x == TurnedRight(w, p)
         IN  /\ x \in 0 .. Wheel - 1
             /\ TurnedRight(w, 2 * p) = (x \div 2) + (IF x % 2 = 1 THEN WordSize ELSE 0)
<1>1. PICK g \in Nat \ {0} : g * p = WordSize /\ Wheel \div p = 2 * g /\ Wheel \div (2 * p) = g
  BY WheelParts
<1> DEFINE q == w \div p
           t == w % p
           k == q \div 2
           c == q % 2
<1>2. w \in Nat /\ w < g * p /\ p \in Nat \ {0}
  BY <1>1, HalfAssumption DEF WordSet, WordSize
<1>3. q \in Nat /\ t \in 0 .. p - 1 /\ w = q * p + t
  BY <1>2, Parts
<1> HIDE DEF q, t
<1>4. k \in Nat /\ c \in {0, 1} /\ q = 2 * k + c
  BY <1>3
<1> HIDE DEF k, c
<1>5. q < g
  <2>1. ASSUME q >= g PROVE FALSE
    <3>1. q * p >= g * p
      BY <1>3, <2>1
    <3> QED
      BY <1>2, <1>3, <3>1
  <2> QED
    BY <1>3, <2>1
<1>6. c * p = IF c = 1 THEN p ELSE 0
  BY <1>4
<1>7. w \div (2 * p) = k /\ (w % (2 * p)) = c * p + t
  <2>1. k = (w \div p) \div 2 /\ c = (w \div p) % 2 /\ t = w % p
    BY DEF k, c, q, t
  <2> QED
    BY <1>2, <1>6, <2>1, Doubled
<1> DEFINE up == t * g
<1>8. TurnedRight(w, p) = 2 * up + q /\ up \in Nat /\ up <= WordSize - g
  <2>1. TurnedRight(w, p) = t * (2 * g) + q
    BY <1>1 DEF TurnedRight, q, t
  <2>2. t * (2 * g) = 2 * up /\ up \in Nat
    BY <1>3
  <2>3. up <= (p - 1) * g /\ (p - 1) * g = g * p - g
    BY <1>3
  <2> QED
    BY <1>1, <1>3, <2>1, <2>2, <2>3
<1>9. TurnedRight(w, 2 * p) = c * WordSize + up + k
  <2>1. TurnedRight(w, 2 * p) = (c * p + t) * g + k
    BY <1>1, <1>7 DEF TurnedRight
  <2>2. (c * p + t) * g = c * (g * p) + up
    BY <1>3, <1>4
  <2> QED
    BY <1>1, <2>1, <2>2
<1>10. Wheel = 2 * WordSize /\ WordSize \in Nat
  BY HalfAssumption DEF Wheel, WordSize
<1> HIDE DEF up
<1>11. TurnedRight(w, p) \div 2 = up + k /\ TurnedRight(w, p) % 2 = c
  BY <1>4, <1>8
<1>12. c * WordSize = IF c = 1 THEN WordSize ELSE 0
  BY <1>4, <1>10
<1>13. TurnedRight(w, p) \in 0 .. Wheel - 1
  BY <1>3, <1>5, <1>8, <1>10, <1>1
<1>14. TurnedRight(w, 2 * p) = (up + k) + (IF c = 1 THEN WordSize ELSE 0)
  <2> DEFINE cw == c * WordSize
  <2>1. cw \in Nat /\ TurnedRight(w, 2 * p) = cw + up + k
    BY <1>4, <1>9, <1>10
  <2>2. cw = IF c = 1 THEN WordSize ELSE 0
    BY <1>12
  <2> HIDE DEF cw
  <2> QED
    BY <1>4, <1>8, <2>1, <2>2
<1> QED
  BY <1>11, <1>13, <1>14

-----------------------------------------------------------------------------
(***************************************************************************)
(* The macros, instruction by instruction.                                 *)
(***************************************************************************)
\* What is needed of the assumptions of Machine and FlagMacros.
LEMMA MachinesRun ==
  /\ Depth \in Nat /\ Half % 8 = 0
  /\ Logical \in [Logic -> [WordSet \X WordSet -> WordSet]]
  /\ \A s \in Starts : IsMachine(s)
<1>1. /\ Depth \in 1 .. WordSize - 1 /\ Half % 8 = 0
      /\ Logical \in [Logic -> [WordSet \X WordSet -> WordSet]]
  BY MachineAssumption
<1>2. Depth \in Nat
  BY <1>1, HalfAssumption DEF WordSize
<1> QED
  BY <1>1, <1>2, StartsAssumption

Push(u) == Imm("PUSH", u)
Compute(op, w) == Imm(op, w)
Drop == Imm("POPNULL", 0)

Used ==
  {Push(u) : u \in WordSet} \cup {Compute(op, w) : op \in {"ADD", "SUB", "XOR"}, w \in WordSet}
  \cup {Drop} \cup {Imm(op, 0) : op \in {"RLTC", "RRTC"}}

Triples == {"SETC", "CLO", "SETO", "CLZ", "SETZ", "SETN", "CLN"}

\* The value a macro gives its flag.
Gives(name, f) ==
  /\ name = "SETC" => Has(f, 4)
  /\ name = "CLO" => ~ Has(f, 8)
  /\ name = "SETO" => Has(f, 8)
  /\ name = "CLZ" => ~ Has(f, 1)
  /\ name = "SETZ" => Has(f, 1)
  /\ name = "SETN" => Has(f, 2)
  /\ name = "CLN" => ~ Has(f, 2)

\* What a macro but CLC is, and that the sum or difference which it computes has the flag.
Computes(name, u, op, w) ==
  /\ FlagMacro[name] = <<Push(u), Compute(op, w), Drop>>
  /\ \A f : FlagsFor(f, op, u, w) => Gives(name, f)

LEMMA TripleComputes ==
  ASSUME Half % 8 = 0, NEW name \in Triples
  PROVE  \E u, w \in WordSet : \E op \in {"ADD", "SUB"} : Computes(name, u, op, w)
<1> DEFINE half == (40000 * (2 * Half)) \div 65536
<1>1. Half \in Int /\ Half >= 8
  BY HalfAssumption
<1>2. half \in Int /\ half >= Half /\ half < 2 * Half /\ 2 * half < 3 * Half
  BY <1>1
<1>3. Scaled(40000) = half
  BY DEF Scaled, WordSize
<1> HIDE DEF half
<1>4. /\ 0 \in WordSet /\ 1 \in WordSet /\ 2 \in WordSet /\ 2 * Half - 1 \in WordSet /\ half \in WordSet
  BY <1>1, <1>2 DEF WordSet, WordSize
<1>5. FlagMacro =
        [CLC |-> CLC, SETC |-> SETC, CLO |-> CLO, SETO |-> SETO, CLZ |-> CLZ,
         SETZ |-> SETZ, SETN |-> SETN, CLN |-> CLN]
  BY DEF FlagMacro
<1>6. CASE name = "SETC"
  <2>1. Carry(2 * Half - 1, 1)
    BY <1>1 DEF Carry, WordSize
  <2>2. \A f : FlagsFor(f, "ADD", 2 * Half - 1, 1) => Gives(name, f)
    BY <1>6, <2>1 DEF FlagsFor, Gives
  <2>3. FlagMacro[name] = <<Push(2 * Half - 1), Compute("ADD", 1), Drop>>
    BY <1>5, <1>6 DEF SETC, MAXMEMSP, WordSize, Push, Compute, Drop
  <2> QED
    BY <1>4, <2>2, <2>3 DEF Computes
<1>7. CASE name = "CLO"
  <2>1. ~ OverflowOfPlus(0, 0)
    BY <1>1 DEF OverflowOfPlus, Plus, Negative, WordSize
  <2>2. \A f : FlagsFor(f, "ADD", 0, 0) => Gives(name, f)
    BY <1>7, <2>1 DEF FlagsFor, Gives
  <2>3. FlagMacro[name] = <<Push(0), Compute("ADD", 0), Drop>>
    BY <1>5, <1>7 DEF CLO, Push, Compute, Drop
  <2> QED
    BY <1>4, <2>2, <2>3 DEF Computes
<1>8. CASE name = "SETO"
  <2>1. OverflowOfPlus(half, half)
    BY <1>1, <1>2 DEF OverflowOfPlus, Plus, Negative, WordSize
  <2>2. \A f : FlagsFor(f, "ADD", half, half) => Gives(name, f)
    BY <1>8, <2>1 DEF FlagsFor, Gives
  <2>3. FlagMacro[name] = <<Push(half), Compute("ADD", half), Drop>>
    BY <1>3, <1>5, <1>8 DEF SETO, Push, Compute, Drop
  <2> QED
    BY <1>4, <2>2, <2>3 DEF Computes
<1>9. CASE name = "CLZ"
  <2>1. Minus(1, 2) # 0
    BY <1>1 DEF Minus, WordSize
  <2>2. \A f : FlagsFor(f, "SUB", 1, 2) => Gives(name, f)
    BY <1>9, <2>1 DEF FlagsFor, Gives, ResultOf
  <2>3. FlagMacro[name] = <<Push(1), Compute("SUB", 2), Drop>>
    BY <1>5, <1>9 DEF CLZ, Push, Compute, Drop
  <2> QED
    BY <1>4, <2>2, <2>3 DEF Computes
<1>10. CASE name = "SETZ"
  <2>1. Minus(1, 1) = 0
    BY DEF Minus
  <2>2. \A f : FlagsFor(f, "SUB", 1, 1) => Gives(name, f)
    BY <1>10, <2>1 DEF FlagsFor, Gives, ResultOf
  <2>3. FlagMacro[name] = <<Push(1), Compute("SUB", 1), Drop>>
    BY <1>5, <1>10 DEF SETZ, Push, Compute, Drop
  <2> QED
    BY <1>4, <2>2, <2>3 DEF Computes
<1>11. CASE name = "SETN"
  <2>1. Negative(Minus(0, 1))
    BY <1>1 DEF Minus, Negative, WordSize
  <2>2. \A f : FlagsFor(f, "SUB", 0, 1) => Gives(name, f)
    BY <1>11, <2>1 DEF FlagsFor, Gives, ResultOf
  <2>3. FlagMacro[name] = <<Push(0), Compute("SUB", 1), Drop>>
    BY <1>5, <1>11 DEF SETN, Push, Compute, Drop
  <2> QED
    BY <1>4, <2>2, <2>3 DEF Computes
<1>12. CASE name = "CLN"
  <2>1. ~ Negative(Minus(2, 1))
    BY <1>1 DEF Minus, Negative, WordSize
  <2>2. \A f : FlagsFor(f, "SUB", 2, 1) => Gives(name, f)
    BY <1>12, <2>1 DEF FlagsFor, Gives, ResultOf
  <2>3. FlagMacro[name] = <<Push(2), Compute("SUB", 1), Drop>>
    BY <1>5, <1>12 DEF CLN, Push, Compute, Drop
  <2> QED
    BY <1>4, <2>2, <2>3 DEF Computes
<1> QED
  BY <1>6, <1>7, <1>8, <1>9, <1>10, <1>11, <1>12 DEF Triples

LEMMA ClcIs ==
  /\ CLC = <<Push(1), Compute("XOR", 1), Compute("XOR", 1), Drop>>
  /\ Push(1) \in Used /\ Compute("XOR", 1) \in Used /\ Drop \in Used
  /\ CLC \in Seq(Used)
<1>1. 1 \in WordSet
  BY HalfAssumption DEF WordSet, WordSize
<1>2. Push(1) \in Used /\ Compute("XOR", 1) \in Used /\ Drop \in Used
  BY <1>1 DEF Used
<1>3. CLC = <<Push(1), Compute("XOR", 1), Compute("XOR", 1), Drop>>
  BY DEF CLC, Push, Compute, Drop
<1> QED
  BY <1>2, <1>3

\* The instructions that rotate, by one place each.
Turns(op, n) == [k \in 1 .. n |-> Imm(op, 0)]

LEMMA TurnsUsed ==
  ASSUME NEW n \in Nat, NEW op \in {"RLTC", "RRTC"}
  PROVE  Turns(op, n) \in Seq(Used)
<1> DEFINE i == Imm(op, 0)
<1>1. i \in Used
  BY DEF Used
<1>2. Turns(op, n) = [k \in 1 .. n |-> i]
  BY DEF Turns
<1> HIDE DEF i
<1>3. [k \in 1 .. n |-> i] \in [1 .. n -> Used]
  BY <1>1
<1> QED
  BY <1>2, <1>3, SeqDef

\* The rotations clear the carry and rotate.
LEMMA RotationUsed ==
  ASSUME NEW n \in Nat
  PROVE  ROL(n) \in Seq(Used) /\ ROR(n) \in Seq(Used)
<1>1. ROL(n) = CLC \o Turns("RLTC", n) /\ ROR(n) = CLC \o Turns("RRTC", n)
  BY DEF ROL, ROR, Turns
<1>2. \A s, t \in Seq(Used) : s \o t \in Seq(Used)
  OBVIOUS
<1> QED
  BY <1>1, <1>2, ClcIs, TurnsUsed

LEMMA CodeUsed ==
  ASSUME Half % 8 = 0, NEW name \in DOMAIN FlagMacro \cup DOMAIN Rotation
  PROVE  Code(name) \in Seq(Used)
<1>1. DOMAIN FlagMacro = Triples \cup {"CLC"} /\ FlagMacro["CLC"] = CLC
  BY DEF FlagMacro, Triples
<1>2. CASE name \in Triples
  <2>1. PICK u, w \in WordSet, op \in {"ADD", "SUB"} : Computes(name, u, op, w)
    BY <1>2, TripleComputes
  <2>2. Push(u) \in Used /\ Compute(op, w) \in Used /\ Drop \in Used
    BY DEF Used
  <2>3. Code(name) = <<Push(u), Compute(op, w), Drop>>
    BY <1>1, <1>2, <2>1 DEF Code, Computes
  <2> QED
    BY <2>2, <2>3
<1>3. CASE name = "CLC"
  BY <1>1, <1>3, ClcIs DEF Code
<1>4. CASE name \notin DOMAIN FlagMacro
  <2>1. \E n \in Nat : Rotation[name] = ROL(n) \/ Rotation[name] = ROR(n)
    <3>1. Rotation = [ROL1 |-> ROL(1), ROL2 |-> ROL(2), ROL5 |-> ROL(5),
                            ROR1 |-> ROR(1), ROR2 |-> ROR(2), ROR5 |-> ROR(5)]
      BY DEF Rotation
    <3>2. name \in {"ROL1", "ROL2", "ROL5", "ROR1", "ROR2", "ROR5"}
      BY <1>4, <3>1
    <3> QED
      BY <3>1, <3>2
  <2> QED
    BY <1>4, <2>1, RotationUsed DEF Code
<1> QED
  BY <1>1, <1>2, <1>3, <1>4

-----------------------------------------------------------------------------
\* The stack above which the macro works.
Kept == \A s \in 0 .. before.sp - 1 : m.hw[s] = before.hw[s]
Working == m.sp = before.sp + 1 /\ Kept
Finished == m.sp = before.sp /\ Kept

\* How far a macro is that adds or subtracts.
Computing(u, op, w) ==
  \/ todo = <<Push(u), Compute(op, w), Drop>> /\ m = before
  \/ todo = <<Compute(op, w), Drop>> /\ Working /\ m.hw[before.sp] = u
  \/ todo = <<Drop>> /\ Working /\ FlagsFor(m.flags, op, u, w)
  \/ todo = <<>> /\ Finished /\ FlagsFor(m.flags, op, u, w)

\* How far a macro is that clears the carry first.  XOR in C leaves the carry it was given.
CarryLeft == Backend # "python" /\ Has(before.flags, 4)
CarryOld  == Has(m.flags, 4) => Has(before.flags, 4)
NoCarry   == Has(m.flags, 4) => CarryLeft

Clearing(rest) ==
  \/ todo = CLC \o rest /\ m = before
  \/ todo = <<Compute("XOR", 1), Compute("XOR", 1), Drop>> \o rest /\ Working /\ CarryOld
  \/ todo = <<Compute("XOR", 1), Drop>> \o rest /\ Working /\ NoCarry
  \/ todo = <<Drop>> \o rest /\ Working /\ NoCarry
  \/ todo = rest /\ Finished /\ NoCarry

Turned(op, w, p) == IF op = "RLTC" THEN TurnedLeft(w, p) ELSE TurnedRight(w, p)

\* The number whose zeros are the places of k turns.
Power(k) ==
  CASE k = 0 -> 1 [] k = 1 -> 2 [] k = 2 -> 4 [] k = 3 -> 8 [] k = 4 -> 16 [] k = 5 -> 32

\* The carry and the word on top, as one number.
Bits(x) == (IF Has(x.flags, 4) THEN WordSize ELSE 0) + x.hw[x.sp - 1]

\* After k turns.
AfterTurns(op, k) ==
  /\ m.sp = before.sp /\ (k > 0 => m.sp >= 1)
  /\ ~ CarryLeft /\ m.sp >= 1 => Bits(m) = Turned(op, before.hw[before.sp - 1], Power(k))

\* How far a rotation is.
Rotating(op, n) ==
  \/ Clearing(Turns(op, n))
  \/ \E k \in 0 .. n : todo = Turns(op, n - k) /\ AfterTurns(op, k)

\* Which instruction a rotation repeats, and how often.
TurnOf ==
  [ROL1 |-> "RLTC", ROL2 |-> "RLTC", ROL5 |-> "RLTC",
   ROR1 |-> "RRTC", ROR2 |-> "RRTC", ROR5 |-> "RRTC"]
TurnsOf == [ROL1 |-> 1, ROL2 |-> 2, ROL5 |-> 5, ROR1 |-> 1, ROR2 |-> 2, ROR5 |-> 5]

MacroInv ==
  /\ Typed(m) /\ Typed(before) /\ todo \in Seq(Used)
  /\ macro \in Triples =>
       \E u, w \in WordSet : \E op \in {"ADD", "SUB"} : Computes(macro, u, op, w) /\ Computing(u, op, w)
  /\ macro = "CLC" => Clearing(<<>>)
  /\ macro \in DOMAIN Rotation => Rotating(TurnOf[macro], TurnsOf[macro])

LEMMA RotationIs ==
  ASSUME NEW name \in DOMAIN Rotation
  PROVE  /\ name \notin DOMAIN FlagMacro /\ name \notin Triples /\ name # "CLC"
         /\ TurnOf[name] \in {"RLTC", "RRTC"} /\ TurnsOf[name] \in {1, 2, 5}
         /\ Rotation[name] = CLC \o Turns(TurnOf[name], TurnsOf[name])
<1>1. Rotation =
        [ROL1 |-> ROL(1), ROL2 |-> ROL(2), ROL5 |-> ROL(5),
         ROR1 |-> ROR(1), ROR2 |-> ROR(2), ROR5 |-> ROR(5)]
  BY DEF Rotation
<1>2. name \in {"ROL1", "ROL2", "ROL5", "ROR1", "ROR2", "ROR5"}
  BY <1>1
<1>3. \A n : ROL(n) = CLC \o Turns("RLTC", n) /\ ROR(n) = CLC \o Turns("RRTC", n)
  BY DEF ROL, ROR, Turns
<1>4. /\ name \notin DOMAIN FlagMacro /\ name \notin Triples /\ name # "CLC"
      /\ TurnOf[name] \in {"RLTC", "RRTC"} /\ TurnsOf[name] \in {1, 2, 5}
  BY <1>2 DEF FlagMacro, Triples, TurnOf, TurnsOf
<1>5. Rotation[name] = CLC \o Turns(TurnOf[name], TurnsOf[name])
  <2>1. CASE name \in {"ROL1", "ROL2", "ROL5"}
    <3>1. Rotation[name] = ROL(TurnsOf[name]) /\ TurnOf[name] = "RLTC"
      BY <1>1, <2>1 DEF TurnOf, TurnsOf
    <3> QED
      BY <1>3, <3>1
  <2>2. CASE name \in {"ROR1", "ROR2", "ROR5"}
    <3>1. Rotation[name] = ROR(TurnsOf[name]) /\ TurnOf[name] = "RRTC"
      BY <1>1, <2>2 DEF TurnOf, TurnsOf
    <3> QED
      BY <1>3, <3>1
  <2> QED
    BY <1>2, <2>1, <2>2
<1> QED
  BY <1>4, <1>5

\* Every instruction of the macros makes a machine of a machine.
LEMMA UsedTyped ==
  ASSUME NEW x, Typed(x), NEW i \in Used, NEW y \in Step(x, i)
  PROVE  Typed(y)
<1>1. CASE \E u \in WordSet : i = Push(u)
  BY <1>1, PushStep, MachinesRun DEF Push, PushedOn
<1>2. CASE \E op \in {"ADD", "SUB"} : \E w \in WordSet : i = Compute(op, w)
  BY <1>2, AddStep, MachinesRun DEF Compute, TopOnly
<1>3. CASE \E w \in WordSet : i = Compute("XOR", w)
  <2>1. Logical["XOR"] \in [WordSet \X WordSet -> WordSet]
    BY MachinesRun DEF Logic
  <2> QED
    BY <1>3, <2>1, XorStep, MachinesRun DEF Compute, TopOnly
<1>4. CASE i = Drop
  BY <1>4, PopNullStep, MachinesRun DEF Drop, Dropped
<1>5. CASE \E op \in {"RLTC", "RRTC"} : i = Imm(op, 0)
  BY <1>5, RotateStep, MachinesRun DEF TopOnly
<1> QED
  BY <1>1, <1>2, <1>3, <1>4, <1>5 DEF Used

LEMMA MacroInvInit ==
  ASSUME MacroInit
  PROVE  MacroInv
<1>1. m \in Starts /\ macro = "none" /\ before = m /\ todo = <<>>
  BY DEF MacroInit
<1>2. Typed(m)
  <2>1. IsMachine(m) /\ WordSet = WordSet
    BY <1>1, MachinesRun DEF WordSet, WordSize
  <2>2. \A f \in WordSet : f \in Nat
    BY DEF WordSet
  <2> QED
    BY <2>1, <2>2 DEF IsMachine, Typed
<1>3. "none" \notin DOMAIN Rotation
  BY DEF Rotation
<1> QED
  BY <1>1, <1>2, <1>3 DEF MacroInv, Triples

\* A program begins with a macro.
LEMMA BeginKeeps ==
  ASSUME MacroInv,
         NEW name \in DOMAIN FlagMacro \cup DOMAIN Rotation, Begin(name)
  PROVE  MacroInv'
<1>1. m' = m /\ before' = m /\ macro' = name /\ todo' = Code(name)
  BY DEF Begin
<1>2. Typed(m') /\ Typed(before') /\ todo' \in Seq(Used)
  BY <1>1, CodeUsed, MachinesRun DEF MacroInv
<1>3. DOMAIN FlagMacro = Triples \cup {"CLC"} /\ FlagMacro["CLC"] = CLC
  BY DEF FlagMacro, Triples
<1>4. ASSUME name \in Triples
      PROVE  \E u, w \in WordSet : \E op \in {"ADD", "SUB"} : Computes(name, u, op, w) /\ Computing(u, op, w)'
  <2>1. PICK u, w \in WordSet, op \in {"ADD", "SUB"} : Computes(name, u, op, w)
    BY <1>4, TripleComputes, MachinesRun
  <2>2. todo' = <<Push(u), Compute(op, w), Drop>>
    BY <1>1, <1>3, <1>4, <2>1 DEF Code, Computes
  <2> QED
    BY <1>1, <2>1, <2>2 DEF Computing
<1>5. name = "CLC" => Clearing(<<>>)'
  <2>1. CLC \o <<>> = CLC
    BY ClcIs
  <2> QED
    BY <1>1, <1>3, <2>1 DEF Code, Clearing
<1>6. ASSUME name \in DOMAIN Rotation PROVE Rotating(TurnOf[name], TurnsOf[name])'
  <2>1. todo' = CLC \o Turns(TurnOf[name], TurnsOf[name])
    BY <1>1, <1>6, RotationIs DEF Code
  <2> QED
    BY <1>1, <2>1 DEF Rotating, Clearing
<1> QED
  BY <1>1, <1>2, <1>4, <1>5, <1>6 DEF MacroInv, Computes

\* The instruction which is next, and the sequence without it.
LEMMA HeadTail ==
  ASSUME NEW p, NEW q, NEW r, NEW s
  PROVE  /\ <<p>> # <<>> /\ Head(<<p>>) = p /\ Tail(<<p>>) = <<>>
         /\ <<p, q>> # <<>> /\ Head(<<p, q>>) = p /\ Tail(<<p, q>>) = <<q>>
         /\ <<p, q, r>> # <<>> /\ Head(<<p, q, r>>) = p /\ Tail(<<p, q, r>>) = <<q, r>>
         /\ <<p, q, r, s>> # <<>> /\ Head(<<p, q, r, s>>) = p /\ Tail(<<p, q, r, s>>) = <<q, r, s>>
OBVIOUS

\* The steps of a macro, by what they do to the stack above which it works.
LEMMA PushKept ==
  ASSUME MacroInv, m = before, before' = before, NEW u \in WordSet, PushedOn(m, m', u)
  PROVE  Working' /\ m'.hw[before.sp] = u
BY DEF MacroInv, PushedOn, Working, Kept, Typed

LEMMA TopKept ==
  ASSUME MacroInv, Working, before' = before, TopOnly(m, m')
  PROVE  Working'
<1>1. m'.sp = before'.sp + 1
  BY DEF Working, TopOnly
<1>2. before.sp \in Nat /\ m.sp - 2 = before.sp - 1
  BY DEF MacroInv, Typed, Working
<1> QED
  BY <1>1, <1>2 DEF Working, Kept, TopOnly

LEMMA DropKept ==
  ASSUME MacroInv, Working, before' = before, Dropped(m, m')
  PROVE  Finished' /\ m'.flags = m.flags
<1>1. before.sp \in Nat
  BY DEF MacroInv, Typed
<1> QED
  BY <1>1 DEF Working, Finished, Kept, Dropped

\* One instruction of a macro that adds or subtracts.
LEMMA ComputingKeeps ==
  ASSUME MacroInv, Execute,
         NEW u \in WordSet, NEW w \in WordSet, NEW op \in {"ADD", "SUB"}, Computing(u, op, w)
  PROVE  Computing(u, op, w)'
<1>1. todo # <<>> /\ m' \in Step(m, Head(todo)) /\ todo' = Tail(todo) /\ before' = before
  BY DEF Execute
<1>2. Depth \in Nat /\ Typed(m)
  BY MachinesRun DEF MacroInv
<1>3. CASE todo = <<Push(u), Compute(op, w), Drop>> /\ m = before
  <2>1. m' \in Step(m, Push(u)) /\ todo' = <<Compute(op, w), Drop>>
    BY <1>1, <1>3, HeadTail
  <2>2. PushedOn(m, m', u)
    BY <1>2, <2>1, PushStep DEF Push
  <2> QED
    BY <1>1, <1>3, <2>1, <2>2, PushKept DEF Computing
<1>4. CASE todo = <<Compute(op, w), Drop>> /\ Working /\ m.hw[before.sp] = u
  <2>1. m' \in Step(m, Compute(op, w)) /\ todo' = <<Drop>>
    BY <1>1, <1>4, HeadTail
  <2>2. TopOnly(m, m') /\ FlagsFor(m'.flags, op, m.hw[m.sp - 1], w)
    BY <1>2, <2>1, AddStep DEF Compute
  <2>3. m.sp - 1 = before.sp
    BY <1>4 DEF Working, MacroInv, Typed
  <2> QED
    BY <1>1, <1>4, <2>1, <2>2, <2>3, TopKept DEF Computing
<1>5. CASE todo = <<Drop>> /\ Working /\ FlagsFor(m.flags, op, u, w)
  <2>1. m' \in Step(m, Drop) /\ todo' = <<>>
    BY <1>1, <1>5, HeadTail
  <2>2. Dropped(m, m')
    BY <1>2, <2>1, PopNullStep DEF Drop
  <2> QED
    BY <1>1, <1>5, <2>1, <2>2, DropKept DEF Computing
<1> QED
  BY <1>1, <1>3, <1>4, <1>5 DEF Computing

LEMMA FirstOfTwo ==
  ASSUME NEW s \in Seq(Used), NEW t \in Seq(Used), s # <<>>
  PROVE  Head(s \o t) = Head(s) /\ Tail(s \o t) = Tail(s) \o t
<1>1. /\ s \o t \in Seq(Used) /\ Len(s \o t) = Len(s) + Len(t) /\ Len(s) \in Nat \ {0} /\ Len(t) \in Nat
      /\ \A k \in 1 .. Len(s) + Len(t) : (s \o t)[k] = IF k <= Len(s) THEN s[k] ELSE t[k - Len(s)]
  BY ConcatProperties, EmptySeq
<1>2. s \o t # <<>>
  BY <1>1, EmptySeq
<1>3. /\ Tail(s) \in Seq(Used) /\ Len(Tail(s)) = Len(s) - 1
      /\ \A k \in 1 .. Len(Tail(s)) : Tail(s)[k] = s[k + 1]
  BY HeadTailProperties
<1> DEFINE b0 == Tail(s \o t)
           c0 == Tail(s) \o t
<1>4. /\ b0 \in Seq(Used) /\ Len(b0) = Len(s) + Len(t) - 1
      /\ \A k \in 1 .. Len(b0) : b0[k] = (s \o t)[k + 1]
  BY <1>1, <1>2, HeadTailProperties
<1>5. /\ c0 \in Seq(Used) /\ Len(c0) = Len(s) - 1 + Len(t)
      /\ \A k \in 1 .. Len(c0) : c0[k] = IF k <= Len(s) - 1 THEN Tail(s)[k] ELSE t[k - (Len(s) - 1)]
  BY <1>3, ConcatProperties
<1> HIDE DEF b0, c0
<1>6. Len(b0) = Len(c0)
  BY <1>1, <1>4, <1>5
<1>7. \A k \in 1 .. Len(b0) : b0[k] = c0[k]
  BY <1>1, <1>3, <1>4, <1>5
<1>8. b0 = c0
  BY <1>4, <1>5, <1>6, <1>7, SeqEqual
<1>9. Head(s \o t) = Head(s)
  BY <1>1
<1> QED
  BY <1>8, <1>9 DEF b0, c0

\* The sequences of a macro that clears the carry, and then goes on.
LEMMA ClearingTail ==
  ASSUME NEW rest \in Seq(Used)
  PROVE  LET xor == Compute("XOR", 1)
             s == CLC \o rest
             t == <<xor, xor, Drop>> \o rest
             u == <<xor, Drop>> \o rest
             v == <<Drop>> \o rest
         IN  /\ Head(s) = Push(1) /\ Tail(s) = t
             /\ Head(t) = xor /\ Tail(t) = u
             /\ Head(u) = xor /\ Tail(u) = v
             /\ Head(v) = Drop /\ Tail(v) = rest
<1> DEFINE xor == Compute("XOR", 1)
           s == CLC
           t == <<xor, xor, Drop>>
           u == <<xor, Drop>>
           v == <<Drop>>
<1>1. \A a0 \in Seq(Used) : a0 # <<>> =>
        Head(a0 \o rest) = Head(a0) /\ Tail(a0 \o rest) = Tail(a0) \o rest
  BY FirstOfTwo
<1>2. /\ s # <<>> /\ Head(s) = Push(1) /\ Tail(s) = t
      /\ t # <<>> /\ Head(t) = xor /\ Tail(t) = u
      /\ u # <<>> /\ Head(u) = xor /\ Tail(u) = v
      /\ v # <<>> /\ Head(v) = Drop /\ Tail(v) = <<>>
  BY ClcIs, HeadTail
<1>3. s \in Seq(Used) /\ t \in Seq(Used) /\ u \in Seq(Used) /\ v \in Seq(Used)
  BY ClcIs
<1>4. <<>> \o rest = rest
  BY ConcatEmptySeq
<1> HIDE DEF s, t, u, v, xor
<1>5. /\ Head(s \o rest) = Push(1) /\ Tail(s \o rest) = t \o rest
      /\ Head(t \o rest) = xor /\ Tail(t \o rest) = u \o rest
      /\ Head(u \o rest) = xor /\ Tail(u \o rest) = v \o rest
      /\ Head(v \o rest) = Drop /\ Tail(v \o rest) = rest
  BY <1>1, <1>2, <1>3, <1>4
<1> QED
  BY <1>5 DEF s, t, u, v, xor

\* One instruction of such a macro.
LEMMA ClearingKeeps ==
  ASSUME MacroInv, Execute, NEW rest \in Seq(Used), Clearing(rest),
         ~ (todo = rest /\ Finished /\ NoCarry)
  PROVE  Clearing(rest)'
<1>1. todo # <<>> /\ m' \in Step(m, Head(todo)) /\ todo' = Tail(todo) /\ before' = before
  BY DEF Execute
<1>2. Depth \in Nat /\ Typed(m) /\ 1 \in WordSet /\ Logical["XOR"] \in [WordSet \X WordSet -> WordSet]
  BY HalfAssumption, MachinesRun DEF MacroInv, Logic, WordSet, WordSize
<1> DEFINE xor == Compute("XOR", 1)
<1>3. ASSUME m' \in Step(m, xor), Working, CarryOld
      PROVE  Working' /\ NoCarry'
  <2>1. TopOnly(m, m') /\ (Has(m'.flags, 4) => Backend # "python" /\ Has(m.flags, 4))
    BY <1>2, <1>3, XorStep DEF Compute
  <2> QED
    BY <1>1, <1>3, <2>1, TopKept DEF NoCarry, CarryLeft, CarryOld
<1>4. CASE todo = CLC \o rest /\ m = before
  <2>1. m' \in Step(m, Push(1)) /\ todo' = <<xor, xor, Drop>> \o rest
    BY <1>1, <1>4, ClearingTail
  <2>2. PushedOn(m, m', 1)
    BY <1>2, <2>1, PushStep DEF Push
  <2>3. Working' /\ CarryOld'
    BY <1>1, <1>2, <1>4, <2>2, PushKept DEF PushedOn, CarryOld
  <2> QED
    BY <2>1, <2>3 DEF Clearing
<1>5. CASE todo = <<xor, xor, Drop>> \o rest /\ Working /\ CarryOld
  <2>1. m' \in Step(m, xor) /\ todo' = <<xor, Drop>> \o rest
    BY <1>1, <1>5, ClearingTail
  <2> QED
    BY <1>3, <1>5, <2>1 DEF Clearing
<1>6. CASE todo = <<xor, Drop>> \o rest /\ Working /\ NoCarry
  <2>1. m' \in Step(m, xor) /\ todo' = <<Drop>> \o rest
    BY <1>1, <1>6, ClearingTail
  <2>2. CarryOld
    BY <1>6 DEF NoCarry, CarryOld, CarryLeft
  <2> QED
    BY <1>3, <1>6, <2>1, <2>2 DEF Clearing
<1>7. CASE todo = <<Drop>> \o rest /\ Working /\ NoCarry
  <2>1. m' \in Step(m, Drop) /\ todo' = rest
    BY <1>1, <1>7, ClearingTail
  <2>2. Dropped(m, m')
    BY <1>2, <2>1, PopNullStep DEF Drop
  <2> QED
    BY <1>1, <1>7, <2>1, <2>2, DropKept DEF Clearing, NoCarry, CarryLeft
<1> QED
  BY <1>4, <1>5, <1>6, <1>7 DEF Clearing

\* The instructions that rotate, one after the other.
LEMMA TurnsTail ==
  ASSUME NEW op, NEW n \in Nat \ {0}
  PROVE  Turns(op, n) # <<>> /\ Head(Turns(op, n)) = Imm(op, 0) /\ Tail(Turns(op, n)) = Turns(op, n - 1)
<1> DEFINE S == {Imm(op, 0)}
           s == Turns(op, n)
           t == Turns(op, n - 1)
<1>1. /\ s \in Seq(S) /\ Len(s) = n /\ \A k \in 1 .. n : s[k] = Imm(op, 0)
      /\ t \in Seq(S) /\ Len(t) = n - 1 /\ \A k \in 1 .. n - 1 : t[k] = Imm(op, 0)
  BY DEF Turns
<1> HIDE DEF s, t, S
<1>2. s # <<>>
  BY <1>1, EmptySeq
<1>3. /\ Tail(s) \in Seq(S) /\ Len(Tail(s)) = n - 1
      /\ \A k \in 1 .. Len(Tail(s)) : Tail(s)[k] = s[k + 1]
  BY <1>1, <1>2, HeadTailProperties
<1>4. \A k \in 1 .. Len(Tail(s)) : Tail(s)[k] = t[k]
  BY <1>1, <1>3
<1>5. Tail(s) = t
  BY <1>1, <1>3, <1>4, SeqEqual
<1>6. Head(s) = Imm(op, 0)
  BY <1>1
<1> QED
  BY <1>2, <1>5, <1>6 DEF s, t

LEMMA NoTurns == \A op : Turns(op, 0) = <<>>
BY DEF Turns

\* The carry and the word on top are a number of one bit more than a word.
LEMMA BitsAre ==
  ASSUME NEW w \in WordSet, NEW x, x.hw[x.sp - 1] = w, ~ Has(x.flags, 4), NEW op \in {"RLTC", "RRTC"}
  PROVE  Bits(x) = Turned(op, w, 1)
<1>1. w \in Nat /\ w < WordSize /\ WordSize \in Nat /\ Wheel = 2 * WordSize /\ WordSize > 0
  BY HalfAssumption DEF WordSet, WordSize, Wheel
<1>2. Bits(x) = w
  BY <1>1 DEF Bits
<1>3. Wheel \div 1 = Wheel /\ w \div Wheel = 0 /\ (w % Wheel) = w
  BY <1>1
<1>4. TurnedLeft(w, 1) = w
  BY <1>1, <1>3 DEF TurnedLeft
<1>5. (w % 1) = 0 /\ w \div 1 = w /\ 0 * Wheel = 0
  BY <1>1
<1>6. TurnedRight(w, 1) = w
  BY <1>1, <1>3, <1>5 DEF TurnedRight
<1> QED
  BY <1>2, <1>4, <1>6 DEF Turned

\* One instruction turns that number by one place.
LEMMA TurnOnce ==
  ASSUME Depth \in Nat, NEW x, NEW y, Typed(x), x.sp >= 1, y.sp = x.sp, NEW op \in {"RLTC", "RRTC"}, Rotates(op, x, y)
  PROVE  Bits(y) =
           IF op = "RLTC" THEN IF Bits(x) >= WordSize THEN 2 * Bits(x) - Wheel + 1 ELSE 2 * Bits(x)
           ELSE (Bits(x) \div 2) + (IF Bits(x) % 2 = 1 THEN WordSize ELSE 0)
<1> DEFINE u == x.hw[x.sp - 1]
           v == y.hw[y.sp - 1]
           b1 == Bits(x)
<1>1. u \in Nat /\ u < 2 * Half /\ Half \in Nat /\ WordSize = 2 * Half /\ Wheel = 4 * Half
  <2>1. x.sp - 1 \in 0 .. Depth - 1 /\ x.hw \in [0 .. Depth - 1 -> WordSet]
    BY DEF Typed
  <2>2. u \in WordSet
    BY <2>1
  <2> HIDE DEF u
  <2> QED
    BY <2>2, HalfAssumption DEF WordSet, WordSize, Wheel
<1>2. b1 = (IF Has(x.flags, 4) THEN 2 * Half ELSE 0) + u
  BY <1>1 DEF Bits
<1>3. Bits(y) = (IF Has(y.flags, 4) THEN 2 * Half ELSE 0) + v
  BY <1>1 DEF Bits
<1>4. CASE op = "RLTC"
  <2>1. /\ v = ((2 * u) % (2 * Half)) + (IF Has(x.flags, 4) THEN 1 ELSE 0)
        /\ (Has(y.flags, 4) <=> u >= Half)
    BY <1>1, <1>4 DEF Rotates
  <2>2. (2 * u) % (2 * Half) = IF u < Half THEN 2 * u ELSE 2 * u - 2 * Half
    BY <1>1
  <2> HIDE DEF u, v, b1
  <2>3. Bits(y) = 2 * u + (IF Has(x.flags, 4) THEN 1 ELSE 0)
    <3>1. v = (IF u < Half THEN 2 * u ELSE 2 * u - 2 * Half) + (IF Has(x.flags, 4) THEN 1 ELSE 0)
      BY <2>1, <2>2
    <3> QED
      BY <1>1, <1>3, <2>1, <3>1
  <2>4. Bits(y) = IF b1 >= WordSize THEN 2 * b1 - Wheel + 1 ELSE 2 * b1
    BY <1>1, <1>2, <2>3
  <2> QED
    BY <1>4, <2>4 DEF b1
<1>5. CASE op = "RRTC"
  <2>1. /\ v = (u \div 2) + Half * (IF Has(x.flags, 4) THEN 1 ELSE 0)
        /\ (Has(y.flags, 4) <=> u % 2 = 1)
    BY <1>1, <1>5 DEF Rotates
  <2> HIDE DEF u, v, b1
  <2>2. v = (u \div 2) + (IF Has(x.flags, 4) THEN Half ELSE 0)
    BY <1>1, <2>1
  <2>3. b1 \div 2 = (u \div 2) + (IF Has(x.flags, 4) THEN Half ELSE 0) /\ b1 % 2 = u % 2
    BY <1>1, <1>2
  <2>4. Bits(y) = (b1 \div 2) + (IF b1 % 2 = 1 THEN WordSize ELSE 0)
    BY <1>1, <1>3, <2>1, <2>2, <2>3
  <2> QED
    BY <1>5, <2>4 DEF b1
<1> QED
  BY <1>4, <1>5

\* So one more instruction is one more place.
LEMMA TurnAgain ==
  ASSUME Half % 8 = 0, Depth \in Nat, NEW w \in WordSet, NEW k \in 0 .. 4, NEW op \in {"RLTC", "RRTC"},
         NEW x, NEW y, Typed(x), x.sp >= 1, y.sp = x.sp, Rotates(op, x, y),
         Bits(x) = Turned(op, w, Power(k))
  PROVE  Bits(y) = Turned(op, w, Power(k + 1))
<1>1. Power(k) \in {1, 2, 4, 8, 16} /\ Power(k + 1) = 2 * Power(k)
  <2>1. k \in {0, 1, 2, 3, 4}
    OBVIOUS
  <2> QED
    BY <2>1 DEF Power
<1>2. CASE op = "RLTC"
  BY <1>1, <1>2, LeftAgain, TurnOnce DEF Turned
<1>3. CASE op = "RRTC"
  BY <1>1, <1>3, RightAgain, TurnOnce DEF Turned
<1> QED
  BY <1>2, <1>3

\* One instruction of a rotation.
LEMMA RotatingKeeps ==
  ASSUME MacroInv, Execute, NEW op \in {"RLTC", "RRTC"}, NEW n \in {1, 2, 5}, Rotating(op, n)
  PROVE  Rotating(op, n)'
<1>1. todo # <<>> /\ m' \in Step(m, Head(todo)) /\ todo' = Tail(todo) /\ before' = before
  BY DEF Execute
<1>2. Depth \in Nat /\ Typed(m) /\ Typed(before) /\ Half % 8 = 0
  BY MachinesRun DEF MacroInv
<1> DEFINE rest == Turns(op, n)
           ready == todo = rest /\ Finished /\ NoCarry
<1>3. CASE Clearing(rest) /\ ~ ready
  <2>1. rest \in Seq(Used)
    BY TurnsUsed
  <2>2. Clearing(rest)'
    BY <1>3, <2>1, ClearingKeeps
  <2> QED
    BY <2>2 DEF Rotating
<1>4. ASSUME NEW k \in 0 .. n, todo = Turns(op, n - k), AfterTurns(op, k)
      PROVE  Rotating(op, n)'
  <2>1. k < n
    BY <1>1, <1>4, NoTurns
  <2>2. /\ m' \in Step(m, Imm(op, 0)) /\ todo' = Turns(op, n - k - 1)
    BY <1>1, <1>4, <2>1, TurnsTail
  <2>3. TopOnly(m, m') /\ Rotates(op, m, m')
    BY <1>2, <2>2, RotateStep
  <2>4. m.sp >= 1 /\ m'.sp = m.sp /\ m.sp = before.sp
    BY <1>4, <2>3 DEF TopOnly, AfterTurns
  <2>5. ASSUME ~ CarryLeft
        PROVE  Bits(m') = Turned(op, before.hw[before.sp - 1], Power(k + 1))
    <3>1. before.hw[before.sp - 1] \in WordSet
      BY <1>2, <2>4 DEF Typed
    <3>2. Bits(m) = Turned(op, before.hw[before.sp - 1], Power(k))
      BY <1>4, <2>4, <2>5 DEF AfterTurns
    <3> QED
      BY <1>2, <2>1, <2>3, <2>4, <3>1, <3>2, TurnAgain
  <2>6. AfterTurns(op, k + 1)'
    BY <1>1, <2>4, <2>5 DEF AfterTurns, CarryLeft
  <2> QED
    BY <2>1, <2>2, <2>6 DEF Rotating
<1>5. ASSUME ready PROVE AfterTurns(op, 0)
  <2>1. ASSUME ~ CarryLeft, m.sp >= 1
        PROVE  Bits(m) = Turned(op, before.hw[before.sp - 1], 1)
    <3>1. m.sp = before.sp /\ m.hw[m.sp - 1] = before.hw[before.sp - 1] /\ ~ Has(m.flags, 4)
      <4>1. before.sp \in Nat /\ m.sp = before.sp /\ before.sp - 1 \in 0 .. before.sp - 1
        BY <1>2, <1>5, <2>1 DEF Finished, Typed
      <4>2. m.hw[before.sp - 1] = before.hw[before.sp - 1]
        BY <1>5, <4>1 DEF Finished, Kept
      <4> QED
        BY <1>5, <2>1, <4>1, <4>2 DEF NoCarry
    <3>2. before.hw[before.sp - 1] \in WordSet
      BY <1>2, <2>1, <3>1 DEF Typed
    <3> QED
      BY <3>1, <3>2, BitsAre
  <2> QED
    BY <1>5, <2>1 DEF AfterTurns, Power, Finished
<1> QED
  BY <1>3, <1>4, <1>5 DEF Rotating

LEMMA ExecuteKeeps ==
  ASSUME MacroInv, Execute
  PROVE  MacroInv'
<1>1. /\ todo # <<>> /\ m' \in Step(m, Head(todo)) /\ todo' = Tail(todo)
      /\ before' = before /\ macro' = macro
  BY DEF Execute
<1>2. Head(todo) \in Used /\ todo' \in Seq(Used)
  BY <1>1 DEF MacroInv
<1>3. Typed(m') /\ Typed(before')
  BY <1>1, <1>2, UsedTyped DEF MacroInv
<1>4. macro \in Triples =>
        \E u, w \in WordSet : \E op \in {"ADD", "SUB"} : Computes(macro, u, op, w) /\ Computing(u, op, w)'
  BY ComputingKeeps DEF MacroInv
<1>5. macro = "CLC" => Clearing(<<>>)'
  <2> SUFFICES ASSUME macro = "CLC" PROVE Clearing(<<>>)'
    OBVIOUS
  <2>1. <<>> \in Seq(Used) /\ Clearing(<<>>)
    BY DEF MacroInv
  <2> QED
    BY <1>1, <2>1, ClearingKeeps
<1>6. macro \in DOMAIN Rotation => Rotating(TurnOf[macro], TurnsOf[macro])'
  BY <1>1, RotatingKeeps, RotationIs DEF MacroInv
<1> QED
  BY <1>1, <1>2, <1>3, <1>4, <1>5, <1>6 DEF MacroInv, Computes

LEMMA MacroInvStep ==
  ASSUME MacroInv, [MacroNext]_macrovars
  PROVE  MacroInv'
<1>1. CASE \E name \in DOMAIN FlagMacro \cup DOMAIN Rotation : Begin(name)
  BY <1>1, BeginKeeps
<1>2. CASE Execute
  BY <1>2, ExecuteKeeps
<1>3. CASE UNCHANGED macrovars
  <2>1. Working' = Working /\ Finished' = Finished /\ CarryOld' = CarryOld /\ NoCarry' = NoCarry
    BY <1>3 DEF macrovars, Working, Finished, Kept, CarryOld, NoCarry, CarryLeft
  <2>2. \A rest : Clearing(rest)' = Clearing(rest)
    BY <1>3, <2>1 DEF macrovars, Clearing
  <2>3. \A op, k : AfterTurns(op, k)' = AfterTurns(op, k)
    BY <1>3 DEF macrovars, AfterTurns, CarryLeft
  <2>4. \A op, n : Rotating(op, n)' = Rotating(op, n)
    BY <1>3, <2>2, <2>3 DEF macrovars, Rotating
  <2> QED
    BY <1>3, <2>1, <2>2, <2>4 DEF macrovars, MacroInv, Computing
<1> QED
  BY <1>1, <1>2, <1>3 DEF MacroNext

\* The exception: C's XOR leaves the carry as it was, and CLC is made of it.
LEMMA FlagsHere ==
  ASSUME MacroInv, ~ (macro = "CLC" /\ CarryLeft)
  PROVE  FlagsAsNamed
<1> SUFFICES ASSUME todo = <<>>, macro \in DOMAIN FlagMacro
             PROVE  /\ Live(m) = Live(before)
                    /\ Gives(macro, m.flags) /\ (macro = "CLC" => ~ Has(m.flags, 4))
  BY DEF FlagsAsNamed, Flags, Gives, FlagMacro
<1>1. macro \in Triples \/ macro = "CLC"
  BY DEF FlagMacro, Triples
<1>2. \A p, q, r : <<p>> # <<>> /\ <<p, q>> # <<>> /\ <<p, q, r>> # <<>> /\ <<p, q, r, r>> # <<>>
  OBVIOUS
<1>3. Finished /\ (macro \in Triples => Gives(macro, m.flags)) /\ (macro = "CLC" => NoCarry)
  <2>1. CASE macro \in Triples
    <3>1. PICK u, w \in WordSet, op \in {"ADD", "SUB"} : Computes(macro, u, op, w) /\ Computing(u, op, w)
      BY <2>1 DEF MacroInv
    <3>2. Finished /\ FlagsFor(m.flags, op, u, w)
      BY <1>2, <3>1 DEF Computing
    <3> QED
      BY <2>1, <3>1, <3>2 DEF Computes, Triples
  <2>2. CASE macro = "CLC"
    <3> DEFINE xor == Compute("XOR", 1)
    <3>1. CLC \o <<>> # <<>>
      BY ClcIs
    <3>2. /\ <<xor, xor, Drop>> \o <<>> # <<>> /\ <<xor, Drop>> \o <<>> # <<>>
          /\ <<Drop>> \o <<>> # <<>>
      OBVIOUS
    <3> QED
      BY <1>2, <2>2, <3>1, <3>2 DEF MacroInv, Clearing, Triples
  <2> QED
    BY <1>1, <2>1, <2>2
<1>4. Live(m) = Live(before)
  BY <1>3 DEF Finished, Kept, Live
<1> QED
  BY <1>1, <1>3, <1>4 DEF Gives, NoCarry

\* FlagsAsNamed: at every width, a macro that sets or clears a flag has given it that value
\* when it is done, on either emulator, from any flags and any stack, and has left the stack
\* as it was.  The exception is CLC in C, where XOR leaves the carry, on a machine that has
\* one.
THEOREM FlagMacrosRight ==
  MacroSpec => [](FlagsAsNamed \/ (macro = "CLC" /\ CarryLeft))
<1>1. MacroInit => MacroInv
  BY MacroInvInit
<1>2. MacroInv /\ [MacroNext]_macrovars => MacroInv'
  BY MacroInvStep
<1>3. MacroInv => FlagsAsNamed \/ (macro = "CLC" /\ CarryLeft)
  BY FlagsHere
<1> QED
  BY <1>1, <1>2, <1>3, PTL DEF MacroSpec

-----------------------------------------------------------------------------
LEMMA RotationsHere ==
  ASSUME MacroInv, ~ CarryLeft
  PROVE  RotationsPure
<1> DEFINE w == before.hw[before.sp - 1]
           p == CASE macro \in {"ROL1", "ROR1"} -> 2
                  [] macro \in {"ROL2", "ROR2"} -> 4
                  [] macro \in {"ROL5", "ROR5"} -> 32
           turned == IF macro \in {"ROL1", "ROL2", "ROL5"} THEN TurnedLeft(w, p)
                                                         ELSE TurnedRight(w, p)
<1> SUFFICES ASSUME todo = <<>>, macro \in DOMAIN Rotation
             PROVE  /\ m.sp = before.sp /\ m.hw[m.sp - 1] = turned % WordSize
                    /\ Has(m.flags, 4) = (turned >= WordSize)
  BY DEF RotationsPure, Flags
<1> DEFINE op == TurnOf[macro]
           n == TurnsOf[macro]
<1>1. op \in {"RLTC", "RRTC"} /\ n \in {1, 2, 5}
  BY RotationIs
<1>2. turned = Turned(op, w, Power(n))
  <2>1. macro \in {"ROL1", "ROL2", "ROL5", "ROR1", "ROR2", "ROR5"}
    BY DEF Rotation
  <2>2. Power(1) = 2 /\ Power(2) = 4 /\ Power(5) = 32
    BY DEF Power
  <2> QED
    BY <2>1, <2>2 DEF Turned, TurnOf, TurnsOf
<1> HIDE DEF turned, w, p, op, n
<1>3. \A k \in 0 .. n : todo = Turns(op, n - k) => k = n
  BY <1>1, TurnsTail
<1>4. ~ Clearing(Turns(op, n))
  <2> DEFINE xor == Compute("XOR", 1)
             rest == Turns(op, n)
  <2>1. rest \in Seq(Used) /\ rest # <<>>
    <3>1. n \in Nat \ {0}
      BY <1>1
    <3>2. rest \in Seq(Used)
      BY <1>1, <3>1, TurnsUsed
    <3>3. rest # <<>>
      BY <3>1, TurnsTail
    <3> QED
      BY <3>2, <3>3
  <2>2. \A s \in Seq(Used) : s \o rest # <<>>
    BY <2>1, ConcatEqualIffEmpty
  <2>3. CLC \in Seq(Used) /\ <<xor, xor, Drop>> \in Seq(Used) /\ <<xor, Drop>> \in Seq(Used) /\ <<Drop>> \in Seq(Used)
    BY ClcIs
  <2> QED
    BY <2>1, <2>2, <2>3 DEF Clearing
<1>5. AfterTurns(op, n)
  BY <1>3, <1>4 DEF MacroInv, Rotating, op, n
<1>6. m.sp = before.sp /\ m.sp >= 1 /\ Bits(m) = turned
  BY <1>1, <1>2, <1>5 DEF AfterTurns, w
<1> DEFINE top == m.hw[m.sp - 1]
<1>7. top \in Nat /\ top < WordSize /\ WordSize \in Nat
  <2>1. m.sp - 1 \in 0 .. Depth - 1 /\ m.hw \in [0 .. Depth - 1 -> WordSet]
    BY <1>6, MachinesRun DEF MacroInv, Typed
  <2>2. top \in WordSet
    BY <2>1
  <2> HIDE DEF top
  <2> QED
    BY <2>2, HalfAssumption DEF WordSet, WordSize
<1>8. turned = (IF Has(m.flags, 4) THEN WordSize ELSE 0) + top
  BY <1>6 DEF Bits
<1>9. Has(m.flags, 4) \in BOOLEAN
  BY DEF Has
<1> HIDE DEF top
<1>10. top = turned % WordSize /\ Has(m.flags, 4) = (turned >= WordSize)
  BY <1>7, <1>8, <1>9
<1> QED
  BY <1>6, <1>10 DEF top

\* RotationsPure: at every width, on either emulator, from any flags and any stack, a rotation
\* by 1, 2 or 5 places turns the word on top by that many places with the carry as a bit
\* above it that starts clear, and leaves in the carry the last bit that left the word.  The
\* exception is C, on a machine that has a carry: the macro cannot clear it.
THEOREM RotationsRight ==
  MacroSpec => [](RotationsPure \/ CarryLeft)
<1>1. MacroInit => MacroInv
  BY MacroInvInit
<1>2. MacroInv /\ [MacroNext]_macrovars => MacroInv'
  BY MacroInvStep
<1>3. MacroInv => RotationsPure \/ CarryLeft
  BY RotationsHere
<1> QED
  BY <1>1, <1>2, <1>3, PTL DEF MacroSpec

=============================================================================
