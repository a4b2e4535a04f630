--------------------------- MODULE LockstepProofs ---------------------------
(***************************************************************************)
(* The cross check of the emulators, proved for words and bytes of any     *)
(* size, any stack, any number of banks, any commands of CAST and POLL and *)
(* any machine to start with.                                              *)
(*                                                                         *)
(* The two emulators keep memory in different ways: C computes an address  *)
(* in all of it, while Python works on the active bank and merges it back. *)
(* View(x) is the active bank of the machine x, and Merge(x, bank) the     *)
(* memory after that bank has changed.  Every instruction has a lemma that *)
(* compares what Python makes of View(x) with what C makes of x (Alike),   *)
(* for the machines that are Clear of the end of the bank: they agree but  *)
(* for the services that the two do differently (Own), and one refuses     *)
(* what the other does where the characters at the console are Fluent,     *)
(* that is, where both find a character or a number in them.               *)
(*                                                                         *)
(* The invariant LInv says that every machine there is is one (IsMachine), *)
(* and that c and py are what C and Python have made of the last           *)
(* instruction; the five properties of the check then follow from the      *)
(* lemmas about single instructions.                                       *)
(***************************************************************************)
EXTENDS Lockstep, TLAPS, WellFoundedInduction

Bytes == 0 .. Byte - 1
Chars == 0 .. Ascii - 1
BitsOfFlags == {1, 2, 4, 8}

\* A square root is no larger than its square.
LEMMA Square ==
  ASSUME NEW b \in Nat, NEW w \in Nat, b * b = w, w > 0
  PROVE  b > 0 /\ b <= w
<1>1. b > 0
  BY SMT
<1>2. b * b >= b
  BY <1>1, SMT
<1> QED BY <1>1, <1>2

\* What the assumptions say about the sizes of words, bytes, stack and banks.
LEMMA Numbers ==
  /\ Half \in Nat /\ Half > 0 /\ Half % 8 = 0 /\ WordSize = 2 * Half
  /\ WordSize \in Nat /\ WordSize >= 16 /\ WordSize % 16 = 0
  /\ Byte \in Nat /\ Byte > 0 /\ Byte <= WordSize /\ Byte * Byte = WordSize
  /\ Depth \in Nat /\ Depth > 0 /\ Depth < WordSize
  /\ Banks \in Nat /\ Banks > 0 /\ Banks <= WordSize
<1>1. /\ Half \in Nat /\ Half > 0 /\ WordSize = 2 * Half /\ Half % 8 = 0
      /\ Depth \in 1 .. WordSize - 1 /\ Banks \in 1 .. WordSize
  BY HalfAssumption, MachineAssumption DEF WordSize
<1>2. WordSize \in Nat /\ WordSize > 0
  BY <1>1
<1>3. WordSize >= 16 /\ WordSize % 16 = 0
  BY <1>1
<1>4. Byte \in Nat /\ Byte * Byte = WordSize
  BY MachineAssumption
<1>5. Byte > 0 /\ Byte <= WordSize
  BY <1>2, <1>4, Square
<1> QED
  BY <1>1, <1>2, <1>3, <1>4, <1>5

\* The flag word f with v, which is 0 or the bit, in place of the bit.
With(f, bit, v) == Without(f, bit) + v

\* Setting or clearing one bit of the flag word leaves the other three.
LEMMA HasWith ==
  ASSUME NEW f \in WordSet, NEW bit \in BitsOfFlags, NEW v \in {0, bit}
  PROVE  /\ With(f, bit, v) \in WordSet
         /\ Has(With(f, bit, v), bit) <=> v = bit
         /\ \A other \in BitsOfFlags \ {bit} : Has(With(f, bit, v), other) <=> Has(f, other)
<1>1. f \in Int /\ 0 <= f /\ f < WordSize /\ WordSize % 16 = 0 /\ WordSize \in Nat /\ WordSize > 0
  BY Numbers DEF WordSet
<1>2. CASE bit = 1
  BY <1>1, <1>2 DEF With, Without, Has, BitsOfFlags, WordSet
<1>3. CASE bit = 2
  BY <1>1, <1>3 DEF With, Without, Has, BitsOfFlags, WordSet
<1>4. CASE bit = 4
  BY <1>1, <1>4 DEF With, Without, Has, BitsOfFlags, WordSet
<1>5. CASE bit = 8
  BY <1>1, <1>5 DEF With, Without, Has, BitsOfFlags, WordSet
<1> QED
  BY <1>2, <1>3, <1>4, <1>5 DEF BitsOfFlags

\* A sum of the four flags has exactly the flags that were added.
LEMMA HasBits ==
  ASSUME NEW z \in {0, 1}, NEW n \in {0, 2}, NEW k \in {0, 4}, NEW o \in {0, 8}
  PROVE  /\ z + n + k + o \in WordSet
         /\ Has(z + n + k + o, 1) <=> z = 1
         /\ Has(z + n + k + o, 2) <=> n = 2
         /\ Has(z + n + k + o, 4) <=> k = 4
         /\ Has(z + n + k + o, 8) <=> o = 8
BY Numbers DEF Has, WordSet

-----------------------------------------------------------------------------
Stack == [0 .. Depth - 1 -> WordSet]

Shape(x, addresses) ==
  /\ Whole(x)
  /\ x.pc \in WordSet /\ x.flags \in WordSet
  /\ x.sp \in 0 .. Depth /\ x.hw \in Stack
  /\ x.mem \in [addresses -> Bytes]
  /\ x.typed \in Seq(Chars)

Base(x) ==
  IF x.seg.vm24 /\ x.seg.ring = 1
    THEN WordSize * (IF x.seg.override # NoOverride THEN x.seg.override ELSE x.seg.ds)
    ELSE 0

View(x) == [x EXCEPT !.mem = [a \in WordSet |-> x.mem[Base(x) + a]]]

SegTyped(seg) ==
  /\ seg \in [vm24 : BOOLEAN, ring : {0, 1}, cs : 0 .. Banks - 1, ds : 0 .. Banks - 1,
              es : 0 .. Banks - 1, override : {NoOverride} \cup 0 .. Banks - 1]
  /\ seg.vm24 \/ seg = NoSegments

Memory(seg) == IF seg.vm24 THEN 0 .. Banks * WordSize - 1 ELSE WordSet

\* IsMachine, in the parts that the proofs use.
LEMMA MachineShape ==
  ASSUME NEW x
  PROVE  IsMachine(x) <=> Shape(x, Memory(x.seg)) /\ SegTyped(x.seg)
<1>1. Memory(x.seg) = IF x.seg.vm24 THEN 0 .. Banks * WordSize - 1 ELSE WordSet
  BY DEF Memory
<1> QED
  BY <1>1 DEF IsMachine, Shape, SegTyped, Bytes, Chars, Stack

\* The addresses of a bank lie in the memory.
LEMMA BankRange ==
  ASSUME NEW b \in 0 .. Banks - 1, NEW a \in WordSet
  PROVE  WordSize * b \in Nat /\ WordSize * b + a \in 0 .. Banks * WordSize - 1
<1>1. b \in Nat /\ Banks \in Nat /\ b + 1 <= Banks /\ a \in Nat /\ a < WordSize /\ WordSize \in Nat
  BY Numbers DEF WordSet
<1>2. WordSize * b \in Nat /\ WordSize * (b + 1) = WordSize * b + WordSize
  BY <1>1
<1>3. WordSize * (b + 1) <= WordSize * Banks /\ WordSize * Banks = Banks * WordSize /\ Banks * WordSize \in Nat
  BY <1>1
<1> QED
  BY <1>1, <1>2, <1>3

\* The active bank lies in the memory of its machine.
LEMMA BaseRange ==
  ASSUME NEW x, IsMachine(x)
  PROVE  /\ Base(x) \in Nat
         /\ \A a \in WordSet : Base(x) + a \in Memory(x.seg)
         /\ DOMAIN x.mem = Memory(x.seg)
<1>1. Shape(x, Memory(x.seg)) /\ SegTyped(x.seg)
  BY MachineShape
<1>2. DOMAIN x.mem = Memory(x.seg)
  BY <1>1 DEF Shape
<1>3. CASE ~ x.seg.vm24
  BY <1>2, <1>3, Numbers DEF Base, Memory, WordSet
<1>4. CASE x.seg.vm24 /\ x.seg.ring # 1
  <2>1. \A a \in WordSet : 0 + a \in 0 .. Banks * WordSize - 1
    <3>1. 0 \in 0 .. Banks - 1 /\ WordSize * 0 = 0
      BY Numbers
    <3> QED
      BY <3>1, BankRange
  <2> QED
    BY <1>2, <1>4, <2>1 DEF Base, Memory
<1>5. CASE x.seg.vm24 /\ x.seg.ring = 1
  <2> DEFINE b == IF x.seg.override # NoOverride THEN x.seg.override ELSE x.seg.ds
  <2>1. b \in 0 .. Banks - 1
    BY <1>1 DEF SegTyped
  <2>2. Base(x) = WordSize * b
    BY <1>5 DEF Base
  <2>3. WordSize * b \in Nat /\ \A a \in WordSet : WordSize * b + a \in 0 .. Banks * WordSize - 1
    <3>1. 0 \in WordSet
      BY Numbers DEF WordSet
    <3> QED
      BY <2>1, <3>1, BankRange
  <2> QED
    BY <1>2, <1>5, <2>2, <2>3 DEF Memory
<1> QED
  BY <1>3, <1>4, <1>5

\* vm_data_address: the offset in the active bank, which wraps around at its end.
LEMMA Addresses16 ==
  ASSUME NEW x, IsMachine(x), NEW a \in WordSet
  PROVE  /\ vm_data_address(x, a) = Base(x) + a
         /\ vm_data_address(x, a + 1) = Base(x) + IF a = MAXMEMSP THEN 0 ELSE a + 1
         /\ a # MAXMEMSP => a + 1 \in WordSet
         /\ 0 \in WordSet
<1> DEFINE bank == IF x.seg.override # NoOverride THEN x.seg.override ELSE x.seg.ds
           base == IF x.seg.vm24 /\ x.seg.ring = 1 THEN WordSize * bank ELSE 0
<1>1. base = Base(x) /\ base \in Nat
  BY BaseRange DEF Base
<1>2. \A k : vm_data_address(x, k) = (k % WordSize) + base
  BY DEF vm_data_address
<1> HIDE DEF base, bank
<1>3. a \in Nat /\ a < WordSize /\ WordSize \in Nat /\ WordSize >= 16 /\ MAXMEMSP = WordSize - 1
  BY Numbers DEF WordSet, MAXMEMSP
<1>4. a % WordSize = a /\ (a + 1) % WordSize = IF a = MAXMEMSP THEN 0 ELSE a + 1
  BY <1>3
<1>5. vm_data_address(x, a) = a + base /\ vm_data_address(x, a + 1) = (IF a = MAXMEMSP THEN 0 ELSE a + 1) + base
  BY <1>2, <1>4
<1>6. vm_data_address(x, a) = base + a /\ vm_data_address(x, a + 1) = base + (IF a = MAXMEMSP THEN 0 ELSE a + 1)
  BY <1>1, <1>3, <1>5
<1>7. (a # MAXMEMSP => a + 1 \in WordSet) /\ 0 \in WordSet
  BY <1>3 DEF WordSet
<1> QED
  BY <1>1, <1>6, <1>7

\* Two bytes make a word.
LEMMA TwoBytes ==
  ASSUME NEW low \in Bytes, NEW high \in Bytes
  PROVE  low + Byte * high \in WordSet
<1>1. low \in Nat /\ low <= Byte - 1 /\ high \in Nat /\ high <= Byte - 1 /\ Byte \in Nat
  BY Numbers DEF Bytes
<1>2. Byte * high <= Byte * (Byte - 1) /\ Byte * high \in Nat
  BY <1>1
<1>3. Byte * (Byte - 1) = WordSize - Byte
  BY <1>1, Numbers
<1> QED
  BY <1>1, <1>2, <1>3, Numbers DEF WordSet

\* A word has two bytes.
LEMMA BytesOf ==
  ASSUME NEW w \in WordSet
  PROVE  w % Byte \in Bytes /\ w \div Byte \in Bytes
<1>1. w \in Nat /\ w < Byte * Byte /\ Byte \in Nat /\ Byte > 0
  BY Numbers DEF WordSet
<1>2. w % Byte \in Bytes
  BY <1>1 DEF Bytes
<1>3. w \div Byte \in Nat /\ w = Byte * (w \div Byte) + (w % Byte)
  BY <1>1
<1>4. w \div Byte < Byte
  <2>1. SUFFICES ASSUME w \div Byte >= Byte PROVE FALSE
    BY <1>1, <1>3
  <2>2. Byte * (w \div Byte) >= Byte * Byte
    BY <1>1, <1>3, <2>1
  <2> QED
    BY <1>1, <1>2, <1>3, <2>2 DEF Bytes
<1> QED
  BY <1>1, <1>2, <1>3, <1>4 DEF Bytes

-----------------------------------------------------------------------------
\* The active bank of a machine is a machine of one bank, with the same registers.
LEMMA ViewShape ==
  ASSUME NEW x, IsMachine(x)
  PROVE  /\ Shape(View(x), WordSet)
         /\ View(x).pc = x.pc /\ View(x).flags = x.flags /\ View(x).sp = x.sp
         /\ View(x).hw = x.hw /\ View(x).seg = x.seg
         /\ View(x).out = x.out /\ View(x).typed = x.typed
         /\ View(x).mem = [a \in WordSet |-> x.mem[Base(x) + a]]
<1> DEFINE bank == [a \in WordSet |-> x.mem[Base(x) + a]]
<1>1. Shape(x, Memory(x.seg)) /\ \A a \in WordSet : Base(x) + a \in Memory(x.seg)
  BY MachineShape, BaseRange
<1>2. bank \in [WordSet -> Bytes]
  BY <1>1 DEF Shape
<1>3. View(x) = [x EXCEPT !.mem = bank]
  BY DEF View
<1> HIDE DEF bank
<1>4. /\ View(x).pc = x.pc /\ View(x).flags = x.flags /\ View(x).sp = x.sp
      /\ View(x).hw = x.hw /\ View(x).seg = x.seg
      /\ View(x).out = x.out /\ View(x).typed = x.typed
      /\ View(x).mem = bank
      /\ Whole(View(x))
  BY <1>1, <1>3 DEF Shape, Fields, Whole
<1> QED
  BY <1>1, <1>2, <1>4 DEF Shape, bank

\* A machine without segments is its own active bank.
LEMMA ViewOf16 ==
  ASSUME NEW x, IsMachine(x), ~ x.seg.vm24
  PROVE  View(x) = x
<1> DEFINE bank == [a \in WordSet |-> x.mem[Base(x) + a]]
<1>1. Shape(x, Memory(x.seg)) /\ Base(x) = 0 /\ Memory(x.seg) = WordSet
  BY MachineShape DEF Base, Memory
<1>2. \A a \in WordSet : Base(x) + a = a
  BY <1>1, Numbers DEF WordSet
<1>3. bank = x.mem
  BY <1>1, <1>2 DEF Shape
<1>4. View(x) = [x EXCEPT !.mem = bank]
  BY DEF View
<1> HIDE DEF bank
<1> QED
  BY <1>1, <1>3, <1>4 DEF Shape, Fields, Whole

\* The window that cpu24.py takes of the memory is the active bank.
LEMMA ViewOf24 ==
  ASSUME NEW x, IsMachine(x), x.seg.vm24
  PROVE  /\ Window(x) = View(x)
         /\ physical_address(active_data_segment(x), 0) = Base(x)
<1>1. Shape(x, Memory(x.seg)) /\ SegTyped(x.seg)
  BY MachineShape
<1> DEFINE bank == IF x.seg.ring = 1 THEN
                     (IF x.seg.override # NoOverride THEN x.seg.override ELSE x.seg.ds) ELSE 0
<1>2. active_data_segment(x) = bank /\ bank \in 0 .. Banks - 1
  BY <1>1, Numbers DEF active_data_segment, SegTyped
<1>3. Base(x) = WordSize * bank
  BY Numbers DEF Base
<1>4. \A a \in WordSet : physical_address(active_data_segment(x), a) = Base(x) + a
  <2> SUFFICES ASSUME NEW a \in WordSet PROVE bank * WordSize + a = Base(x) + a
    BY <1>2 DEF physical_address
  <2> HIDE DEF bank
  <2>1. bank \in Nat /\ WordSize \in Nat /\ a \in Nat
    BY <1>2, Numbers DEF WordSet
  <2>2. bank * WordSize = WordSize * bank
    BY <2>1
  <2> QED
    BY <1>3, <2>2
<1>5. [a \in WordSet |-> x.mem[physical_address(active_data_segment(x), a)]]
        = [a \in WordSet |-> x.mem[Base(x) + a]]
  BY <1>4
<1>6. 0 \in WordSet /\ Base(x) + 0 = Base(x)
  BY BaseRange, Numbers DEF WordSet
<1> QED
  BY <1>4, <1>5, <1>6 DEF Window, View

\* getwordat gives words.
LEMMA WordInBank ==
  ASSUME NEW w, NEW a \in WordSet, w.mem \in [WordSet -> Bytes]
  PROVE  getwordat(w, a) \in WordSet
<1>1. 0 \in WordSet /\ (a # MAXMEMSP => a + 1 \in WordSet)
  BY Numbers DEF WordSet, MAXMEMSP
<1> QED
  BY <1>1, TwoBytes DEF getwordat

\* get16 and getwordat read the same word, but at the last address.
LEMMA SameWord ==
  ASSUME NEW x, IsMachine(x), NEW a \in WordSet
  PROVE  /\ get16(x, a) \in WordSet
         /\ getwordat(View(x), a) \in WordSet
         /\ a # MAXMEMSP => get16(x, a) = getwordat(View(x), a)
<1> DEFINE next == IF a = MAXMEMSP THEN 0 ELSE a + 1
<1>1. /\ vm_data_address(x, a) = Base(x) + a
      /\ vm_data_address(x, a + 1) = Base(x) + next
      /\ next \in WordSet
  BY Addresses16
<1>2. Shape(View(x), WordSet) /\ View(x).mem = [b \in WordSet |-> x.mem[Base(x) + b]]
  BY ViewShape
<1>3. View(x).mem \in [WordSet -> Bytes]
  BY <1>2 DEF Shape
<1>4. /\ View(x).mem[a] = x.mem[Base(x) + a] /\ View(x).mem[next] = x.mem[Base(x) + next]
      /\ View(x).mem[a] \in Bytes /\ View(x).mem[next] \in Bytes
  BY <1>1, <1>2, <1>3
<1>5. get16(x, a) = View(x).mem[a] + Byte * View(x).mem[next]
  BY <1>1, <1>4 DEF get16
<1>6. get16(x, a) \in WordSet
  BY <1>4, <1>5, TwoBytes
<1> QED
  BY <1>3, <1>5, <1>6, WordInBank DEF getwordat

-----------------------------------------------------------------------------
\* A remainder is determined by its range.
LEMMA ModIs ==
  ASSUME NEW n \in Nat, n > 0, NEW q \in Int, NEW r \in 0 .. n - 1
  PROVE  (q * n + r) % n = r
OBVIOUS

\* Sums and differences modulo the word size.
LEMMA PlusMinus ==
  ASSUME NEW a \in WordSet, NEW b \in WordSet
  PROVE  /\ Plus(a, b) \in WordSet /\ (a + b) % WordSize = Plus(a, b)
         /\ Minus(a, b) \in WordSet /\ (a - b) % WordSize = Minus(a, b)
<1>1. a \in Int /\ 0 <= a /\ a < WordSize /\ b \in Int /\ 0 <= b /\ b < WordSize
      /\ WordSize \in Nat /\ WordSize > 0
  BY Numbers DEF WordSet
<1>2. Plus(a, b) \in 0 .. WordSize - 1 /\ Minus(a, b) \in 0 .. WordSize - 1
  BY <1>1 DEF Plus, Minus
<1>3. \E q \in Int : a + b = q * WordSize + Plus(a, b)
  <2>1. CASE a + b >= WordSize
    BY <1>1, <2>1, a + b = 1 * WordSize + Plus(a, b) DEF Plus
  <2>2. CASE ~ (a + b >= WordSize)
    BY <1>1, <2>2, a + b = 0 * WordSize + Plus(a, b) DEF Plus
  <2> QED
    BY <2>1, <2>2
<1>4. \E q \in Int : a - b = q * WordSize + Minus(a, b)
  <2>1. CASE a >= b
    BY <1>1, <2>1, a - b = 0 * WordSize + Minus(a, b) DEF Minus
  <2>2. CASE ~ (a >= b)
    BY <1>1, <2>2, a - b = (-1) * WordSize + Minus(a, b) DEF Minus
  <2> QED
    BY <2>1, <2>2
<1> QED
  BY <1>1, <1>2, <1>3, <1>4, ModIs DEF WordSet

\* OR, AND and XOR give words.
LEMMA LogicalWord ==
  ASSUME NEW op \in Logic, NEW a \in WordSet, NEW b \in WordSet
  PROVE  Logical[op][<<a, b>>] \in WordSet
BY MachineAssumption

-----------------------------------------------------------------------------
\* y is x with other registers and another stack.
Beside(y, x) == y.mem = x.mem /\ y.seg = x.seg /\ y.out = x.out /\ y.typed = x.typed

Quiet(y, x) ==
  /\ Whole(y)
  /\ y.pc \in WordSet /\ y.flags \in WordSet
  /\ y.sp \in 0 .. Depth /\ y.hw \in Stack
  /\ Beside(y, x)

\* The slot below k takes v.
LEMMA OnStack ==
  ASSUME NEW h \in Stack, NEW k \in 1 .. Depth, NEW v \in WordSet
  PROVE  /\ h[k - 1] \in WordSet
         /\ [h EXCEPT ![k - 1] = v] \in Stack
         /\ [h EXCEPT ![k - 1] = v][k - 1] = v
         /\ \A s \in 0 .. k - 2 : [h EXCEPT ![k - 1] = v][s] = h[s]
BY Numbers DEF Stack

\* Which slots of the stack a stack pointer has below it.
LEMMA Slots ==
  ASSUME NEW k \in 0 .. Depth
  PROVE  /\ k \in Nat /\ Depth \in Nat
         /\ k >= 1 => k - 1 \in 0 .. Depth - 1
         /\ k >= 2 => k - 2 \in 0 .. Depth - 1 /\ k - 2 # k - 1
         /\ k >= 1 => k - 1 \in 0 .. Depth
         /\ k >= 2 => k - 2 \in 0 .. Depth
         /\ k < Depth => k \in 0 .. Depth - 1 /\ k + 1 \in 0 .. Depth
         /\ \A s \in 0 .. k - 1 : s \in 0 .. Depth - 1
BY Numbers

ALUCode(i) == i.op \in Arithmetic \cup Logic /\ i.mode \in {"", "I", "II", "S"}

\* Assigning the flags changes nothing else.
LEMMA FlagsSet ==
  ASSUME NEW x, Whole(x), NEW f
  PROVE  LET y == [x EXCEPT !.flags = f] IN
         /\ Whole(y) /\ Beside(y, x)
         /\ y.pc = x.pc /\ y.flags = f /\ y.sp = x.sp /\ y.hw = x.hw
BY DEF Whole, Fields, Beside

\* Assigning the stack pointer changes nothing else.
LEMMA SpSet ==
  ASSUME NEW x, Whole(x), NEW k
  PROVE  LET y == [x EXCEPT !.sp = k] IN
         /\ Whole(y) /\ Beside(y, x)
         /\ y.pc = x.pc /\ y.flags = x.flags /\ y.sp = k /\ y.hw = x.hw
BY DEF Whole, Fields, Beside

\* Assigning the program counter changes nothing else.
LEMMA PcSet ==
  ASSUME NEW x, Whole(x), NEW a
  PROVE  LET y == [x EXCEPT !.pc = a] IN
         /\ Whole(y) /\ Beside(y, x)
         /\ y.pc = a /\ y.flags = x.flags /\ y.sp = x.sp /\ y.hw = x.hw
BY DEF Whole, Fields, Beside

\* Assigning the stack changes nothing else.
LEMMA HwSet ==
  ASSUME NEW x, Whole(x), NEW h
  PROVE  LET y == [x EXCEPT !.hw = h] IN
         /\ Whole(y) /\ Beside(y, x)
         /\ y.pc = x.pc /\ y.flags = x.flags /\ y.sp = x.sp /\ y.hw = h
BY DEF Whole, Fields, Beside

\* StoreAcum of cpu.py and set_top of C do the same to the top of the stack.
LEMMA TopSet ==
  ASSUME NEW x, Whole(x), x.sp \in 1 .. Depth, x.hw \in Stack, NEW v \in WordSet
  PROVE  LET y == StoreAcum(x, v) IN
         /\ y = set_top(x, v)
         /\ Whole(y) /\ Beside(y, x)
         /\ y.pc = x.pc /\ y.flags = x.flags /\ y.sp = x.sp
         /\ y.hw \in Stack /\ y.hw[y.sp - 1] = v
         /\ \A s \in 0 .. y.sp - 2 : y.hw[s] = x.hw[s]
<1> DEFINE y == StoreAcum(x, v)
           h == [x.hw EXCEPT ![x.sp - 1] = v]
<1>1. y = [x EXCEPT !.hw = h] /\ y = set_top(x, v)
  BY DEF StoreAcum, set_top
<1>2. h \in Stack /\ h[x.sp - 1] = v /\ \A s \in 0 .. x.sp - 2 : h[s] = x.hw[s]
  BY OnStack
<1> HIDE DEF y, h
<1>3. /\ Whole(y) /\ Beside(y, x)
      /\ y.pc = x.pc /\ y.flags = x.flags /\ y.sp = x.sp /\ y.hw = h
  BY <1>1, HwSet
<1> QED
  BY <1>1, <1>2, <1>3 DEF y

\* What optPUSH does to stack and registers.
LEMMA PushedOn ==
  ASSUME NEW x, Whole(x), x.sp \in 0 .. Depth, x.hw \in Stack, NEW v \in WordSet,
         NEW y \in optPUSH(x, v)
  PROVE  /\ x.sp < Depth
         /\ Whole(y) /\ Beside(y, x)
         /\ y.pc = x.pc /\ y.flags = x.flags /\ y.sp = x.sp + 1
         /\ y.sp \in 1 .. Depth
         /\ y.hw \in Stack /\ y.hw[x.sp] = v
         /\ \A s \in 0 .. x.sp - 1 : y.hw[s] = x.hw[s]
<1> DEFINE h == [x.hw EXCEPT ![x.sp] = v]
           z == [x EXCEPT !.hw = h]
<1>1. x.sp < Depth /\ y = [x EXCEPT !.hw = h, !.sp = @ + 1]
  BY DEF optPUSH, When
<1>2. x.sp + 1 \in 1 .. Depth /\ x.sp + 1 - 1 = x.sp /\ x.sp + 1 - 2 = x.sp - 1
  BY <1>1, Numbers
<1>3. h \in Stack /\ h[x.sp] = v /\ \A s \in 0 .. x.sp - 1 : h[s] = x.hw[s]
  <2> DEFINE k == x.sp + 1
  <2> HIDE DEF k
  <2>1. k \in 1 .. Depth /\ k - 1 = x.sp /\ k - 2 = x.sp - 1
    BY <1>2 DEF k
  <2>2. /\ [x.hw EXCEPT ![k - 1] = v] \in Stack
        /\ [x.hw EXCEPT ![k - 1] = v][k - 1] = v
        /\ \A s \in 0 .. k - 2 : [x.hw EXCEPT ![k - 1] = v][s] = x.hw[s]
    BY <2>1, OnStack
  <2> QED
    BY <2>1, <2>2
<1> HIDE DEF h
<1>4. /\ Whole(z) /\ Beside(z, x)
      /\ z.pc = x.pc /\ z.flags = x.flags /\ z.sp = x.sp /\ z.hw = h
  BY HwSet
<1>5. y = [z EXCEPT !.sp = x.sp + 1]
  BY <1>1
<1> HIDE DEF z
<1>6. /\ Whole(y) /\ Beside(y, z)
      /\ y.pc = z.pc /\ y.flags = z.flags /\ y.sp = x.sp + 1 /\ y.hw = z.hw
  BY <1>4, <1>5, SpSet
<1> QED
  BY <1>1, <1>2, <1>3, <1>4, <1>6 DEF Beside

ResultOf(op, a, b) ==
  CASE op = "ADD" -> Plus(a, b)
    [] op \in {"SUB", "CMP"} -> Minus(a, b)
    [] OTHER -> Logical[op][<<a, b>>]

CarryOf(op, a, b)    == IF op = "ADD" THEN Carry(a, b) ELSE Borrow(a, b)
OverflowOf(op, a, b) == IF op = "ADD" THEN OverflowOfPlus(a, b) ELSE OverflowOfMinus(a, b)

\* y's flags after an arithmetic instruction.
FlagsAfter(f, op, a, b) ==
  /\ f \in WordSet
  /\ Has(f, 1) <=> ResultOf(op, a, b) = 0
  /\ Has(f, 2) <=> Negative(ResultOf(op, a, b))
  /\ op \notin Logic => /\ Has(f, 4) <=> CarryOf(op, a, b)
                        /\ Has(f, 8) <=> OverflowOf(op, a, b)

\* An arithmetic or logic instruction gives a word.
LEMMA ResultWord ==
  ASSUME NEW op \in Arithmetic \cup Logic, NEW a \in WordSet, NEW b \in WordSet
  PROVE  ResultOf(op, a, b) \in WordSet
<1>1. CASE op \in Logic
  BY <1>1, LogicalWord DEF ResultOf, Logic
<1>2. CASE op \in Arithmetic
  BY <1>2, PlusMinus DEF ResultOf, Arithmetic
<1> QED
  BY <1>1, <1>2

PyFlags(op, a, b) ==
  CASE op = "ADD" -> FlagsAfterPlus(a, b)
    [] op \in {"SUB", "CMP"} -> FlagsAfterMinus(a, b)
    [] OTHER -> SetFlags(ResultOf(op, a, b))

\* The flag word that cpu.py computes has the flags that the result calls for.
LEMMA PyFlagsAfter ==
  ASSUME NEW op \in Arithmetic \cup Logic, NEW a \in WordSet, NEW b \in WordSet
  PROVE  FlagsAfter(PyFlags(op, a, b), op, a, b)
<1> DEFINE r == ResultOf(op, a, b)
           z == IF r = 0 THEN 1 ELSE 0
           n == IF Negative(r) THEN 2 ELSE 0
           k == IF op \notin Logic /\ CarryOf(op, a, b) THEN 4 ELSE 0
           o == IF op \notin Logic /\ OverflowOf(op, a, b) THEN 8 ELSE 0
<1>1. SetFlags(r) = z + n /\ z + n \in Int /\ z + n + 0 + 0 = z + n
  BY DEF SetFlags, Bit
<1>2. PyFlags(op, a, b) = z + n + k + o
  <2>1. CASE op \in Logic
    <3>1. PyFlags(op, a, b) = SetFlags(r)
      BY <2>1 DEF PyFlags, Logic
    <3> QED
      BY <1>1, <2>1, <3>1
  <2>2. CASE op = "ADD"
    <3>1. PyFlags(op, a, b) = OverCarryTest(SetFlags(r), Carry(a, b), OverflowOfPlus(a, b))
      BY <2>2 DEF PyFlags, ResultOf, FlagsAfterPlus
    <3> QED
      BY <1>1, <2>2, <3>1 DEF OverCarryTest, Bit, CarryOf, OverflowOf, Logic
  <2>3. CASE op \in {"SUB", "CMP"}
    <3>1. PyFlags(op, a, b) = OverCarryTest(SetFlags(r), Borrow(a, b), OverflowOfMinus(a, b))
      BY <2>3 DEF PyFlags, ResultOf, FlagsAfterMinus
    <3> QED
      BY <1>1, <2>3, <3>1 DEF OverCarryTest, Bit, CarryOf, OverflowOf, Logic
  <2> QED
    BY <2>1, <2>2, <2>3 DEF Arithmetic
<1>3. z \in {0, 1} /\ n \in {0, 2} /\ k \in {0, 4} /\ o \in {0, 8}
  OBVIOUS
<1>4. /\ z = 1 <=> r = 0
      /\ n = 2 <=> Negative(r)
      /\ op \notin Logic => (k = 4 <=> CarryOf(op, a, b)) /\ (o = 8 <=> OverflowOf(op, a, b))
  OBVIOUS
<1> HIDE DEF z, n, k, o
<1>5. /\ PyFlags(op, a, b) \in WordSet
      /\ Has(PyFlags(op, a, b), 1) <=> z = 1
      /\ Has(PyFlags(op, a, b), 2) <=> n = 2
      /\ Has(PyFlags(op, a, b), 4) <=> k = 4
      /\ Has(PyFlags(op, a, b), 8) <=> o = 8
  BY <1>2, <1>3, HasBits
<1> QED
  BY <1>4, <1>5 DEF FlagsAfter, r

\* set_zn sets zero and negative, and leaves carry and overflow.
LEMMA SetZN ==
  ASSUME NEW f \in WordSet, NEW r \in WordSet
  PROVE  /\ set_zn(f, r) \in WordSet
         /\ Has(set_zn(f, r), 1) <=> r = 0
         /\ Has(set_zn(f, r), 2) <=> Negative(r)
         /\ Has(set_zn(f, r), 4) <=> Has(f, 4)
         /\ Has(set_zn(f, r), 8) <=> Has(f, 8)
<1> DEFINE zero == IF r = 0 THEN 1 ELSE 0
           neg  == IF r >= Half THEN 2 ELSE 0
           z    == With(f, 1, zero)
<1>1. zero \in {0, 1} /\ neg \in {0, 2} /\ 1 \in BitsOfFlags /\ 2 \in BitsOfFlags
  BY DEF BitsOfFlags
<1>5. (zero = 1 <=> r = 0) /\ (neg = 2 <=> Negative(r))
  BY DEF Negative
<1>2. set_zn(f, r) = With(z, 2, neg)
  BY DEF With, set_zn, Put, FL_Z, FL_N
<1> HIDE DEF zero, neg
<1>3. /\ z \in WordSet /\ (Has(z, 1) <=> zero = 1)
      /\ \A other \in BitsOfFlags \ {1} : Has(z, other) <=> Has(f, other)
  BY <1>1, HasWith
<1> HIDE DEF z
<1>6. z \in WordSet
  BY <1>3
<1>4. /\ With(z, 2, neg) \in WordSet
      /\ Has(With(z, 2, neg), 2) <=> neg = 2
      /\ \A other \in BitsOfFlags \ {2} : Has(With(z, 2, neg), other) <=> Has(z, other)
  <2>1. With(z, 2, neg) \in WordSet
    BY <1>1, <1>6, HasWith
  <2>2. Has(With(z, 2, neg), 2) <=> neg = 2
    BY <1>1, <1>6, HasWith
  <2>3. \A other \in BitsOfFlags \ {2} : Has(With(z, 2, neg), other) <=> Has(z, other)
    BY <1>1, <1>6, HasWith
  <2> QED
    BY <2>1, <2>2, <2>3
<1> QED
  BY <1>2, <1>3, <1>4, <1>5 DEF BitsOfFlags

\* Carry and overflow as the bits k and o.
LEMMA SetCO ==
  ASSUME NEW f \in WordSet, NEW k \in {0, 4}, NEW o \in {0, 8}
  PROVE  LET z == With(With(f, 4, k), 8, o) IN
         /\ z \in WordSet
         /\ Has(z, 1) <=> Has(f, 1)
         /\ Has(z, 2) <=> Has(f, 2)
         /\ Has(z, 4) <=> k = 4
         /\ Has(z, 8) <=> o = 8
<1> DEFINE y == With(f, 4, k)
           z == With(y, 8, o)
<1>1. 4 \in BitsOfFlags /\ 8 \in BitsOfFlags
  BY DEF BitsOfFlags
<1>2. /\ y \in WordSet /\ (Has(y, 4) <=> k = 4)
      /\ \A other \in BitsOfFlags \ {4} : Has(y, other) <=> Has(f, other)
  BY <1>1, HasWith
<1> HIDE DEF y
<1>5. y \in WordSet
  BY <1>2
<1>3. /\ z \in WordSet
      /\ Has(z, 8) <=> o = 8
      /\ \A other \in BitsOfFlags \ {8} : Has(z, other) <=> Has(y, other)
  <2>1. z \in WordSet
    BY <1>1, <1>5, HasWith
  <2>2. Has(z, 8) <=> o = 8
    BY <1>1, <1>5, HasWith
  <2>3. \A bit \in BitsOfFlags, v \in {0, 8} : v \in {0, bit} =>
          \A other \in BitsOfFlags \ {bit} : Has(With(y, bit, v), other) <=> Has(y, other)
    BY <1>5, HasWith
  <2>4. \A other \in BitsOfFlags \ {8} : Has(z, other) <=> Has(y, other)
    BY <1>1, <2>3
  <2> QED
    BY <2>1, <2>2, <2>4
<1> HIDE DEF z
<1>4. /\ z \in WordSet
      /\ Has(z, 1) <=> Has(f, 1)
      /\ Has(z, 2) <=> Has(f, 2)
      /\ Has(z, 4) <=> k = 4
      /\ Has(z, 8) <=> o = 8
  BY <1>2, <1>3 DEF BitsOfFlags
<1> QED
  BY <1>4 DEF y, z

CFlags(f, op, a, b) ==
  LET r == ResultOf(op, a, b) IN
  CASE op = "ADD" -> set_cf_of_add(set_zn(f, r), a, b, r)
    [] op \in {"SUB", "CMP"} -> set_cf_of_sub(set_zn(f, r), a, b, r)
    [] OTHER -> set_zn(f, r)

\* The flag word that C computes has the flags that the result calls for.
LEMMA CFlagsAfter ==
  ASSUME NEW f \in WordSet, NEW op \in Arithmetic \cup Logic, NEW a \in WordSet, NEW b \in WordSet
  PROVE  FlagsAfter(CFlags(f, op, a, b), op, a, b)
<1> DEFINE r == ResultOf(op, a, b)
           z == set_zn(f, r)
           k == IF CarryOf(op, a, b) THEN 4 ELSE 0
           o == IF OverflowOf(op, a, b) THEN 8 ELSE 0
<1>1. r \in WordSet
  BY ResultWord
<1>2. z \in WordSet /\ (Has(z, 1) <=> r = 0) /\ (Has(z, 2) <=> Negative(r))
  BY <1>1, SetZN
<1>3. CASE op \in Logic
  <2>1. CFlags(f, op, a, b) = z
    BY <1>3 DEF CFlags, Logic
  <2> QED
    BY <1>3, <1>2, <2>1 DEF FlagsAfter
<1>4. CASE op \in Arithmetic
  <2>1. /\ k \in {0, 4} /\ (k = 4 <=> CarryOf(op, a, b))
        /\ o \in {0, 8} /\ (o = 8 <=> OverflowOf(op, a, b))
    OBVIOUS
  <2>2. CFlags(f, op, a, b) = With(With(z, 4, k), 8, o)
    <3>1. CASE op = "ADD"
      <4>1. r = Plus(a, b) /\ CFlags(f, op, a, b) = set_cf_of_add(z, a, b, r)
        BY <3>1 DEF CFlags, ResultOf
      <4>2. k = IF a + b >= WordSize THEN 4 ELSE 0
        BY <3>1, Numbers DEF CarryOf, Carry, WordSet
      <4>3. o = IF (a >= Half) = (b >= Half) /\ (r >= Half) # (a >= Half) THEN 8 ELSE 0
        BY <3>1, <4>1 DEF OverflowOf, OverflowOfPlus, Negative
      <4> HIDE DEF r, z, k, o
      <4> QED
        BY <4>1, <4>2, <4>3 DEF With, set_cf_of_add, Put, FL_C, FL_O
    <3>2. CASE op \in {"SUB", "CMP"}
      <4>1. r = Minus(a, b) /\ CFlags(f, op, a, b) = set_cf_of_sub(z, a, b, r)
        BY <3>2 DEF CFlags, ResultOf
      <4>2. k = IF a < b THEN 4 ELSE 0
        BY <3>2 DEF CarryOf, Borrow
      <4>3. o = IF (a >= Half) # (b >= Half) /\ (r >= Half) # (a >= Half) THEN 8 ELSE 0
        BY <3>2, <4>1 DEF OverflowOf, OverflowOfMinus, Negative
      <4> HIDE DEF r, z, k, o
      <4> QED
        BY <4>1, <4>2, <4>3 DEF With, set_cf_of_sub, Put, FL_C, FL_O
    <3> QED
      BY <1>4, <3>1, <3>2 DEF Arithmetic
  <2> HIDE DEF z, k, o
  <2>3. LET y == With(With(z, 4, k), 8, o) IN
         /\ y \in WordSet
         /\ Has(y, 1) <=> Has(z, 1)
         /\ Has(y, 2) <=> Has(z, 2)
         /\ Has(y, 4) <=> k = 4
         /\ Has(y, 8) <=> o = 8
    BY <1>2, <2>1, SetCO
  <2> QED
    BY <1>2, <2>1, <2>2, <2>3 DEF FlagsAfter
<1> QED
  BY <1>3, <1>4

\* Both emulators fetch the same operand, if no word of it is at the last address.
LEMMA OperandWord ==
  ASSUME NEW x, IsMachine(x), NEW i, i.arg \in WordSet, i.mode \in {"", "I", "II"}
  PROVE  /\ Operand(View(x), i) \in WordSet
         /\ argument(x, i) \in WordSet
         /\ InBank(View(x), i) => Operand(View(x), i) = argument(x, i)
<1> DEFINE p == getwordat(View(x), i.arg)
<1>1. /\ p \in WordSet /\ get16(x, i.arg) \in WordSet
      /\ i.arg # MAXMEMSP => get16(x, i.arg) = p
  BY SameWord
<1>2. /\ getwordat(View(x), p) \in WordSet /\ get16(x, get16(x, i.arg)) \in WordSet
      /\ p # MAXMEMSP => get16(x, p) = getwordat(View(x), p)
  BY <1>1, SameWord
<1>3. CASE i.mode = ""
  BY <1>3 DEF Operand, argument
<1>4. CASE i.mode = "I"
  <2>1. Operand(View(x), i) = p /\ argument(x, i) = get16(x, i.arg)
    BY <1>4 DEF Operand, argument
  <2>2. InBank(View(x), i) => i.arg # MAXMEMSP
    BY <1>4 DEF InBank, Accessed
  <2> QED
    BY <1>1, <2>1, <2>2
<1>5. CASE i.mode = "II"
  <2>1. Operand(View(x), i) = getwordat(View(x), p) /\ argument(x, i) = get16(x, get16(x, i.arg))
    BY <1>5 DEF Operand, argument
  <2>2. InBank(View(x), i) => i.arg # MAXMEMSP /\ p # MAXMEMSP
    BY <1>5 DEF InBank, Accessed
  <2> HIDE DEF p
  <2> QED
    BY <1>1, <1>2, <2>1, <2>2
<1> QED
  BY <1>3, <1>4, <1>5

\* y is x after the arithmetic or logic instruction i on a and b, with flags f.
Computed(y, x, i, a, b, f) ==
  /\ Quiet(y, x)
  /\ y.pc = x.pc /\ y.flags = f
  /\ y.sp = IF i.mode = "S" /\ i.op # "CMP" THEN x.sp - 1 ELSE x.sp
  /\ \A s \in 0 .. y.sp - 2 : y.hw[s] = x.hw[s]
  /\ y.hw[y.sp - 1] = IF i.op = "CMP" THEN x.hw[y.sp - 1] ELSE ResultOf(i.op, a, b)

\* What cpu.py makes of an arithmetic or logic instruction.
LEMMA ALUPython ==
  ASSUME NEW w, Shape(w, WordSet), NEW i, ALUCode(i), i.mode # "S" => Operand(w, i) \in WordSet,
         NEW n \in optALU(w, i)
  PROVE  LET a == fetchStack(w, IF i.mode = "S" THEN 1 ELSE 0)
             b == Operand(w, i)
         IN  /\ Stacked(w, i.mode) /\ AddressOK(w, i)
             /\ a \in WordSet /\ b \in WordSet
             /\ Computed(n, w, i, a, b, PyFlags(i.op, a, b))
<1> DEFINE a == fetchStack(w, IF i.mode = "S" THEN 1 ELSE 0)
           b == Operand(w, i)
           r == ResultOf(i.op, a, b)
           f == PyFlags(i.op, a, b)
           z == [w EXCEPT !.flags = f]
           left == IF i.op = "XOR" THEN StoreAcum(z, r) ELSE z
<1>1. /\ Whole(w)
      /\ w.sp \in 0 .. Depth /\ w.hw \in Stack /\ w.pc \in WordSet
  BY DEF Shape
<1>2. Stacked(w, i.mode) /\ AddressOK(w, i)
  BY DEF optALU, When
<1>3. w.sp >= 1 /\ (i.mode = "S" => w.sp >= 2)
  BY <1>2, <1>1, Slots DEF Stacked
<1>4. a \in WordSet /\ b \in WordSet
  <2>1. CASE i.mode = "S"
    <3>1. a = w.hw[w.sp - 1 - 1] /\ b = w.hw[w.sp - 1 - 0]
      BY <2>1 DEF Operand, fetchStack
    <3>2. w.sp - 1 - 1 = w.sp - 2 /\ w.sp - 1 - 0 = w.sp - 1
      BY <1>1, Slots
    <3> QED
      BY <1>1, <1>3, <2>1, <3>1, <3>2, Slots DEF Stack
  <2>2. CASE i.mode # "S"
    <3>1. a = w.hw[w.sp - 1 - 0] /\ w.sp - 1 - 0 = w.sp - 1
      BY <2>2, <1>1, Slots DEF fetchStack
    <3> QED
      BY <1>1, <1>3, <2>2, <3>1, Slots DEF Stack
  <2> QED
    BY <2>1, <2>2
<1>5. n = IF i.op = "CMP" THEN z
          ELSE IF i.mode = "S" THEN StoreAcum([left EXCEPT !.sp = @ - 1], r)
          ELSE StoreAcum(z, r)
  BY <1>2 DEF optALU, When, ResultOf, PyFlags
<1>6. r \in WordSet /\ f \in WordSet
  BY <1>4, ResultWord, PyFlagsAfter DEF FlagsAfter, ALUCode
<1> HIDE DEF a, b, r, f
<1>7. /\ Whole(z) /\ Beside(z, w)
      /\ z.pc = w.pc /\ z.flags = f /\ z.sp = w.sp /\ z.hw = w.hw
  BY <1>1, FlagsSet
<1> HIDE DEF z
<1>8. w.sp \in 1 .. Depth /\ (i.mode = "S" => w.sp - 1 \in 1 .. Depth)
  BY <1>1, <1>3, Slots
<1>9. Computed(n, w, i, a, b, f)
  <2>1. CASE i.op = "CMP"
    <3>1. n = z
      BY <1>5, <2>1
    <3> QED
      BY <1>1, <1>6, <1>7, <2>1, <3>1 DEF Computed, Quiet
  <2>2. CASE i.op # "CMP" /\ i.mode # "S"
    <3>1. n = StoreAcum(z, r)
      BY <1>5, <2>2
    <3>2. /\ Whole(n) /\ Beside(n, z)
          /\ n.pc = z.pc /\ n.flags = z.flags /\ n.sp = z.sp
          /\ n.hw \in Stack /\ n.hw[n.sp - 1] = r
          /\ \A s \in 0 .. n.sp - 2 : n.hw[s] = z.hw[s]
      BY <1>1, <1>6, <1>7, <1>8, <3>1, TopSet
    <3> QED
      BY <1>1, <1>6, <1>7, <2>2, <3>2 DEF Computed, Quiet, Beside, r
  <2>3. CASE i.op # "CMP" /\ i.mode = "S"
    <3>1. n = StoreAcum([left EXCEPT !.sp = @ - 1], r)
      BY <1>5, <2>3
    <3>2. /\ Whole(left) /\ Beside(left, w) /\ left.hw \in Stack
          /\ left.pc = w.pc /\ left.flags = f /\ left.sp = w.sp
          /\ \A s \in 0 .. w.sp - 2 : left.hw[s] = w.hw[s]
      <4>1. CASE i.op = "XOR"
        <5>1. left = StoreAcum(z, r)
          BY <4>1
        <5>2. /\ Whole(left) /\ Beside(left, z)
              /\ left.pc = z.pc /\ left.flags = z.flags /\ left.sp = z.sp
              /\ left.hw \in Stack
              /\ \A s \in 0 .. left.sp - 2 : left.hw[s] = z.hw[s]
          BY <1>1, <1>6, <1>7, <1>8, <5>1, TopSet
        <5> QED
          BY <1>7, <5>2 DEF Beside
      <4>2. CASE i.op # "XOR"
        BY <1>1, <1>7, <4>2
      <4> QED
        BY <4>1, <4>2
    <3> HIDE DEF left
    <3> DEFINE l == [left EXCEPT !.sp = left.sp - 1]
    <3>3. /\ Whole(l) /\ Beside(l, left)
          /\ l.pc = left.pc /\ l.flags = left.flags /\ l.sp = left.sp - 1 /\ l.hw = left.hw
      BY <3>2, SpSet
    <3>4. n = StoreAcum(l, r)
      BY <3>1
    <3> HIDE DEF l
    <3>5. l.sp \in 1 .. Depth
      BY <1>8, <2>3, <3>2, <3>3
    <3>6. /\ Whole(n) /\ Beside(n, l)
          /\ n.pc = l.pc /\ n.flags = l.flags /\ n.sp = l.sp
          /\ n.hw \in Stack /\ n.hw[n.sp - 1] = r
          /\ \A s \in 0 .. n.sp - 2 : n.hw[s] = l.hw[s]
      BY <1>6, <3>2, <3>3, <3>4, <3>5, TopSet
    <3>7. n.sp = w.sp - 1 /\ n.sp \in 0 .. Depth /\ \A s \in 0 .. n.sp - 2 : s \in 0 .. w.sp - 2
      BY <1>8, <2>3, <3>2, <3>3, <3>6, Numbers
    <3>8. /\ n.pc = w.pc /\ n.flags = f /\ Beside(n, w)
          /\ \A s \in 0 .. n.sp - 2 : n.hw[s] = w.hw[s]
      BY <3>2, <3>3, <3>6, <3>7 DEF Beside
    <3> QED
      BY <1>1, <1>6, <2>3, <3>6, <3>7, <3>8 DEF Computed, Quiet, r
  <2> QED
    BY <2>1, <2>2, <2>3
<1> QED
  BY <1>2, <1>4, <1>9 DEF a, b, f

\* What C makes of an arithmetic or logic instruction.
LEMMA ALUOfC ==
  ASSUME NEW x, Shape(x, DOMAIN x.mem), NEW i, ALUCode(i),
         i.mode # "S" => argument(x, i) \in WordSet,
         NEW q \in step_ALU(x, i)
  PROVE  LET a == fetchStack(x, IF i.mode = "S" THEN 1 ELSE 0)
             b == IF i.mode = "S" THEN fetchStack(x, 0) ELSE argument(x, i)
         IN  /\ Stacked(x, i.mode)
             /\ a \in WordSet /\ b \in WordSet
             /\ Computed(q, x, i, a, b, CFlags(x.flags, i.op, a, b))
<1> DEFINE a == fetchStack(x, IF i.mode = "S" THEN 1 ELSE 0)
           b == IF i.mode = "S" THEN fetchStack(x, 0) ELSE argument(x, i)
           r == ResultOf(i.op, a, b)
           f == CFlags(x.flags, i.op, a, b)
           z == IF i.mode = "S" /\ i.op # "CMP" THEN [x EXCEPT !.sp = x.sp - 1] ELSE x
           y == [z EXCEPT !.flags = f]
<1>1. /\ Whole(x)
      /\ x.sp \in 0 .. Depth /\ x.hw \in Stack /\ x.pc \in WordSet /\ x.flags \in WordSet
  BY DEF Shape
<1>2. Stacked(x, i.mode)
  BY DEF step_ALU, When, Stacked
<1>3. x.sp >= 1 /\ (i.mode = "S" => x.sp >= 2)
  BY <1>2, <1>1, Slots DEF Stacked
<1>4. a \in WordSet /\ b \in WordSet /\ a = (IF i.mode = "S" THEN peek1(x) ELSE peek0(x))
      /\ b = IF i.mode = "S" THEN peek0(x) ELSE argument(x, i)
  <2>1. CASE i.mode = "S"
    <3>1. a = x.hw[x.sp - 1 - 1] /\ b = x.hw[x.sp - 1 - 0]
      BY <2>1 DEF fetchStack
    <3>2. x.sp - 1 - 1 = x.sp - 2 /\ x.sp - 1 - 0 = x.sp - 1
      BY <1>1, Slots
    <3> QED
      BY <1>1, <1>3, <2>1, <3>1, <3>2, Slots DEF Stack, peek0, peek1
  <2>2. CASE i.mode # "S"
    <3>1. a = x.hw[x.sp - 1 - 0] /\ x.sp - 1 - 0 = x.sp - 1 /\ b = argument(x, i)
      BY <2>2, <1>1, Slots DEF fetchStack
    <3> QED
      BY <1>1, <1>3, <2>2, <3>1, Slots DEF Stack, peek0
  <2> QED
    BY <2>1, <2>2
<1>5. (a + b) % WordSize = Plus(a, b) /\ (a - b) % WordSize = Minus(a, b)
  BY <1>4, PlusMinus
<1>6. r \in WordSet /\ f \in WordSet
  BY <1>1, <1>4, ResultWord, CFlagsAfter DEF FlagsAfter, ALUCode
<1>7. q = IF i.op = "CMP" THEN y ELSE set_top(y, r)
  <2> DEFINE A == IF i.mode = "S" THEN peek1(x) ELSE peek0(x)
             B == IF i.mode = "S" THEN peek0(x) ELSE argument(x, i)
             n == IF i.mode = "S" THEN [x EXCEPT !.sp = @ - 1] ELSE x
  <2>1. A = a /\ B = b
    BY <1>4
  <2>2. n.flags = x.flags /\ x.flags = x.flags
    BY <1>1, SpSet
  <2>3. CASE i.op = "CMP"
    <3>1. q = [x EXCEPT !.flags = set_cf_of_sub(set_zn(@, (A - B) % WordSize), A, B, (A - B) % WordSize)]
      BY <2>3 DEF step_ALU, When, Logic
    <3>2. r = Minus(a, b) /\ f = set_cf_of_sub(set_zn(x.flags, r), a, b, r) /\ z = x
      BY <2>3 DEF ResultOf, CFlags
    <3> HIDE DEF A, B, a, b, r, f, z
    <3> QED
      BY <1>5, <2>1, <2>3, <3>1, <3>2
  <2>4. CASE i.op = "ADD"
    <3>1. q = set_top([n EXCEPT !.flags = set_cf_of_add(set_zn(@, (A + B) % WordSize), A, B, (A + B) % WordSize)], (A + B) % WordSize)
      BY <2>4 DEF step_ALU, When, Logic
    <3>2. r = Plus(a, b) /\ f = set_cf_of_add(set_zn(x.flags, r), a, b, r) /\ z = n
      BY <2>4 DEF ResultOf, CFlags
    <3> HIDE DEF A, B, a, b, r, f, z, n
    <3> QED
      BY <1>5, <2>1, <2>2, <2>4, <3>1, <3>2
  <2>5. CASE i.op = "SUB"
    <3>1. q = set_top([n EXCEPT !.flags = set_cf_of_sub(set_zn(@, (A - B) % WordSize), A, B, (A - B) % WordSize)], (A - B) % WordSize)
      BY <2>5 DEF step_ALU, When, Logic
    <3>2. r = Minus(a, b) /\ f = set_cf_of_sub(set_zn(x.flags, r), a, b, r) /\ z = n
      BY <2>5 DEF ResultOf, CFlags
    <3> HIDE DEF A, B, a, b, r, f, z, n
    <3> QED
      BY <1>5, <2>1, <2>2, <2>5, <3>1, <3>2
  <2>6. CASE i.op \in Logic
    <3> DEFINE l == Logical[i.op][<<A, B>>]
    <3>1. q = set_top([n EXCEPT !.flags = set_zn(@, l)], l) /\ i.op # "CMP"
      BY <2>6 DEF step_ALU, When, Logic
    <3>2. r = l /\ f = set_zn(x.flags, r) /\ z = n
      BY <2>1, <2>6 DEF ResultOf, CFlags, Logic
    <3> HIDE DEF A, B, a, b, r, f, z, n, l
    <3> QED
      BY <2>2, <3>1, <3>2
  <2> QED
    BY <2>3, <2>4, <2>5, <2>6 DEF ALUCode, Arithmetic
<1> HIDE DEF a, b, r, f
<1>8. x.sp \in 1 .. Depth /\ (i.mode = "S" => x.sp - 1 \in 1 .. Depth)
  BY <1>1, <1>3, Slots
<1>9. /\ Whole(z) /\ Beside(z, x)
      /\ z.pc = x.pc /\ z.hw = x.hw
      /\ z.sp = IF i.mode = "S" /\ i.op # "CMP" THEN x.sp - 1 ELSE x.sp
  BY <1>1, SpSet DEF Beside
<1>10. z.sp \in 1 .. Depth
  BY <1>8, <1>9
<1> HIDE DEF z
<1>11. /\ Whole(y) /\ Beside(y, z)
       /\ y.pc = z.pc /\ y.flags = f /\ y.sp = z.sp /\ y.hw = z.hw
  BY <1>9, FlagsSet
<1> HIDE DEF y
<1>12. \A s \in 0 .. y.sp - 2 : y.hw[s] = x.hw[s]
  BY <1>9, <1>11
<1>13. y.sp \in 0 .. Depth
  BY <1>10, <1>11, Numbers
<1>14. Computed(q, x, i, a, b, f)
  <2>1. CASE i.op = "CMP"
    BY <1>1, <1>6, <1>7, <1>9, <1>11, <1>13, <2>1 DEF Computed, Quiet, Beside
  <2>2. CASE i.op # "CMP"
    <3>1. q = StoreAcum(y, r)
      BY <1>7, <2>2 DEF set_top, StoreAcum
    <3>2. /\ Whole(q) /\ Beside(q, y)
          /\ q.pc = y.pc /\ q.flags = y.flags /\ q.sp = y.sp
          /\ q.hw \in Stack /\ q.hw[q.sp - 1] = r
          /\ \A s \in 0 .. q.sp - 2 : q.hw[s] = y.hw[s]
      BY <1>1, <1>6, <1>9, <1>10, <1>11, <3>1, TopSet
    <3> QED
      BY <1>1, <1>6, <1>9, <1>11, <1>13, <2>2, <3>2 DEF Computed, Quiet, Beside, r
  <2> QED
    BY <2>1, <2>2
<1> QED
  BY <1>2, <1>4, <1>14 DEF a, b, f

-----------------------------------------------------------------------------
Promised(i) == {1, 2} \cup IF i.op \in Logic THEN {} ELSE {4, 8}

Agree(n, q, i) ==
  /\ n.pc = q.pc /\ n.sp = q.sp
  /\ \A s \in 0 .. n.sp - 1 : n.hw[s] = q.hw[s]
  /\ \A bit \in Promised(i) : Has(n.flags, bit) <=> Has(q.flags, bit)

\* P and C are what Python makes of the machine w, and C of the machine x.
Effects(P, C, w, x) ==
  /\ \A n \in P : Quiet(n, w)
  /\ \A q \in C : Quiet(q, x)
  /\ C = {} => P = {}

Agreeing(P, C, i) ==
  /\ P = {} => C = {}
  /\ \A n \in P, q \in C : Agree(n, q, i)

\* Both change registers and stack only; away from the last address both do the same.
LEMMA ALUAgree ==
  ASSUME NEW x, IsMachine(x), NEW i, ALUCode(i), i.arg \in WordSet
  PROVE  /\ Effects(optALU(View(x), i), step_ALU(x, i), View(x), x)
         /\ InBank(View(x), i) => Agreeing(optALU(View(x), i), step_ALU(x, i), i)
<1> DEFINE w == View(x)
           A == fetchStack(x, IF i.mode = "S" THEN 1 ELSE 0)
           B == IF i.mode = "S" THEN fetchStack(x, 0) ELSE argument(x, i)
           a == fetchStack(w, IF i.mode = "S" THEN 1 ELSE 0)
           b == Operand(w, i)
<1>1. /\ Shape(w, WordSet) /\ Shape(x, DOMAIN x.mem)
      /\ w.pc = x.pc /\ w.sp = x.sp /\ w.hw = x.hw
  BY ViewShape, MachineShape, BaseRange
<1>2. i.mode # "S" => /\ Operand(w, i) \in WordSet
                      /\ argument(x, i) \in WordSet
                      /\ InBank(w, i) => Operand(w, i) = argument(x, i)
  BY OperandWord DEF ALUCode
<1>3. i.mode = "S" => Operand(w, i) = fetchStack(w, 0)
  BY DEF Operand
<1>4. fetchStack(w, 0) = fetchStack(x, 0) /\ fetchStack(w, 1) = fetchStack(x, 1)
  BY <1>1 DEF fetchStack
<1>5. a = A /\ (InBank(w, i) => b = B)
  BY <1>2, <1>3, <1>4
<1>6. Stacked(w, i.mode) <=> Stacked(x, i.mode)
  BY <1>1 DEF Stacked
<1>7. InBank(w, i) => AddressOK(w, i)
  BY DEF InBank, Accessed, AddressOK
<1>8. optALU(w, i) # {} <=> Stacked(w, i.mode) /\ AddressOK(w, i)
  BY DEF optALU, When
<1>9. step_ALU(x, i) # {} <=> Stacked(x, i.mode)
  BY DEF step_ALU, When, Stacked
<1> HIDE DEF w, A, B, a, b
<1>10. ASSUME NEW n \in optALU(w, i)
       PROVE  /\ a \in WordSet /\ b \in WordSet
              /\ Computed(n, w, i, a, b, PyFlags(i.op, a, b))
  BY <1>1, <1>2, ALUPython DEF a, b
<1>11. ASSUME NEW q \in step_ALU(x, i)
       PROVE  /\ A \in WordSet /\ B \in WordSet
              /\ Computed(q, x, i, A, B, CFlags(x.flags, i.op, A, B))
  BY <1>1, <1>2, ALUOfC DEF A, B
<1>12. Effects(optALU(w, i), step_ALU(x, i), w, x)
  BY <1>6, <1>8, <1>9, <1>10, <1>11 DEF Effects, Computed
<1>13. ASSUME InBank(w, i), NEW n \in optALU(w, i), NEW q \in step_ALU(x, i)
       PROVE  Agree(n, q, i)
  <2>1. a = A /\ b = B /\ A \in WordSet /\ B \in WordSet
    BY <1>5, <1>11, <1>13
  <2>2. Computed(n, w, i, A, B, PyFlags(i.op, A, B)) /\ Computed(q, x, i, A, B, CFlags(x.flags, i.op, A, B))
    BY <1>10, <1>11, <2>1
  <2>3. n.pc = q.pc /\ n.sp = q.sp
    BY <1>1, <2>2 DEF Computed
  <2>4. ASSUME NEW s \in 0 .. n.sp - 1 PROVE n.hw[s] = q.hw[s]
    <3>1. n.sp \in 0 .. Depth
      BY <2>2 DEF Computed, Quiet
    <3>2. CASE s = n.sp - 1
      BY <1>1, <2>2, <2>3, <3>2 DEF Computed
    <3>3. CASE s # n.sp - 1
      <4>1. s \in 0 .. n.sp - 2
        BY <3>1, <3>3, Slots
      <4> QED
        BY <1>1, <2>2, <2>3, <4>1 DEF Computed
    <3> QED
      BY <3>2, <3>3
  <2>5. x.flags \in WordSet
    BY <1>1 DEF Shape
  <2>6. /\ FlagsAfter(n.flags, i.op, A, B)
        /\ FlagsAfter(q.flags, i.op, A, B)
    BY <2>1, <2>2, <2>5, PyFlagsAfter, CFlagsAfter DEF Computed, ALUCode
  <2>7. \A bit \in Promised(i) : Has(n.flags, bit) <=> Has(q.flags, bit)
    BY <2>6 DEF FlagsAfter, Promised
  <2> QED
    BY <2>3, <2>4, <2>7 DEF Agree
<1>14. InBank(w, i) => Agreeing(optALU(w, i), step_ALU(x, i), i)
  BY <1>6, <1>7, <1>8, <1>9, <1>13 DEF Agreeing
<1> QED
  BY <1>12, <1>14 DEF w

-----------------------------------------------------------------------------
OnTopResult(op, a, k) ==
  CASE op = "RRTC"  -> a \div 2 + (IF k THEN Half ELSE 0)
    [] op = "RLTC"  -> ((2 * a) % WordSize) + (IF k THEN 1 ELSE 0)
    [] op = "SHR"   -> a \div 2
    [] op = "SHL"   -> (2 * a) % WordSize
    [] op = "INV"   -> WordSize - 1 - a
    [] op = "COMP2" -> (WordSize - a) % WordSize

\* A rotate, a shift or a complement gives a word.
LEMMA OnTopWord ==
  ASSUME NEW op \in OnTop, NEW a \in WordSet, NEW k
  PROVE  OnTopResult(op, a, k) \in WordSet
<1>1. a \in Nat /\ a < 2 * Half /\ Half \in Nat /\ Half > 0 /\ WordSize = 2 * Half
      /\ WordSet = 0 .. 2 * Half - 1
  BY Numbers DEF WordSet
<1>2. a \div 2 \in Nat /\ a \div 2 < Half
  BY <1>1
<1>3. (2 * a) % WordSize \in Nat /\ ((2 * a) % WordSize) + 1 < WordSize
  <2>1. CASE a >= Half
    <3>1. 2 * a = 1 * WordSize + (2 * a - WordSize) /\ 2 * a - WordSize \in 0 .. WordSize - 1
      BY <1>1, <2>1
    <3>2. (2 * a) % WordSize = 2 * a - WordSize
      BY <1>1, <3>1, ModIs
    <3> QED
      BY <1>1, <2>1, <3>2
  <2>2. CASE ~ (a >= Half)
    <3>1. 2 * a = 0 * WordSize + 2 * a /\ 2 * a \in 0 .. WordSize - 1
      BY <1>1, <2>2
    <3>2. (2 * a) % WordSize = 2 * a
      BY <1>1, <3>1, ModIs
    <3> QED
      BY <1>1, <2>2, <3>2
  <2> QED
    BY <2>1, <2>2
<1>4. (WordSize - a) % WordSize \in 0 .. WordSize - 1
  BY <1>1
<1>5. CASE op = "RRTC"
  BY <1>1, <1>2, <1>5 DEF OnTopResult
<1>6. CASE op = "RLTC"
  BY <1>1, <1>3, <1>6 DEF OnTopResult
<1>7. CASE op \in {"SHR", "SHL"}
  BY <1>1, <1>2, <1>3, <1>7 DEF OnTopResult
<1>8. CASE op \in {"INV", "COMP2"}
  BY <1>1, <1>4, <1>8 DEF OnTopResult
<1> QED
  BY <1>5, <1>6, <1>7, <1>8 DEF OnTop

OnTopPy(flags, op, a) ==
  CASE op \in {"RRTC", "SHR"} -> flags - Bit(CF(flags), 4) + Bit(a % 2 = 1, 4)
    [] op \in {"RLTC", "SHL"} ->
         Bit(ZF(flags), 1) + Bit(NF(flags), 2) + Bit(OF(flags), 8) + Bit(Negative(a), 4)
    [] OTHER -> SetFlags(OnTopResult(op, a, CF(flags)))

OnTopC(flags, op, a) ==
  CASE op \in {"RRTC", "SHR"} -> Put(flags, FL_C, a % 2 = 1)
    [] op \in {"RLTC", "SHL"} -> Put(flags, FL_C, a >= Half)
    [] OTHER -> set_zn(0, OnTopResult(op, a, CF(flags)))

SameBits(f, g) == \A bit \in BitsOfFlags : Has(f, bit) <=> Has(g, bit)

\* Both emulators compute the same flags of it.
LEMMA OnTopFlags ==
  ASSUME NEW flags \in WordSet, NEW op \in OnTop, NEW a \in WordSet
  PROVE  /\ OnTopPy(flags, op, a) \in WordSet
         /\ OnTopC(flags, op, a) \in WordSet
         /\ SameBits(OnTopPy(flags, op, a), OnTopC(flags, op, a))
<1> DEFINE f == OnTopPy(flags, op, a)
           g == OnTopC(flags, op, a)
           r == OnTopResult(op, a, CF(flags))
<1>1. 4 \in BitsOfFlags
  BY DEF BitsOfFlags
<1>2. CASE op \in {"RRTC", "SHR"}
  <2> DEFINE v == IF a % 2 = 1 THEN 4 ELSE 0
  <2>1. f = With(flags, 4, v)
    BY <1>2, Numbers DEF OnTopPy, With, Without, CF, Bit, WordSet
  <2>2. g = With(flags, 4, v)
    BY <1>2 DEF OnTopC, With, Put, FL_C
  <2>3. v \in {0, 4}
    OBVIOUS
  <2> HIDE DEF v
  <2>4. With(flags, 4, v) \in WordSet
    BY <1>1, <2>3, HasWith
  <2> QED
    BY <2>1, <2>2, <2>4 DEF SameBits
<1>3. CASE op \in {"RLTC", "SHL"}
  <2> DEFINE z == IF ZF(flags) THEN 1 ELSE 0
             n == IF NF(flags) THEN 2 ELSE 0
             o == IF OF(flags) THEN 8 ELSE 0
             k == IF Negative(a) THEN 4 ELSE 0
  <2>1. f = z + n + o + k
    BY <1>3 DEF OnTopPy, Bit
  <2>2. g = With(flags, 4, k)
    BY <1>3 DEF OnTopC, With, Put, FL_C, Negative
  <2>3. z \in {0, 1} /\ n \in {0, 2} /\ k \in {0, 4} /\ o \in {0, 8}
    OBVIOUS
  <2>4. (z = 1 <=> Has(flags, 1)) /\ (n = 2 <=> Has(flags, 2)) /\ (o = 8 <=> Has(flags, 8))
    BY DEF ZF, NF, OF
  <2> HIDE DEF z, n, o, k
  <2>5. z + n + o + k = z + n + k + o
    BY <2>3
  <2>6. /\ z + n + k + o \in WordSet
        /\ Has(z + n + k + o, 1) <=> z = 1
        /\ Has(z + n + k + o, 2) <=> n = 2
        /\ Has(z + n + k + o, 4) <=> k = 4
        /\ Has(z + n + k + o, 8) <=> o = 8
    BY <2>3, HasBits
  <2>7. With(flags, 4, k) \in WordSet
    BY <1>1, <2>3, HasWith
  <2>8. Has(With(flags, 4, k), 4) <=> k = 4
    BY <1>1, <2>3, HasWith
  <2>9. \A other \in BitsOfFlags \ {4} : Has(With(flags, 4, k), other) <=> Has(flags, other)
    BY <1>1, <2>3, HasWith
  <2>10. f \in WordSet /\ g \in WordSet
    BY <2>1, <2>2, <2>5, <2>6, <2>7
  <2>11. /\ Has(f, 1) <=> Has(flags, 1)
         /\ Has(f, 2) <=> Has(flags, 2)
         /\ Has(f, 4) <=> k = 4
         /\ Has(f, 8) <=> Has(flags, 8)
    BY <2>1, <2>4, <2>5, <2>6
  <2>12. /\ Has(g, 1) <=> Has(flags, 1)
         /\ Has(g, 2) <=> Has(flags, 2)
         /\ Has(g, 4) <=> k = 4
         /\ Has(g, 8) <=> Has(flags, 8)
    BY <2>2, <2>8, <2>9 DEF BitsOfFlags
  <2> QED
    BY <2>10, <2>11, <2>12 DEF SameBits, BitsOfFlags
<1>4. CASE op \in {"INV", "COMP2"}
  <2> DEFINE z == IF r = 0 THEN 1 ELSE 0
             n == IF Negative(r) THEN 2 ELSE 0
  <2>1. f = z + n /\ g = set_zn(0, r)
    BY <1>4 DEF OnTopPy, OnTopC, SetFlags, Bit
  <2>2. r \in WordSet /\ 0 \in WordSet
    BY OnTopWord, Numbers DEF WordSet
  <2> HIDE DEF r
  <2>3. z \in {0, 1} /\ n \in {0, 2} /\ (z = 1 <=> r = 0) /\ (n = 2 <=> Negative(r))
    OBVIOUS
  <2> HIDE DEF z, n
  <2>4. z + n = z + n + 0 + 0
    BY <2>3
  <2>5. /\ z + n + 0 + 0 \in WordSet
        /\ Has(z + n + 0 + 0, 1) <=> z = 1
        /\ Has(z + n + 0 + 0, 2) <=> n = 2
        /\ ~ Has(z + n + 0 + 0, 4)
        /\ ~ Has(z + n + 0 + 0, 8)
    BY <2>3, HasBits
  <2>6. ~ Has(0, 4) /\ ~ Has(0, 8)
    BY DEF Has
  <2>7. /\ set_zn(0, r) \in WordSet
        /\ Has(set_zn(0, r), 1) <=> r = 0
        /\ Has(set_zn(0, r), 2) <=> Negative(r)
        /\ ~ Has(set_zn(0, r), 4)
        /\ ~ Has(set_zn(0, r), 8)
    BY <2>2, <2>6, SetZN
  <2> QED
    BY <2>1, <2>3, <2>4, <2>5, <2>7 DEF SameBits, BitsOfFlags
<1> QED
  BY <1>2, <1>3, <1>4 DEF OnTop

\* Both do the same to the top of the stack.
LEMMA OnTopAgree ==
  ASSUME NEW x, IsMachine(x), NEW i, i.op \in OnTop
  PROVE  /\ Effects(optOnTop(View(x), i), step_OnTop(x, i), View(x), x)
         /\ Agreeing(optOnTop(View(x), i), step_OnTop(x, i), i)
<1> DEFINE w == View(x)
           a == fetchStack(x, 0)
           r == OnTopResult(i.op, a, CF(x.flags))
           f == OnTopPy(x.flags, i.op, a)
           g == OnTopC(x.flags, i.op, a)
           y == [w EXCEPT !.flags = f]
           z == [x EXCEPT !.flags = g]
<1>1. /\ Whole(w) /\ Whole(x) /\ x.sp \in 0 .. Depth /\ x.hw \in Stack
      /\ x.pc \in WordSet /\ x.flags \in WordSet
      /\ w.pc = x.pc /\ w.sp = x.sp /\ w.hw = x.hw /\ w.flags = x.flags
  BY ViewShape, MachineShape DEF Shape
<1>2. optOnTop(w, i) = When(x.sp >= 1, StoreAcum(y, r))
  <2>1. fetchStack(w, 0) = a
    BY <1>1 DEF fetchStack
  <2>2. r = CASE i.op = "RRTC"  -> a \div 2 + Bit(CF(x.flags), Half)
              [] i.op = "RLTC"  -> ((2 * a) % WordSize) + Bit(CF(x.flags), 1)
              [] i.op = "SHR"   -> a \div 2
              [] i.op = "SHL"   -> (2 * a) % WordSize
              [] i.op = "INV"   -> WordSize - 1 - a
              [] i.op = "COMP2" -> (WordSize - a) % WordSize
    BY DEF OnTopResult, Bit, OnTop
  <2> HIDE DEF a, r
  <2> QED
    BY <1>1, <2>1, <2>2 DEF optOnTop, OnTopPy, r
<1>3. x.sp >= 1 => a = peek0(x) /\ a \in WordSet /\ x.sp \in 1 .. Depth
  <2>1. PICK k \in 0 .. Depth : k = x.sp
    BY <1>1
  <2>2. k >= 1 => k \in 1 .. Depth /\ k - 1 \in 0 .. Depth - 1
    BY Slots
  <2>3. k >= 1 => x.hw[k - 1] \in WordSet
    BY <1>1, <2>2 DEF Stack
  <2>4. k - 1 - 0 = k - 1
    BY <2>1
  <2> QED
    BY <2>1, <2>2, <2>3, <2>4 DEF fetchStack, peek0
<1>4. step_OnTop(x, i) = When(x.sp >= 1, set_top(z, r))
  <2>1. CASE ~ (x.sp >= 1)
    BY <2>1 DEF step_OnTop, When
  <2>2. CASE x.sp >= 1
    <3> DEFINE carry == IF Has(x.flags, FL_C) THEN 1 ELSE 0
    <3>1. /\ i.op = "RRTC" => r = a \div 2 + Half * carry
          /\ i.op = "RLTC" => r = ((2 * a) % WordSize) + carry
          /\ i.op = "SHR" => r = a \div 2
          /\ i.op = "SHL" => r = (2 * a) % WordSize
          /\ i.op = "INV" => r = WordSize - 1 - a
          /\ i.op = "COMP2" => r = (WordSize - a) % WordSize
      BY Numbers DEF OnTopResult, CF, FL_C
    <3>2. peek0(x) = a
      BY <1>3, <2>2
    <3>3. z = [x EXCEPT !.flags = g]
      OBVIOUS
    <3>4. /\ i.op \in {"RRTC", "SHR"} => g = Put(x.flags, FL_C, a % 2 = 1)
          /\ i.op \in {"RLTC", "SHL"} => g = Put(x.flags, FL_C, a >= Half)
          /\ i.op \in {"INV", "COMP2"} => g = set_zn(0, r)
      BY DEF OnTopC
    <3> HIDE DEF a, r, g, z
    <3>5. CASE i.op = "RRTC"
      BY <2>2, <3>1, <3>2, <3>3, <3>4, <3>5 DEF step_OnTop, When
    <3>6. CASE i.op = "RLTC"
      BY <2>2, <3>1, <3>2, <3>3, <3>4, <3>6 DEF step_OnTop, When
    <3>7. CASE i.op \in {"SHR", "SHL"}
      BY <2>2, <3>1, <3>2, <3>3, <3>4, <3>7 DEF step_OnTop, When
    <3>8. CASE i.op \in {"INV", "COMP2"}
      BY <2>2, <3>1, <3>2, <3>3, <3>4, <3>8 DEF step_OnTop, When
    <3> QED
      BY <3>5, <3>6, <3>7, <3>8 DEF OnTop
  <2> QED
    BY <2>1, <2>2
<1> HIDE DEF a, r, f, g
<1>5. CASE ~ (x.sp >= 1)
  BY <1>2, <1>4, <1>5 DEF When, Effects, Agreeing
<1>6. CASE x.sp >= 1
  <2>1. a \in WordSet /\ x.sp \in 1 .. Depth
    BY <1>3, <1>6
  <2>2. r \in WordSet /\ f \in WordSet /\ g \in WordSet /\ SameBits(f, g)
    BY <1>1, <2>1, OnTopWord, OnTopFlags DEF r, f, g
  <2>3. /\ Whole(y) /\ Beside(y, w)
        /\ y.pc = w.pc /\ y.flags = f /\ y.sp = w.sp /\ y.hw = w.hw
    BY <1>1, FlagsSet
  <2>4. /\ Whole(z) /\ Beside(z, x)
        /\ z.pc = x.pc /\ z.flags = g /\ z.sp = x.sp /\ z.hw = x.hw
    BY <1>1, FlagsSet
  <2> DEFINE n == StoreAcum(y, r)
             q == StoreAcum(z, r)
  <2> HIDE DEF y, z
  <2>5. /\ Whole(n) /\ Beside(n, y)
        /\ n.pc = y.pc /\ n.flags = y.flags /\ n.sp = y.sp
        /\ n.hw \in Stack /\ n.hw[n.sp - 1] = r
        /\ \A s \in 0 .. n.sp - 2 : n.hw[s] = y.hw[s]
    BY <1>1, <2>1, <2>2, <2>3, TopSet
  <2>6. /\ q = set_top(z, r)
        /\ Whole(q) /\ Beside(q, z)
        /\ q.pc = z.pc /\ q.flags = z.flags /\ q.sp = z.sp
        /\ q.hw \in Stack /\ q.hw[q.sp - 1] = r
        /\ \A s \in 0 .. q.sp - 2 : q.hw[s] = z.hw[s]
    BY <1>1, <2>1, <2>2, <2>4, TopSet
  <2>7. optOnTop(w, i) = {n} /\ step_OnTop(x, i) = {q}
    BY <1>2, <1>4, <1>6, <2>6 DEF When
  <2> HIDE DEF n, q
  <2>8. Quiet(n, w) /\ Quiet(q, x)
    BY <1>1, <2>2, <2>3, <2>4, <2>5, <2>6 DEF Quiet, Beside
  <2>9. n.pc = q.pc /\ n.sp = q.sp /\ \A s \in 0 .. n.sp - 1 : n.hw[s] = q.hw[s]
    <3>1. n.pc = q.pc /\ n.sp = q.sp /\ n.sp \in 1 .. Depth
      BY <1>1, <2>1, <2>3, <2>4, <2>5, <2>6
    <3>2. \A s \in 0 .. n.sp - 1 : s = n.sp - 1 \/ s \in 0 .. n.sp - 2
      BY <3>1
    <3> QED
      BY <1>1, <2>3, <2>4, <2>5, <2>6, <3>1, <3>2
  <2>10. \A bit \in Promised(i) : Has(n.flags, bit) <=> Has(q.flags, bit)
    BY <2>2, <2>3, <2>4, <2>5, <2>6 DEF SameBits, Promised, BitsOfFlags
  <2>11. Agree(n, q, i)
    BY <2>9, <2>10 DEF Agree
  <2> QED
    BY <2>7, <2>8, <2>11 DEF Effects, Agreeing
<1> QED
  BY <1>5, <1>6 DEF w

-----------------------------------------------------------------------------
JumpCode(i) ==
  /\ i.op \in CondJumps \cup {"JMP"}
  /\ i.mode = "" \/ (i.op = "JMP" /\ i.mode = "I")

\* A machine that nothing has happened to.
LEMMA Unmoved ==
  ASSUME NEW x, NEW addresses, Shape(x, addresses)
  PROVE  Quiet(x, x)
BY DEF Shape, Quiet, Beside

\* Both jump to the same address, unless the target stands at the last one.
LEMMA JumpAgree ==
  ASSUME NEW x, IsMachine(x), NEW i, JumpCode(i), i.arg \in WordSet
  PROVE  /\ Effects(optJump(View(x), i), step_JMP(x, i), View(x), x)
         /\ i.arg # MAXMEMSP => Agreeing(optJump(View(x), i), step_JMP(x, i), i)
<1> DEFINE w == View(x)
           taken == CASE i.op = "JMPZ" -> ZF(w.flags) [] i.op = "JMPN" -> NF(w.flags)
                      [] i.op = "JMPC" -> CF(w.flags) [] i.op = "JMPO" -> OF(w.flags)
                      [] i.op = "JMP"  -> TRUE
           p == IF i.mode = "I" THEN getwordat(w, i.arg) ELSE i.arg
           P == [w EXCEPT !.pc = p]
           Q == [x EXCEPT !.pc = argument(x, i)]
<1>1. /\ Shape(w, WordSet) /\ Shape(x, DOMAIN x.mem)
      /\ Whole(w) /\ Whole(x) /\ x.sp \in 0 .. Depth /\ x.hw \in Stack
      /\ x.pc \in WordSet /\ x.flags \in WordSet
      /\ w.pc = x.pc /\ w.sp = x.sp /\ w.hw = x.hw /\ w.flags = x.flags
  BY ViewShape, MachineShape, BaseRange DEF Shape
<1>2. p \in WordSet /\ argument(x, i) \in WordSet /\ (i.arg # MAXMEMSP => p = argument(x, i))
  <2>1. i.mode \in {"", "I"}
    BY DEF JumpCode
  <2> QED
    BY <2>1, SameWord DEF argument
<1>3. /\ Whole(P) /\ Beside(P, w)
      /\ P.pc = p /\ P.flags = w.flags /\ P.sp = w.sp /\ P.hw = w.hw
  BY <1>1, PcSet
<1>4. /\ Whole(Q) /\ Beside(Q, x)
      /\ Q.pc = argument(x, i) /\ Q.flags = x.flags /\ Q.sp = x.sp /\ Q.hw = x.hw
  BY <1>1, PcSet
<1>5. optJump(w, i) = IF i.mode = "I" THEN {P}
                      ELSE IF i.arg # MAXMEMSP THEN {IF taken THEN P ELSE w} ELSE {}
  BY DEF optJump, When
<1>6. step_JMP(x, i) = {IF taken THEN Q ELSE x}
  <2> DEFINE tested == [JMPZ |-> FL_Z, JMPN |-> FL_N, JMPC |-> FL_C, JMPO |-> FL_O]
  <2>1. (i.op = "JMP" \/ Has(x.flags, tested[i.op])) <=> taken
    <3>1. i.op \in CondJumps \cup {"JMP"} /\ w.flags = x.flags
      BY <1>1 DEF JumpCode
    <3> HIDE DEF w
    <3>2. CASE i.op = "JMPZ"
      <4>1. taken <=> ZF(w.flags)
        BY <3>2
      <4>2. tested[i.op] = FL_Z
        BY <3>2
      <4> QED
        BY <3>1, <3>2, <4>1, <4>2 DEF ZF, FL_Z
    <3>3. CASE i.op = "JMPN"
      <4>1. taken <=> NF(w.flags)
        BY <3>3
      <4>2. tested[i.op] = FL_N
        BY <3>3
      <4> QED
        BY <3>1, <3>3, <4>1, <4>2 DEF NF, FL_N
    <3>4. CASE i.op = "JMPC"
      <4>1. taken <=> CF(w.flags)
        BY <3>4
      <4>2. tested[i.op] = FL_C
        BY <3>4
      <4> QED
        BY <3>1, <3>4, <4>1, <4>2 DEF CF, FL_C
    <3>5. CASE i.op = "JMPO"
      <4>1. taken <=> OF(w.flags)
        BY <3>5
      <4>2. tested[i.op] = FL_O
        BY <3>5
      <4> QED
        BY <3>1, <3>5, <4>1, <4>2 DEF OF, FL_O
    <3>6. CASE i.op = "JMP"
      BY <3>6
    <3> QED
      BY <3>1, <3>2, <3>3, <3>4, <3>5, <3>6 DEF CondJumps
  <2> HIDE DEF taken
  <2> QED
    BY <2>1 DEF step_JMP
<1>7. i.mode = "I" => taken
  BY DEF JumpCode, CondJumps
<1>8. Quiet(P, w) /\ Quiet(w, w) /\ Quiet(Q, x) /\ Quiet(x, x)
  BY <1>1, <1>2, <1>3, <1>4, Unmoved DEF Quiet
<1>9. ASSUME i.arg # MAXMEMSP
      PROVE  Agree(P, Q, i) /\ Agree(w, x, i)
  BY <1>1, <1>2, <1>3, <1>4, <1>9 DEF Agree
<1> HIDE DEF taken, P, Q, w
<1>10. Effects(optJump(w, i), step_JMP(x, i), w, x)
  BY <1>5, <1>6, <1>8 DEF Effects
<1>11. ASSUME i.arg # MAXMEMSP
       PROVE  Agreeing(optJump(w, i), step_JMP(x, i), i)
  BY <1>5, <1>6, <1>7, <1>9, <1>11 DEF Agreeing
<1> QED
  BY <1>10, <1>11 DEF w

-----------------------------------------------------------------------------
\* w and x have the same registers and stack.
Twins(w, x) ==
  /\ Whole(w) /\ Whole(x)
  /\ x.pc \in WordSet /\ x.flags \in WordSet /\ x.sp \in 0 .. Depth /\ x.hw \in Stack
  /\ w.pc = x.pc /\ w.flags = x.flags /\ w.sp = x.sp /\ w.hw = x.hw

\* A machine and its active bank have the same registers and stack.
LEMMA ViewTwins ==
  ASSUME NEW x, IsMachine(x)
  PROVE  Twins(View(x), x)
BY ViewShape, MachineShape DEF Shape, Twins

\* optPUSH and push16 are the same, and fail on a full stack.
LEMMA PushQuiet ==
  ASSUME NEW x, Whole(x), x.pc \in WordSet, x.flags \in WordSet,
         x.sp \in 0 .. Depth, x.hw \in Stack, NEW v \in WordSet
  PROVE  /\ \A y \in optPUSH(x, v) : Quiet(y, x)
         /\ optPUSH(x, v) = {} <=> x.sp = Depth
         /\ optPUSH(x, v) = push16(x, v)
<1>1. ASSUME NEW y \in optPUSH(x, v) PROVE Quiet(y, x)
  <2>1. /\ Whole(y) /\ Beside(y, x)
        /\ y.pc = x.pc /\ y.flags = x.flags /\ y.sp \in 1 .. Depth /\ y.hw \in Stack
    BY PushedOn
  <2>2. y.sp \in 0 .. Depth
    BY <2>1, Numbers
  <2> QED
    BY <2>1, <2>2 DEF Quiet
<1>2. x.sp < Depth <=> ~ (x.sp = Depth)
  BY Numbers
<1> QED
  BY <1>1, <1>2 DEF optPUSH, push16, When

\* Two machines with the same registers push the same.
LEMMA PushAgree ==
  ASSUME NEW w, NEW x, Twins(w, x), NEW v \in WordSet, NEW u \in WordSet, NEW i
  PROVE  /\ Effects(optPUSH(w, v), push16(x, u), w, x)
         /\ v = u => Agreeing(optPUSH(w, v), push16(x, u), i)
<1>1. Effects(optPUSH(w, v), push16(x, u), w, x)
  BY PushQuiet DEF Twins, Effects
<1>2. optPUSH(w, v) = {} => push16(x, u) = {}
  BY PushQuiet DEF Twins
<1>3. ASSUME v = u, NEW n \in optPUSH(w, v), NEW q \in push16(x, u)
      PROVE  Agree(n, q, i)
  <2>1. q \in optPUSH(x, v)
    BY <1>3, PushQuiet DEF Twins
  <2>2. /\ n.pc = w.pc /\ n.flags = w.flags /\ n.sp = w.sp + 1 /\ n.hw[w.sp] = v
        /\ \A s \in 0 .. w.sp - 1 : n.hw[s] = w.hw[s]
    BY <1>3, PushedOn DEF Twins
  <2>3. /\ q.pc = x.pc /\ q.flags = x.flags /\ q.sp = x.sp + 1 /\ q.hw[x.sp] = v
        /\ \A s \in 0 .. x.sp - 1 : q.hw[s] = x.hw[s]
    BY <2>1, PushedOn DEF Twins
  <2>4. \A s \in 0 .. n.sp - 1 : s = x.sp \/ s \in 0 .. x.sp - 1
    BY <2>2 DEF Twins
  <2> QED
    BY <2>2, <2>3, <2>4 DEF Agree, Twins
<1> QED
  BY <1>1, <1>2, <1>3 DEF Agreeing

\* Two machines with the same registers replace the top in the same way.
LEMMA TopAgree ==
  ASSUME NEW w, NEW x, Twins(w, x), NEW v \in WordSet, NEW u \in WordSet, NEW i
  PROVE  /\ Effects(When(w.sp >= 1, StoreAcum(w, v)), When(x.sp >= 1, set_top(x, u)), w, x)
         /\ v = u => Agreeing(When(w.sp >= 1, StoreAcum(w, v)),
                              When(x.sp >= 1, set_top(x, u)), i)
<1>1. CASE ~ (x.sp >= 1)
  BY <1>1 DEF When, Twins, Effects, Agreeing
<1>2. CASE x.sp >= 1
  <2> DEFINE n == StoreAcum(w, v)
             q == StoreAcum(x, u)
  <2>1. x.sp \in 1 .. Depth
    BY <1>2, Slots DEF Twins
  <2>2. /\ Whole(n) /\ Beside(n, w)
        /\ n.pc = w.pc /\ n.flags = w.flags /\ n.sp = w.sp
        /\ n.hw \in Stack /\ n.hw[n.sp - 1] = v
        /\ \A s \in 0 .. n.sp - 2 : n.hw[s] = w.hw[s]
    BY <2>1, TopSet DEF Twins
  <2>3. /\ q = set_top(x, u)
        /\ Whole(q) /\ Beside(q, x)
        /\ q.pc = x.pc /\ q.flags = x.flags /\ q.sp = x.sp
        /\ q.hw \in Stack /\ q.hw[q.sp - 1] = u
        /\ \A s \in 0 .. q.sp - 2 : q.hw[s] = x.hw[s]
    BY <2>1, TopSet DEF Twins
  <2>4. When(w.sp >= 1, StoreAcum(w, v)) = {n} /\ When(x.sp >= 1, set_top(x, u)) = {q}
    BY <1>2, <2>3 DEF When, Twins
  <2> HIDE DEF n, q
  <2>5. Quiet(n, w) /\ Quiet(q, x)
    BY <2>2, <2>3 DEF Quiet, Twins
  <2>6. \A s \in 0 .. n.sp - 1 : s = n.sp - 1 \/ s \in 0 .. n.sp - 2
    BY <2>1, <2>2 DEF Twins
  <2>7. v = u => Agree(n, q, i)
    BY <2>2, <2>3, <2>6 DEF Agree, Twins
  <2> QED
    BY <2>4, <2>5, <2>7 DEF Effects, Agreeing
<1> QED
  BY <1>1, <1>2

PushCode(i) == i.op = "PUSH" /\ i.mode \in {"", "I", "II", "S"}

\* PUSH, in all its modes.
LEMMA PushFromAgree ==
  ASSUME NEW x, IsMachine(x), NEW i, PushCode(i), i.arg \in WordSet
  PROVE  /\ Effects(optPushFrom(View(x), i), step_PUSH(x, i), View(x), x)
         /\ InBank(View(x), i) => Agreeing(optPushFrom(View(x), i), step_PUSH(x, i), i)
<1> DEFINE w == View(x)
<1>1. Twins(w, x)
  BY ViewTwins
<1>2. CASE i.mode = "S"
  <2> DEFINE a == w.hw[w.sp - 1]
  <2>1. w.sp - 1 - 0 = w.sp - 1 /\ fetchStack(w, 0) = a /\ peek0(x) = a
    BY <1>1, Numbers DEF fetchStack, peek0, Twins
  <2>2. optPushFrom(w, i) = When(w.sp >= 1, StoreAcum(w, getwordat(w, a)))
    BY <1>2, <2>1 DEF optPushFrom
  <2>3. step_PUSH(x, i) = When(x.sp >= 1, set_top(x, get16(x, a)))
    BY <1>2, <2>1 DEF step_PUSH
  <2>4. CASE ~ (x.sp >= 1)
    BY <1>1, <2>2, <2>3, <2>4 DEF Twins, When, Effects, Agreeing
  <2>5. CASE x.sp >= 1
    <3>1. a \in WordSet
      BY <1>1, <2>5, Slots DEF Twins, Stack
    <3>2. InBank(w, i) => a # MAXMEMSP
      BY <1>1, <1>2, <2>1, <2>5 DEF InBank, Accessed, Twins, PushCode
    <3>3. /\ getwordat(w, a) \in WordSet /\ get16(x, a) \in WordSet
          /\ InBank(w, i) => getwordat(w, a) = get16(x, a)
      BY <3>1, <3>2, SameWord
    <3> HIDE DEF w, a
    <3> QED
      BY <1>1, <2>2, <2>3, <3>3, TopAgree DEF w
  <2> QED
    BY <2>4, <2>5
<1>3. CASE i.mode # "S"
  <2> DEFINE b == Operand(w, i)
  <2>1. /\ b \in WordSet /\ argument(x, i) \in WordSet
        /\ InBank(w, i) => b = argument(x, i)
    BY <1>3, OperandWord DEF PushCode
  <2>2. step_PUSH(x, i) = push16(x, argument(x, i))
    BY <1>3 DEF step_PUSH
  <2>3. /\ Effects(optPUSH(w, b), push16(x, argument(x, i)), w, x)
        /\ b = argument(x, i) => Agreeing(optPUSH(w, b), push16(x, argument(x, i)), i)
    BY <1>1, <2>1, PushAgree
  <2>4. optPushFrom(w, i) = optPUSH(w, b) \/ optPushFrom(w, i) = {}
    BY <1>3 DEF optPushFrom, Operand, PushCode
  <2>5. InBank(w, i) => optPushFrom(w, i) = optPUSH(w, b)
    BY <1>3 DEF optPushFrom, Operand, InBank, Accessed, PushCode
  <2> HIDE DEF w, b
  <2>6. Effects(optPushFrom(w, i), step_PUSH(x, i), w, x)
    BY <2>2, <2>3, <2>4 DEF Effects
  <2>7. InBank(w, i) => Agreeing(optPushFrom(w, i), step_PUSH(x, i), i)
    BY <2>1, <2>2, <2>3, <2>5
  <2> QED
    BY <2>6, <2>7 DEF w
<1> QED
  BY <1>2, <1>3

-----------------------------------------------------------------------------
\* DUP: they differ on an empty stack only, where C refuses it.
LEMMA DupAgree ==
  ASSUME NEW x, IsMachine(x), NEW i, i.op = "DUP"
  PROVE  LET P == optPlain(View(x), i)
             C == step_Plain(x, i)
         IN  /\ \A n \in P : Quiet(n, View(x))
             /\ \A q \in C : Quiet(q, x)
             /\ x.sp # 0 => (C = {} => P = {})
             /\ Agreeing(P, C, i)
<1> DEFINE w == View(x)
           a == w.hw[(w.sp + Depth - 1) % Depth]
<1>1. Twins(w, x)
  BY ViewTwins
<1>2. optPlain(w, i) = optPUSH(w, a)
  BY DEF optPlain, optDUP
<1>3. step_Plain(x, i) = IF x.sp >= 1 THEN push16(x, peek0(x)) ELSE {}
  BY DEF step_Plain
<1>4. (w.sp + Depth - 1) % Depth \in 0 .. Depth - 1
  BY <1>1, Numbers DEF Twins
<1>5. a \in WordSet
  BY <1>1, <1>4 DEF Twins, Stack
<1>6. x.sp >= 1 => a = peek0(x)
  <2> SUFFICES ASSUME x.sp >= 1 PROVE a = peek0(x)
    OBVIOUS
  <2>1. x.sp - 1 \in 0 .. Depth - 1 /\ x.sp + Depth - 1 = 1 * Depth + (x.sp - 1)
    BY <1>1, Numbers DEF Twins
  <2>2. (x.sp + Depth - 1) % Depth = x.sp - 1
    BY <2>1, Numbers, ModIs
  <2> QED
    BY <1>1, <2>2 DEF Twins, peek0
<1>7. \A n \in optPlain(w, i) : Quiet(n, w)
  BY <1>1, <1>2, <1>5, PushQuiet DEF Twins
<1>8. CASE x.sp >= 1
  <2> HIDE DEF w, a
  <2>1. peek0(x) \in WordSet
    BY <1>5, <1>6, <1>8
  <2>2. /\ Effects(optPUSH(w, a), push16(x, peek0(x)), w, x)
        /\ Agreeing(optPUSH(w, a), push16(x, peek0(x)), i)
    BY <1>1, <1>5, <1>6, <1>8, <2>1, PushAgree
  <2> QED
    BY <1>2, <1>3, <1>8, <2>2 DEF Effects, w
<1>9. CASE ~ (x.sp >= 1)
  <2>1. x.sp = 0
    BY <1>1, <1>9 DEF Twins
  <2> QED
    BY <1>3, <1>7, <1>9, <2>1 DEF Agreeing
<1> QED
  BY <1>8, <1>9

\* SWP.
LEMMA SwapAgree ==
  ASSUME NEW x, IsMachine(x), NEW i, i.op = "SWP"
  PROVE  /\ Effects(optPlain(View(x), i), step_Plain(x, i), View(x), x)
         /\ Agreeing(optPlain(View(x), i), step_Plain(x, i), i)
<1> DEFINE w == View(x)
           h == x.hw
           swapped == [[h EXCEPT ![x.sp - 1] = h[x.sp - 2]] EXCEPT ![x.sp - 2] = h[x.sp - 1]]
           n == [w EXCEPT !.hw = swapped]
           q == [x EXCEPT !.hw = swapped]
<1>1. Twins(w, x)
  BY ViewTwins
<1>2. optPlain(w, i) = When(x.sp >= 2, n)
  BY <1>1 DEF optPlain, optSWP, Twins
<1>3. step_Plain(x, i) = When(x.sp >= 2, q)
  BY DEF step_Plain, peek0, peek1
<1>4. CASE ~ (x.sp >= 2)
  BY <1>2, <1>3, <1>4 DEF When, Effects, Agreeing
<1>5. CASE x.sp >= 2
  <2>1. /\ x.sp - 1 \in 0 .. Depth - 1 /\ x.sp - 2 \in 0 .. Depth - 1
        /\ h \in [0 .. Depth - 1 -> WordSet]
    BY <1>1, <1>5, Slots DEF Twins, Stack
  <2> HIDE DEF h
  <2>2. swapped \in Stack
    BY <2>1 DEF Stack
  <2> HIDE DEF swapped
  <2>3. /\ Whole(n) /\ Beside(n, w)
        /\ n.pc = w.pc /\ n.flags = w.flags /\ n.sp = w.sp /\ n.hw = swapped
    BY <1>1, HwSet DEF Twins
  <2>4. /\ Whole(q) /\ Beside(q, x)
        /\ q.pc = x.pc /\ q.flags = x.flags /\ q.sp = x.sp /\ q.hw = swapped
    BY <1>1, HwSet DEF Twins
  <2> HIDE DEF n, q
  <2>5. Quiet(n, w) /\ Quiet(q, x) /\ Agree(n, q, i)
    BY <1>1, <2>2, <2>3, <2>4 DEF Quiet, Agree, Twins
  <2> QED
    BY <1>2, <1>3, <1>5, <2>5 DEF When, Effects, Agreeing
<1> QED
  BY <1>4, <1>5

\* FSAV and SRPT.
LEMMA SaveAgree ==
  ASSUME NEW x, IsMachine(x), NEW i, i.op \in {"FSAV", "SRPT"}
  PROVE  /\ Effects(optPlain(View(x), i), step_Plain(x, i), View(x), x)
         /\ Agreeing(optPlain(View(x), i), step_Plain(x, i), i)
<1> DEFINE v == IF i.op = "FSAV" THEN x.flags ELSE x.sp
<1>1. Twins(View(x), x)
  BY ViewTwins
<1>2. v \in WordSet
  BY <1>1, Numbers DEF Twins, WordSet
<1>3. optPlain(View(x), i) = optPUSH(View(x), v)
  BY <1>1 DEF optPlain, Twins
<1>4. step_Plain(x, i) = push16(x, v)
  BY DEF step_Plain
<1> HIDE DEF v
<1> QED
  BY <1>1, <1>2, <1>3, <1>4, PushAgree

\* The others: they change registers only.
LEMMA PlainAgree ==
  ASSUME NEW x, IsMachine(x), NEW i,
         i.op \in {"NOP", "POPNULL", "JMPS", "FCLR", "FLOD", "SCLR"}
  PROVE  /\ Effects(optPlain(View(x), i), step_Plain(x, i), View(x), x)
         /\ Agreeing(optPlain(View(x), i), step_Plain(x, i), i)
<1> DEFINE w == View(x)
           Done(y) == CASE i.op = "NOP"     -> y
                        [] i.op = "POPNULL" -> [y EXCEPT !.sp = @ - 1]
                        [] i.op = "JMPS"    -> [y EXCEPT !.pc = x.hw[x.sp - 1], !.sp = @ - 1]
                        [] i.op = "FCLR"    -> [y EXCEPT !.flags = 0]
                        [] i.op = "FLOD"    -> [y EXCEPT !.flags = x.hw[x.sp - 1], !.sp = @ - 1]
                        [] i.op = "SCLR"    -> [y EXCEPT !.sp = 0]
           may == i.op \in {"POPNULL", "JMPS", "FLOD"} => x.sp >= 1
<1>1. Twins(w, x)
  BY ViewTwins
<1>2. fetchStack(w, 0) = x.hw[x.sp - 1] /\ peek0(x) = x.hw[x.sp - 1]
  <2>1. x.sp - 1 - 0 = x.sp - 1
    BY <1>1, Numbers DEF Twins
  <2> QED
    BY <1>1, <2>1 DEF fetchStack, peek0, Twins
<1>3. optPlain(w, i) = When(may, Done(w)) /\ step_Plain(x, i) = When(may, Done(x))
  <2>1. w.sp = x.sp
    BY <1>1 DEF Twins
  <2> HIDE DEF w
  <2>2. CASE i.op = "NOP"
    BY <2>2 DEF optPlain, step_Plain, When
  <2>3. CASE i.op = "POPNULL"
    BY <2>1, <2>3 DEF optPlain, step_Plain, optPOPNULL, When
  <2>4. CASE i.op = "JMPS"
    BY <1>2, <2>1, <2>4 DEF optPlain, step_Plain, When
  <2>5. CASE i.op = "FCLR"
    BY <2>5 DEF optPlain, step_Plain, When
  <2>6. CASE i.op = "FLOD"
    BY <1>2, <2>1, <2>6 DEF optPlain, step_Plain, When
  <2>7. CASE i.op = "SCLR"
    BY <2>7 DEF optPlain, step_Plain, When
  <2> QED
    BY <2>2, <2>3, <2>4, <2>5, <2>6, <2>7
<1>4. CASE ~ may
  BY <1>3, <1>4 DEF When, Effects, Agreeing
<1>5. CASE may
  <2> DEFINE pc == IF i.op = "JMPS" THEN x.hw[x.sp - 1] ELSE x.pc
             flags == IF i.op = "FCLR" THEN 0
                      ELSE IF i.op = "FLOD" THEN x.hw[x.sp - 1] ELSE x.flags
             sp == IF i.op \in {"POPNULL", "JMPS", "FLOD"} THEN x.sp - 1
                   ELSE IF i.op = "SCLR" THEN 0 ELSE x.sp
  <2>1. pc \in WordSet /\ flags \in WordSet /\ sp \in 0 .. Depth
    <3>1. 0 \in WordSet /\ 0 \in 0 .. Depth
      BY Numbers DEF WordSet
    <3>2. x.sp >= 1 => x.hw[x.sp - 1] \in WordSet /\ x.sp - 1 \in 0 .. Depth
      BY <1>1, Slots DEF Twins, Stack
    <3> QED
      BY <1>1, <1>5, <3>1, <3>2 DEF Twins
  <2>2. ASSUME NEW y, Whole(y), y.pc = x.pc, y.flags = x.flags, y.sp = x.sp, y.hw = x.hw
        PROVE  /\ Whole(Done(y)) /\ Beside(Done(y), y)
               /\ Done(y).pc = pc /\ Done(y).flags = flags /\ Done(y).sp = sp
               /\ Done(y).hw = x.hw
    <3>1. CASE i.op = "NOP"
      BY <2>2, <3>1 DEF Beside
    <3>2. CASE i.op = "POPNULL"
      BY <2>2, <3>2 DEF Whole, Fields, Beside
    <3>3. CASE i.op = "JMPS"
      BY <2>2, <3>3 DEF Whole, Fields, Beside
    <3>4. CASE i.op = "FCLR"
      BY <2>2, <3>4 DEF Whole, Fields, Beside
    <3>5. CASE i.op = "FLOD"
      BY <2>2, <3>5 DEF Whole, Fields, Beside
    <3>6. CASE i.op = "SCLR"
      BY <2>2, <3>6 DEF Whole, Fields, Beside
    <3> QED
      BY <3>1, <3>2, <3>3, <3>4, <3>5, <3>6
  <2> DEFINE n == Done(w)
             q == Done(x)
  <2>3. /\ Whole(n) /\ Beside(n, w)
        /\ n.pc = pc /\ n.flags = flags /\ n.sp = sp /\ n.hw = x.hw
    BY <1>1, <2>2 DEF Twins
  <2>4. /\ Whole(q) /\ Beside(q, x)
        /\ q.pc = pc /\ q.flags = flags /\ q.sp = sp /\ q.hw = x.hw
    BY <1>1, <2>2 DEF Twins
  <2>5. optPlain(w, i) = {n} /\ step_Plain(x, i) = {q}
    BY <1>3, <1>5 DEF When
  <2> HIDE DEF n, q, pc, flags, sp
  <2>6. Quiet(n, w) /\ Quiet(q, x) /\ Agree(n, q, i)
    BY <1>1, <2>1, <2>3, <2>4 DEF Quiet, Agree, Twins
  <2> QED
    BY <2>5, <2>6 DEF Effects, Agreeing
<1> QED
  BY <1>4, <1>5

-----------------------------------------------------------------------------
\* The memory of x with another bank.
Merge(x, bank) ==
  [a \in Memory(x.seg) |-> IF a - Base(x) \in WordSet THEN bank[a - Base(x)] ELSE x.mem[a]]

\* Merging a bank into the memory gives a memory, and merging the active bank gives the same.
LEMMA MergeBank ==
  ASSUME NEW x, IsMachine(x), NEW bank \in [WordSet -> Bytes]
  PROVE  /\ Merge(x, bank) \in [Memory(x.seg) -> Bytes]
         /\ Merge(x, View(x).mem) = x.mem
<1>1. /\ x.mem \in [Memory(x.seg) -> Bytes]
      /\ Base(x) \in Nat /\ \A a \in WordSet : Base(x) + a \in Memory(x.seg)
  BY MachineShape, BaseRange DEF Shape
<1>2. Merge(x, bank) \in [Memory(x.seg) -> Bytes]
  BY <1>1 DEF Merge
<1>3. Merge(x, View(x).mem) = x.mem
  <2>1. ASSUME NEW a \in Memory(x.seg)
        PROVE  Merge(x, View(x).mem)[a] = x.mem[a]
    <3>1. CASE a - Base(x) \in WordSet
      <4>0. View(x).mem = [d \in WordSet |-> x.mem[Base(x) + d]]
        BY ViewShape
      <4>1. View(x).mem[a - Base(x)] = x.mem[Base(x) + (a - Base(x))]
        BY <3>1, <4>0
      <4>2. Base(x) + (a - Base(x)) = a
        BY <1>1, Numbers DEF Memory, WordSet
      <4> QED
        BY <3>1, <4>1, <4>2 DEF Merge
    <3>2. CASE a - Base(x) \notin WordSet
      BY <3>2 DEF Merge
    <3> QED
      BY <3>1, <3>2
  <2> QED
    BY <1>1, <2>1 DEF Merge
<1> QED
  BY <1>2, <1>3

\* The memory with the byte v at a.
Poke(mem, a, v) == [mem EXCEPT ![a] = v]

\* A byte written to the bank before it is merged is a byte written to the memory.
LEMMA MergePut ==
  ASSUME NEW x, IsMachine(x), NEW bank \in [WordSet -> Bytes],
         NEW k \in WordSet, NEW v \in Bytes
  PROVE  /\ Poke(bank, k, v) \in [WordSet -> Bytes]
         /\ Merge(x, Poke(bank, k, v)) = Poke(Merge(x, bank), Base(x) + k, v)
<1>1. /\ x.mem \in [Memory(x.seg) -> Bytes]
      /\ Base(x) \in Nat /\ \A a \in WordSet : Base(x) + a \in Memory(x.seg)
  BY MachineShape, BaseRange DEF Shape
<1> DEFINE new == [bank EXCEPT ![k] = v]
           put == [Merge(x, bank) EXCEPT ![Base(x) + k] = v]
<1>2. new \in [WordSet -> Bytes]
  OBVIOUS
<1>3. ASSUME NEW a \in Memory(x.seg)
      PROVE  Merge(x, new)[a] = put[a]
  <2>1. a - Base(x) = k <=> a = Base(x) + k
    BY <1>1, Numbers DEF Memory, WordSet
  <2>2. put[a] = IF a = Base(x) + k THEN v ELSE Merge(x, bank)[a]
    BY <1>1 DEF Merge
  <2>3. \A b \in WordSet : new[b] = IF b = k THEN v ELSE bank[b]
    OBVIOUS
  <2> HIDE DEF new, put
  <2> QED
    BY <2>1, <2>2, <2>3 DEF Merge
<1>4. DOMAIN put = Memory(x.seg) /\ put = [a \in Memory(x.seg) |-> put[a]]
  BY DEF Merge
<1>5. Merge(x, new) = [a \in Memory(x.seg) |-> Merge(x, new)[a]]
  BY DEF Merge
<1> HIDE DEF new, put
<1>6. Merge(x, new) = put
  BY <1>3, <1>4, <1>5
<1> QED
  BY <1>2, <1>6 DEF new, put, Poke

\* y has the memory and the segments of the machine x: what C stores in it.
LEMMA PutOfC ==
  ASSUME NEW x, IsMachine(x), NEW y, Whole(y), y.mem = x.mem, y.seg = x.seg,
         NEW a \in WordSet, NEW v \in WordSet
  PROVE  LET q == put16(y, a, v) IN
         /\ Whole(q) /\ q.mem \in [Memory(x.seg) -> Bytes]
         /\ q.pc = y.pc /\ q.flags = y.flags /\ q.sp = y.sp /\ q.hw = y.hw
         /\ q.seg = x.seg /\ q.out = y.out /\ q.typed = y.typed
         /\ a # MAXMEMSP =>
              q.mem = Merge(x, [View(x).mem EXCEPT ![a] = v % Byte, ![a + 1] = v \div Byte])
<1> DEFINE q    == put16(y, a, v)
           lo   == v % Byte
           hi   == v \div Byte
           next == IF a = MAXMEMSP THEN 0 ELSE a + 1
           mem  == [[x.mem EXCEPT ![Base(x) + a] = lo] EXCEPT ![Base(x) + next] = hi]
           bank == View(x).mem
<1>1. /\ x.mem \in [Memory(x.seg) -> Bytes]
      /\ Base(x) \in Nat /\ \A b \in WordSet : Base(x) + b \in Memory(x.seg)
  BY MachineShape, BaseRange DEF Shape
<1>2. /\ vm_data_address(x, a) = Base(x) + a /\ vm_data_address(x, a + 1) = Base(x) + next
      /\ next \in WordSet /\ (a # MAXMEMSP => next = a + 1)
  BY Addresses16
<1>3. vm_data_address(y, a) = vm_data_address(x, a) /\ vm_data_address(y, a + 1) = vm_data_address(x, a + 1)
  BY DEF vm_data_address
<1>4. q = [y EXCEPT !.mem = mem]
  BY <1>2, <1>3 DEF put16
<1>5. lo \in Bytes /\ hi \in Bytes
  BY BytesOf
<1> HIDE DEF lo, hi, next
<1>6. mem \in [Memory(x.seg) -> Bytes]
  BY <1>1, <1>5
<1>7. ASSUME a # MAXMEMSP
      PROVE  mem = Merge(x, [bank EXCEPT ![a] = lo, ![a + 1] = hi])
  <2>1. bank \in [WordSet -> Bytes] /\ Merge(x, bank) = x.mem /\ next = a + 1 /\ next \in WordSet
    BY <1>2, <1>7, ViewShape, MergeBank DEF Shape
  <2> HIDE DEF bank
  <2> DEFINE one == Poke(bank, a, lo)
             two == Poke(one, next, hi)
  <2>0. bank \in [WordSet -> Bytes] /\ lo \in Bytes
    BY <1>5, <2>1
  <2>2. one \in [WordSet -> Bytes] /\ Merge(x, one) = Poke(x.mem, Base(x) + a, lo)
    <3>1. one \in [WordSet -> Bytes] /\ Merge(x, one) = Poke(Merge(x, bank), Base(x) + a, lo)
      BY <2>0, MergePut
    <3> QED
      BY <2>1, <3>1
  <2>3. two = [bank EXCEPT ![a] = lo, ![a + 1] = hi]
    BY <2>1 DEF Poke
  <2> HIDE DEF one, next
  <2>4. Merge(x, two) = Poke(Poke(x.mem, Base(x) + a, lo), Base(x) + next, hi)
    BY <1>5, <2>1, <2>2, MergePut
  <2> HIDE DEF two
  <2> QED
    BY <2>3, <2>4 DEF Poke
<1> HIDE DEF mem
<1>8. /\ Whole(q) /\ q.mem = mem
      /\ q.pc = y.pc /\ q.flags = y.flags /\ q.sp = y.sp /\ q.hw = y.hw
      /\ q.seg = y.seg /\ q.out = y.out /\ q.typed = y.typed
  BY <1>4 DEF Whole, Fields
<1> HIDE DEF q
<1> QED
  BY <1>6, <1>7, <1>8 DEF q, lo, hi, bank

\* What Python stores in z, whose memory is one bank.
LEMMA PutOfPython ==
  ASSUME NEW z, Whole(z), z.mem \in [WordSet -> Bytes],
         NEW a \in WordSet, a # MAXMEMSP, NEW v \in WordSet
  PROVE  LET n == putwordat(z, a, v) IN
         /\ Whole(n) /\ n.mem \in [WordSet -> Bytes]
         /\ n.pc = z.pc /\ n.flags = z.flags /\ n.sp = z.sp /\ n.hw = z.hw
         /\ n.seg = z.seg /\ n.out = z.out /\ n.typed = z.typed
         /\ n.mem = [z.mem EXCEPT ![a] = v % Byte, ![a + 1] = v \div Byte]
<1> DEFINE n  == putwordat(z, a, v)
           lo == v % Byte
           hi == v \div Byte
           mem == [z.mem EXCEPT ![a] = lo, ![a + 1] = hi]
<1>1. n = [z EXCEPT !.mem = mem]
  BY DEF putwordat
<1>2. lo \in Bytes /\ hi \in Bytes
  BY BytesOf
<1> HIDE DEF lo, hi
<1>3. mem \in [WordSet -> Bytes]
  BY <1>2
<1> HIDE DEF mem
<1>4. /\ Whole(n) /\ n.mem = mem
      /\ n.pc = z.pc /\ n.flags = z.flags /\ n.sp = z.sp /\ n.hw = z.hw
      /\ n.seg = z.seg /\ n.out = z.out /\ n.typed = z.typed
  BY <1>1 DEF Whole, Fields
<1> HIDE DEF n
<1> QED
  BY <1>3, <1>4 DEF n, mem, lo, hi

\* What the results of the two emulators are, also where memory and the terminal change:
\* a bank with the registers for Python, a machine for C.
Shaped(P, C, x) ==
  /\ \A n \in P : Shape(n, WordSet) /\ n.seg = x.seg
  /\ \A q \in C : Shape(q, Memory(x.seg)) /\ q.seg = x.seg

Like(n, q, x) == q.mem = Merge(x, n.mem) /\ q.out = n.out /\ q.typed = n.typed

Matching(P, C, x, i) ==
  /\ P = {} => C = {}
  /\ \A n \in P, q \in C : Agree(n, q, i) /\ Like(n, q, x)

\* A result that changes registers only is such a result.
LEMMA QuietShaped ==
  ASSUME NEW x, IsMachine(x)
  PROVE  /\ \A n : Quiet(n, View(x)) => Shape(n, WordSet) /\ n.seg = x.seg
         /\ \A q : Quiet(q, x) => Shape(q, Memory(x.seg)) /\ q.seg = x.seg
         /\ \A n, q : Quiet(n, View(x)) /\ Quiet(q, x) => Like(n, q, x)
<1>1. Shape(View(x), WordSet) /\ View(x).seg = x.seg /\ View(x).out = x.out
        /\ View(x).typed = x.typed
  BY ViewShape
<1>2. Shape(x, Memory(x.seg))
  BY MachineShape
<1>3. Merge(x, View(x).mem) = x.mem
  BY <1>1, MergeBank DEF Shape
<1> QED
  BY <1>1, <1>2, <1>3 DEF Quiet, Shape, Beside, Like

\* Results that change registers only are machines of the right kind.
LEMMA EffectsShaped ==
  ASSUME NEW x, IsMachine(x), NEW P, NEW C,
         \A n \in P : Quiet(n, View(x)), \A q \in C : Quiet(q, x)
  PROVE  /\ Shaped(P, C, x)
         /\ \A i : Agreeing(P, C, i) => Matching(P, C, x, i)
<1>1. Shaped(P, C, x)
  BY QuietShaped DEF Shaped
<1>2. ASSUME NEW i, Agreeing(P, C, i)
      PROVE  Matching(P, C, x, i)
  <2>1. \A n \in P, q \in C : Like(n, q, x)
    BY QuietShaped
  <2> QED
    BY <1>2, <2>1 DEF Agreeing, Matching
<1> QED
  BY <1>1, <1>2

\* A word taken off the stack and stored.
LEMMA StoreAgree ==
  ASSUME NEW x, IsMachine(x), NEW k \in {1, 2}, NEW a, NEW b, NEW v, NEW i,
         x.sp >= k => a \in WordSet /\ b \in WordSet /\ v \in WordSet
  PROVE  LET w == View(x)
             P == When(w.sp >= k /\ a # MAXMEMSP, putwordat([w EXCEPT !.sp = @ - k], a, v))
             C == When(x.sp >= k, put16([x EXCEPT !.sp = @ - k], b, v))
         IN  /\ Shaped(P, C, x)
             /\ C = {} => P = {}
             /\ a = b /\ a # MAXMEMSP => Matching(P, C, x, i)
<1> DEFINE w == View(x)
           z == [w EXCEPT !.sp = w.sp - k]
           y == [x EXCEPT !.sp = x.sp - k]
           n == putwordat(z, a, v)
           q == put16(y, b, v)
           P == When(x.sp >= k /\ a # MAXMEMSP, n)
           C == When(x.sp >= k, q)
<1>1. /\ Shape(w, WordSet) /\ w.pc = x.pc /\ w.flags = x.flags /\ w.sp = x.sp
      /\ w.hw = x.hw /\ w.seg = x.seg /\ w.out = x.out /\ w.typed = x.typed
  BY ViewShape
<1>2. Shape(x, Memory(x.seg))
  BY MachineShape
<1>3. CASE ~ (x.sp >= k)
  BY <1>1, <1>3 DEF When, Shaped, Matching
<1>4. CASE x.sp >= k
  <2>0. a \in WordSet /\ b \in WordSet /\ v \in WordSet
    BY <1>4
  <2>1. /\ Whole(z) /\ Beside(z, w)
        /\ z.pc = w.pc /\ z.flags = w.flags /\ z.sp = w.sp - k /\ z.hw = w.hw
    BY <1>1, SpSet DEF Shape
  <2>2. /\ Whole(y) /\ Beside(y, x)
        /\ y.pc = x.pc /\ y.flags = x.flags /\ y.sp = x.sp - k /\ y.hw = x.hw
    BY <1>2, SpSet DEF Shape
  <2>3. x.sp - k \in 0 .. Depth
    BY <1>2, <1>4, Slots DEF Shape
  <2> HIDE DEF y, z
  <2>4. /\ Whole(q) /\ q.mem \in [Memory(x.seg) -> Bytes]
        /\ q.pc = y.pc /\ q.flags = y.flags /\ q.sp = y.sp /\ q.hw = y.hw
        /\ q.seg = x.seg /\ q.out = y.out /\ q.typed = y.typed
        /\ b # MAXMEMSP =>
             q.mem = Merge(x, [w.mem EXCEPT ![b] = v % Byte, ![b + 1] = v \div Byte])
    BY <2>0, <2>2, PutOfC DEF Beside
  <2>5. a # MAXMEMSP =>
        /\ Whole(n) /\ n.mem \in [WordSet -> Bytes]
        /\ n.pc = z.pc /\ n.flags = z.flags /\ n.sp = z.sp /\ n.hw = z.hw
        /\ n.seg = z.seg /\ n.out = z.out /\ n.typed = z.typed
        /\ n.mem = [w.mem EXCEPT ![a] = v % Byte, ![a + 1] = v \div Byte]
    <3>1. z.mem \in [WordSet -> Bytes] /\ z.mem = w.mem
      BY <1>1, <2>1 DEF Beside, Shape
    <3> QED
      BY <2>0, <2>1, <3>1, PutOfPython
  <2> HIDE DEF w, n, q
  <2>6. Shape(q, Memory(x.seg)) /\ q.seg = x.seg
    BY <1>2, <2>2, <2>3, <2>4 DEF Shape, Beside
  <2>7. a # MAXMEMSP => Shape(n, WordSet) /\ n.seg = x.seg
    BY <1>1, <2>1, <2>3, <2>5 DEF Shape, Beside
  <2>8. a = b /\ a # MAXMEMSP => Agree(n, q, i) /\ Like(n, q, x)
    BY <1>1, <2>1, <2>2, <2>4, <2>5 DEF Agree, Like, Beside
  <2>9. P = (IF a # MAXMEMSP THEN {n} ELSE {}) /\ C = {q}
    BY <1>4 DEF When
  <2> HIDE DEF P, C
  <2>10. Shaped(P, C, x) /\ (C = {} => P = {})
    BY <2>6, <2>7, <2>9 DEF Shaped
  <2>11. a = b /\ a # MAXMEMSP => Matching(P, C, x, i)
    BY <2>8, <2>9 DEF Matching
  <2> QED
    BY <1>1, <2>10, <2>11 DEF P, C, n, q, y, z, w
<1> QED
  BY <1>3, <1>4

PopCode(i) == i.op = "POP" /\ i.mode \in {"I", "II", "S"}

\* How many words POP takes, where it stores, and what.
PopTakes(i)       == IF i.mode = "S" THEN 2 ELSE 1
Target(w, i)   ==
  IF i.mode = "I" THEN i.arg ELSE IF i.mode = "S" THEN fetchStack(w, 0) ELSE getwordat(w, i.arg)
Popped(w, i)   == fetchStack(w, PopTakes(i) - 1)

\* optPopTo in one line: where it stores, what, and how many words it takes.
LEMMA PopIs ==
  ASSUME NEW w, NEW i, PopCode(i)
  PROVE  optPopTo(w, i) =
           When(w.sp >= PopTakes(i) /\ Target(w, i) # MAXMEMSP,
                putwordat([w EXCEPT !.sp = @ - PopTakes(i)], Target(w, i), Popped(w, i)))
<1>1. CASE i.mode = "I"
  <2>1. PopTakes(i) = 1 /\ Target(w, i) = i.arg /\ Popped(w, i) = fetchStack(w, 0)
    BY <1>1 DEF PopTakes, Target, Popped
  <2> QED
    BY <1>1, <2>1 DEF optPopTo, optPOPI
<1>2. CASE i.mode = "II"
  <2>1. PopTakes(i) = 1 /\ Target(w, i) = getwordat(w, i.arg) /\ Popped(w, i) = fetchStack(w, 0)
    BY <1>2 DEF PopTakes, Target, Popped
  <2> QED
    BY <1>2, <2>1 DEF optPopTo, optPOPI
<1>3. CASE i.mode = "S"
  <2>1. PopTakes(i) = 2 /\ Target(w, i) = fetchStack(w, 0) /\ Popped(w, i) = fetchStack(w, 1)
    BY <1>3 DEF PopTakes, Target, Popped
  <2> QED
    BY <1>3, <2>1 DEF optPopTo, optPOPS
<1> QED
  BY <1>1, <1>2, <1>3 DEF PopCode

\* POP: the emulators store the same word at the same place of the bank.
LEMMA PopAgree ==
  ASSUME NEW x, IsMachine(x), NEW i, PopCode(i), i.arg \in WordSet
  PROVE  LET P == optPopTo(View(x), i)
             C == step_POP(x, i)
         IN  /\ Shaped(P, C, x)
             /\ C = {} => P = {}
             /\ InBank(View(x), i) => Matching(P, C, x, i)
<1> DEFINE w == View(x)
           k == PopTakes(i)
           a == Target(w, i)
           v == Popped(w, i)
           b == IF i.mode = "I" THEN i.arg ELSE IF i.mode = "S" THEN peek0(x) ELSE get16(x, i.arg)
<1>1. Twins(w, x)
  BY ViewTwins
<1>2. k \in {1, 2}
  BY DEF PopTakes
<1>3. optPopTo(w, i) = When(w.sp >= k /\ a # MAXMEMSP, putwordat([w EXCEPT !.sp = @ - k], a, v))
  BY PopIs
<1>4. ASSUME x.sp >= k
      PROVE  /\ v \in WordSet
             /\ i.mode = "S" => fetchStack(w, 0) \in WordSet /\ fetchStack(w, 0) = peek0(x)
             /\ v = IF i.mode = "S" THEN peek1(x) ELSE peek0(x)
  <2>1. x.hw \in [0 .. Depth - 1 -> WordSet] /\ x.sp \in 0 .. Depth
    BY <1>1 DEF Twins, Stack
  <2>2. CASE i.mode = "S"
    <3>1. k = 2 /\ x.sp >= 2
      BY <1>4, <2>2 DEF PopTakes
    <3>2. fetchStack(w, 0) = x.hw[x.sp - 1] /\ v = x.hw[x.sp - 2]
      BY <1>1, <2>1, <3>1 DEF Twins, fetchStack, Popped
    <3>3. x.sp - 1 \in 0 .. Depth - 1 /\ x.sp - 2 \in 0 .. Depth - 1
      BY <2>1, <3>1, Slots
    <3> QED
      BY <2>1, <2>2, <3>2, <3>3 DEF peek0, peek1
  <2>3. CASE i.mode # "S"
    <3>1. k = 1 /\ x.sp >= 1
      BY <1>4, <2>3 DEF PopTakes
    <3>2. v = x.hw[x.sp - 1]
      BY <1>1, <2>1, <3>1 DEF Twins, fetchStack, Popped
    <3>3. x.sp - 1 \in 0 .. Depth - 1
      BY <2>1, <3>1, Slots
    <3> QED
      BY <2>1, <2>3, <3>2, <3>3 DEF peek0
  <2> QED
    BY <2>2, <2>3
<1>5. getwordat(w, i.arg) \in WordSet /\ get16(x, i.arg) \in WordSet
        /\ (i.arg # MAXMEMSP => get16(x, i.arg) = getwordat(w, i.arg))
  BY SameWord
<1>6. x.sp >= k => a \in WordSet /\ b \in WordSet /\ v \in WordSet
  BY <1>4, <1>5 DEF Target
<1>7. step_POP(x, i) = When(x.sp >= k, put16([x EXCEPT !.sp = @ - k], b, v))
  <2>1. CASE ~ (x.sp >= k)
    BY <2>1 DEF step_POP, When, PopTakes
  <2>2. CASE x.sp >= k
    BY <1>4, <2>2 DEF step_POP, PopTakes
  <2> QED
    BY <2>1, <2>2
<1>8. ASSUME InBank(w, i), x.sp >= k
      PROVE  a = b /\ a # MAXMEMSP
  <2>1. w.sp >= 1
    BY <1>1, <1>2, <1>8 DEF Twins
  <2>2. CASE i.mode = "S"
    BY <1>4, <1>8, <2>1, <2>2 DEF InBank, Accessed, Target, PopCode
  <2>3. CASE i.mode = "I"
    BY <1>8, <2>3 DEF InBank, Accessed, Target
  <2>4. CASE i.mode = "II"
    BY <1>5, <1>8, <2>4 DEF InBank, Accessed, Target
  <2> QED
    BY <2>2, <2>3, <2>4 DEF PopCode
<1> HIDE DEF k, a, b, v, w
<1> DEFINE P == When(w.sp >= k /\ a # MAXMEMSP, putwordat([w EXCEPT !.sp = @ - k], a, v))
           C == When(x.sp >= k, put16([x EXCEPT !.sp = @ - k], b, v))
<1>9. Shaped(P, C, x) /\ (C = {} => P = {}) /\ (a = b /\ a # MAXMEMSP => Matching(P, C, x, i))
  BY <1>2, <1>6, StoreAgree DEF w
<1>10. ~ (x.sp >= k) => P = {} /\ C = {}
  BY <1>1 DEF When, Twins
<1> HIDE DEF P, C
<1>11. ~ (x.sp >= k) => Matching(P, C, x, i)
  BY <1>10 DEF Matching
<1>12. Shaped(P, C, x) /\ (C = {} => P = {}) /\ (InBank(w, i) => Matching(P, C, x, i))
  BY <1>8, <1>9, <1>11
<1> QED
  BY <1>3, <1>7, <1>12 DEF w, P, C

\* Python does the same where C has stored before it, unless the pointer is overwritten.
LEMMA PopFollows ==
  ASSUME NEW w, Whole(w), w.mem \in [WordSet -> Bytes], w.sp \in 0 .. Depth, w.hw \in Stack,
         NEW i, PopCode(i), i.arg \in WordSet, InBank(w, i),
         i.mode = "II" =>
           {i.arg, i.arg + 1} \cap {getwordat(w, i.arg), getwordat(w, i.arg) + 1} = {},
         NEW n \in optPopTo(w, i)
  PROVE  LET u == [w EXCEPT !.mem = n.mem] IN
         optPopTo(u, i) = optPopTo(w, i) /\ InBank(u, i)
<1> DEFINE u == [w EXCEPT !.mem = n.mem]
           k == PopTakes(i)
           a == Target(w, i)
           v == Popped(w, i)
           z == [w EXCEPT !.sp = w.sp - k]
           y == [u EXCEPT !.sp = u.sp - k]
           lo == v % Byte
           hi == v \div Byte
<1>0. /\ Whole(u) /\ u.mem = n.mem
      /\ u.pc = w.pc /\ u.flags = w.flags /\ u.sp = w.sp /\ u.hw = w.hw
      /\ u.seg = w.seg /\ u.out = w.out /\ u.typed = w.typed
  BY DEF Whole, Fields
<1>1. optPopTo(w, i) = When(w.sp >= k /\ a # MAXMEMSP, putwordat(z, a, v))
  BY PopIs
<1>2. w.sp >= k /\ a # MAXMEMSP /\ n = putwordat(z, a, v)
  BY <1>1 DEF When
<1>3. optPopTo(u, i) =
        When(u.sp >= k /\ Target(u, i) # MAXMEMSP, putwordat(y, Target(u, i), Popped(u, i)))
  BY PopIs
<1>4. Popped(u, i) = v
  BY <1>0 DEF Popped, fetchStack
<1>5. k \in {1, 2} /\ w.sp >= 1
  BY <1>2 DEF PopTakes
<1>6. a \in WordSet /\ v \in WordSet
  <2>1. w.hw \in [0 .. Depth - 1 -> WordSet] /\ w.sp - 1 \in 0 .. Depth - 1
    BY <1>5, Slots DEF Stack
  <2>2. w.sp - 1 - 0 \in 0 .. Depth - 1 /\ w.sp - 1 - (k - 1) \in 0 .. Depth - 1
    <3> HIDE DEF k
    <3> QED
      BY <1>2, <1>5, Numbers
  <2>3. getwordat(w, i.arg) \in WordSet
    BY WordInBank
  <2>4. a \in WordSet
    BY <2>1, <2>2, <2>3 DEF Target, fetchStack
  <2> QED
    BY <2>1, <2>2, <2>4 DEF Popped, fetchStack
<1>7. lo \in Bytes /\ hi \in Bytes
  BY <1>6, BytesOf
<1> HIDE DEF u
<1>8. /\ Whole(z) /\ Beside(z, w) /\ Whole(y) /\ Beside(y, u)
      /\ z.pc = w.pc /\ z.flags = w.flags /\ z.sp = w.sp - k /\ z.hw = w.hw
      /\ y.pc = u.pc /\ y.flags = u.flags /\ y.sp = u.sp - k /\ y.hw = u.hw
  BY <1>0, SpSet
<1> HIDE DEF z, y, k, a, v
<1>9. /\ Whole(n) /\ n.mem \in [WordSet -> Bytes]
      /\ n.pc = z.pc /\ n.flags = z.flags /\ n.sp = z.sp /\ n.hw = z.hw
      /\ n.seg = z.seg /\ n.out = z.out /\ n.typed = z.typed
      /\ n.mem = [w.mem EXCEPT ![a] = lo, ![a + 1] = hi]
  <2>1. z.mem \in [WordSet -> Bytes] /\ z.mem = w.mem
    BY <1>8 DEF Beside
  <2> QED
    BY <1>2, <1>6, <1>8, <2>1, PutOfPython
<1>10. a + 1 \in WordSet
  BY <1>2, <1>6, Numbers DEF WordSet, MAXMEMSP
<1> HIDE DEF lo, hi
<1>11. n.mem = [n.mem EXCEPT ![a] = lo, ![a + 1] = hi]
  BY <1>6, <1>7, <1>9, <1>10
<1>12. Target(u, i) = a
  <2>1. CASE i.mode = "II"
    <3>1. a = getwordat(w, i.arg) /\ i.arg # MAXMEMSP
      BY <2>1 DEF a, Target, InBank, Accessed
    <3>2. i.arg + 1 \in WordSet
      BY <3>1, Numbers DEF WordSet, MAXMEMSP
    <3>3. i.arg # a /\ i.arg # a + 1 /\ i.arg + 1 # a /\ i.arg + 1 # a + 1
      BY <2>1, <3>1
    <3>4. n.mem[i.arg] = w.mem[i.arg] /\ n.mem[i.arg + 1] = w.mem[i.arg + 1]
      BY <1>9, <3>2, <3>3
    <3>5. getwordat(u, i.arg) = getwordat(w, i.arg)
      BY <1>0, <3>4 DEF getwordat
    <3> QED
      BY <2>1, <3>1, <3>5 DEF Target
  <2>2. CASE i.mode # "II"
    BY <1>0, <2>2 DEF Target, a, fetchStack, PopCode
  <2> QED
    BY <2>1, <2>2
<1>13. InBank(u, i)
  <2>1. Accessed(u, i) = Accessed(w, i)
    <3>1. CASE i.mode = "II"
      BY <1>12, <3>1 DEF Accessed, Target, a
    <3>2. CASE i.mode # "II"
      BY <1>0, <3>2 DEF Accessed, PopCode, fetchStack
    <3> QED
      BY <3>1, <3>2
  <2> QED
    BY <2>1 DEF InBank
<1>14. putwordat(y, a, v) = n
  <2> DEFINE r == putwordat(y, a, v)
  <2>1. /\ Whole(r) /\ r.mem = [n.mem EXCEPT ![a] = lo, ![a + 1] = hi]
        /\ r.pc = y.pc /\ r.flags = y.flags /\ r.sp = y.sp /\ r.hw = y.hw
        /\ r.seg = y.seg /\ r.out = y.out /\ r.typed = y.typed
    <3>1. y.mem = n.mem
      BY <1>0, <1>8 DEF Beside
    <3> QED
      BY <1>2, <1>6, <1>8, <1>9, <3>1, PutOfPython DEF lo, hi
  <2> HIDE DEF r
  <2>2. /\ r.mem = n.mem /\ r.pc = n.pc /\ r.flags = n.flags /\ r.sp = n.sp /\ r.hw = n.hw
        /\ r.seg = n.seg /\ r.out = n.out /\ r.typed = n.typed
    BY <1>0, <1>8, <1>9, <1>11, <2>1 DEF Beside
  <2>3. \A field \in Fields : r[field] = n[field]
    BY <2>2 DEF Fields
  <2>4. r = n
    BY <1>9, <2>1, <2>3 DEF Whole
  <2> QED
    BY <2>4 DEF r
<1>15. optPopTo(u, i) = optPopTo(w, i)
  BY <1>0, <1>1, <1>2, <1>3, <1>4, <1>12, <1>14
<1> QED
  BY <1>13, <1>15 DEF u

-----------------------------------------------------------------------------
\* z is w with another stack pointer and one more item printed.
Printed(z, w, s, item) ==
  /\ Whole(z)
  /\ z.pc = w.pc /\ z.flags = w.flags /\ z.sp = s /\ z.hw = w.hw
  /\ z.mem = w.mem /\ z.seg = w.seg /\ z.typed = w.typed
  /\ z.out = Append(w.out, item)

\* Prints adds one item to what has been printed.
LEMMA PrintsIs ==
  ASSUME NEW w, Whole(w), NEW s, NEW form, NEW what
  PROVE  /\ Printed(Prints([w EXCEPT !.sp = s], form, what), w, s, <<form, what>>)
         /\ Printed(Prints(w, form, what), w, w.sp, <<form, what>>)
<1> DEFINE z == [w EXCEPT !.sp = s]
           item == <<form, what>>
<1>1. /\ Whole(z)
      /\ z.pc = w.pc /\ z.flags = w.flags /\ z.sp = s /\ z.hw = w.hw
      /\ z.mem = w.mem /\ z.seg = w.seg /\ z.typed = w.typed /\ z.out = w.out
  BY DEF Whole, Fields
<1> HIDE DEF z
<1>2. ASSUME NEW y, Whole(y)
      PROVE  Printed(Prints(y, form, what), y, y.sp, item)
  <2> DEFINE out == Append(y.out, item)
             r == [y EXCEPT !.out = out]
  <2>1. Prints(y, form, what) = r
    BY DEF Prints
  <2> HIDE DEF out, item
  <2>2. /\ Whole(r) /\ r.out = out
        /\ r.pc = y.pc /\ r.flags = y.flags /\ r.sp = y.sp /\ r.hw = y.hw
        /\ r.mem = y.mem /\ r.seg = y.seg /\ r.typed = y.typed
    BY <1>2 DEF Whole, Fields
  <2> HIDE DEF r
  <2> QED
    BY <2>1, <2>2 DEF Printed, out
<1>3. Printed(Prints(z, form, what), z, z.sp, item) /\ Printed(Prints(w, form, what), w, w.sp, item)
  BY <1>1, <1>2
<1>4. Printed(Prints(z, form, what), w, s, item)
  BY <1>1, <1>3 DEF Printed
<1> QED
  BY <1>3, <1>4 DEF z, item

\* A set of numbers has a least element.
LEMMA Least ==
  ASSUME NEW T \in SUBSET Nat, T # {}
  PROVE  \E k \in T : \A j \in T : ~ (j < k)
<1> DEFINE R == {p \in Nat \X Nat : p[1] < p[2]}
<1>1. IsWellFoundedOn(R, Nat)
  BY NatLessThanWellFounded DEF OpToRel
<1> HIDE DEF R
<1>2. \E k \in T : \A j \in T : ~ (<<j, k>> \in R)
  BY <1>1, WFMin
<1> QED
  BY <1>2 DEF R

\* A text in memory is one of bytes.
LEMMA TextBytes ==
  ASSUME NEW bank \in [WordSet -> Bytes], NEW a \in WordSet
  PROVE  \A k \in DOMAIN TextAt(bank, a) : TextAt(bank, a)[k] \in Bytes
<1> DEFINE Ends(e) == (e = MAXMEMSP \/ bank[e] = 0) /\ \A k \in a .. e - 1 : bank[k] # 0
           T   == {e \in a .. MAXMEMSP : e = MAXMEMSP \/ bank[e] = 0}
           end == CHOOSE e \in a .. MAXMEMSP : Ends(e)
<1>0. a \in Nat /\ MAXMEMSP \in Nat /\ a <= MAXMEMSP /\ WordSet = 0 .. MAXMEMSP
  BY Numbers DEF WordSet, MAXMEMSP
<1>1. T \in SUBSET Nat /\ T # {}
  BY <1>0
<1>2. PICK e \in T : \A j \in T : ~ (j < e)
  BY <1>1, Least
<1>3. e \in a .. MAXMEMSP /\ Ends(e)
  <2>1. ASSUME NEW k \in a .. e - 1 PROVE bank[k] # 0
    BY <1>0, <1>2, <2>1
  <2> QED
    BY <1>2, <2>1
<1>4. end \in a .. MAXMEMSP
  BY <1>3
<1>5. TextAt(bank, a) = [k \in 1 .. end - a |-> bank[a + k - 1]]
  BY DEF TextAt
<1> HIDE DEF end
<1>6. ASSUME NEW k \in 1 .. end - a PROVE bank[a + k - 1] \in Bytes
  BY <1>0, <1>4
<1> QED
  BY <1>5, <1>6

\* Python and C print a text alike, unless it has a byte that they print differently.
LEMMA TextsAlike ==
  ASSUME NEW text, \A k \in DOMAIN text : text[k] \in Bytes
  PROVE  /\ ~ Contains(text, NotAscii) => castText(text) = put_text(text)
         /\ ~ Contains(text, RawInOne) => castError(text) = put_error(text)
<1>1. /\ Ascii \in Nat /\ Space \in Nat /\ Space <= Ascii /\ Ascii <= Byte
      /\ \A b \in Bytes : b < Ascii => Encoded[b] = <<b>>
      /\ \A b \in RawErrPy \cup RawErrC : b < Space
  BY Numbers, MachineAssumption DEF Bytes
<1>2. ASSUME NEW k \in DOMAIN text, text[k] \notin NotAscii
      PROVE  Encoded[text[k]] = <<text[k]>>
  BY <1>1, <1>2, Numbers DEF NotAscii, Bytes
<1>3. ASSUME NEW k \in DOMAIN text, text[k] \notin RawInOne
      PROVE  (IF (text[k] < Space \/ text[k] >= Ascii) /\ text[k] \notin RawErrPy
                THEN hex02(text[k]) ELSE Encoded[text[k]])
               = (IF (text[k] < Space \/ text[k] >= Ascii) /\ text[k] \notin RawErrC
                    THEN hex02(text[k]) ELSE <<text[k]>>)
  <2>1. text[k] \in RawErrPy <=> text[k] \in RawErrC
    BY <1>3 DEF RawInOne
  <2>2. CASE text[k] >= Ascii
    <3>1. text[k] \notin RawErrPy /\ text[k] \notin RawErrC
      BY <1>1, <2>2, Numbers DEF Bytes
    <3> QED
      BY <2>2, <3>1
  <2>3. CASE ~ (text[k] >= Ascii)
    <3>1. Encoded[text[k]] = <<text[k]>>
      BY <1>1, <2>3, Numbers DEF Bytes
    <3> QED
      BY <2>1, <3>1
  <2> QED
    BY <2>2, <2>3
<1>4. ASSUME ~ Contains(text, NotAscii) PROVE castText(text) = put_text(text)
  BY <1>2, <1>4 DEF Contains, castText, put_text
<1>5. ASSUME ~ Contains(text, RawInOne) PROVE castError(text) = put_error(text)
  BY <1>3, <1>5 DEF Contains, castError, put_error
<1> QED
  BY <1>4, <1>5

\* The commands of CAST that print one thing, and those that print two words.
WordCasts ==
  {"PrintStr", "PrintInt", "PrintIntI", "PrintSignI", "PrintBinI", "PrintChar",
   "PrintErrMsg", "PrintStrI", "PrintIntUI", "PrintCharI", "PrintHexI", "PrintHexII"}
DoubleCasts == {"Print32I", "Print32II", "Print32S", "Print32SignI", "Print32SignS"}

\* What Python prints and what C prints.
WordForm(cmd) ==
  CASE cmd \in {"PrintStr", "PrintStrI", "PrintChar", "PrintCharI"} -> "text"
    [] cmd = "PrintErrMsg" -> "error"
    [] cmd \in {"PrintInt", "PrintIntI", "PrintIntUI", "PrintSignI"} -> "number"
    [] cmd = "PrintBinI" -> "binary"
    [] OTHER -> "hex"

WordOfPython(w, cmd, a) ==
  LET v == getwordat(w, a) IN
  CASE cmd = "PrintStr"    -> castText(TextAt(w.mem, a))
    [] cmd = "PrintErrMsg" -> castError(TextAt(w.mem, a))
    [] cmd = "PrintStrI"  -> castText(TextAt(w.mem, v))
    [] cmd = "PrintInt"   -> a
    [] cmd = "PrintSignI" -> signed16(v)
    [] cmd = "PrintChar"  -> <<castChar(w.mem[a])>>
    [] cmd = "PrintCharI" -> <<Encoded[v]>>
    [] cmd = "PrintHexII" -> getwordat(w, v)
    [] OTHER -> v

WordOfC(x, cmd, a) ==
  LET v == get16(x, a) IN
  CASE cmd = "PrintStr"    -> put_text(text_at(x, a))
    [] cmd = "PrintErrMsg" -> put_error(text_at(x, a))
    [] cmd = "PrintStrI"  -> put_text(text_at(x, v))
    [] cmd = "PrintInt"   -> a
    [] cmd = "PrintSignI" -> Signed(v)
    [] cmd = "PrintChar"  -> <<<<x.mem[vm_data_address(x, a)]>>>>
    [] cmd = "PrintCharI" -> <<<<low_byte(v)>>>>
    [] cmd = "PrintHexII" -> get16(x, v)
    [] OTHER -> v

\* Where Python prints in its own way, and where it has a character to print.
CastOwn(w, a, cmd) ==
  \/ cmd \in {"PrintBinI", "Print32SignS", "StackDump"}
  \/ cmd = "PrintStr"    /\ Contains(TextAt(w.mem, a), NotAscii)
  \/ cmd = "PrintStrI"   /\ Contains(TextAt(w.mem, getwordat(w, a)), NotAscii)
  \/ cmd = "PrintErrMsg" /\ Contains(TextAt(w.mem, a), RawInOne)
  \/ cmd = "PrintChar"   /\ w.mem[a] \notin Space - 1 .. Ascii - 1
  \/ cmd = "PrintCharI"  /\ getwordat(w, a) >= Ascii

Spoken(w, a, cmd) == cmd = "PrintCharI" => Encoded[getwordat(w, a)] # <<>>

\* What the commands of CAST that print one thing print in Python.
LEMMA WordsOfPython ==
  ASSUME NEW w, NEW cmd \in WordCasts, NEW a
  PROVE  castWords(w, cmd, a) =
           When(Spoken(w, a, cmd),
                Prints(IF cmd = "PrintBinI" THEN w ELSE [w EXCEPT !.sp = @ - 1],
                       WordForm(cmd), WordOfPython(w, cmd, a)))
<1>1. CASE cmd = "PrintStr"
  BY <1>1 DEF castWords, WordForm, WordOfPython, When, Spoken
<1>2. CASE cmd = "PrintInt"
  BY <1>2 DEF castWords, WordForm, WordOfPython, When, Spoken
<1>3. CASE cmd = "PrintIntI"
  BY <1>3 DEF castWords, WordForm, WordOfPython, When, Spoken
<1>4. CASE cmd = "PrintSignI"
  BY <1>4 DEF castWords, WordForm, WordOfPython, When, Spoken
<1>5. CASE cmd = "PrintBinI"
  BY <1>5 DEF castWords, WordForm, WordOfPython, When, Spoken
<1>6. CASE cmd = "PrintChar"
  BY <1>6 DEF castWords, WordForm, WordOfPython, When, Spoken
<1>7. CASE cmd = "PrintErrMsg"
  BY <1>7 DEF castWords, WordForm, WordOfPython, When, Spoken
<1>8. CASE cmd = "PrintStrI"
  BY <1>8 DEF castWords, WordForm, WordOfPython, When, Spoken
<1>9. CASE cmd = "PrintIntUI"
  BY <1>9 DEF castWords, WordForm, WordOfPython, When, Spoken
<1>10. CASE cmd = "PrintCharI"
  BY <1>10 DEF castWords, WordForm, WordOfPython, When, Spoken
<1>11. CASE cmd = "PrintHexI"
  BY <1>11 DEF castWords, WordForm, WordOfPython, When, Spoken
<1>12. CASE cmd = "PrintHexII"
  BY <1>12 DEF castWords, WordForm, WordOfPython, When, Spoken
<1> QED
  BY <1>1, <1>2, <1>3, <1>4, <1>5, <1>6, <1>7, <1>8, <1>9, <1>10, <1>11, <1>12 DEF WordCasts

\* What they print in C.
LEMMA WordsOfC ==
  ASSUME NEW x, NEW cmd \in WordCasts, NEW a
  PROVE  cast_word(x, cmd, a) = Prints(x, WordForm(cmd), WordOfC(x, cmd, a))
<1>1. CASE cmd = "PrintStr"
  BY <1>1 DEF cast_word, WordForm, WordOfC
<1>2. CASE cmd = "PrintInt"
  BY <1>2 DEF cast_word, WordForm, WordOfC
<1>3. CASE cmd = "PrintIntI"
  BY <1>3 DEF cast_word, WordForm, WordOfC
<1>4. CASE cmd = "PrintSignI"
  BY <1>4 DEF cast_word, WordForm, WordOfC
<1>5. CASE cmd = "PrintBinI"
  BY <1>5 DEF cast_word, WordForm, WordOfC
<1>6. CASE cmd = "PrintChar"
  BY <1>6 DEF cast_word, WordForm, WordOfC
<1>7. CASE cmd = "PrintErrMsg"
  BY <1>7 DEF cast_word, WordForm, WordOfC
<1>8. CASE cmd = "PrintStrI"
  BY <1>8 DEF cast_word, WordForm, WordOfC
<1>9. CASE cmd = "PrintIntUI"
  BY <1>9 DEF cast_word, WordForm, WordOfC
<1>10. CASE cmd = "PrintCharI"
  BY <1>10 DEF cast_word, WordForm, WordOfC
<1>11. CASE cmd = "PrintHexI"
  BY <1>11 DEF cast_word, WordForm, WordOfC
<1>12. CASE cmd = "PrintHexII"
  BY <1>12 DEF cast_word, WordForm, WordOfC
<1> QED
  BY <1>1, <1>2, <1>3, <1>4, <1>5, <1>6, <1>7, <1>8, <1>9, <1>10, <1>11, <1>12 DEF WordCasts

\* C reads the same where only registers have changed.
LEMMA SameBank ==
  ASSUME NEW x, NEW y, y.mem = x.mem, y.seg = x.seg, NEW a
  PROVE  /\ vm_data_address(y, a) = vm_data_address(x, a)
         /\ get16(y, a) = get16(x, a) /\ double_at(y, a) = double_at(x, a)
         /\ text_at(y, a) = text_at(x, a)
<1>1. \A b : vm_data_address(y, b) = vm_data_address(x, b)
  BY DEF vm_data_address
<1>2. \A b : get16(y, b) = get16(x, b)
  BY <1>1 DEF get16
<1>3. [k \in WordSet |-> y.mem[vm_data_address(y, k)]]
        = [k \in WordSet |-> x.mem[vm_data_address(x, k)]]
  BY <1>1
<1> QED
  BY <1>1, <1>2, <1>3 DEF double_at, text_at

\* C and Python find the same text at an address.
LEMMA SameText ==
  ASSUME NEW x, IsMachine(x), NEW a
  PROVE  text_at(x, a) = TextAt(View(x).mem, a)
<1>1. \A k \in WordSet : vm_data_address(x, k) = Base(x) + k
  BY Addresses16
<1>2. [k \in WordSet |-> x.mem[vm_data_address(x, k)]] = [k \in WordSet |-> x.mem[Base(x) + k]]
  BY <1>1
<1>3. View(x).mem = [k \in WordSet |-> x.mem[Base(x) + k]]
  BY ViewShape
<1> QED
  BY <1>2, <1>3 DEF text_at

\* RoomAt leaves two more words behind its address.
LEMMA RoomIs ==
  ASSUME NEW a \in WordSet, RoomAt(a)
  PROVE  /\ a # MAXMEMSP /\ a + 2 \in WordSet /\ a + 2 # MAXMEMSP
         /\ a + 1 \in WordSet /\ a + 2 <= MAXMEMSP
BY Numbers, MachineAssumption DEF RoomAt, WordSet, MAXMEMSP

\* Both give a word the same sign.
LEMMA SameSign ==
  ASSUME NEW v \in WordSet
  PROVE  signed16(v) = Signed(v)
BY Numbers DEF signed16, Signed, WordSet

\* They print the same, where Python looks at no last address and has no way of its own.
LEMMA WordsAlike ==
  ASSUME NEW x, IsMachine(x), NEW a \in WordSet, RoomAt(a), NEW cmd \in WordCasts,
         cmd = "PrintHexII" => getwordat(View(x), a) # MAXMEMSP,
         ~ CastOwn(View(x), a, cmd)
  PROVE  WordOfPython(View(x), cmd, a) = WordOfC(x, cmd, a)
<1> DEFINE w == View(x)
           v == getwordat(w, a)
<1>1. a # MAXMEMSP
  BY RoomIs
<1>2. v \in WordSet /\ get16(x, a) = v
  BY <1>1, SameWord
<1>3. w.mem = [k \in WordSet |-> x.mem[Base(x) + k]] /\ w.mem \in [WordSet -> Bytes]
  BY ViewShape DEF Shape
<1>4. vm_data_address(x, a) = Base(x) + a
  BY Addresses16
<1>5. w.mem[a] = x.mem[vm_data_address(x, a)] /\ w.mem[a] \in Bytes
  BY <1>3, <1>4
<1>6. \A b : text_at(x, b) = TextAt(w.mem, b)
  BY SameText
<1> HIDE DEF w, v
<1>7. CASE cmd = "PrintHexII"
  <2>1. getwordat(w, v) = get16(x, v)
    BY <1>2, <1>7, SameWord DEF w, v
  <2> QED
    BY <1>2, <1>7, <2>1 DEF WordOfPython, WordOfC, w, v
<1>0. /\ Ascii \in Nat /\ Ascii <= Byte /\ Space \in Nat
      /\ \A b \in 0 .. Ascii - 1 : Encoded[b] = <<b>>
  BY Numbers, MachineAssumption
<1>8. CASE cmd = "PrintChar"
  <2>1. castChar(w.mem[a]) = <<w.mem[a]>>
    <3>1. w.mem[a] \in Space - 1 .. Ascii - 1
      BY <1>8 DEF CastOwn, w
    <3>2. ~ (w.mem[a] < Space - 1) /\ w.mem[a] \in 0 .. Ascii - 1
      BY <1>0, <1>5, <3>1 DEF Bytes
    <3> QED
      BY <1>0, <3>2 DEF castChar
  <2> QED
    BY <1>5, <1>8, <2>1 DEF WordOfPython, WordOfC, w
<1>9. CASE cmd = "PrintCharI"
  <2>1. v \in 0 .. Ascii - 1
    <3>1. ~ (v >= Ascii)
      BY <1>9 DEF CastOwn, w, v
    <3> QED
      BY <1>0, <1>2, <3>1, Numbers DEF WordSet
  <2>2. v % Byte = v /\ Encoded[v] = <<v>>
    BY <1>0, <2>1, Numbers
  <2> QED
    BY <1>2, <1>9, <2>2 DEF WordOfPython, WordOfC, low_byte, w, v
<1>10. CASE cmd = "PrintSignI"
  <2>1. signed16(v) = Signed(v)
    BY <1>2, SameSign
  <2> QED
    BY <1>2, <1>10, <2>1 DEF WordOfPython, WordOfC, w, v
<1>11. CASE cmd \in {"PrintStr", "PrintErrMsg"}
  <2>1. \A k \in DOMAIN TextAt(w.mem, a) : TextAt(w.mem, a)[k] \in Bytes
    BY <1>3, TextBytes
  <2>2. /\ cmd = "PrintStr"    => castText(TextAt(w.mem, a)) = put_text(TextAt(w.mem, a))
        /\ cmd = "PrintErrMsg" => castError(TextAt(w.mem, a)) = put_error(TextAt(w.mem, a))
    BY <2>1, TextsAlike DEF CastOwn, w
  <2> QED
    BY <1>6, <1>11, <2>2 DEF WordOfPython, WordOfC, w
<1>12. CASE cmd = "PrintStrI"
  <2>1. \A k \in DOMAIN TextAt(w.mem, v) : TextAt(w.mem, v)[k] \in Bytes
    BY <1>2, <1>3, TextBytes
  <2>2. castText(TextAt(w.mem, v)) = put_text(TextAt(w.mem, v))
    BY <1>12, <2>1, TextsAlike DEF CastOwn, w, v
  <2> QED
    BY <1>2, <1>6, <1>12, <2>2 DEF WordOfPython, WordOfC, w, v
<1>13. CASE cmd \notin {"PrintStr", "PrintErrMsg", "PrintStrI", "PrintHexII", "PrintChar",
                        "PrintCharI", "PrintSignI"}
  BY <1>2, <1>13 DEF WordOfPython, WordOfC, w, v
<1> QED
  BY <1>7, <1>8, <1>9, <1>10, <1>11, <1>12, <1>13 DEF w, v

\* How many words are taken off the stack for the commands of two words, and the number.
DoubleTaken(cmd, signed) ==
  IF cmd = "Print32S" THEN 3 ELSE IF cmd = "Print32SignS" THEN signed ELSE 1

StackRoom(x, cmd) == cmd \in {"Print32S", "Print32SignS"} => x.sp >= 3

DoubleRoom(w, cmd, a) ==
  /\ cmd = "Print32II" => DoubleOK(getwordat(w, a))
  /\ StackRoom(w, cmd)

StackedDouble(w) == Double(w.hw[w.sp - 3], w.hw[w.sp - 2])

DoubleOfPython(w, cmd, a) ==
  CASE cmd = "Print32I"     -> doubleAt(w, a)
    [] cmd = "Print32SignI" -> SignedDouble(doubleAt(w, a))
    [] cmd = "Print32II"    -> doubleAt(w, getwordat(w, a))
    [] cmd = "Print32S"     -> StackedDouble(w)
    [] OTHER                -> SignedDouble(StackedDouble(w))

DoubleOfC(x, cmd, a) ==
  CASE cmd = "Print32I"     -> double_at(x, a)
    [] cmd = "Print32SignI" -> SignedDouble(double_at(x, a))
    [] cmd = "Print32II"    -> double_at(x, get16(x, a))
    [] cmd = "Print32S"     -> StackedDouble(x)
    [] OTHER                -> SignedDouble(StackedDouble(x))

\* w with the stack pointer s: setting it twice is setting it once.
SpAt(w, s) == [w EXCEPT !.sp = s]

\* The last assignment of the stack pointer counts.
LEMMA SpTwice ==
  ASSUME NEW w, Whole(w), NEW s, NEW t
  PROVE  SpAt(SpAt(w, s), t) = SpAt(w, t)
<1> DEFINE n == SpAt(w, s)
           y == SpAt(n, t)
           z == SpAt(w, t)
<1>1. /\ Whole(n) /\ n.hw = w.hw /\ n.pc = w.pc /\ n.flags = w.flags
      /\ n.mem = w.mem /\ n.seg = w.seg /\ n.typed = w.typed /\ n.out = w.out
  BY DEF Whole, Fields, SpAt
<1> HIDE DEF n
<1>2. /\ Whole(y) /\ y.sp = t /\ y.hw = w.hw /\ y.pc = w.pc /\ y.flags = w.flags
      /\ y.mem = w.mem /\ y.seg = w.seg /\ y.typed = w.typed /\ y.out = w.out
  BY <1>1 DEF Whole, Fields, SpAt
<1>3. /\ Whole(z) /\ z.sp = t /\ z.hw = w.hw /\ z.pc = w.pc /\ z.flags = w.flags
      /\ z.mem = w.mem /\ z.seg = w.seg /\ z.typed = w.typed /\ z.out = w.out
  BY DEF Whole, Fields, SpAt
<1> HIDE DEF y, z
<1>4. \A field \in Fields : y[field] = z[field]
  BY <1>2, <1>3 DEF Fields
<1>5. y = z
  BY <1>2, <1>3, <1>4 DEF Whole
<1> QED
  BY <1>5 DEF y, z, n

\* A word taken off, and then two or one.
LEMMA Dropped ==
  ASSUME NEW w, Whole(w), w.sp \in 0 .. Depth
  PROVE  LET n == [w EXCEPT !.sp = @ - 1] IN
         /\ [n EXCEPT !.sp = @ - 2] = [w EXCEPT !.sp = @ - 3]
         /\ [n EXCEPT !.sp = @ - 1] = [w EXCEPT !.sp = @ - 2]
         /\ n.sp = w.sp - 1 /\ n.hw = w.hw /\ n.mem = w.mem /\ n.seg = w.seg
<1> DEFINE n == [w EXCEPT !.sp = w.sp - 1]
<1>1. n = SpAt(w, w.sp - 1) /\ n.sp = w.sp - 1
        /\ n.hw = w.hw /\ n.mem = w.mem /\ n.seg = w.seg
  BY DEF SpAt, Whole, Fields
<1> HIDE DEF n
<1>2. n.sp - 2 = w.sp - 3 /\ n.sp - 1 = w.sp - 2
  BY <1>1, Numbers
<1>3. SpAt(n, w.sp - 3) = SpAt(w, w.sp - 3) /\ SpAt(n, w.sp - 2) = SpAt(w, w.sp - 2)
  BY <1>1, SpTwice
<1>4. [n EXCEPT !.sp = n.sp - 2] = [w EXCEPT !.sp = w.sp - 3]
  BY <1>2, <1>3 DEF SpAt
<1>5. [n EXCEPT !.sp = n.sp - 1] = [w EXCEPT !.sp = w.sp - 2]
  BY <1>2, <1>3 DEF SpAt
<1> QED
  BY <1>1, <1>4, <1>5 DEF n

\* What the commands of CAST that print two words print in Python.
LEMMA DoublesOfPython ==
  ASSUME NEW w, Whole(w), w.sp \in 1 .. Depth, NEW cmd \in DoubleCasts, NEW a
  PROVE  castDoubles(w, cmd, a) =
           When(DoubleRoom(w, cmd, a),
                Prints([w EXCEPT !.sp = @ - DoubleTaken(cmd, 2)], "number",
                       DoubleOfPython(w, cmd, a)))
<1> DEFINE n == [w EXCEPT !.sp = @ - 1]
<1>1. w.sp \in 0 .. Depth
  BY Numbers
<1> HIDE DEF n
<1>2. /\ [n EXCEPT !.sp = @ - 2] = [w EXCEPT !.sp = @ - 3]
      /\ [n EXCEPT !.sp = @ - 1] = [w EXCEPT !.sp = @ - 2]
      /\ n.sp = w.sp - 1 /\ n.hw = w.hw
  BY <1>1, Dropped DEF n
<1>3. /\ n.sp < 2 <=> ~ (w.sp >= 3)
      /\ fetchStack(n, 1) = w.hw[w.sp - 3] /\ fetchStack(n, 0) = w.hw[w.sp - 2]
  <2>1. n.sp - 1 - 1 = w.sp - 3 /\ n.sp - 1 - 0 = w.sp - 2 /\ (n.sp < 2 <=> ~ (w.sp >= 3))
    BY <1>1, <1>2, Numbers
  <2> QED
    BY <1>2, <2>1 DEF fetchStack
<1>4. CASE cmd = "Print32I"
  BY <1>4 DEF castDoubles, DoubleRoom, DoubleTaken, DoubleOfPython, When, StackRoom, n
<1>5. CASE cmd = "Print32SignI"
  BY <1>5 DEF castDoubles, DoubleRoom, DoubleTaken, DoubleOfPython, When, StackRoom, n
<1>6. CASE cmd = "Print32II"
  BY <1>6 DEF castDoubles, DoubleRoom, DoubleTaken, DoubleOfPython, When, StackRoom, n
<1>7. CASE cmd = "Print32S"
  BY <1>2, <1>3, <1>7
    DEF castDoubles, DoubleRoom, DoubleTaken, DoubleOfPython, StackedDouble, When, StackRoom, n
<1>8. CASE cmd = "Print32SignS"
  BY <1>2, <1>3, <1>8
    DEF castDoubles, DoubleRoom, DoubleTaken, DoubleOfPython, StackedDouble, When, StackRoom, n
<1> QED
  BY <1>4, <1>5, <1>6, <1>7, <1>8 DEF DoubleCasts

\* What they print in C.
LEMMA DoublesOfC ==
  ASSUME NEW x, Whole(x), x.sp \in 1 .. Depth, NEW cmd \in DoubleCasts, NEW a
  PROVE  LET n == [x EXCEPT !.sp = @ - 1] IN
         cast_double(n, cmd, a) =
           When(StackRoom(x, cmd),
                Prints([x EXCEPT !.sp = @ - DoubleTaken(cmd, 3)], "number",
                       DoubleOfC(x, cmd, a)))
<1> DEFINE n == [x EXCEPT !.sp = @ - 1]
<1> HIDE DEF n
<1>1. x.sp \in 0 .. Depth
  BY Numbers
<1>2. /\ [n EXCEPT !.sp = @ - 2] = [x EXCEPT !.sp = @ - 3]
      /\ n.sp = x.sp - 1 /\ n.hw = x.hw /\ n.mem = x.mem /\ n.seg = x.seg
  BY <1>1, Dropped DEF n
<1>3. /\ n.sp >= 2 <=> x.sp >= 3
      /\ peek1(n) = x.hw[x.sp - 3] /\ peek0(n) = x.hw[x.sp - 2]
  <2>1. n.sp - 2 = x.sp - 3 /\ n.sp - 1 = x.sp - 2 /\ (n.sp >= 2 <=> x.sp >= 3)
    BY <1>1, <1>2, Numbers
  <2> QED
    BY <1>2, <2>1 DEF peek0, peek1
<1> HIDE DEF n
<1>4. \A b : get16(n, b) = get16(x, b) /\ double_at(n, b) = double_at(x, b)
  BY <1>2, SameBank
<1>5. CASE cmd = "Print32I"
  BY <1>4, <1>5 DEF cast_double, DoubleTaken, DoubleOfC, When, StackRoom, n
<1>6. CASE cmd = "Print32SignI"
  BY <1>4, <1>6 DEF cast_double, DoubleTaken, DoubleOfC, When, StackRoom, n
<1>7. CASE cmd = "Print32II"
  BY <1>4, <1>7 DEF cast_double, DoubleTaken, DoubleOfC, When, StackRoom, n
<1>8. CASE cmd = "Print32S"
  BY <1>2, <1>3, <1>8 DEF cast_double, DoubleTaken, DoubleOfC, StackedDouble, When, StackRoom, n
<1>9. CASE cmd = "Print32SignS"
  BY <1>2, <1>3, <1>9 DEF cast_double, DoubleTaken, DoubleOfC, StackedDouble, When, StackRoom, n
<1> QED
  BY <1>5, <1>6, <1>7, <1>8, <1>9 DEF DoubleCasts, n

\* The numbers are the same, away from the end of the bank.
LEMMA DoublesAlike ==
  ASSUME NEW x, IsMachine(x), NEW a \in WordSet, RoomAt(a), NEW cmd \in DoubleCasts,
         cmd = "Print32II" =>
           LET v == getwordat(View(x), a) IN v # MAXMEMSP /\ v + 1 # MAXMEMSP /\ v + 2 # MAXMEMSP
  PROVE  /\ DoubleOfPython(View(x), cmd, a) = DoubleOfC(x, cmd, a)
         /\ cmd = "Print32II" => DoubleOK(getwordat(View(x), a))
<1> DEFINE w == View(x)
           v == getwordat(w, a)
<1>1. a # MAXMEMSP /\ a + 2 \in WordSet /\ a + 2 # MAXMEMSP
  BY RoomIs
<1>2. v \in WordSet /\ get16(x, a) = v
  BY <1>1, SameWord
<1>3. doubleAt(w, a) = double_at(x, a)
  BY <1>1, SameWord DEF doubleAt, double_at
<1>4. StackedDouble(w) = StackedDouble(x)
  BY ViewShape DEF StackedDouble
<1> HIDE DEF w, v
<1>5. CASE cmd = "Print32II"
  <2>1. v + 2 \in WordSet /\ v + 2 # MAXMEMSP /\ v # MAXMEMSP /\ v + 2 <= MAXMEMSP
    BY <1>2, <1>5, Numbers DEF w, v, WordSet, MAXMEMSP
  <2>2. doubleAt(w, v) = double_at(x, v)
    BY <1>2, <2>1, SameWord DEF doubleAt, double_at, w
  <2>3. DoubleOfPython(w, cmd, a) = doubleAt(w, v)
    BY <1>5 DEF DoubleOfPython, v
  <2>4. DoubleOfC(x, cmd, a) = double_at(x, v)
    BY <1>2, <1>5 DEF DoubleOfC
  <2> QED
    BY <2>1, <2>2, <2>3, <2>4 DEF DoubleOK, w, v
<1>6. CASE cmd # "Print32II"
  BY <1>3, <1>4, <1>6 DEF DoubleOfPython, DoubleOfC, w
<1> QED
  BY <1>5, <1>6 DEF w, v

\* CAST has no other commands.
LEMMA CastName ==
  ASSUME NEW v
  PROVE  LET cmd == Named(Casts, v) IN
         cmd = "none" \/ cmd = "StackDump" \/ cmd \in WordCasts \/ cmd \in DoubleCasts
BY MachineAssumption DEF Named, CastNames, WordCasts, DoubleCasts

\* Which part of CAST a command is.
LEMMA CastIs ==
  ASSUME NEW w, NEW a, RoomAt(a), w.sp # 0
  PROVE  LET cmd == Named(Casts, fetchStack(w, 0)) IN
         /\ cmd = "none" => optCAST(w, a) = {w}
         /\ cmd = "StackDump" => optCAST(w, a) = castStackDump(w)
         /\ cmd \in WordCasts => optCAST(w, a) = castWords(w, cmd, a)
         /\ cmd \in DoubleCasts => optCAST(w, a) = castDoubles(w, cmd, a)
<1> DEFINE cmd == Named(Casts, fetchStack(w, 0))
<1> HIDE DEF cmd
<1>1. optCAST(w, a) =
        CASE cmd = "none"      -> {w}
          [] cmd = "StackDump" -> castStackDump(w)
          [] cmd \in {"Print32I", "Print32SignI", "Print32II", "Print32S", "Print32SignS"} ->
               castDoubles(w, cmd, a)
          [] OTHER             -> castWords(w, cmd, a)
  BY DEF optCAST, cmd
<1>2. cmd \in DoubleCasts <=>
        cmd \in {"Print32I", "Print32SignI", "Print32II", "Print32S", "Print32SignS"}
  BY DEF DoubleCasts
<1>3. cmd = "none" => optCAST(w, a) = {w}
  BY <1>1
<1>4. cmd = "StackDump" => optCAST(w, a) = castStackDump(w)
  BY <1>1
<1>5. cmd \in WordCasts => optCAST(w, a) = castWords(w, cmd, a)
  BY <1>1 DEF WordCasts
<1>6. cmd \in DoubleCasts => optCAST(w, a) = castDoubles(w, cmd, a)
  BY <1>1 DEF DoubleCasts
<1> QED
  BY <1>3, <1>4, <1>5, <1>6 DEF cmd

\* handle_cast, by the command.
LEMMA HandleCastIs ==
  ASSUME NEW x, NEW a
  PROVE  LET cmd == Named(Casts, peek0(x))
             n   == [x EXCEPT !.sp = @ - 1]
         IN
         /\ cmd = "none" => handle_cast(x, a) = {}
         /\ cmd = "StackDump" => handle_cast(x, a) =
              {Prints(n, "stack", [k \in 1 .. n.sp |-> n.hw[k - 1]])}
         /\ cmd \in WordCasts => handle_cast(x, a) = {cast_word(n, cmd, a)}
         /\ cmd \in DoubleCasts => handle_cast(x, a) = cast_double(n, cmd, a)
<1> DEFINE cmd == Named(Casts, peek0(x))
           n   == [x EXCEPT !.sp = @ - 1]
<1> HIDE DEF cmd, n
<1>1. handle_cast(x, a) =
        CASE cmd = "none"      -> {}
          [] cmd = "StackDump" -> {Prints(n, "stack", [k \in 1 .. n.sp |-> n.hw[k - 1]])}
          [] cmd \in {"Print32I", "Print32SignI", "Print32II", "Print32S", "Print32SignS"} ->
               cast_double(n, cmd, a)
          [] OTHER             -> {cast_word(n, cmd, a)}
  BY DEF handle_cast, cmd, n
<1>3. cmd = "none" => handle_cast(x, a) = {}
  BY <1>1
<1>4. cmd = "StackDump" => handle_cast(x, a) =
        {Prints(n, "stack", [k \in 1 .. n.sp |-> n.hw[k - 1]])}
  BY <1>1
<1>5. cmd \in WordCasts => handle_cast(x, a) = {cast_word(n, cmd, a)}
  BY <1>1 DEF WordCasts
<1>6. cmd \in DoubleCasts => handle_cast(x, a) = cast_double(n, cmd, a)
  BY <1>1 DEF DoubleCasts
<1> QED
  BY <1>3, <1>4, <1>5, <1>6 DEF cmd, n

\* Results that have printed at most one item.
LEMMA PrintedShaped ==
  ASSUME NEW x, IsMachine(x), NEW s \in 0 .. Depth, NEW item
  PROVE  /\ \A n : Printed(n, View(x), s, item) =>
              Shape(n, WordSet) /\ n.seg = x.seg /\ n.flags = x.flags
         /\ \A q : Printed(q, x, s, item) =>
              Shape(q, Memory(x.seg)) /\ q.seg = x.seg /\ q.flags = x.flags
         /\ \A n, q, i : Printed(n, View(x), s, item) /\ Printed(q, x, s, item) =>
              Agree(n, q, i) /\ Like(n, q, x)
<1>1. /\ Shape(View(x), WordSet) /\ View(x).seg = x.seg /\ View(x).out = x.out
      /\ View(x).typed = x.typed /\ View(x).flags = x.flags /\ View(x).pc = x.pc
      /\ View(x).hw = x.hw
  BY ViewShape
<1>2. Shape(x, Memory(x.seg))
  BY MachineShape
<1>3. Merge(x, View(x).mem) = x.mem
  BY <1>1, MergeBank DEF Shape
<1>4. ASSUME NEW n, Printed(n, View(x), s, item)
      PROVE  Shape(n, WordSet) /\ n.seg = x.seg /\ n.flags = x.flags
  BY <1>1, <1>4 DEF Printed, Shape
<1>5. ASSUME NEW q, Printed(q, x, s, item)
      PROVE  Shape(q, Memory(x.seg)) /\ q.seg = x.seg /\ q.flags = x.flags
  BY <1>2, <1>5 DEF Printed, Shape
<1>6. ASSUME NEW n, NEW q, NEW i, Printed(n, View(x), s, item), Printed(q, x, s, item)
      PROVE  Agree(n, q, i) /\ Like(n, q, x)
  BY <1>1, <1>3, <1>6 DEF Printed, Agree, Like
<1> QED
  BY <1>4, <1>5, <1>6

OnePrint(n, w) == n = w \/ \E s \in 0 .. Depth : \E item : Printed(n, w, s, item)

\* CAST of cpu.py prints one thing, or leaves the machine as it is.
LEMMA CastPython ==
  ASSUME NEW w, Whole(w), w.sp \in 0 .. Depth, NEW a, NEW n \in optCAST(w, a)
  PROVE  RoomAt(a) /\ w.sp >= 1 /\ OnePrint(n, w)
<1>1. RoomAt(a) /\ w.sp # 0
  BY DEF optCAST
<1>2. w.sp >= 1 /\ w.sp \in 1 .. Depth /\ w.sp - 1 \in 0 .. Depth
  BY <1>1, Slots
<1> DEFINE cmd == Named(Casts, fetchStack(w, 0))
<1>3. CASE cmd = "none"
  BY <1>1, <1>2, <1>3, CastIs DEF OnePrint
<1>4. CASE cmd = "StackDump"
  <2>1. n \in castStackDump(w)
    BY <1>1, <1>4, CastIs
  <2>2. PICK what : n = Prints([w EXCEPT !.sp = w.sp - 1], "stack", what)
    BY <2>1 DEF castStackDump
  <2>3. Printed(n, w, w.sp - 1, <<"stack", what>>)
    BY <2>2, PrintsIs
  <2> QED
    BY <1>1, <1>2, <2>3 DEF OnePrint
<1>5. CASE cmd \in WordCasts
  <2> DEFINE form == WordForm(cmd)
             what == WordOfPython(w, cmd, a)
  <2>1. n = Prints(IF cmd = "PrintBinI" THEN w ELSE [w EXCEPT !.sp = w.sp - 1], form, what)
    BY <1>1, <1>5, CastIs, WordsOfPython DEF When
  <2> HIDE DEF form, what
  <2>2. Printed(n, w, w.sp, <<form, what>>) \/ Printed(n, w, w.sp - 1, <<form, what>>)
    BY <2>1, PrintsIs
  <2> QED
    BY <1>1, <1>2, <2>2 DEF OnePrint
<1>6. CASE cmd \in DoubleCasts
  <2> DEFINE s == w.sp - DoubleTaken(cmd, 2)
             what == DoubleOfPython(w, cmd, a)
  <2>1. DoubleRoom(w, cmd, a) /\ n = Prints([w EXCEPT !.sp = s], "number", what)
    BY <1>1, <1>2, <1>6, CastIs, DoublesOfPython DEF When
  <2>2. s \in 0 .. Depth
    BY <1>2, <2>1, Numbers DEF DoubleRoom, StackRoom, DoubleTaken
  <2> HIDE DEF s, what
  <2>3. Printed(n, w, s, <<"number", what>>)
    BY <2>1, PrintsIs
  <2> QED
    BY <1>1, <1>2, <2>2, <2>3 DEF OnePrint
<1> QED
  BY <1>3, <1>4, <1>5, <1>6, CastName

\* CAST of C prints one thing.
LEMMA CastOfC ==
  ASSUME NEW x, Whole(x), x.sp \in 1 .. Depth, NEW a, NEW q \in handle_cast(x, a)
  PROVE  \E s \in 0 .. Depth : \E item : Printed(q, x, s, item)
<1>1. x.sp - 1 \in 0 .. Depth /\ x.sp \in 0 .. Depth
  BY Numbers
<1> DEFINE cmd == Named(Casts, peek0(x))
           n   == [x EXCEPT !.sp = x.sp - 1]
<1>2. CASE cmd = "none"
  BY <1>2, HandleCastIs
<1>3. CASE cmd = "StackDump"
  <2>1. PICK what : q = Prints(n, "stack", what)
    BY <1>3, HandleCastIs
  <2>2. Printed(q, x, x.sp - 1, <<"stack", what>>)
    BY <2>1, PrintsIs
  <2> QED
    BY <1>1, <2>2
<1>4. CASE cmd \in WordCasts
  <2> DEFINE form == WordForm(cmd)
             what == WordOfC(n, cmd, a)
  <2>1. q = Prints(n, form, what)
    BY <1>4, HandleCastIs, WordsOfC
  <2> HIDE DEF form, what
  <2>2. Printed(q, x, x.sp - 1, <<form, what>>)
    BY <2>1, PrintsIs
  <2> QED
    BY <1>1, <2>2
<1>5. CASE cmd \in DoubleCasts
  <2> DEFINE s == x.sp - DoubleTaken(cmd, 3)
             what == DoubleOfC(x, cmd, a)
  <2>1. /\ StackRoom(x, cmd)
        /\ q = Prints([x EXCEPT !.sp = s], "number", what)
    <3>1. q \in cast_double(n, cmd, a)
      BY <1>5, HandleCastIs
    <3>2. cast_double(n, cmd, a) =
            When(StackRoom(x, cmd), Prints([x EXCEPT !.sp = s], "number", what))
      BY <1>5, DoublesOfC
    <3> QED
      BY <3>1, <3>2 DEF When
  <2>2. s \in 0 .. Depth
    BY <1>1, <2>1, Numbers DEF DoubleTaken, StackRoom
  <2> HIDE DEF s, what
  <2>3. Printed(q, x, s, <<"number", what>>)
    BY <2>1, PrintsIs
  <2> QED
    BY <2>2, <2>3
<1> QED
  BY <1>2, <1>3, <1>4, <1>5, CastName

\* Where CAST stays clear of the end of the bank.
CastInside(w, a, cmd) ==
  LET v == getwordat(w, a) IN
  /\ RoomAt(a)
  /\ cmd = "PrintHexII" => v # MAXMEMSP
  /\ cmd = "Print32II"  => v # MAXMEMSP /\ v + 1 # MAXMEMSP /\ v + 2 # MAXMEMSP

\* CAST.
LEMMA CastAgree ==
  ASSUME NEW x, IsMachine(x), NEW a \in WordSet, x.sp # 0, NEW i
  PROVE  LET w   == View(x)
             cmd == Named(Casts, peek0(x))
             P   == optCAST(w, a)
             C   == handle_cast(x, a)
         IN  /\ C = {} /\ P # {} => cmd = "none"
             /\ CastInside(w, a, cmd) /\ Spoken(w, a, cmd) => (P = {} => C = {})
             /\ CastInside(w, a, cmd) /\ ~ CastOwn(w, a, cmd) =>
                  \A n \in P, q \in C : Agree(n, q, i) /\ Like(n, q, x)
<1> DEFINE w   == View(x)
           cmd == Named(Casts, peek0(x))
           P   == optCAST(w, a)
           C   == handle_cast(x, a)
<1>1. /\ Whole(w) /\ Whole(x) /\ w.sp = x.sp /\ w.hw = x.hw /\ x.sp \in 1 .. Depth
      /\ x.sp - 1 \in 0 .. Depth
  <2>1. Twins(w, x)
    BY ViewTwins
  <2> QED
    BY <2>1, Numbers DEF Twins
<1>2. fetchStack(w, 0) = peek0(x)
  BY <1>1, Numbers DEF fetchStack, peek0
<1>3. CASE ~ RoomAt(a)
  <2>1. P = {}
    BY <1>3 DEF optCAST
  <2> QED
    BY <1>3, <2>1 DEF CastInside
<1>4. CASE RoomAt(a)
  <2>1. CASE cmd = "none"
    <3>1. C = {}
      BY <2>1, HandleCastIs
    <3> QED
      BY <2>1, <3>1
  <2>2. CASE cmd = "StackDump"
    <3>1. C # {}
      BY <2>2, HandleCastIs
    <3>2. P = castStackDump(w)
      BY <1>1, <1>2, <1>4, <2>2, CastIs
    <3>3. castStackDump(w) # {}
      BY DEF castStackDump
    <3> QED
      BY <2>2, <3>1, <3>2, <3>3 DEF CastOwn
  <2>3. CASE cmd \in WordCasts
    <3> DEFINE form == WordForm(cmd)
               p    == WordOfPython(w, cmd, a)
               e    == WordOfC(x, cmd, a)
               y    == [x EXCEPT !.sp = x.sp - 1]
    <3>1. P = When(Spoken(w, a, cmd),
                   Prints(IF cmd = "PrintBinI" THEN w ELSE [w EXCEPT !.sp = w.sp - 1], form, p))
      BY <1>1, <1>2, <1>4, <2>3, CastIs, WordsOfPython
    <3>2. C = {Prints(y, form, WordOfC(y, cmd, a))}
      BY <2>3, HandleCastIs, WordsOfC
    <3>3. WordOfC(y, cmd, a) = e
      <4>1. y.mem = x.mem /\ y.seg = x.seg
        BY <1>1 DEF Whole, Fields
      <4> HIDE DEF y
      <4>2. \A b : /\ vm_data_address(y, b) = vm_data_address(x, b)
                   /\ get16(y, b) = get16(x, b) /\ text_at(y, b) = text_at(x, b)
        BY <4>1, SameBank
      <4> QED
        BY <4>1, <4>2 DEF WordOfC
    <3>4. CastInside(w, a, cmd) /\ ~ CastOwn(w, a, cmd) => p = e /\ cmd # "PrintBinI"
      <4> SUFFICES ASSUME CastInside(w, a, cmd), ~ CastOwn(w, a, cmd)
                   PROVE  p = e /\ cmd # "PrintBinI"
        OBVIOUS
      <4>1. (cmd = "PrintHexII" => getwordat(w, a) # MAXMEMSP) /\ cmd # "PrintBinI"
        BY DEF CastInside, CastOwn
      <4> QED
        BY <1>4, <2>3, <4>1, WordsAlike
    <3> HIDE DEF form, p, e
    <3>5. /\ Printed(Prints([w EXCEPT !.sp = w.sp - 1], form, p), w, w.sp - 1, <<form, p>>)
          /\ Printed(Prints(y, form, e), x, x.sp - 1, <<form, e>>)
      BY <1>1, PrintsIs
    <3>6. p = e => \A j : /\ Agree(Prints([w EXCEPT !.sp = w.sp - 1], form, p), Prints(y, form, e), j)
                          /\ Like(Prints([w EXCEPT !.sp = w.sp - 1], form, p), Prints(y, form, e), x)
      BY <1>1, <3>5, PrintedShaped
    <3> QED
      BY <3>1, <3>2, <3>3, <3>4, <3>6 DEF When
  <2>4. CASE cmd \in DoubleCasts
    <3> DEFINE p == DoubleOfPython(w, cmd, a)
               e == DoubleOfC(x, cmd, a)
               s == w.sp - DoubleTaken(cmd, 2)
               t == x.sp - DoubleTaken(cmd, 3)
               n == Prints([w EXCEPT !.sp = s], "number", p)
               q == Prints([x EXCEPT !.sp = t], "number", e)
               full == StackRoom(x, cmd)
    <3>1. P = When(DoubleRoom(w, cmd, a), n)
      BY <1>1, <1>2, <1>4, <2>4, CastIs, DoublesOfPython
    <3>2. C = When(full, q)
      BY <1>1, <2>4, HandleCastIs, DoublesOfC
    <3>3. DoubleRoom(w, cmd, a) => full
      BY <1>1 DEF DoubleRoom, StackRoom
    <3>4. CastInside(w, a, cmd) => p = e /\ (full => DoubleRoom(w, cmd, a))
      <4>1. CastInside(w, a, cmd) => p = e /\ (cmd = "Print32II" => DoubleOK(getwordat(w, a)))
        BY <1>4, <2>4, DoublesAlike DEF CastInside
      <4> QED
        BY <1>1, <4>1 DEF DoubleRoom, StackRoom
    <3>5. ~ CastOwn(w, a, cmd) => s = t
      BY <1>1 DEF CastOwn, DoubleTaken
    <3>6. full => t \in 0 .. Depth
      BY <1>1, Numbers DEF DoubleTaken, StackRoom
    <3> HIDE DEF p, e, s, t, full
    <3>7. Printed(n, w, s, <<"number", p>>) /\ Printed(q, x, t, <<"number", e>>)
      BY <1>1, PrintsIs
    <3> HIDE DEF n, q
    <3>8. p = e /\ s = t /\ full => Agree(n, q, i) /\ Like(n, q, x)
      BY <3>6, <3>7, PrintedShaped
    <3> HIDE DEF P, C
    <3>9. /\ P = IF DoubleRoom(w, cmd, a) THEN {n} ELSE {}
          /\ C = IF full THEN {q} ELSE {}
      BY <3>1, <3>2 DEF When
    <3> QED
      BY <3>3, <3>4, <3>5, <3>8, <3>9 DEF P, C
  <2> QED
    BY <2>1, <2>2, <2>3, <2>4, CastName
<1> QED
  BY <1>3, <1>4

-----------------------------------------------------------------------------
\* The numbers of the console.
LEMMA Console ==
  /\ Ascii \in Nat /\ Ascii > 0 /\ Ascii <= Byte /\ 0 \in Chars /\ 0 \in Bytes
  /\ Chars \subseteq Bytes /\ Bytes \subseteq WordSet
  /\ LineMax \in Nat /\ LineMax >= 2
BY Numbers, MachineAssumption DEF Bytes, Chars, WordSet

\* The first line is a part of what was typed.
LEMMA LineInTyped ==
  ASSUME NEW typed \in Seq(Chars)
  PROVE  /\ LineLength(typed) \in 0 .. Len(typed)
         /\ typed # <<>> => LineLength(typed) >= 1
         /\ \A limit \in Nat : Taken(typed, limit) \in 0 .. Len(typed)
         /\ \A n \in 0 .. Len(typed) : Unread(typed, n) \in Seq(Chars)
<1>1. LineLength(typed) \in 0 .. Len(typed) /\ (typed # <<>> => LineLength(typed) >= 1)
  <2>1. CASE \E k \in DOMAIN typed : typed[k] = NewLine
    <3> DEFINE T == {k \in DOMAIN typed : typed[k] = NewLine}
    <3>1. T \in SUBSET Nat /\ T # {} /\ DOMAIN typed = 1 .. Len(typed)
      BY <2>1
    <3>2. PICK k \in T : \A j \in T : ~ (j < k)
      BY <3>1, Least
    <3>3. k \in DOMAIN typed /\ typed[k] = NewLine /\ \A j \in 1 .. k - 1 : typed[j] # NewLine
      BY <3>1, <3>2
    <3>4. LineLength(typed) =
            CHOOSE l \in DOMAIN typed :
              typed[l] = NewLine /\ \A j \in 1 .. l - 1 : typed[j] # NewLine
      BY <2>1 DEF LineLength
    <3>5. LineLength(typed) \in DOMAIN typed
      BY <3>3, <3>4
    <3> QED
      BY <3>1, <3>5
  <2>2. CASE ~ \E k \in DOMAIN typed : typed[k] = NewLine
    BY <2>2 DEF LineLength
  <2> QED
    BY <2>1, <2>2
<1>2. \A limit \in Nat : Taken(typed, limit) \in 0 .. Len(typed)
  BY <1>1 DEF Taken
<1>3. \A n \in 0 .. Len(typed) : Unread(typed, n) \in Seq(Chars)
  BY DEF Unread
<1> QED
  BY <1>1, <1>2, <1>3

\* A line that has room in both buffers is taken to its end; C takes no more than Python.
LEMMA BothTake ==
  ASSUME NEW typed \in Seq(Chars)
  PROVE  LET p == Taken(typed, LineMax)
             q == fgets_takes(typed)
         IN  /\ p \in 0 .. Len(typed) /\ q \in 0 .. Len(typed) /\ q <= p
             /\ WholeLine(typed) => p = q /\ \A k \in 1 .. q : typed[k] # 0
<1>1. LineLength(typed) \in Nat
  BY LineInTyped
<1>2. Taken(typed, LineMax) \in 0 .. Len(typed) /\ Taken(typed, LineMax - 1) \in 0 .. Len(typed)
  <2>1. LineMax \in Nat /\ LineMax - 1 \in Nat
    BY Console
  <2> QED
    BY <2>1, LineInTyped
<1> QED
  BY <1>1, <1>2, Console DEF Taken, fgets_takes, WholeLine

\* strlen finds the first zero, or the end.
LEMMA StrlenIs ==
  ASSUME NEW typed \in Seq(Chars)
  PROVE  /\ strlen(typed) \in 0 .. fgets_takes(typed)
         /\ (\A k \in 1 .. fgets_takes(typed) : typed[k] # 0) => strlen(typed) = fgets_takes(typed)
<1> DEFINE q == fgets_takes(typed)
           Ends(n) == (n = q \/ typed[n + 1] = 0) /\ \A k \in 1 .. n : typed[k] # 0
           T == {n \in 0 .. q : n = q \/ typed[n + 1] = 0}
<1>1. q \in Nat
  BY BothTake
<1> HIDE DEF q
<1>2. T \in SUBSET Nat /\ T # {}
  BY <1>1
<1>3. PICK n \in T : \A j \in T : ~ (j < n)
  BY <1>2, Least
<1>4. Ends(n)
  <2>1. ASSUME NEW k \in 1 .. n PROVE typed[k] # 0
    <3>1. k - 1 \in 0 .. q /\ k - 1 < n /\ (k - 1) + 1 = k
      BY <1>1, <1>3
    <3> QED
      BY <1>3, <3>1
  <2> QED
    BY <1>3, <2>1
<1>5. strlen(typed) = CHOOSE l \in 0 .. q : Ends(l)
  BY DEF strlen, q
<1>6. strlen(typed) \in 0 .. q /\ Ends(strlen(typed))
  BY <1>3, <1>4, <1>5
<1>7. ASSUME \A k \in 1 .. q : typed[k] # 0 PROVE strlen(typed) = q
  BY <1>1, <1>6, <1>7
<1> QED
  BY <1>6, <1>7 DEF q

\* The next character that was typed, and those behind it, are characters.
LEMMA CharTyped ==
  ASSUME NEW typed \in Seq(Chars)
  PROVE  /\ NextChar(typed) \in Chars
         /\ AfterChar(typed) \in Seq(Chars)
<1>1. CASE typed = <<>>
  BY <1>1, Console DEF NextChar, AfterChar
<1>2. CASE typed # <<>>
  BY <1>2 DEF NextChar, AfterChar
<1> QED
  BY <1>1, <1>2

\* The function among of Among: its first k values.
KeptNext(typed, keep, f, k) ==
  IF k = 0 THEN <<>>
  ELSE IF typed[k] \in keep THEN Append(f[k - 1], typed[k]) ELSE f[k - 1]
Kept(typed, keep, f, n) == f = [k \in 0 .. n |-> KeptNext(typed, keep, f, k)]

\* The characters that are kept: a function of how many have been looked at.
LEMMA KeptExists ==
  ASSUME NEW typed \in Seq(Chars), NEW keep, NEW n \in 0 .. Len(typed)
  PROVE  \E f : Kept(typed, keep, f, n)
<1> DEFINE T == {k \in 0 .. Len(typed) : ~ \E f : Kept(typed, keep, f, k)}
<1> SUFFICES ASSUME T # {} PROVE FALSE
  OBVIOUS
<1>1. T \in SUBSET Nat
  OBVIOUS
<1>2. PICK k \in T : \A j \in T : ~ (j < k)
  BY <1>1, Least
<1>3. CASE k = 0
  <2> DEFINE f == [j \in 0 .. 0 |-> <<>>]
  <2>1. Kept(typed, keep, f, 0)
    BY DEF Kept, KeptNext
  <2> QED
    BY <1>3, <2>1
<1>4. CASE k # 0
  <2>1. k \in Nat /\ k - 1 \in 0 .. Len(typed) /\ k - 1 < k
    BY <1>4
  <2>2. PICK g : Kept(typed, keep, g, k - 1)
    BY <1>2, <2>1
  <2> DEFINE f == [j \in 0 .. k |-> IF j = k THEN KeptNext(typed, keep, g, k) ELSE g[j]]
  <2>3. \A j \in 0 .. k : f[j] = KeptNext(typed, keep, f, j)
    <3>1. ASSUME NEW j \in 0 .. k PROVE f[j] = KeptNext(typed, keep, f, j)
      <4>1. j # 0 => j - 1 \in 0 .. k /\ j - 1 # k
        BY <2>1
      <4>2. KeptNext(typed, keep, f, j) = KeptNext(typed, keep, g, j)
        BY <4>1 DEF KeptNext
      <4>3. j # k => g[j] = KeptNext(typed, keep, g, j)
        BY <2>1, <2>2 DEF Kept
      <4> QED
        BY <4>2, <4>3
    <3> QED
      BY <3>1
  <2>4. Kept(typed, keep, f, k)
    BY <2>3 DEF Kept
  <2> QED
    BY <2>4
<1> QED
  BY <1>3, <1>4

\* Among is that function.
LEMMA AmongIs ==
  ASSUME NEW typed \in Seq(Chars), NEW keep
  PROVE  \E f : /\ \A n \in 0 .. Len(typed) : Among(typed, n, keep) = f[n]
                /\ \A k \in 0 .. Len(typed) : f[k] = KeptNext(typed, keep, f, k)
<1> DEFINE f == CHOOSE f : Kept(typed, keep, f, Len(typed))
<1>1. \A n : Among(typed, n, keep) = f[n]
  BY DEF Among, Kept, KeptNext
<1>2. Len(typed) \in 0 .. Len(typed)
  OBVIOUS
<1>3. Kept(typed, keep, f, Len(typed))
  BY <1>2, KeptExists
<1> HIDE DEF f
<1>4. \A k \in 0 .. Len(typed) : f[k] = KeptNext(typed, keep, f, k)
  BY <1>3 DEF Kept
<1> QED
  BY <1>1, <1>4

\* What is kept are characters of keep.
LEMMA AmongTyped ==
  ASSUME NEW typed \in Seq(Chars), NEW keep, NEW n \in 0 .. Len(typed)
  PROVE  Among(typed, n, keep) \in Seq(keep \cap Chars)
<1>0. PICK f : /\ \A k \in 0 .. Len(typed) : Among(typed, k, keep) = f[k]
               /\ \A k \in 0 .. Len(typed) : f[k] = KeptNext(typed, keep, f, k)
  BY AmongIs
<1> DEFINE T == {k \in 0 .. Len(typed) : f[k] \notin Seq(keep \cap Chars)}
<1> SUFFICES ASSUME T # {} PROVE FALSE
  BY <1>0
<1>1. T \in SUBSET Nat
  OBVIOUS
<1>2. PICK k \in T : \A j \in T : ~ (j < k)
  BY <1>1, Least
<1>3. f[k] = KeptNext(typed, keep, f, k)
  BY <1>0, <1>2
<1>4. CASE k = 0
  <2>1. f[k] = <<>> /\ <<>> \in Seq(keep \cap Chars)
    BY <1>3, <1>4 DEF KeptNext
  <2> QED
    BY <1>2, <2>1
<1>5. CASE k # 0
  <2>1. k - 1 \in 0 .. Len(typed) /\ k - 1 < k /\ typed[k] \in Chars
    BY <1>2, <1>5
  <2>2. f[k - 1] \in Seq(keep \cap Chars)
    BY <1>2, <2>1
  <2>3. CASE typed[k] \in keep
    <3>1. Append(f[k - 1], typed[k]) \in Seq(keep \cap Chars)
      BY <2>1, <2>2, <2>3
    <3> QED
      BY <1>2, <1>3, <1>5, <2>3, <3>1 DEF KeptNext
  <2>4. CASE typed[k] \notin keep
    BY <1>2, <1>3, <1>5, <2>2, <2>4 DEF KeptNext
  <2> QED
    BY <2>3, <2>4
<1> QED
  BY <1>4, <1>5

\* The more characters are looked at, the more are kept.
LEMMA AmongGrows ==
  ASSUME NEW typed \in Seq(Chars), NEW keep, NEW a \in 0 .. Len(typed), NEW b \in a .. Len(typed)
  PROVE  Len(Among(typed, a, keep)) <= Len(Among(typed, b, keep))
<1>0. PICK f : /\ \A k \in 0 .. Len(typed) : Among(typed, k, keep) = f[k]
               /\ \A k \in 0 .. Len(typed) : f[k] = KeptNext(typed, keep, f, k)
  BY AmongIs
<1>1. \A k \in 0 .. Len(typed) : f[k] \in Seq(keep \cap Chars) /\ Len(f[k]) \in Nat
  BY <1>0, AmongTyped
<1> DEFINE T == {k \in a .. Len(typed) : ~ (Len(f[a]) <= Len(f[k]))}
<1> SUFFICES ASSUME T # {} PROVE FALSE
  BY <1>0
<1>2. T \in SUBSET Nat
  OBVIOUS
<1>3. PICK k \in T : \A j \in T : ~ (j < k)
  BY <1>2, Least
<1>4. k # a /\ a \in Nat
  BY <1>1, <1>3
<1>5. k - 1 \in a .. Len(typed) /\ k - 1 < k /\ k \in 0 .. Len(typed) /\ k # 0
  BY <1>3, <1>4
<1>6. Len(f[a]) <= Len(f[k - 1]) /\ k - 1 \in 0 .. Len(typed)
  BY <1>3, <1>5
<1>7. f[k] = f[k - 1] \/ f[k] = Append(f[k - 1], typed[k])
  BY <1>0, <1>5 DEF KeptNext
<1>8. Len(f[k - 1]) <= Len(f[k])
  <2>1. f[k - 1] \in Seq(keep \cap Chars)
    BY <1>1, <1>6
  <2>2. Len(Append(f[k - 1], typed[k])) = Len(f[k - 1]) + 1 /\ Len(f[k - 1]) \in Nat
    BY <2>1
  <2> QED
    BY <1>7, <2>2
<1> QED
  BY <1>1, <1>3, <1>5, <1>6, <1>8

\* The text that C stores of the line.
StoredByC(typed) == Among(typed, strlen(typed), Printable)

\* What Python and C store of a line: characters, C's no more than Python's, and of a whole
\* line the same.
LEMMA StoredTyped ==
  ASSUME NEW typed \in Seq(Chars)
  PROVE  LET text == StoredLine(typed)
             ctext == StoredByC(typed)
         IN  /\ text \in Seq(Bytes) /\ ctext \in Seq(Bytes) /\ Len(ctext) <= Len(text)
             /\ WholeLine(typed) => ctext = text
<1> DEFINE p == Taken(typed, LineMax)
           q == fgets_takes(typed)
           l == strlen(typed)
<1>1. /\ p \in 0 .. Len(typed) /\ q \in 0 .. Len(typed) /\ q <= p /\ l \in 0 .. q
      /\ WholeLine(typed) => p = l
  BY BothTake, StrlenIs
<1> HIDE DEF p, q, l
<1>2. l \in 0 .. Len(typed) /\ p \in l .. Len(typed)
  BY <1>1
<1>3. \A n \in 0 .. Len(typed) : Among(typed, n, Printable) \in Seq(Bytes)
  <2>1. ASSUME NEW n \in 0 .. Len(typed) PROVE Among(typed, n, Printable) \in Seq(Bytes)
    <3> DEFINE t == Among(typed, n, Printable)
    <3>1. t \in Seq(Printable \cap Chars)
      BY AmongTyped
    <3> HIDE DEF t
    <3>2. t \in Seq(Bytes)
      BY <3>1, Console
    <3> QED
      BY <3>2 DEF t
  <2> QED
    BY <2>1
<1>4. Len(Among(typed, l, Printable)) <= Len(Among(typed, p, Printable))
  BY <1>2, AmongGrows
<1> QED
  BY <1>1, <1>2, <1>3, <1>4 DEF StoredLine, StoredByC, p, l

\* The function value of Value: its first k values.
ValueNext(digits, f, k) == IF k = 0 THEN 0 ELSE Radix * f[k - 1] + Digit[digits[k]]
Valued(digits, f, n) == f = [k \in 0 .. n |-> ValueNext(digits, f, k)]

\* The number that the first digits are written for: a function of how many they are.
LEMMA ValueExists ==
  ASSUME NEW len \in Nat, NEW digits, NEW n \in 0 .. len
  PROVE  \E f : Valued(digits, f, n)
<1> DEFINE T == {k \in 0 .. len : ~ \E f : Valued(digits, f, k)}
<1> SUFFICES ASSUME T # {} PROVE FALSE
  OBVIOUS
<1>1. T \in SUBSET Nat
  OBVIOUS
<1>2. PICK k \in T : \A j \in T : ~ (j < k)
  BY <1>1, Least
<1>3. CASE k = 0
  <2> DEFINE f == [j \in 0 .. 0 |-> 0]
  <2>1. Valued(digits, f, 0)
    BY DEF Valued, ValueNext
  <2> QED
    BY <1>3, <2>1
<1>4. CASE k # 0
  <2>1. k \in Nat /\ k - 1 \in 0 .. len /\ k - 1 < k
    BY <1>4
  <2>2. PICK g : Valued(digits, g, k - 1)
    BY <1>2, <2>1
  <2> DEFINE f == [j \in 0 .. k |-> IF j = k THEN ValueNext(digits, g, k) ELSE g[j]]
  <2>3. \A j \in 0 .. k : f[j] = ValueNext(digits, f, j)
    <3>1. ASSUME NEW j \in 0 .. k PROVE f[j] = ValueNext(digits, f, j)
      <4>1. j # 0 => j - 1 \in 0 .. k /\ j - 1 # k
        BY <2>1
      <4>2. ValueNext(digits, f, j) = ValueNext(digits, g, j)
        BY <4>1 DEF ValueNext
      <4>3. j # k => g[j] = ValueNext(digits, g, j)
        BY <2>1, <2>2 DEF Valued
      <4> QED
        BY <4>2, <4>3
    <3> QED
      BY <3>1
  <2>4. Valued(digits, f, k)
    BY <2>3 DEF Valued
  <2> QED
    BY <2>4
<1> QED
  BY <1>3, <1>4

\* One more digit after a number leaves a number.
LEMMA Shifted ==
  ASSUME NEW r \in Nat, NEW n \in Nat, NEW d \in Nat
  PROVE  r * n + d \in Nat
<1>1. r * n \in Nat
  OBVIOUS
<1> QED
  BY <1>1

\* Digits stand for a number.
LEMMA ValueTyped ==
  ASSUME NEW digits \in Seq(DOMAIN Digit)
  PROVE  Value(digits) \in Nat
<1> DEFINE f == CHOOSE f : Valued(digits, f, Len(digits))
           T == {k \in 0 .. Len(digits) : f[k] \notin Nat}
<1>1. Value(digits) = f[Len(digits)]
  BY DEF Value, Valued, ValueNext
<1>2. Len(digits) \in 0 .. Len(digits) /\ Len(digits) \in Nat
  OBVIOUS
<1>3. Valued(digits, f, Len(digits))
  BY <1>2, ValueExists
<1> HIDE DEF f
<1> SUFFICES ASSUME T # {} PROVE FALSE
  BY <1>1, <1>2
<1>4. T \in SUBSET Nat
  OBVIOUS
<1>5. PICK k \in T : \A j \in T : ~ (j < k)
  BY <1>4, Least
<1>6. f[k] = ValueNext(digits, f, k)
  BY <1>3, <1>5 DEF Valued
<1>7. CASE k = 0
  BY <1>5, <1>6, <1>7 DEF ValueNext
<1>8. CASE k # 0
  <2>1. k - 1 \in 0 .. Len(digits) /\ k - 1 < k /\ digits[k] \in DOMAIN Digit
    BY <1>5, <1>8
  <2>2. f[k - 1] \in Nat /\ Digit[digits[k]] \in Nat /\ Radix \in Nat
    BY <1>5, <2>1, MachineAssumption
  <2>3. Radix * f[k - 1] + Digit[digits[k]] \in Nat
    BY <2>2, Shifted
  <2> QED
    BY <1>5, <1>6, <1>8, <2>3 DEF ValueNext
<1> QED
  BY <1>7, <1>8

\* The end of a run: no other characters before it, and another one behind it.
LEMMA RunEnd ==
  ASSUME NEW typed \in Seq(Chars), NEW k \in 0 .. Len(typed), NEW S
  PROVE  LET e == run_end(typed, k, S) IN
         /\ e \in k .. Len(typed) /\ \A j \in k + 1 .. e : typed[j] \in S
         /\ e = Len(typed) \/ typed[e + 1] \notin S
<1> DEFINE Ends(e) == /\ \A j \in k + 1 .. e : typed[j] \in S
                      /\ e = Len(typed) \/ typed[e + 1] \notin S
           T == {e \in k .. Len(typed) : e = Len(typed) \/ typed[e + 1] \notin S}
<1>0. k \in Nat /\ Len(typed) \in Nat
  OBVIOUS
<1>1. T \in SUBSET Nat /\ T # {}
  BY <1>0
<1>2. PICK e \in T : \A j \in T : ~ (j < e)
  BY <1>1, Least
<1>3. Ends(e)
  <2>1. ASSUME NEW j \in k + 1 .. e PROVE typed[j] \in S
    <3>1. j - 1 \in k .. Len(typed) /\ j - 1 < e /\ (j - 1) + 1 = j /\ j - 1 # Len(typed)
      BY <1>0, <1>2
    <3> QED
      BY <1>2, <3>1
  <2> QED
    BY <1>2, <2>1
<1>4. run_end(typed, k, S) = CHOOSE l \in k .. Len(typed) : Ends(l)
  BY DEF run_end
<1>5. run_end(typed, k, S) \in k .. Len(typed) /\ Ends(run_end(typed, k, S))
  BY <1>2, <1>3, <1>4
<1> QED
  BY <1>5

\* The digits that scanf takes lie in what was typed.
LEMMA DigitsOfC ==
  ASSUME NEW typed \in Seq(Chars)
  PROVE  LET start == before_digits(typed)
             end   == run_end(typed, start, DOMAIN Digit)
         IN  /\ start \in 0 .. Len(typed) /\ end \in start .. Len(typed)
             /\ SubSeq(typed, start + 1, end) \in Seq(DOMAIN Digit)
<1> DEFINE white == run_end(typed, 0, White)
           start == before_digits(typed)
           end   == run_end(typed, start, DOMAIN Digit)
<1>1. white \in 0 .. Len(typed)
  BY RunEnd
<1>2. start = IF white < Len(typed) /\ typed[white + 1] \in {Dash, PlusSign}
                THEN white + 1 ELSE white
  BY DEF before_digits
<1> HIDE DEF white, start
<1>3. start \in 0 .. Len(typed)
  BY <1>1, <1>2
<1>4. end \in start .. Len(typed) /\ \A j \in start + 1 .. end : typed[j] \in DOMAIN Digit
  BY <1>3, RunEnd
<1> HIDE DEF end
<1>5. SubSeq(typed, start + 1, end) \in Seq(DOMAIN Digit)
  BY <1>3, <1>4
<1> QED
  BY <1>3, <1>4, <1>5 DEF start, end

\* C finds a number in a line that begins with one.
LEMMA NumberOfC ==
  ASSUME NEW typed \in Seq(Chars), NumberFirst(typed)
  PROVE  run_end(typed, before_digits(typed), DOMAIN Digit) > before_digits(typed)
<1> DEFINE white == run_end(typed, 0, White)
           start == before_digits(typed)
           end   == run_end(typed, start, DOMAIN Digit)
<1>1. /\ white \in 0 .. Len(typed) /\ \A j \in 1 .. white : typed[j] \in White
      /\ start = IF white < Len(typed) /\ typed[white + 1] \in {Dash, PlusSign}
                   THEN white + 1 ELSE white
  BY RunEnd DEF before_digits
<1>2. /\ start \in 0 .. Len(typed) /\ end \in start .. Len(typed)
      /\ end = Len(typed) \/ typed[end + 1] \notin DOMAIN Digit
  BY DigitsOfC, RunEnd
<1>3. White \cap (DOMAIN Digit \cup {Dash, PlusSign}) = {} /\ {Dash, PlusSign} \cap DOMAIN Digit = {}
  BY MachineAssumption
<1>4. LineLength(typed) \in 0 .. Len(typed)
  BY LineInTyped
<1>5. \/ 1 <= Len(typed) /\ typed[1] \in DOMAIN Digit
      \/ 2 <= Len(typed) /\ typed[1] = Dash /\ typed[2] \in DOMAIN Digit
  BY <1>4 DEF NumberFirst
<1> HIDE DEF white, start, end
<1>6. white = 0
  BY <1>1, <1>3, <1>5
<1>7. CASE 1 <= Len(typed) /\ typed[1] \in DOMAIN Digit
  <2>1. start = 0
    BY <1>1, <1>3, <1>6, <1>7
  <2>2. end # 0
    BY <1>2, <1>7
  <2> QED
    BY <1>2, <2>1, <2>2 DEF start, end
<1>8. CASE 2 <= Len(typed) /\ typed[1] = Dash /\ typed[2] \in DOMAIN Digit
  <2>1. start = 1
    BY <1>1, <1>6, <1>8
  <2>2. end # 1
    BY <1>2, <1>8
  <2> QED
    BY <1>2, <2>1, <2>2 DEF start, end
<1> QED
  BY <1>5, <1>7, <1>8

\* So does Python: there is no minus behind the first character.
LEMMA NumberOfPython ==
  ASSUME NEW typed \in Seq(Chars), NumberFirst(typed)
  PROVE  IsNumeral(justnum(typed))
<1> DEFINE keep == DOMAIN Digit \cup {Dash}
           line == LineLength(typed)
           p    == Taken(typed, LineMax)
           First(s) == /\ Len(s) >= 1 /\ s[1] = typed[1]
                       /\ \A j \in 2 .. Len(s) : s[j] # Dash
<1>0. PICK f : /\ \A k \in 0 .. Len(typed) : Among(typed, k, keep) = f[k]
               /\ \A k \in 0 .. Len(typed) : f[k] = KeptNext(typed, keep, f, k)
  BY AmongIs
<1>1. line \in 0 .. Len(typed) /\ p = IF line < LineMax THEN line ELSE LineMax
  BY LineInTyped DEF Taken
<1>2. /\ line >= 1 /\ typed[1] \in keep
      /\ typed[1] = Dash => line >= 2 /\ typed[2] \in keep /\ typed[2] # Dash
      /\ \A k \in 2 .. line : typed[k] # Dash
  <2>1. /\ \/ 1 <= line /\ typed[1] \in DOMAIN Digit
           \/ 2 <= line /\ typed[2] \in DOMAIN Digit /\ typed[1] = Dash
        /\ \A k \in 2 .. line : typed[k] # Dash
    BY DEF NumberFirst
  <2>2. Dash \notin DOMAIN Digit
    BY MachineAssumption
  <2> HIDE DEF line
  <2> QED
    BY <1>1, <2>1, <2>2
<1>3. p \in 1 .. line /\ (typed[1] = Dash => p >= 2)
  BY <1>1, <1>2, Console
<1>4. \A k \in 0 .. Len(typed) : f[k] \in Seq(keep \cap Chars)
  BY <1>0, AmongTyped
<1> HIDE DEF keep, line, p
<1>5. f[1] = <<typed[1]>>
  <2>1. f[0] = <<>>
    BY <1>0 DEF KeptNext
  <2>2. 1 \in 0 .. Len(typed) /\ 1 - 1 = 0 /\ 1 # 0
    BY <1>1, <1>2
  <2>3. f[1] = Append(f[0], typed[1])
    BY <1>0, <1>2, <2>2 DEF KeptNext
  <2> QED
    BY <2>1, <2>3
<1> DEFINE Good(k) == First(f[k]) /\ (k >= 2 /\ typed[1] = Dash => Len(f[k]) >= 2)
           T == {k \in 1 .. line : ~ Good(k)}
<1>6. \A k \in 1 .. line : Good(k)
  <2> SUFFICES ASSUME T # {} PROVE FALSE
    OBVIOUS
  <2>1. T \in SUBSET Nat
    BY <1>1
  <2>2. PICK k \in T : \A j \in T : ~ (j < k)
    BY <2>1, Least
  <2>3. CASE k = 1
    BY <1>5, <2>2, <2>3
  <2>4. CASE k # 1
    <3>1. /\ k - 1 \in 1 .. line /\ k - 1 < k /\ k \in 2 .. line
          /\ k \in 0 .. Len(typed) /\ k - 1 \in 0 .. Len(typed) /\ k # 0
      BY <1>1, <2>2, <2>4
    <3>2. Good(k - 1) /\ f[k - 1] \in Seq(keep \cap Chars)
      BY <1>4, <2>2, <3>1
    <3>3. f[k] = IF typed[k] \in keep THEN Append(f[k - 1], typed[k]) ELSE f[k - 1]
      BY <1>0, <3>1 DEF KeptNext
    <3>4. typed[k] # Dash
      BY <1>2, <3>1
    <3> DEFINE s == f[k - 1]
               t == Append(s, typed[k])
    <3>5. /\ Len(s) \in Nat /\ Len(s) >= 1 /\ Len(t) = Len(s) + 1
          /\ t[Len(s) + 1] = typed[k] /\ \A j \in 1 .. Len(s) : t[j] = s[j]
      BY <3>2
    <3>6. First(t)
      <4>1. First(s)
        BY <3>2
      <4> HIDE DEF s, t
      <4>2. ASSUME NEW j \in 2 .. Len(t) PROVE t[j] # Dash
        <5>1. j \in 2 .. Len(s) \/ j = Len(s) + 1
          BY <3>5
        <5>2. CASE j \in 2 .. Len(s)
          BY <3>5, <4>1, <5>2
        <5>3. CASE j = Len(s) + 1
          BY <3>4, <3>5, <5>3
        <5> QED
          BY <5>1, <5>2, <5>3
      <4>3. Len(t) >= 1 /\ t[1] = typed[1]
        BY <3>5, <4>1
      <4> QED
        BY <4>2, <4>3
    <3>7. CASE typed[k] \in keep
      <4>1. f[k] = t
        BY <3>3, <3>7
      <4>2. Len(t) >= 2
        BY <3>5
      <4> HIDE DEF t
      <4>3. Good(k)
        BY <3>6, <4>1, <4>2
      <4> QED
        BY <2>2, <4>3
    <3>8. CASE typed[k] \notin keep
      <4>1. typed[1] = Dash => k # 2
        BY <1>2, <3>8
      <4>2. k >= 2 /\ typed[1] = Dash => k - 1 >= 2
        BY <3>1, <4>1
      <4>3. f[k] = f[k - 1]
        BY <3>3, <3>8
      <4>4. Good(k)
        BY <3>2, <4>2, <4>3
      <4> QED
        BY <2>2, <4>4
    <3> QED
      BY <3>7, <3>8
  <2> QED
    BY <2>3, <2>4
<1>7. Good(p) /\ f[p] \in Seq(keep \cap Chars)
  BY <1>1, <1>3, <1>4, <1>6
<1>8. justnum(typed) = f[p]
  <2>1. p \in 0 .. Len(typed)
    BY <1>1, <1>3
  <2> QED
    BY <1>0, <2>1 DEF justnum, keep, p
<1>9. f[p][Len(f[p])] # Dash
  <2>1. CASE Len(f[p]) = 1
    <3>1. typed[1] # Dash
      BY <1>3, <1>7, <2>1
    <3> QED
      BY <1>7, <2>1, <3>1
  <2>2. CASE Len(f[p]) # 1
    <3>1. Len(f[p]) \in 2 .. Len(f[p])
      <4>1. f[p] \in Seq(keep \cap Chars) /\ Len(f[p]) >= 1
        BY <1>7
      <4> DEFINE len == Len(f[p])
      <4>2. len \in Nat
        BY <4>1
      <4>3. len >= 1 /\ len # 1
        BY <2>2, <4>1
      <4> HIDE DEF len
      <4>4. len \in 2 .. len
        BY <4>2, <4>3
      <4> QED
        BY <4>4 DEF len
    <3> QED
      BY <1>7, <3>1
  <2> QED
    BY <2>1, <2>2
<1> QED
  BY <1>7, <1>8, <1>9 DEF IsNumeral

\* int() of a numeral is a number.
LEMMA IntTyped ==
  ASSUME NEW typed \in Seq(Chars), IsNumeral(justnum(typed))
  PROVE  int(justnum(typed)) \in Int
<1> DEFINE s == justnum(typed)
<1>1. s \in Seq(DOMAIN Digit \cup {Dash})
  <2>1. Taken(typed, LineMax) \in 0 .. Len(typed)
    BY LineInTyped, Console
  <2>2. s \in Seq((DOMAIN Digit \cup {Dash}) \cap Chars)
    BY <2>1, AmongTyped DEF justnum
  <2> HIDE DEF s
  <2> QED
    BY <2>2
<1> HIDE DEF s
<1>2. CASE s = <<>>
  BY <1>2 DEF int, s
<1>3. CASE s # <<>> /\ s[1] = Dash
  <2>1. Tail(s) \in Seq(DOMAIN Digit)
    <3>1. Len(s) \in Nat /\ Len(s) >= 1
      BY <1>1, <1>3
    <3>2. \A j \in 2 .. Len(s) : s[j] \in DOMAIN Digit
      BY <1>1, <1>3 DEF IsNumeral, s
    <3> DEFINE t == Tail(s)
    <3>3. /\ t \in Seq(DOMAIN Digit \cup {Dash}) /\ Len(t) = Len(s) - 1
          /\ \A j \in 1 .. Len(s) - 1 : t[j] = s[j + 1]
      BY <1>1, <1>3
    <3> HIDE DEF t
    <3>4. \A j \in 1 .. Len(t) : t[j] \in DOMAIN Digit
      BY <3>1, <3>2, <3>3
    <3>5. t \in Seq(DOMAIN Digit)
      BY <3>3, <3>4
    <3> QED
      BY <3>5 DEF t
  <2>2. Value(Tail(s)) \in Nat
    BY <2>1, ValueTyped
  <2>3. int(s) = -Value(Tail(s))
    BY <1>3 DEF int
  <2> QED
    BY <2>2, <2>3 DEF s
<1>4. CASE s # <<>> /\ s[1] # Dash
  <2>1. s \in Seq(DOMAIN Digit)
    <3>1. \A j \in 2 .. Len(s) : s[j] \in DOMAIN Digit
      BY <1>1, <1>4 DEF IsNumeral, s
    <3>2. s[1] \in DOMAIN Digit /\ Len(s) >= 1
      BY <1>1, <1>4
    <3>3. \A j \in 1 .. Len(s) : s[j] \in DOMAIN Digit
      BY <1>1, <3>1, <3>2
    <3> QED
      BY <1>1, <3>3
  <2>2. Value(s) \in Nat
    BY <2>1, ValueTyped
  <2>3. int(s) = Value(s)
    BY <1>4 DEF int
  <2> QED
    BY <2>2, <2>3 DEF s
<1> QED
  BY <1>2, <1>3, <1>4

-----------------------------------------------------------------------------
\* Two machines with the same registers have the same ones after a push.
LEMMA PushTwins ==
  ASSUME NEW w, NEW x, Twins(w, x), NEW v \in WordSet,
         NEW n \in optPUSH(w, v), NEW q \in push16(x, v)
  PROVE  Twins(n, q) /\ Beside(n, w) /\ Beside(q, x) /\ n.sp = w.sp + 1 /\ n.flags = w.flags
<1>1. x.sp < Depth /\ x.sp \in 0 .. Depth - 1 /\ x.sp + 1 \in 0 .. Depth
  <2>1. x.sp < Depth
    BY DEF push16, When
  <2> QED
    BY <2>1, Slots DEF Twins
<1> DEFINE h == [x.hw EXCEPT ![x.sp] = v]
<1>2. h \in Stack
  BY <1>1 DEF Twins, Stack
<1>3. n = [w EXCEPT !.hw = h, !.sp = x.sp + 1] /\ q = [x EXCEPT !.hw = h, !.sp = x.sp + 1]
  BY DEF Twins, optPUSH, push16, When
<1> HIDE DEF h
<1>4. /\ Whole(n) /\ n.hw = h /\ n.sp = x.sp + 1 /\ n.pc = w.pc /\ n.flags = w.flags
      /\ Beside(n, w)
  BY <1>3 DEF Twins, Whole, Fields, Beside
<1>5. /\ Whole(q) /\ q.hw = h /\ q.sp = x.sp + 1 /\ q.pc = x.pc /\ q.flags = x.flags
      /\ Beside(q, x)
  BY <1>3 DEF Twins, Whole, Fields, Beside
<1> QED
  BY <1>1, <1>2, <1>4, <1>5 DEF Twins

\* w with one word taken off the stack, and with other characters at the terminal.
Read(w, typed) == [SpAt(w, w.sp - 1) EXCEPT !.typed = typed]

\* Reading takes one word off the stack, and characters from the terminal.
LEMMA ReadIs ==
  ASSUME NEW w, Whole(w), NEW typed
  PROVE  LET z == Read(w, typed) IN
         /\ Whole(z) /\ z.pc = w.pc /\ z.flags = w.flags /\ z.sp = w.sp - 1
         /\ z.hw = w.hw /\ z.mem = w.mem /\ z.seg = w.seg /\ z.out = w.out
         /\ z.typed = typed
<1> DEFINE n == SpAt(w, w.sp - 1)
           z == [n EXCEPT !.typed = typed]
<1>1. /\ Whole(n) /\ n.hw = w.hw /\ n.pc = w.pc /\ n.flags = w.flags /\ n.sp = w.sp - 1
      /\ n.mem = w.mem /\ n.seg = w.seg /\ n.out = w.out
  BY DEF Whole, Fields, SpAt
<1> HIDE DEF n
<1>2. /\ Whole(z) /\ z.pc = w.pc /\ z.flags = w.flags /\ z.sp = w.sp - 1
      /\ z.hw = w.hw /\ z.mem = w.mem /\ z.seg = w.seg /\ z.out = w.out
      /\ z.typed = typed
  BY <1>1 DEF Whole, Fields
<1>3. z = Read(w, typed)
  BY DEF Read, n
<1> HIDE DEF z
<1> QED
  BY <1>2, <1>3

\* The bank with the word v at a.
Written(bank, a, v) == [bank EXCEPT ![a] = v % Byte, ![a + 1] = v \div Byte]

\* A word that is read at the terminal and stored.
LEMMA ReadOfPython ==
  ASSUME NEW x, IsMachine(x), x.sp # 0, NEW a \in WordSet, a # MAXMEMSP,
         NEW v \in WordSet, NEW typed \in Seq(Chars)
  PROVE  LET n == putwordat(Read(View(x), typed), a, v) IN
         /\ Shape(n, WordSet) /\ n.seg = x.seg /\ n.flags = x.flags
         /\ n.pc = x.pc /\ n.sp = x.sp - 1 /\ n.hw = x.hw /\ n.out = x.out /\ n.typed = typed
         /\ n.mem = Written(View(x).mem, a, v)
<1> DEFINE w == View(x)
           z == Read(w, typed)
           n == putwordat(z, a, v)
<1>1. /\ Shape(w, WordSet) /\ w.pc = x.pc /\ w.flags = x.flags /\ w.sp = x.sp
      /\ w.hw = x.hw /\ w.seg = x.seg /\ w.out = x.out
  BY ViewShape
<1>2. /\ Whole(z) /\ z.pc = w.pc /\ z.flags = w.flags /\ z.sp = w.sp - 1
      /\ z.hw = w.hw /\ z.mem = w.mem /\ z.seg = w.seg /\ z.out = w.out
      /\ z.typed = typed
  BY <1>1, ReadIs DEF Shape
<1>3. z.sp \in 0 .. Depth
  BY <1>1, <1>2, Numbers DEF Shape
<1> HIDE DEF w, z
<1>4. /\ Whole(n) /\ n.mem \in [WordSet -> Bytes]
      /\ n.pc = z.pc /\ n.flags = z.flags /\ n.sp = z.sp /\ n.hw = z.hw
      /\ n.seg = z.seg /\ n.out = z.out /\ n.typed = z.typed
      /\ n.mem = [z.mem EXCEPT ![a] = v % Byte, ![a + 1] = v \div Byte]
  BY <1>1, <1>2, PutOfPython DEF Shape
<1>5. n.mem = Written(w.mem, a, v)
  BY <1>2, <1>4 DEF Written
<1> HIDE DEF n
<1> QED
  BY <1>1, <1>2, <1>3, <1>4, <1>5 DEF Shape, n, z, w

\* A word that C reads at the terminal and stores.
LEMMA ReadOfC ==
  ASSUME NEW x, IsMachine(x), x.sp # 0, NEW a \in WordSet,
         NEW v \in WordSet, NEW typed \in Seq(Chars)
  PROVE  LET q == put16(Read(x, typed), a, v) IN
         /\ Shape(q, Memory(x.seg)) /\ q.seg = x.seg /\ q.flags = x.flags
         /\ q.pc = x.pc /\ q.sp = x.sp - 1 /\ q.hw = x.hw /\ q.out = x.out /\ q.typed = typed
         /\ a # MAXMEMSP =>
              q.mem = Merge(x, Written(View(x).mem, a, v))
<1> DEFINE y == Read(x, typed)
           q == put16(y, a, v)
<1>1. Shape(x, Memory(x.seg))
  BY MachineShape
<1>2. /\ Whole(y) /\ y.pc = x.pc /\ y.flags = x.flags /\ y.sp = x.sp - 1
      /\ y.hw = x.hw /\ y.mem = x.mem /\ y.seg = x.seg /\ y.out = x.out
      /\ y.typed = typed
  BY <1>1, ReadIs DEF Shape
<1>3. y.sp \in 0 .. Depth
  <2>1. x.sp \in 0 .. Depth /\ y.sp = x.sp - 1
    BY <1>1, <1>2 DEF Shape
  <2> HIDE DEF y
  <2> QED
    BY <2>1, Slots
<1> HIDE DEF y
<1>4. /\ Whole(q) /\ q.mem \in [Memory(x.seg) -> Bytes]
      /\ q.pc = y.pc /\ q.flags = y.flags /\ q.sp = y.sp /\ q.hw = y.hw
      /\ q.seg = x.seg /\ q.out = y.out /\ q.typed = y.typed
      /\ a # MAXMEMSP =>
           q.mem = Merge(x, Written(View(x).mem, a, v))
  BY <1>2, PutOfC DEF Written
<1> HIDE DEF q
<1> QED
  BY <1>1, <1>2, <1>3, <1>4 DEF Shape, q, y

\* Both store the same word in the same place.
LEMMA ReadAgree ==
  ASSUME NEW x, IsMachine(x), x.sp # 0, NEW a \in WordSet, a # MAXMEMSP,
         NEW v \in WordSet, NEW typed \in Seq(Chars), NEW i
  PROVE  LET n == putwordat(Read(View(x), typed), a, v)
             q == put16(Read(x, typed), a, v)
         IN  Agree(n, q, i) /\ Like(n, q, x)
<1> DEFINE n == putwordat(Read(View(x), typed), a, v)
           q == put16(Read(x, typed), a, v)
           bank == Written(View(x).mem, a, v)
<1>1. /\ n.pc = x.pc /\ n.flags = x.flags /\ n.sp = x.sp - 1 /\ n.hw = x.hw
      /\ n.out = x.out /\ n.typed = typed /\ n.mem = bank
  BY ReadOfPython
<1>2. /\ q.pc = x.pc /\ q.flags = x.flags /\ q.sp = x.sp - 1 /\ q.hw = x.hw
      /\ q.out = x.out /\ q.typed = typed /\ q.mem = Merge(x, bank)
  BY ReadOfC
<1> HIDE DEF n, q, bank
<1> QED
  BY <1>1, <1>2 DEF Agree, Like, n, q

\* The bank with a text and a zero, as Python stores it, and as C does.
TextIn(bank, a, text) ==
  [b \in DOMAIN bank |->
     IF b \in a .. a + Len(text) - 1 THEN text[b - a + 1]
     ELSE IF Len(text) > 0 /\ b = a + Len(text) THEN 0 ELSE bank[b]]

TextEnded(mem, first, text) ==
  [a \in DOMAIN mem |->
     IF a \in first .. first + Len(text) - 1 THEN text[a - first + 1] ELSE mem[a]]

\* A memory with a text written into it is a memory.
LEMMA TextTyped ==
  ASSUME NEW bank, NEW addresses, bank \in [addresses -> Bytes],
         NEW a \in Nat, NEW text \in Seq(Bytes)
  PROVE  /\ TextIn(bank, a, text) \in [addresses -> Bytes]
         /\ TextEnded(bank, a, text) \in [addresses -> Bytes]
<1>1. 0 \in Bytes /\ DOMAIN bank = addresses
  BY Numbers DEF Bytes
<1>2. \A b : b \in a .. a + Len(text) - 1 => text[b - a + 1] \in Bytes
  OBVIOUS
<1>3. TextIn(bank, a, text) \in [addresses -> Bytes]
  BY <1>1, <1>2 DEF TextIn
<1>4. TextEnded(bank, a, text) \in [addresses -> Bytes]
  BY <1>1, <1>2 DEF TextEnded
<1> QED
  BY <1>3, <1>4

\* A text that C writes to memory is the one that Python writes to the bank, with its zero.
LEMMA TextMerged ==
  ASSUME NEW x, IsMachine(x), NEW a \in WordSet, NEW text \in Seq(Bytes), text # <<>>,
         a + Len(text) <= MAXMEMSP
  PROVE  TextEnded(x.mem, Base(x) + a, text \o <<0>>) = Merge(x, TextIn(View(x).mem, a, text))
<1> DEFINE first == Base(x) + a
           ended == text \o <<0>>
           bank  == TextIn(View(x).mem, a, text)
           len   == Len(text)
<1>1. /\ Base(x) \in Nat /\ DOMAIN x.mem = Memory(x.seg)
      /\ \A d \in WordSet : Base(x) + d \in Memory(x.seg)
  BY BaseRange
<1>2. View(x).mem = [d \in WordSet |-> x.mem[Base(x) + d]]
  BY ViewShape
<1>3. len \in Nat /\ len > 0
  OBVIOUS
<1>4. /\ Len(ended) = len + 1
      /\ \A k \in 1 .. len : ended[k] = text[k]
      /\ ended[len + 1] = 0
  OBVIOUS
<1>5. \A d \in WordSet :
        bank[d] = IF d \in a .. a + len - 1 THEN text[d - a + 1]
                  ELSE IF d = a + len THEN 0 ELSE x.mem[Base(x) + d]
  BY <1>2, <1>3 DEF TextIn
<1> HIDE DEF first, ended, bank, len
<1>6. ASSUME NEW b \in Memory(x.seg)
      PROVE  (IF b \in first .. first + Len(ended) - 1 THEN ended[b - first + 1] ELSE x.mem[b])
               = (IF b - Base(x) \in WordSet THEN bank[b - Base(x)] ELSE x.mem[b])
  <2> DEFINE d == b - Base(x)
  <2>0. b \in Int
    BY Numbers DEF Memory, WordSet
  <2>1. d \in Int /\ b = Base(x) + d /\ b - first + 1 = d - a + 1
    BY <1>1, <2>0, Numbers DEF first, WordSet
  <2>2. b \in first .. first + Len(ended) - 1 <=> d \in a .. a + len
    BY <1>1, <1>3, <1>4, <2>0, Numbers DEF first, WordSet
  <2>3. CASE d \in a .. a + len - 1
    <3>1. d \in WordSet /\ d \in a .. a + len /\ d - a + 1 \in 1 .. len
      BY <1>3, <2>1, <2>3, Numbers DEF WordSet, MAXMEMSP, len
    <3> HIDE DEF d
    <3>2. bank[d] = text[d - a + 1] /\ ended[d - a + 1] = text[d - a + 1]
      BY <1>4, <1>5, <2>3, <3>1
    <3> QED
      BY <2>1, <2>2, <3>1, <3>2 DEF d
  <2>4. CASE d = a + len
    <3>1. d \in WordSet /\ d \in a .. a + len /\ d - a + 1 = len + 1 /\ d \notin a .. a + len - 1
      BY <1>3, <2>1, <2>4, Numbers DEF WordSet, MAXMEMSP, len
    <3> HIDE DEF d
    <3>2. bank[d] = 0 /\ ended[d - a + 1] = 0
      BY <1>4, <1>5, <2>4, <3>1
    <3> QED
      BY <2>1, <2>2, <3>1, <3>2 DEF d
  <2>5. CASE d \notin a .. a + len
    <3>1. d \notin a .. a + len - 1 /\ d # a + len
      BY <1>3, <2>1, <2>5, Numbers DEF WordSet
    <3> HIDE DEF d
    <3>2. d \in WordSet => bank[d] = x.mem[b]
      BY <1>5, <2>1, <3>1
    <3> QED
      BY <2>2, <2>5, <3>2 DEF d
  <2>6. d \in a .. a + len => d \in a .. a + len - 1 \/ d = a + len
    BY <1>3, <2>1, Numbers DEF WordSet
  <2> QED
    BY <2>3, <2>4, <2>5, <2>6
<1> QED
  BY <1>1, <1>6 DEF TextEnded, Merge, first, ended, bank

\* w with one word taken off, other characters at the terminal, and other memory.
Stores(n, w, typed, mem) ==
  /\ Whole(n) /\ n.pc = w.pc /\ n.flags = w.flags /\ n.sp = w.sp - 1 /\ n.hw = w.hw
  /\ n.seg = w.seg /\ n.out = w.out /\ n.typed = typed /\ n.mem = mem

\* What ReadStrI stores in Python.
LEMMA StringOfPython ==
  ASSUME NEW w, Whole(w), NEW a, NEW n \in pollStr([w EXCEPT !.sp = @ - 1], a)
  PROVE  LET text == StoredLine(w.typed) IN
         /\ Len(text) = 0 \/ a + Len(text) <= MAXMEMSP - Slack
         /\ Stores(n, w, Unread(w.typed, Taken(w.typed, LineMax)), TextIn(w.mem, a, text))
<1> DEFINE z == [w EXCEPT !.sp = w.sp - 1]
           text == StoredLine(z.typed)
           rest == Unread(z.typed, Taken(z.typed, LineMax))
           mem == [b \in DOMAIN z.mem |->
                     IF b \in a .. a + Len(text) - 1 THEN text[b - a + 1]
                     ELSE IF Len(text) > 0 /\ b = a + Len(text) THEN 0 ELSE z.mem[b]]
<1>1. /\ Len(text) = 0 \/ a + Len(text) <= MAXMEMSP - Slack
      /\ n = [z EXCEPT !.typed = rest, !.mem = mem]
  BY DEF pollStr, When, StoredLine
<1>2. /\ Whole(z) /\ z.pc = w.pc /\ z.flags = w.flags /\ z.sp = w.sp - 1 /\ z.hw = w.hw
      /\ z.seg = w.seg /\ z.out = w.out /\ z.typed = w.typed /\ z.mem = w.mem
  BY DEF Whole, Fields
<1> HIDE DEF z
<1>3. /\ mem = TextIn(w.mem, a, StoredLine(w.typed))
      /\ rest = Unread(w.typed, Taken(w.typed, LineMax))
  BY <1>2 DEF TextIn
<1> HIDE DEF mem, rest
<1>4. /\ Whole(n) /\ n.pc = w.pc /\ n.flags = w.flags /\ n.sp = w.sp - 1 /\ n.hw = w.hw
      /\ n.seg = w.seg /\ n.out = w.out /\ n.typed = rest /\ n.mem = mem
  BY <1>1, <1>2 DEF Whole, Fields
<1> QED
  BY <1>1, <1>2, <1>3, <1>4 DEF Stores

\* What ReadStrI stores in C.
LEMMA StringOfC ==
  ASSUME NEW x, Whole(x), NEW a, NEW q \in poll_str([x EXCEPT !.sp = @ - 1], a)
  PROVE  LET text == StoredByC(x.typed) \o <<0>> IN
         /\ a + Len(text) - 1 <= MAXMEMSP
         /\ Stores(q, x, Unread(x.typed, fgets_takes(x.typed)),
                   TextEnded(x.mem, vm_data_address(x, a), text))
<1> DEFINE z == [x EXCEPT !.sp = x.sp - 1]
           text == StoredByC(z.typed) \o <<0>>
           rest == Unread(z.typed, fgets_takes(z.typed))
           first == vm_data_address(z, a)
           mem == [b \in DOMAIN z.mem |->
                     IF b \in first .. first + Len(text) - 1 THEN text[b - first + 1]
                     ELSE z.mem[b]]
<1>1. /\ a + Len(text) - 1 <= MAXMEMSP
      /\ q = [z EXCEPT !.typed = rest, !.mem = mem]
  BY DEF poll_str, When, StoredByC
<1>2. /\ Whole(z) /\ z.pc = x.pc /\ z.flags = x.flags /\ z.sp = x.sp - 1 /\ z.hw = x.hw
      /\ z.seg = x.seg /\ z.out = x.out /\ z.typed = x.typed /\ z.mem = x.mem
  BY DEF Whole, Fields
<1> HIDE DEF z
<1>3. first = vm_data_address(x, a)
  BY <1>2, SameBank
<1>4. /\ mem = TextEnded(x.mem, vm_data_address(x, a), StoredByC(x.typed) \o <<0>>)
      /\ rest = Unread(x.typed, fgets_takes(x.typed))
  BY <1>2, <1>3 DEF TextEnded
<1> HIDE DEF mem, rest
<1>5. /\ Whole(q) /\ q.pc = x.pc /\ q.flags = x.flags /\ q.sp = x.sp - 1 /\ q.hw = x.hw
      /\ q.seg = x.seg /\ q.out = x.out /\ q.typed = rest /\ q.mem = mem
  BY <1>1, <1>2 DEF Whole, Fields
<1> QED
  BY <1>1, <1>2, <1>4, <1>5 DEF Stores

\* Reading a line: the results, and that they are alike.
LEMMA StringAgree ==
  ASSUME NEW x, IsMachine(x), x.sp # 0, NEW a \in WordSet
  PROVE  LET w    == View(x)
             P    == pollStr([w EXCEPT !.sp = @ - 1], a)
             C    == poll_str([x EXCEPT !.sp = @ - 1], a)
             text == StoredLine(x.typed)
         IN  /\ Shaped(P, C, x)
             /\ \A n \in P : n.flags = x.flags
             /\ \A q \in C : q.flags = x.flags
             /\ C = {} => P = {}
             /\ RoomAt(a + Len(text) - 1) => P # {}
             /\ text # <<>> /\ WholeLine(x.typed) =>
                  \A n \in P, q \in C : \A i : Agree(n, q, i) /\ Like(n, q, x)
<1> DEFINE w    == View(x)
           P    == pollStr([w EXCEPT !.sp = @ - 1], a)
           C    == poll_str([x EXCEPT !.sp = @ - 1], a)
           text  == StoredLine(x.typed)
           ctext == StoredByC(x.typed)
           rest  == Unread(x.typed, Taken(x.typed, LineMax))
           crest == Unread(x.typed, fgets_takes(x.typed))
           bank  == TextIn(w.mem, a, text)
           mem   == TextEnded(x.mem, Base(x) + a, ctext \o <<0>>)
<1>1. /\ Shape(w, WordSet) /\ w.pc = x.pc /\ w.flags = x.flags /\ w.sp = x.sp
      /\ w.hw = x.hw /\ w.seg = x.seg /\ w.out = x.out /\ w.typed = x.typed
  BY ViewShape
<1>2. Shape(x, Memory(x.seg))
  BY MachineShape
<1>3. /\ text \in Seq(Bytes) /\ ctext \o <<0>> \in Seq(Bytes) /\ Len(ctext) <= Len(text)
      /\ rest \in Seq(Chars) /\ crest \in Seq(Chars) /\ Len(ctext) \in Nat
      /\ Len(ctext \o <<0>>) = Len(ctext) + 1 /\ Len(text) \in Nat
      /\ WholeLine(x.typed) => rest = crest /\ ctext = text
  <2>1. x.typed \in Seq(Chars) /\ 0 \in Bytes
    BY <1>2, Console DEF Shape
  <2>2. /\ text \in Seq(Bytes) /\ ctext \in Seq(Bytes) /\ Len(ctext) <= Len(text)
        /\ WholeLine(x.typed) => ctext = text
    BY <2>1, StoredTyped
  <2>3. /\ Taken(x.typed, LineMax) \in 0 .. Len(x.typed) /\ fgets_takes(x.typed) \in 0 .. Len(x.typed)
        /\ WholeLine(x.typed) => Taken(x.typed, LineMax) = fgets_takes(x.typed)
    BY <2>1, BothTake
  <2>4. rest \in Seq(Chars) /\ crest \in Seq(Chars)
    BY <2>1, <2>3, LineInTyped
  <2> HIDE DEF text, ctext
  <2> QED
    BY <2>1, <2>2, <2>3, <2>4
<1>4. bank \in [WordSet -> Bytes] /\ mem \in [Memory(x.seg) -> Bytes]
  <2>1. a \in Nat /\ Base(x) + a \in Nat
    BY BaseRange, Numbers DEF WordSet
  <2>2. w.mem \in [WordSet -> Bytes] /\ x.mem \in [Memory(x.seg) -> Bytes]
    BY <1>1, <1>2 DEF Shape
  <2> HIDE DEF text, ctext, w
  <2> QED
    BY <1>3, <2>1, <2>2, TextTyped
<1>5. x.sp - 1 \in 0 .. Depth
  BY <1>2, Numbers DEF Shape
<1>6. vm_data_address(x, a) = Base(x) + a
  BY Addresses16
<1>7. ASSUME NEW n \in P PROVE Stores(n, w, rest, bank) /\ (Len(text) = 0 \/ a + Len(text) <= MAXMEMSP - Slack)
  BY <1>1, <1>7, StringOfPython DEF Shape
<1>8. ASSUME NEW q \in C PROVE Stores(q, x, crest, mem)
  BY <1>2, <1>6, <1>8, StringOfC DEF Shape
<1>9. ASSUME NEW n \in P PROVE Shape(n, WordSet) /\ n.seg = x.seg /\ n.flags = x.flags
  <2>1. Stores(n, w, rest, bank)
    BY <1>7
  <2> HIDE DEF w, rest, bank, P
  <2> QED
    BY <1>1, <1>3, <1>4, <1>5, <2>1 DEF Stores, Shape
<1>10. ASSUME NEW q \in C
       PROVE  Shape(q, Memory(x.seg)) /\ q.seg = x.seg /\ q.flags = x.flags
  <2>1. Stores(q, x, crest, mem)
    BY <1>8
  <2> HIDE DEF crest, mem, C
  <2> QED
    BY <1>2, <1>3, <1>4, <1>5, <2>1 DEF Stores, Shape
<1>11. P # {} <=> Len(text) = 0 \/ a + Len(text) <= MAXMEMSP - Slack
  <2>1. [w EXCEPT !.sp = w.sp - 1].typed = x.typed
    BY <1>1 DEF Shape, Whole, Fields
  <2> QED
    BY <2>1 DEF pollStr, When, StoredLine
<1>12. C = {} <=> ~ (a + Len(ctext \o <<0>>) - 1 <= MAXMEMSP)
  <2>1. [x EXCEPT !.sp = x.sp - 1].typed = x.typed
    BY <1>2 DEF Shape, Whole, Fields
  <2> QED
    BY <2>1 DEF poll_str, When, StoredByC
<1> HIDE DEF P, C, text, ctext
<1>14. C = {} => P = {}
  BY <1>3, <1>11, <1>12, Numbers, MachineAssumption DEF WordSet, MAXMEMSP
<1>15. RoomAt(a + Len(text) - 1) => P # {}
  BY <1>3, <1>11, Numbers, MachineAssumption DEF WordSet, MAXMEMSP, RoomAt
<1>16. ASSUME text # <<>>, WholeLine(x.typed), NEW n \in P, NEW q \in C, NEW i
       PROVE  Agree(n, q, i) /\ Like(n, q, x)
  <2>1. Stores(n, w, rest, bank) /\ Stores(q, x, crest, mem)
    BY <1>7, <1>8
  <2>2. Len(text) # 0
    BY <1>3, <1>16
  <2>3. a + Len(text) <= MAXMEMSP
    <3>1. a + Len(text) <= MAXMEMSP - Slack
      BY <1>7, <2>2
    <3> QED
      BY <1>3, <3>1, Numbers, MachineAssumption DEF WordSet, MAXMEMSP
  <2>4. mem = Merge(x, bank)
    BY <1>3, <1>16, <2>3, TextMerged
  <2>5. rest = crest
    BY <1>3, <1>16
  <2> HIDE DEF w, rest, crest, bank, mem
  <2> QED
    BY <1>1, <2>1, <2>4, <2>5 DEF Stores, Agree, Like
<1>17. Shaped(P, C, x)
  BY <1>9, <1>10 DEF Shaped
<1> QED
  BY <1>9, <1>10, <1>14, <1>15, <1>16, <1>17 DEF P, C, text

\* The time is two words.
LEMMA NowWords == Now % WordSize \in WordSet /\ Now \div WordSize \in WordSet
<1>1. /\ Now \in Nat /\ Now < WordSize * WordSize
      /\ WordSize \in Nat /\ WordSize > 0
  BY Numbers, MachineAssumption
<1>2. Now % WordSize \in WordSet
  BY <1>1 DEF WordSet
<1>3. Now \div WordSize \in Nat /\ Now = WordSize * (Now \div WordSize) + (Now % WordSize)
  BY <1>1
<1>4. Now \div WordSize < WordSize
  <2>1. SUFFICES ASSUME Now \div WordSize >= WordSize PROVE FALSE
    BY <1>1, <1>3
  <2>2. WordSize * (Now \div WordSize) >= WordSize * WordSize
    BY <1>1, <1>3, <2>1
  <2> QED
    BY <1>1, <1>2, <1>3, <2>2 DEF WordSet
<1> QED
  BY <1>1, <1>2, <1>3, <1>4 DEF WordSet

\* ReadTime: two words on the stack.
LEMMA TimeAgree ==
  ASSUME NEW x, IsMachine(x), x.sp # 0
  PROVE  LET d == [View(x) EXCEPT !.sp = @ - 1]
             n == [x EXCEPT !.sp = @ - 1]
             P == pollTime(d)
             C == IF n.sp > Depth - 2 THEN {}
                  ELSE UNION {push16(k, Now \div WordSize) : k \in push16(n, Now % WordSize)}
         IN  /\ \A p \in P : Quiet(p, View(x)) /\ p.flags = x.flags
             /\ \A q \in C : Quiet(q, x) /\ q.flags = x.flags
             /\ C = {} <=> P = {}
             /\ \A p \in P, q \in C : \A i : Agree(p, q, i)
<1> DEFINE w  == View(x)
           lo == Now % WordSize
           hi == Now \div WordSize
           d  == [w EXCEPT !.sp = w.sp - 1]
           n  == [x EXCEPT !.sp = x.sp - 1]
           P  == UNION {optPUSH(k, hi) : k \in optPUSH(d, lo)}
           D  == UNION {push16(k, hi) : k \in push16(n, lo)}
           C  == IF n.sp > Depth - 2 THEN {} ELSE D
<1>1. Twins(w, x)
  BY ViewTwins
<1>2. lo \in WordSet /\ hi \in WordSet
  BY NowWords
<1>3. /\ Twins(d, n) /\ d.sp = w.sp - 1 /\ d.flags = w.flags /\ Beside(d, w)
      /\ Twins(n, n) /\ n.sp = x.sp - 1 /\ n.flags = x.flags /\ Beside(n, x)
  <2>1. /\ Whole(d) /\ Beside(d, w)
        /\ d.pc = w.pc /\ d.flags = w.flags /\ d.sp = w.sp - 1 /\ d.hw = w.hw
    BY <1>1, SpSet DEF Twins
  <2>2. /\ Whole(n) /\ Beside(n, x)
        /\ n.pc = x.pc /\ n.flags = x.flags /\ n.sp = x.sp - 1 /\ n.hw = x.hw
    BY <1>1, SpSet DEF Twins
  <2>3. x.sp - 1 \in 0 .. Depth
    BY <1>1, Slots DEF Twins
  <2> HIDE DEF w, d, n
  <2> QED
    BY <1>1, <2>1, <2>2, <2>3 DEF Twins
<1>4. pollTime(d) = P
  BY DEF pollTime
<1> HIDE DEF w, d, n, lo, hi
<1>5. ASSUME NEW p \in P
      PROVE  /\ \E k \in optPUSH(d, lo) : p \in optPUSH(k, hi)
             /\ Quiet(p, w) /\ p.flags = w.flags /\ p.sp = w.sp + 1
  <2>1. PICK k \in optPUSH(d, lo) : p \in optPUSH(k, hi)
    OBVIOUS
  <2>2. /\ Twins(k, k) /\ Beside(k, d) /\ k.sp = d.sp + 1 /\ k.flags = d.flags
    <3>1. Twins(d, d)
      BY <1>3 DEF Twins
    <3>2. k \in push16(d, lo)
      BY <2>1 DEF optPUSH, push16
    <3> QED
      BY <1>2, <2>1, <3>1, <3>2, PushTwins
  <2>3. /\ Twins(p, p) /\ Beside(p, k) /\ p.sp = k.sp + 1 /\ p.flags = k.flags
    <3>1. p \in push16(k, hi)
      BY <2>1 DEF optPUSH, push16
    <3> QED
      BY <1>2, <2>1, <2>2, <3>1, PushTwins
  <2>4. p.sp = w.sp + 1
    BY <1>1, <1>3, <2>2, <2>3 DEF Twins
  <2> QED
    BY <1>3, <2>1, <2>2, <2>3, <2>4 DEF Twins, Beside, Quiet
<1>6. ASSUME NEW q \in D
      PROVE  /\ \E k \in push16(n, lo) : q \in push16(k, hi)
             /\ Quiet(q, x) /\ q.flags = x.flags
  <2>1. PICK k \in push16(n, lo) : q \in push16(k, hi)
    OBVIOUS
  <2>2. /\ Twins(k, k) /\ Beside(k, n) /\ k.sp = n.sp + 1 /\ k.flags = n.flags
    <3>1. k \in optPUSH(n, lo)
      BY <2>1 DEF optPUSH, push16
    <3> QED
      BY <1>2, <1>3, <2>1, <3>1, PushTwins
  <2>3. /\ Twins(q, q) /\ Beside(q, k) /\ q.flags = k.flags
    <3>1. q \in optPUSH(k, hi)
      BY <2>1 DEF optPUSH, push16
    <3> QED
      BY <1>2, <2>1, <2>2, <3>1, PushTwins
  <2> QED
    BY <1>3, <2>1, <2>2, <2>3 DEF Twins, Beside, Quiet
<1>7. ASSUME NEW p \in P, NEW q \in D, NEW i
      PROVE  Agree(p, q, i)
  <2>1. PICK k \in optPUSH(d, lo) : p \in optPUSH(k, hi)
    BY <1>5
  <2>2. PICK l \in push16(n, lo) : q \in push16(l, hi)
    BY <1>6
  <2>3. Twins(k, l)
    BY <1>2, <1>3, <2>1, <2>2, PushTwins
  <2>4. Twins(p, q)
    BY <1>2, <2>1, <2>2, <2>3, PushTwins
  <2> QED
    BY <2>4 DEF Twins, Agree
<1>8. P # {} <=> ~ (n.sp > Depth - 2)
  <2>1. CASE n.sp > Depth - 2
    <3>1. ASSUME NEW p \in P PROVE FALSE
      <4>1. p.sp = x.sp + 1 /\ p.sp \in 0 .. Depth
        BY <1>1, <1>5, <3>1 DEF Twins, Quiet
      <4> QED
        BY <1>1, <1>3, <2>1, <4>1, Numbers DEF Twins
    <3> QED
      BY <2>1, <3>1
  <2>2. CASE ~ (n.sp > Depth - 2)
    <3>1. n.sp < Depth /\ n.sp + 1 < Depth
      BY <1>3, <2>2, Numbers DEF Twins
    <3>2. d.sp < Depth
      BY <1>3, <3>1 DEF Twins
    <3>3. PICK k : k \in optPUSH(d, lo)
      BY <3>2 DEF optPUSH, When
    <3>4. k.sp < Depth
      <4>1. k \in push16(d, lo) /\ Twins(d, d)
        BY <1>3, <3>3 DEF optPUSH, push16, Twins
      <4>2. k.sp = d.sp + 1
        BY <1>2, <3>3, <4>1, PushTwins
      <4> QED
        BY <1>3, <3>1, <4>2 DEF Twins
    <3>5. PICK p : p \in optPUSH(k, hi)
      BY <3>4 DEF optPUSH, When
    <3> QED
      BY <2>2, <3>3, <3>5
  <2> QED
    BY <2>1, <2>2
<1>9. ~ (n.sp > Depth - 2) => D # {}
  <2> SUFFICES ASSUME ~ (n.sp > Depth - 2) PROVE D # {}
    OBVIOUS
  <2>1. n.sp < Depth /\ n.sp + 1 < Depth
    BY <1>3, Numbers DEF Twins
  <2>3. PICK k : k \in push16(n, lo)
    BY <2>1 DEF push16, When
  <2>4. k.sp < Depth
    <3>1. k \in optPUSH(n, lo)
      BY <2>3 DEF optPUSH, push16
    <3>2. k.sp = n.sp + 1
      BY <1>2, <1>3, <2>3, <3>1, PushTwins
    <3> QED
      BY <2>1, <3>2
  <2>5. PICK p : p \in push16(k, hi)
    BY <2>4 DEF push16, When
  <2> QED
    BY <2>3, <2>5
<1> HIDE DEF P, D
<1>10. /\ \A p \in P : Quiet(p, w) /\ p.flags = x.flags
       /\ \A q \in C : Quiet(q, x) /\ q.flags = x.flags
       /\ C = {} <=> P = {}
       /\ \A p \in P, q \in C : \A i : Agree(p, q, i)
  BY <1>1, <1>5, <1>6, <1>7, <1>8, <1>9 DEF Twins
<1> QED
  BY <1>4, <1>10 DEF P, D, C, w, d, n, lo, hi

\* POLL has no other commands.
LEMMA PollName ==
  ASSUME NEW v
  PROVE  LET cmd == Named(Polls, v) IN
         \/ cmd = "none" \/ cmd = "ReadIntI" \/ cmd = "ReadStrI" \/ cmd = "ReadCharI"
         \/ cmd = "ReadCINoWait" \/ cmd = "ReadTime"
BY MachineAssumption DEF Named, PollNames

\* Which part of POLL a command is.
LEMMA PollIs ==
  ASSUME NEW w, NEW a, RoomAt(a), w.sp # 0
  PROVE  LET cmd == Named(Polls, fetchStack(w, 0))
             n   == [w EXCEPT !.sp = @ - 1]
         IN
         /\ cmd = "none" => optPOLL(w, a) = {w}
         /\ cmd = "ReadIntI" => optPOLL(w, a) = pollInt(n, a)
         /\ cmd = "ReadStrI" => optPOLL(w, a) = pollStr(n, a)
         /\ cmd = "ReadCharI" \/ cmd = "ReadCINoWait" => optPOLL(w, a) = pollChar(n, a)
         /\ cmd = "ReadTime" => optPOLL(w, a) = pollTime(n)
<1> DEFINE cmd == Named(Polls, fetchStack(w, 0))
           n   == [w EXCEPT !.sp = @ - 1]
<1> HIDE DEF cmd, n
<1>1. optPOLL(w, a) =
        CASE cmd = "none"     -> {w}
          [] cmd = "ReadIntI" -> pollInt(n, a)
          [] cmd = "ReadStrI" -> pollStr(n, a)
          [] cmd \in {"ReadCharI", "ReadCINoWait"} -> pollChar(n, a)
          [] cmd = "ReadTime" -> pollTime(n)
  BY DEF optPOLL, cmd, n
<1>2. /\ cmd = "none" => optPOLL(w, a) = {w}
      /\ cmd = "ReadIntI" => optPOLL(w, a) = pollInt(n, a)
      /\ cmd = "ReadStrI" => optPOLL(w, a) = pollStr(n, a)
      /\ cmd = "ReadCharI" \/ cmd = "ReadCINoWait" => optPOLL(w, a) = pollChar(n, a)
      /\ cmd = "ReadTime" => optPOLL(w, a) = pollTime(n)
  BY <1>1
<1> QED
  BY <1>2 DEF cmd, n

\* handle_poll, by the command.
LEMMA HandlePollIs ==
  ASSUME NEW x, NEW a
  PROVE  LET cmd == Named(Polls, peek0(x))
             n   == [x EXCEPT !.sp = @ - 1]
         IN
         /\ cmd = "none" => handle_poll(x, a) = {}
         /\ cmd = "ReadIntI" => handle_poll(x, a) = poll_int(n, a)
         /\ cmd = "ReadStrI" => handle_poll(x, a) = poll_str(n, a)
         /\ cmd = "ReadCharI" \/ cmd = "ReadCINoWait" => handle_poll(x, a) =
              {put16([n EXCEPT !.typed = AfterChar(@)], a, NextChar(n.typed))}
         /\ cmd = "ReadTime" => handle_poll(x, a) =
              IF n.sp > Depth - 2 THEN {}
              ELSE UNION {push16(k, Now \div WordSize) : k \in push16(n, Now % WordSize)}
<1> DEFINE cmd  == Named(Polls, peek0(x))
           n    == [x EXCEPT !.sp = @ - 1]
           char == {put16([n EXCEPT !.typed = AfterChar(@)], a, NextChar(n.typed))}
           time == IF n.sp > Depth - 2 THEN {}
                   ELSE UNION {push16(k, Now \div WordSize) : k \in push16(n, Now % WordSize)}
<1> HIDE DEF cmd, n, char, time
<1>1. handle_poll(x, a) =
        CASE cmd = "none"     -> {}
          [] cmd = "ReadIntI" -> poll_int(n, a)
          [] cmd = "ReadStrI" -> poll_str(n, a)
          [] cmd \in {"ReadCharI", "ReadCINoWait"} -> char
          [] cmd = "ReadTime" -> time
  BY DEF handle_poll, cmd, n, char, time
<1>2. /\ cmd = "none" => handle_poll(x, a) = {}
      /\ cmd = "ReadIntI" => handle_poll(x, a) = poll_int(n, a)
      /\ cmd = "ReadStrI" => handle_poll(x, a) = poll_str(n, a)
      /\ cmd = "ReadCharI" \/ cmd = "ReadCINoWait" => handle_poll(x, a) = char
      /\ cmd = "ReadTime" => handle_poll(x, a) = time
  BY <1>1
<1> QED
  BY <1>2 DEF cmd, n, char, time

\* One word less on the stack and other characters at the terminal, in two steps.
LEMMA ReadTwice ==
  ASSUME NEW w, Whole(w)
  PROVE  LET n == [w EXCEPT !.sp = @ - 1] IN
         /\ n.typed = w.typed
         /\ [n EXCEPT !.typed = AfterChar(@)] = Read(w, AfterChar(w.typed))
         /\ \A k : [n EXCEPT !.typed = Unread(@, k)] = Read(w, Unread(w.typed, k))
<1> DEFINE n == [w EXCEPT !.sp = w.sp - 1]
<1>1. n.typed = w.typed
  BY DEF Whole, Fields
<1>2. n = SpAt(w, w.sp - 1)
  BY DEF SpAt
<1> HIDE DEF n
<1>3. /\ [n EXCEPT !.typed = AfterChar(n.typed)] = Read(w, AfterChar(w.typed))
      /\ \A k : [n EXCEPT !.typed = Unread(n.typed, k)] = Read(w, Unread(w.typed, k))
  BY <1>1, <1>2 DEF Read
<1> QED
  BY <1>1, <1>3 DEF n

\* Every number has a word that it is stored as.
LEMMA WordOf ==
  ASSUME NEW v \in Int
  PROVE  v % WordSize \in WordSet
BY Numbers DEF WordSet

\* What ReadIntI stores in Python.
LEMMA IntegerOfPython ==
  ASSUME NEW x, IsMachine(x), x.sp # 0, NEW a \in WordSet, a # MAXMEMSP,
         NEW n \in pollInt([View(x) EXCEPT !.sp = @ - 1], a)
  PROVE  Shape(n, WordSet) /\ n.seg = x.seg /\ n.flags = x.flags
<1> DEFINE w == View(x)
           z == [w EXCEPT !.sp = w.sp - 1]
           number == int(justnum(z.typed))
           v == IF number < WordSize - 1 /\ number >= -(Half - 1) THEN number ELSE 0
           word == v % WordSize
           taken == Taken(x.typed, LineMax)
           rest == Unread(x.typed, taken)
<1>1. Whole(w) /\ w.typed = x.typed /\ x.typed \in Seq(Chars)
  BY ViewShape DEF Shape
<1>2. /\ z.typed = x.typed
      /\ [z EXCEPT !.typed = Unread(z.typed, taken)] = Read(w, rest)
  <2> HIDE DEF w, taken
  <2>1. /\ z.typed = w.typed
        /\ \A k : [z EXCEPT !.typed = Unread(z.typed, k)] = Read(w, Unread(w.typed, k))
    BY <1>1, ReadTwice
  <2> HIDE DEF z
  <2> QED
    BY <1>1, <2>1
<1>3. /\ IsNumeral(justnum(z.typed))
      /\ n = putwordat([z EXCEPT !.typed = Unread(z.typed, Taken(z.typed, LineMax))], a, word)
  BY DEF pollInt, When
<1>4. number \in Int
  BY <1>1, <1>2, <1>3, IntTyped
<1> HIDE DEF number
<1>5. v \in Int
  BY <1>4
<1> HIDE DEF v
<1>6. word \in WordSet
  BY <1>5, WordOf
<1>7. rest \in Seq(Chars)
  <2>1. taken \in 0 .. Len(x.typed)
    BY <1>1, Console, LineInTyped
  <2> HIDE DEF taken
  <2> QED
    BY <1>1, <2>1, LineInTyped
<1>8. n = putwordat([z EXCEPT !.typed = Unread(z.typed, taken)], a, word)
  BY <1>2, <1>3
<1> HIDE DEF word, rest, w, z
<1>9. n = putwordat(Read(w, rest), a, word)
  BY <1>2, <1>8
<1>10. n = putwordat(Read(View(x), rest), a, word)
  BY <1>9 DEF w
<1> QED
  BY <1>6, <1>7, <1>10, ReadOfPython

\* What ReadIntI stores in C.
LEMMA IntegerOfC ==
  ASSUME NEW x, IsMachine(x), x.sp # 0, NEW a \in WordSet,
         NEW q \in poll_int([x EXCEPT !.sp = @ - 1], a)
  PROVE  Shape(q, Memory(x.seg)) /\ q.seg = x.seg /\ q.flags = x.flags
<1> DEFINE z == [x EXCEPT !.sp = x.sp - 1]
           start == before_digits(z.typed)
           end   == run_end(z.typed, start, DOMAIN Digit)
           value == Value(SubSeq(z.typed, start + 1, end))
           signed == IF start > 0 /\ z.typed[start] = Dash THEN -value ELSE value
           number == strtol(signed)
           word == number % WordSize
           rest == Unread(x.typed, end)
<1>1. Whole(x) /\ x.typed \in Seq(Chars)
  BY MachineShape DEF Shape
<1>2. z.typed = x.typed /\ [z EXCEPT !.typed = Unread(z.typed, end)] = Read(x, rest)
  BY <1>1, ReadTwice
<1>3. q = put16([z EXCEPT !.typed = Unread(z.typed, end)], a, word)
  BY DEF poll_int, When
<1>4. /\ start \in 0 .. Len(x.typed) /\ end \in start .. Len(x.typed)
      /\ SubSeq(z.typed, start + 1, end) \in Seq(DOMAIN Digit)
  BY <1>1, <1>2, DigitsOfC
<1>5. value \in Nat
  BY <1>4, ValueTyped
<1> HIDE DEF start, end, value
<1>6. number \in Int
  <2>1. signed \in Int
    BY <1>5
  <2>2. LongMax \in Nat
    BY MachineAssumption
  <2>3. LongMax \in Int /\ -LongMax - 1 \in Int
    BY <2>2
  <2> HIDE DEF signed
  <2> QED
    BY <2>1, <2>3 DEF strtol
<1> HIDE DEF number
<1>7. word \in WordSet
  BY <1>6, WordOf
<1>8. rest \in Seq(Chars)
  BY <1>1, <1>4, LineInTyped
<1> HIDE DEF word, rest, z
<1>9. q = put16(Read(x, rest), a, word)
  BY <1>2, <1>3
<1> QED
  BY <1>7, <1>8, <1>9, ReadOfC

\* Where a line begins with a number both find one.
LEMMA IntegersRead ==
  ASSUME NEW x, IsMachine(x), NumberFirst(x.typed), NEW a
  PROVE  /\ pollInt([View(x) EXCEPT !.sp = @ - 1], a) # {}
         /\ poll_int([x EXCEPT !.sp = @ - 1], a) # {}
<1>1. x.typed \in Seq(Chars) /\ View(x).typed = x.typed /\ Whole(x) /\ Whole(View(x))
  BY MachineShape, ViewShape DEF Shape
<1>2. /\ [View(x) EXCEPT !.sp = @ - 1].typed = x.typed
      /\ [x EXCEPT !.sp = @ - 1].typed = x.typed
  BY <1>1, ReadTwice
<1>3. /\ IsNumeral(justnum(x.typed))
      /\ run_end(x.typed, before_digits(x.typed), DOMAIN Digit) > before_digits(x.typed)
  BY <1>1, NumberOfPython, NumberOfC
<1>4. pollInt([View(x) EXCEPT !.sp = @ - 1], a) # {}
  BY <1>2, <1>3 DEF pollInt, When
<1>5. poll_int([x EXCEPT !.sp = @ - 1], a) # {}
  BY <1>2, <1>3 DEF poll_int, When
<1> QED
  BY <1>4, <1>5

\* A line that ReadIntI finds a number in, in both.
NumberRead(cmd, typed) == cmd = "ReadIntI" => NumberFirst(typed)

\* A line that ReadStrI stores alike in both.
LineRead(cmd, typed) == cmd = "ReadStrI" => StoredLine(typed) # <<>> /\ WholeLine(typed)

\* POLL: both read the same and store it in the same place, but for numbers, and for lines
\* that are empty or too long.
LEMMA PollAgree ==
  ASSUME NEW x, IsMachine(x), x.sp # 0, NEW a \in WordSet
  PROVE  LET w   == View(x)
             cmd == Named(Polls, peek0(x))
             P   == optPOLL(w, a)
             C   == handle_poll(x, a)
         IN  /\ Shaped(P, C, x)
             /\ \A n \in P : n.flags = x.flags
             /\ \A q \in C : q.flags = x.flags
             /\ C = {} /\ P # {} => cmd = "none" \/ ~ NumberRead(cmd, x.typed)
             /\ RoomAt(a) /\ (cmd = "ReadStrI" => RoomAt(a + Len(StoredLine(x.typed)) - 1))
                  /\ NumberRead(cmd, x.typed) => (P = {} => C = {})
             /\ cmd # "ReadIntI" /\ LineRead(cmd, x.typed) =>
                  (cmd = "none" \/ \A n \in P, q \in C : \A i : Agree(n, q, i) /\ Like(n, q, x))
<1> DEFINE w   == View(x)
           cmd == Named(Polls, peek0(x))
           P   == optPOLL(w, a)
           C   == handle_poll(x, a)
           d   == [w EXCEPT !.sp = w.sp - 1]
           z   == [x EXCEPT !.sp = x.sp - 1]
<1>1. /\ Whole(w) /\ Whole(x) /\ w.sp = x.sp /\ w.hw = x.hw /\ x.sp \in 1 .. Depth
      /\ w.typed = x.typed /\ x.typed \in Seq(Chars) /\ w.flags = x.flags
  <2>1. Twins(w, x)
    BY ViewTwins
  <2>2. x.typed \in Seq(Chars) /\ w.typed = x.typed
    BY ViewShape, MachineShape DEF Shape
  <2> QED
    BY <2>1, <2>2, Numbers DEF Twins
<1>2. fetchStack(w, 0) = peek0(x)
  BY <1>1, Numbers DEF fetchStack, peek0
<1>3. ~ RoomAt(a) => P = {}
  BY DEF optPOLL
<1>4. RoomAt(a) => a # MAXMEMSP
  BY RoomIs
<1>5. Quiet(w, w) /\ Quiet(x, x)
  BY ViewShape, MachineShape, Unmoved
<1> HIDE DEF w, d, z, P, C, cmd
<1>6. CASE cmd = "none"
  <2>1. C = {}
    BY <1>6, HandlePollIs DEF C, cmd
  <2>2. P = {} \/ P = {w}
    BY <1>1, <1>2, <1>3, <1>6, PollIs DEF P, cmd
  <2>3. Shaped(P, C, x) /\ \A n \in P : n.flags = x.flags
    BY <1>1, <1>5, <2>1, <2>2, EffectsShaped DEF w
  <2> QED
    BY <1>6, <2>1, <2>3 DEF w, P, C, cmd
<1>7. CASE cmd = "ReadIntI"
  <2>1. C = poll_int(z, a)
    BY <1>7, HandlePollIs DEF C, cmd, z
  <2>2. RoomAt(a) => P = pollInt(d, a)
    BY <1>1, <1>2, <1>7, PollIs DEF P, cmd, d
  <2>3. \A q \in C : Shape(q, Memory(x.seg)) /\ q.seg = x.seg /\ q.flags = x.flags
    BY <2>1, IntegerOfC DEF z
  <2>4. \A n \in P : Shape(n, WordSet) /\ n.seg = x.seg /\ n.flags = x.flags
    BY <1>3, <1>4, <2>2, IntegerOfPython DEF d, w
  <2>5. NumberFirst(x.typed) => C # {} /\ (RoomAt(a) => P # {})
    BY <2>1, <2>2, IntegersRead DEF d, z, w
  <2>6. Shaped(P, C, x)
    BY <2>3, <2>4 DEF Shaped
  <2> QED
    BY <1>7, <2>3, <2>4, <2>5, <2>6 DEF NumberRead, w, P, C, cmd
<1>8. CASE cmd = "ReadStrI"
  <2>1. C = poll_str(z, a)
    BY <1>8, HandlePollIs DEF C, cmd, z
  <2>2. RoomAt(a) => P = pollStr(d, a)
    BY <1>1, <1>2, <1>8, PollIs DEF P, cmd, d
  <2> DEFINE R == pollStr(d, a)
             D == poll_str(z, a)
  <2>3. /\ Shaped(R, D, x)
        /\ \A n \in R : n.flags = x.flags
        /\ \A q \in D : q.flags = x.flags
        /\ D = {} => R = {}
        /\ RoomAt(a + Len(StoredLine(x.typed)) - 1) => R # {}
        /\ StoredLine(x.typed) # <<>> /\ WholeLine(x.typed) =>
             \A n \in R, q \in D : \A i : Agree(n, q, i) /\ Like(n, q, x)
    BY StringAgree DEF w, d, z
  <2> HIDE DEF R, D
  <2>4. C = D /\ (P = R \/ P = {}) /\ (RoomAt(a) => P = R)
    BY <1>3, <2>1, <2>2 DEF R, D
  <2>5. Shaped(P, C, x)
    BY <2>3, <2>4 DEF Shaped
  <2> QED
    BY <1>8, <2>3, <2>4, <2>5 DEF LineRead, w, P, C, cmd
<1>9. CASE cmd = "ReadCharI" \/ cmd = "ReadCINoWait"
  <2> DEFINE v    == NextChar(x.typed)
             rest == AfterChar(x.typed)
             n    == putwordat(Read(w, rest), a, v)
             q    == put16(Read(x, rest), a, v)
  <2>1. v \in WordSet /\ rest \in Seq(Chars)
    BY <1>1, CharTyped, Console
  <2>2. C = {q}
    <3>1. C = {put16([z EXCEPT !.typed = AfterChar(z.typed)], a, NextChar(z.typed))}
      BY <1>9, HandlePollIs DEF C, cmd, z
    <3>2. z.typed = x.typed /\ [z EXCEPT !.typed = AfterChar(z.typed)] = Read(x, rest)
      BY <1>1, ReadTwice DEF z
    <3> QED
      BY <3>1, <3>2
  <2>3. RoomAt(a) => P = {n}
    <3>1. RoomAt(a) => P = pollChar(d, a)
      BY <1>1, <1>2, <1>9, PollIs DEF P, cmd, d
    <3>2. d.typed = w.typed /\ [d EXCEPT !.typed = AfterChar(d.typed)] = Read(w, rest)
      BY <1>1, ReadTwice DEF d
    <3> QED
      BY <1>1, <3>1, <3>2 DEF pollChar
  <2> HIDE DEF v, rest
  <2>4. Shape(q, Memory(x.seg)) /\ q.seg = x.seg /\ q.flags = x.flags
    BY <2>1, ReadOfC
  <2>5. a # MAXMEMSP => Shape(n, WordSet) /\ n.seg = x.seg /\ n.flags = x.flags
    BY <2>1, ReadOfPython DEF w
  <2>6. a # MAXMEMSP => \A i : Agree(n, q, i) /\ Like(n, q, x)
    BY <2>1, ReadAgree DEF w
  <2> HIDE DEF n, q
  <2>7. Shaped(P, C, x)
    BY <1>3, <1>4, <2>2, <2>3, <2>4, <2>5 DEF Shaped
  <2>8. /\ \A p \in P : p.flags = x.flags
        /\ \A r \in C : r.flags = x.flags
        /\ C # {}
        /\ RoomAt(a) => P # {}
        /\ \A p \in P, r \in C : \A i : Agree(p, r, i) /\ Like(p, r, x)
    BY <1>3, <1>4, <2>2, <2>3, <2>4, <2>5, <2>6
  <2> QED
    BY <2>7, <2>8 DEF w, P, C, cmd
<1>10. CASE cmd = "ReadTime"
  <2> DEFINE R == pollTime(d)
             D == IF z.sp > Depth - 2 THEN {}
                  ELSE UNION {push16(k, Now \div WordSize) : k \in push16(z, Now % WordSize)}
  <2>1. C = D
    BY <1>10, HandlePollIs DEF C, cmd, z
  <2>2. RoomAt(a) => P = R
    BY <1>1, <1>2, <1>10, PollIs DEF P, cmd, d
  <2>3. /\ \A p \in R : Quiet(p, w) /\ p.flags = x.flags
        /\ \A q \in D : Quiet(q, x) /\ q.flags = x.flags
        /\ D = {} <=> R = {}
        /\ \A p \in R, q \in D : \A i : Agree(p, q, i)
    BY TimeAgree DEF w, d, z
  <2> HIDE DEF R, D
  <2>4. \A p \in P : Quiet(p, w) /\ p.flags = x.flags
    BY <1>3, <2>2, <2>3
  <2>5. Shaped(P, C, x)
    BY <2>1, <2>3, <2>4, EffectsShaped DEF w
  <2>6. \A p \in P, q \in C : \A i : Agree(p, q, i) /\ Like(p, q, x)
    <3>1. \A p \in P, q \in C : Like(p, q, x)
      BY <2>1, <2>3, <2>4, QuietShaped DEF w
    <3> QED
      BY <1>3, <2>1, <2>2, <2>3, <3>1
  <2>7. (C = {} => P = {}) /\ (RoomAt(a) => (P = {} => C = {}))
    BY <1>3, <2>1, <2>2, <2>3
  <2> QED
    BY <2>1, <2>3, <2>4, <2>5, <2>6, <2>7 DEF w, P, C, cmd
<1> QED
  BY <1>6, <1>7, <1>8, <1>9, <1>10, PollName DEF cmd, w, P, C

-----------------------------------------------------------------------------
\* CAST of the 24-bit machine is that of the 16-bit one but for pointers to the last words.
LEMMA Cast24 ==
  ASSUME NEW x, IsMachine(x), NEW i, i.arg \in WordSet
  PROVE  LET w   == View(x)
             cmd == Named(Casts, peek0(x))
             P   == optCAST24(x, w, i)
         IN  /\ \/ P = {} \/ P = optCAST(w, i.arg)
                \/ x.sp # 0 /\ cmd = "Print32II" /\ ~ CastInside(w, i.arg, cmd)
                     /\ handle_cast(x, i.arg) # {}
             /\ \A n \in P : OnePrint(n, w)
             /\ x.sp # 0 /\ CastInside(w, i.arg, cmd) => P = optCAST(w, i.arg)
<1> DEFINE w   == View(x)
           cmd == Named(Casts, peek0(x))
           P   == optCAST24(x, w, i)
           p   == Pointer(w, i)
           past == Double(getwordat(w, p), x.mem[WordSize] + Byte * x.mem[WordSize + 1])
           n    == Prints([w EXCEPT !.sp = w.sp - 1], "number", past)
<1>1. /\ Whole(w) /\ Whole(x) /\ w.sp = x.sp /\ w.hw = x.hw /\ x.sp \in 0 .. Depth
  <2>1. Twins(w, x)
    BY ViewTwins
  <2> QED
    BY <2>1 DEF Twins
<1>2. fetchStack(w, 0) = peek0(x)
  BY <1>1, Slots DEF fetchStack, peek0
<1>3. CastCommand(w, i) = IF x.sp > 0 /\ RoomAt(i.arg) THEN cmd ELSE "none"
  BY <1>1, <1>2 DEF CastCommand
<1>4. p \in WordSet
  BY SameWord DEF Pointer
<1>5. Printed(n, w, w.sp - 1, <<"number", past>>)
  BY <1>1, PrintsIs
<1>6. /\ \/ P = {}
         \/ P = optCAST(w, i.arg)
         \/ P = {n} /\ CastCommand(w, i) = "Print32II" /\ p = MAXMEMSP - 1
      /\ (/\ CastCommand(w, i) = "PrintHexII" => p # MAXMEMSP
          /\ CastCommand(w, i) = "Print32II" => p \notin {MAXMEMSP, MAXMEMSP - 2, MAXMEMSP - 1})
         => P = optCAST(w, i.arg)
  <2> HIDE DEF n, p, w
  <2>1. P = IF CastCommand(w, i) = "PrintHexII" /\ p = MAXMEMSP THEN {}
            ELSE castDoubles24(x, w, i)
    BY DEF optCAST24, p
  <2>2. CASE CastCommand(w, i) # "Print32II"
    <3>1. castDoubles24(x, w, i) = optCAST(w, i.arg)
      BY <2>2 DEF castDoubles24
    <3> QED
      BY <2>1, <2>2, <3>1
  <2>3. CASE CastCommand(w, i) = "Print32II"
    <3>1. castDoubles24(x, w, i) =
            CASE p \in {MAXMEMSP, MAXMEMSP - 2} -> {}
              [] p = MAXMEMSP - 1 -> {n}
              [] OTHER -> optCAST(w, i.arg)
      BY <2>3 DEF castDoubles24, n, p
    <3>2. MAXMEMSP \in Int
      BY Numbers DEF MAXMEMSP
    <3> QED
      BY <2>1, <2>3, <3>1, <3>2
  <2> QED
    BY <2>2, <2>3
<1>7. CastCommand(w, i) = "Print32II" => x.sp # 0 /\ RoomAt(i.arg) /\ cmd = "Print32II"
  BY <1>1, <1>3
<1>8. x.sp # 0 /\ CastInside(w, i.arg, cmd) => P = optCAST(w, i.arg)
  <2> SUFFICES ASSUME x.sp # 0, CastInside(w, i.arg, cmd) PROVE P = optCAST(w, i.arg)
    OBVIOUS
  <2>1. CastCommand(w, i) = cmd
    BY <1>1, <1>3 DEF CastInside
  <2>2. cmd = "PrintHexII" => p # MAXMEMSP
    BY DEF CastInside, Pointer
  <2>3. cmd = "Print32II" => p # MAXMEMSP /\ p + 1 # MAXMEMSP /\ p + 2 # MAXMEMSP
    BY DEF CastInside, Pointer
  <2> HIDE DEF w, cmd, P, p
  <2>4. cmd = "Print32II" => p # MAXMEMSP /\ p # MAXMEMSP - 2 /\ p # MAXMEMSP - 1
    BY <1>4, <2>3, Numbers DEF WordSet, MAXMEMSP
  <2> QED
    BY <1>6, <2>1, <2>2, <2>4
<1>9. ASSUME NEW r \in P PROVE OnePrint(r, w)
  <2>1. CASE P = optCAST(w, i.arg)
    BY <1>1, <2>1, CastPython
  <2>2. CASE P = {n} /\ CastCommand(w, i) = "Print32II"
    <3>1. w.sp - 1 \in 0 .. Depth
      BY <1>1, <1>7, <2>2, Slots
    <3> QED
      BY <1>5, <2>2, <3>1 DEF OnePrint
  <2> QED
    BY <1>6, <2>1, <2>2
<1>10. ASSUME CastCommand(w, i) = "Print32II", p = MAXMEMSP - 1
       PROVE  x.sp # 0 /\ cmd = "Print32II" /\ ~ CastInside(w, i.arg, cmd)
                /\ handle_cast(x, i.arg) # {}
  <2>1. x.sp # 0 /\ cmd = "Print32II"
    BY <1>7, <1>10
  <2>2. ~ CastInside(w, i.arg, cmd)
    <3>1. p + 1 = MAXMEMSP
      BY <1>4, <1>10, Numbers DEF WordSet, MAXMEMSP
    <3> QED
      BY <2>1, <3>1 DEF CastInside, Pointer
  <2>3. cmd \in DoubleCasts /\ StackRoom(x, cmd)
    BY <2>1 DEF DoubleCasts, StackRoom
  <2>4. x.sp \in 1 .. Depth
    BY <1>1, <2>1
  <2>5. handle_cast(x, i.arg) = cast_double([x EXCEPT !.sp = x.sp - 1], cmd, i.arg)
    BY <2>3, HandleCastIs
  <2>6. cast_double([x EXCEPT !.sp = x.sp - 1], cmd, i.arg) # {}
    BY <1>1, <2>3, <2>4, DoublesOfC DEF When
  <2> QED
    BY <2>1, <2>2, <2>5, <2>6
<1> QED
  BY <1>6, <1>8, <1>9, <1>10

-----------------------------------------------------------------------------
\* The instructions that the 16-bit machine has, by the parts of the emulators.
Coded(i) ==
  \/ ALUCode(i) \/ i.op \in OnTop \/ JumpCode(i) \/ PushCode(i) \/ PopCode(i)
  \/ i.op \in Plain
  \/ i.op \in {"CAST", "POLL"} /\ i.mode = ""

\* Every instruction with operands among Args is one of them, or ADM.
LEMMA Codes ==
  ASSUME NEW i \in Instructions(Args)
  PROVE  /\ i.arg \in WordSet
         /\ Coded(i) \/ i.op = "ADM"
         /\ i.op # "none"
<1>1. 0 \in WordSet /\ Args \subseteq WordSet
  BY Numbers, LockstepAssumption DEF WordSet
<1>2. \/ i \in [op : Arithmetic \cup Logic \cup {"PUSH"}, mode : {"", "I", "II"}, arg : Args]
      \/ i \in [op : Arithmetic \cup Logic \cup {"PUSH", "POP"}, mode : {"S"}, arg : {0}]
      \/ i \in [op : {"POP"}, mode : {"I", "II"}, arg : Args]
      \/ i \in [op : CondJumps \cup {"JMP"} \cup Services, mode : {""}, arg : Args]
      \/ i \in [op : {"JMP"}, mode : {"I"}, arg : Args]
      \/ i \in [op : OnTop \cup Plain \cup {"ADM"}, mode : {""}, arg : {0}]
  BY DEF Instructions
<1>3. CASE i \in [op : Arithmetic \cup Logic \cup {"PUSH"}, mode : {"", "I", "II"}, arg : Args]
  BY <1>1, <1>3 DEF Coded, ALUCode, PushCode, Arithmetic, Logic
<1>4. CASE i \in [op : Arithmetic \cup Logic \cup {"PUSH", "POP"}, mode : {"S"}, arg : {0}]
  BY <1>1, <1>4 DEF Coded, ALUCode, PushCode, PopCode, Arithmetic, Logic
<1>5. CASE i \in [op : {"POP"}, mode : {"I", "II"}, arg : Args]
  BY <1>1, <1>5 DEF Coded, PopCode
<1>6. CASE i \in [op : CondJumps \cup {"JMP"} \cup Services, mode : {""}, arg : Args]
  <2>1. i.op \in CondJumps \cup {"JMP"} \cup Services /\ i.mode = "" /\ i.arg \in Args
    BY <1>6
  <2>2. CASE i.op \in CondJumps \cup {"JMP"}
    <3>1. JumpCode(i)
      BY <2>1, <2>2 DEF JumpCode
    <3>2. i.op # "none"
      BY <2>2 DEF CondJumps
    <3> QED
      BY <1>1, <2>1, <3>1, <3>2 DEF Coded
  <2>3. CASE i.op \in Services
    <3>1. i.op = "CAST" \/ i.op = "POLL"
      BY <2>3 DEF Services
    <3> QED
      BY <1>1, <2>1, <3>1 DEF Coded
  <2> QED
    BY <2>1, <2>2, <2>3
<1>7. CASE i \in [op : {"JMP"}, mode : {"I"}, arg : Args]
  BY <1>1, <1>7 DEF Coded, JumpCode
<1>8. CASE i \in [op : OnTop \cup Plain \cup {"ADM"}, mode : {""}, arg : {0}]
  BY <1>1, <1>8 DEF Coded, OnTop, Plain
<1> QED
  BY <1>2, <1>3, <1>4, <1>5, <1>6, <1>7, <1>8

\* What the methods of cpu.py and of cpu24.py make of the bank w.
PyOp(w, i) ==
  CASE i.op \in Arithmetic \cup Logic  -> optALU(w, i)
    [] i.op \in OnTop                  -> optOnTop(w, i)
    [] i.op \in CondJumps \cup {"JMP"} -> optJump(w, i)
    [] i.op = "PUSH"                   -> optPushFrom(w, i)
    [] i.op = "POP"                    -> optPopTo(w, i)
    [] i.op \in Plain                  -> optPlain(w, i)
    [] i.op = "CAST"                   -> optCAST(w, i.arg)
    [] i.op = "POLL"                   -> optPOLL(w, i.arg)

PyOp24(x, w, i) ==
  CASE i.op \in Arithmetic \cup Logic  -> optALU24(w, i)
    [] i.op \in OnTop                  -> optOnTop24(w, i)
    [] i.op \in CondJumps \cup {"JMP"} -> optJump24(w, i)
    [] i.op = "PUSH"                   -> optPushFrom24(w, i)
    [] i.op = "POP"                    -> optPopTo24(w, i)
    [] i.op \in Plain                  -> optPlain24(w, i)
    [] i.op = "CAST"                   -> optCAST24(x, w, i)
    [] i.op = "POLL"                   -> optPOLL24(w, i)

\* An instruction belongs to one part.
LEMMA Apart ==
  ASSUME NEW op
  PROVE  /\ op \in Arithmetic \cup Logic =>
              op \notin OnTop /\ op \notin CondJumps \cup {"JMP"} /\ op # "PUSH" /\ op # "POP"
                /\ op \notin Plain /\ op # "CAST" /\ op # "POLL" /\ op \notin OfSegments /\ op \notin Services
         /\ op \in OnTop =>
              op \notin Arithmetic \cup Logic /\ op \notin CondJumps \cup {"JMP"} /\ op # "PUSH" /\ op # "POP"
                /\ op \notin Plain /\ op # "CAST" /\ op # "POLL" /\ op \notin OfSegments /\ op \notin Services
         /\ op \in CondJumps \cup {"JMP"} =>
              op \notin Arithmetic \cup Logic /\ op \notin OnTop /\ op # "PUSH" /\ op # "POP"
                /\ op \notin Plain /\ op # "CAST" /\ op # "POLL" /\ op \notin OfSegments /\ op \notin Services
         /\ op = "PUSH" =>
              op \notin Arithmetic \cup Logic /\ op \notin OnTop /\ op \notin CondJumps \cup {"JMP"} /\ op # "POP"
                /\ op \notin Plain /\ op # "CAST" /\ op # "POLL" /\ op \notin OfSegments /\ op \notin Services
         /\ op = "POP" =>
              op \notin Arithmetic \cup Logic /\ op \notin OnTop /\ op \notin CondJumps \cup {"JMP"} /\ op # "PUSH"
                /\ op \notin Plain /\ op # "CAST" /\ op # "POLL" /\ op \notin OfSegments /\ op \notin Services
         /\ op \in Plain =>
              op \notin Arithmetic \cup Logic /\ op \notin OnTop /\ op \notin CondJumps \cup {"JMP"} /\ op # "PUSH"
                /\ op # "POP" /\ op # "CAST" /\ op # "POLL" /\ op \notin OfSegments /\ op \notin Services
         /\ op = "CAST" =>
              op \notin Arithmetic \cup Logic /\ op \notin OnTop /\ op \notin CondJumps \cup {"JMP"} /\ op # "PUSH"
                /\ op # "POP" /\ op \notin Plain /\ op # "POLL" /\ op \notin OfSegments /\ op \in Services
         /\ op = "POLL" =>
              op \notin Arithmetic \cup Logic /\ op \notin OnTop /\ op \notin CondJumps \cup {"JMP"} /\ op # "PUSH"
                /\ op # "POP" /\ op \notin Plain /\ op # "CAST" /\ op \notin OfSegments /\ op \in Services
<1>1. CASE op \in Arithmetic \cup Logic
  BY <1>1 DEF Arithmetic, Logic, OnTop, CondJumps, Plain, Services, OfSegments, Prefixes
<1>2. CASE op \in OnTop
  BY <1>2 DEF Arithmetic, Logic, OnTop, CondJumps, Plain, Services, OfSegments, Prefixes
<1>3. CASE op \in CondJumps \cup {"JMP"}
  BY <1>3 DEF Arithmetic, Logic, OnTop, CondJumps, Plain, Services, OfSegments, Prefixes
<1>4. CASE op = "PUSH"
  BY <1>4 DEF Arithmetic, Logic, OnTop, CondJumps, Plain, Services, OfSegments, Prefixes
<1>5. CASE op = "POP"
  BY <1>5 DEF Arithmetic, Logic, OnTop, CondJumps, Plain, Services, OfSegments, Prefixes
<1>6. CASE op \in Plain
  BY <1>6 DEF Arithmetic, Logic, OnTop, CondJumps, Plain, Services, OfSegments, Prefixes
<1>7. CASE op = "CAST"
  BY <1>7 DEF Arithmetic, Logic, OnTop, CondJumps, Plain, Services, OfSegments, Prefixes
<1>8. CASE op = "POLL"
  BY <1>8 DEF Arithmetic, Logic, OnTop, CondJumps, Plain, Services, OfSegments, Prefixes
<1> QED
  BY <1>1, <1>2, <1>3, <1>4, <1>5, <1>6, <1>7, <1>8

\* Which parts execute an instruction.
LEMMA Parts ==
  ASSUME NEW x, NEW w, NEW i
  PROVE  /\ ALUCode(i) =>
              /\ PyOp(w, i) = optALU(w, i)
              /\ PyOp24(x, w, i) = optALU24(w, i)
              /\ switch(x, i) = step_ALU(x, i)
         /\ i.op \in OnTop =>
              /\ PyOp(w, i) = optOnTop(w, i)
              /\ PyOp24(x, w, i) = optOnTop24(w, i)
              /\ switch(x, i) = step_OnTop(x, i)
         /\ JumpCode(i) =>
              /\ PyOp(w, i) = optJump(w, i)
              /\ PyOp24(x, w, i) = optJump24(w, i)
              /\ switch(x, i) = step_JMP(x, i)
         /\ PushCode(i) =>
              /\ PyOp(w, i) = optPushFrom(w, i)
              /\ PyOp24(x, w, i) = optPushFrom24(w, i)
              /\ switch(x, i) = step_PUSH(x, i)
         /\ PopCode(i) =>
              /\ PyOp(w, i) = optPopTo(w, i)
              /\ PyOp24(x, w, i) = optPopTo24(w, i)
              /\ switch(x, i) = step_POP(x, i)
         /\ i.op \in Plain =>
              /\ PyOp(w, i) = optPlain(w, i)
              /\ PyOp24(x, w, i) = optPlain24(w, i)
              /\ switch(x, i) = step_Plain(x, i)
         /\ i.op = "CAST" =>
              /\ PyOp(w, i) = optCAST(w, i.arg)
              /\ PyOp24(x, w, i) = optCAST24(x, w, i)
              /\ switch(x, i) = IF x.sp = 0 THEN {} ELSE handle_cast(x, i.arg)
         /\ i.op = "POLL" =>
              /\ PyOp(w, i) = optPOLL(w, i.arg)
              /\ PyOp24(x, w, i) = optPOLL24(w, i)
              /\ switch(x, i) = IF x.sp = 0 THEN {} ELSE handle_poll(x, i.arg)
<1>1. ASSUME ALUCode(i)
      PROVE  PyOp(w, i) = optALU(w, i) /\ PyOp24(x, w, i) = optALU24(w, i)
             /\ switch(x, i) = step_ALU(x, i)
  <2>1. i.op \in Arithmetic \cup Logic
    BY <1>1 DEF ALUCode
  <2>2. /\ i.op \notin OnTop /\ i.op \notin CondJumps \cup {"JMP"} /\ i.op # "PUSH" /\ i.op # "POP"
        /\ i.op \notin Plain /\ i.op # "CAST" /\ i.op # "POLL"
        /\ i.op \notin OfSegments /\ i.op \notin Services
    BY <2>1, Apart
  <2>3. PyOp(w, i) = optALU(w, i)
    BY <2>1, <2>2 DEF PyOp
  <2>4. PyOp24(x, w, i) = optALU24(w, i)
    BY <2>1, <2>2 DEF PyOp24
  <2>5. switch(x, i) = step_ALU(x, i)
    BY <2>1, <2>2 DEF switch
  <2> QED
    BY <2>3, <2>4, <2>5
<1>2. ASSUME i.op \in OnTop
      PROVE  PyOp(w, i) = optOnTop(w, i) /\ PyOp24(x, w, i) = optOnTop24(w, i)
             /\ switch(x, i) = step_OnTop(x, i)
  <2>1. i.op \in OnTop
    BY <1>2
  <2>2. /\ i.op \notin Arithmetic \cup Logic /\ i.op \notin CondJumps \cup {"JMP"} /\ i.op # "PUSH" /\ i.op # "POP"
        /\ i.op \notin Plain /\ i.op # "CAST" /\ i.op # "POLL"
        /\ i.op \notin OfSegments /\ i.op \notin Services
    BY <2>1, Apart
  <2>3. PyOp(w, i) = optOnTop(w, i)
    BY <2>1, <2>2 DEF PyOp
  <2>4. PyOp24(x, w, i) = optOnTop24(w, i)
    BY <2>1, <2>2 DEF PyOp24
  <2>5. switch(x, i) = step_OnTop(x, i)
    BY <2>1, <2>2 DEF switch
  <2> QED
    BY <2>3, <2>4, <2>5
<1>3. ASSUME JumpCode(i)
      PROVE  PyOp(w, i) = optJump(w, i) /\ PyOp24(x, w, i) = optJump24(w, i)
             /\ switch(x, i) = step_JMP(x, i)
  <2>1. i.op \in CondJumps \cup {"JMP"}
    BY <1>3 DEF JumpCode
  <2>2. /\ i.op \notin Arithmetic \cup Logic /\ i.op \notin OnTop /\ i.op # "PUSH" /\ i.op # "POP"
        /\ i.op \notin Plain /\ i.op # "CAST" /\ i.op # "POLL"
        /\ i.op \notin OfSegments /\ i.op \notin Services
    BY <2>1, Apart
  <2>3. PyOp(w, i) = optJump(w, i)
    BY <2>1, <2>2 DEF PyOp
  <2>4. PyOp24(x, w, i) = optJump24(w, i)
    BY <2>1, <2>2 DEF PyOp24
  <2>5. switch(x, i) = step_JMP(x, i)
    BY <2>1, <2>2 DEF switch
  <2> QED
    BY <2>3, <2>4, <2>5
<1>4. ASSUME PushCode(i)
      PROVE  PyOp(w, i) = optPushFrom(w, i) /\ PyOp24(x, w, i) = optPushFrom24(w, i)
             /\ switch(x, i) = step_PUSH(x, i)
  <2>1. i.op = "PUSH"
    BY <1>4 DEF PushCode
  <2>2. /\ i.op \notin Arithmetic \cup Logic /\ i.op \notin OnTop /\ i.op \notin CondJumps \cup {"JMP"} /\ i.op # "POP"
        /\ i.op \notin Plain /\ i.op # "CAST" /\ i.op # "POLL"
        /\ i.op \notin OfSegments /\ i.op \notin Services
    BY <2>1, Apart
  <2>3. PyOp(w, i) = optPushFrom(w, i)
    BY <2>1, <2>2 DEF PyOp
  <2>4. PyOp24(x, w, i) = optPushFrom24(w, i)
    BY <2>1, <2>2 DEF PyOp24
  <2>5. switch(x, i) = step_PUSH(x, i)
    BY <2>1, <2>2 DEF switch
  <2> QED
    BY <2>3, <2>4, <2>5
<1>5. ASSUME PopCode(i)
      PROVE  PyOp(w, i) = optPopTo(w, i) /\ PyOp24(x, w, i) = optPopTo24(w, i)
             /\ switch(x, i) = step_POP(x, i)
  <2>1. i.op = "POP"
    BY <1>5 DEF PopCode
  <2>2. /\ i.op \notin Arithmetic \cup Logic /\ i.op \notin OnTop /\ i.op \notin CondJumps \cup {"JMP"} /\ i.op # "PUSH"
        /\ i.op \notin Plain /\ i.op # "CAST" /\ i.op # "POLL"
        /\ i.op \notin OfSegments /\ i.op \notin Services
    BY <2>1, Apart
  <2>3. PyOp(w, i) = optPopTo(w, i)
    BY <2>1, <2>2 DEF PyOp
  <2>4. PyOp24(x, w, i) = optPopTo24(w, i)
    BY <2>1, <2>2 DEF PyOp24
  <2>5. switch(x, i) = step_POP(x, i)
    BY <2>1, <2>2 DEF switch
  <2> QED
    BY <2>3, <2>4, <2>5
<1>6. ASSUME i.op \in Plain
      PROVE  PyOp(w, i) = optPlain(w, i) /\ PyOp24(x, w, i) = optPlain24(w, i)
             /\ switch(x, i) = step_Plain(x, i)
  <2>1. i.op \in Plain
    BY <1>6
  <2>2. /\ i.op \notin Arithmetic \cup Logic /\ i.op \notin OnTop /\ i.op \notin CondJumps \cup {"JMP"} /\ i.op # "PUSH"
        /\ i.op # "POP" /\ i.op # "CAST" /\ i.op # "POLL"
        /\ i.op \notin OfSegments /\ i.op \notin Services
    BY <2>1, Apart
  <2>3. PyOp(w, i) = optPlain(w, i)
    BY <2>1, <2>2 DEF PyOp
  <2>4. PyOp24(x, w, i) = optPlain24(w, i)
    BY <2>1, <2>2 DEF PyOp24
  <2>5. switch(x, i) = step_Plain(x, i)
    BY <2>1, <2>2 DEF switch
  <2> QED
    BY <2>3, <2>4, <2>5
<1>7. ASSUME i.op = "CAST"
      PROVE  PyOp(w, i) = optCAST(w, i.arg) /\ PyOp24(x, w, i) = optCAST24(x, w, i)
             /\ switch(x, i) = IF x.sp = 0 THEN {} ELSE handle_cast(x, i.arg)
  <2>1. i.op = "CAST"
    BY <1>7
  <2>2. /\ i.op \notin Arithmetic \cup Logic /\ i.op \notin OnTop /\ i.op \notin CondJumps \cup {"JMP"} /\ i.op # "PUSH"
        /\ i.op # "POP" /\ i.op \notin Plain /\ i.op # "POLL"
        /\ i.op \notin OfSegments /\ i.op \in Services
    BY <2>1, Apart
  <2>3. PyOp(w, i) = optCAST(w, i.arg)
    BY <2>1, <2>2 DEF PyOp
  <2>4. PyOp24(x, w, i) = optCAST24(x, w, i)
    BY <2>1, <2>2 DEF PyOp24
  <2>5. switch(x, i) = IF x.sp = 0 THEN {} ELSE handle_cast(x, i.arg)
    BY <2>1, <2>2 DEF switch, step_Service
  <2> QED
    BY <2>3, <2>4, <2>5
<1>8. ASSUME i.op = "POLL"
      PROVE  PyOp(w, i) = optPOLL(w, i.arg) /\ PyOp24(x, w, i) = optPOLL24(w, i)
             /\ switch(x, i) = IF x.sp = 0 THEN {} ELSE handle_poll(x, i.arg)
  <2>1. i.op = "POLL"
    BY <1>8
  <2>2. /\ i.op \notin Arithmetic \cup Logic /\ i.op \notin OnTop /\ i.op \notin CondJumps \cup {"JMP"} /\ i.op # "PUSH"
        /\ i.op # "POP" /\ i.op \notin Plain /\ i.op # "CAST"
        /\ i.op \notin OfSegments /\ i.op \in Services
    BY <2>1, Apart
  <2>3. PyOp(w, i) = optPOLL(w, i.arg)
    BY <2>1, <2>2 DEF PyOp
  <2>4. PyOp24(x, w, i) = optPOLL24(w, i)
    BY <2>1, <2>2 DEF PyOp24
  <2>5. switch(x, i) = IF x.sp = 0 THEN {} ELSE handle_poll(x, i.arg)
    BY <2>1, <2>2 DEF switch, step_Service
  <2> QED
    BY <2>3, <2>4, <2>5
<1> QED
  BY <1>1, <1>2, <1>3, <1>4, <1>5, <1>6, <1>7, <1>8

\* The instructions and machines where the emulators have nothing to do with the end of the bank.
Clear(x, i) ==
  LET w == View(x) IN
  /\ i.op \in Arithmetic \cup Logic \cup {"PUSH", "POP"} => InBank(w, i)
  /\ i.op \in CondJumps \cup {"JMP"} => i.arg # MAXMEMSP
  /\ i.op \in Services => RoomAt(i.arg)
  /\ i.op = "CAST" /\ x.sp # 0 => CastInside(w, i.arg, Named(Casts, peek0(x)))
  /\ i.op = "POLL" /\ x.sp # 0 /\ Named(Polls, peek0(x)) = "ReadStrI" =>
       RoomAt(i.arg + Len(StoredLine(x.typed)) - 1)

\* Those that they do differently.
Own(x, i) ==
  /\ x.sp # 0
  /\ \/ i.op = "CAST" /\ CastOwn(View(x), i.arg, Named(Casts, peek0(x)))
     \/ i.op = "POLL" /\ Named(Polls, peek0(x)) = "ReadIntI"
     \/ i.op = "POLL" /\ ~ LineRead(Named(Polls, peek0(x)), x.typed)

\* Those whose word at the console is a character, or whose line begins with a number.
Fluent(x, i) ==
  /\ i.op = "CAST" /\ x.sp # 0 => Spoken(View(x), i.arg, Named(Casts, peek0(x)))
  /\ i.op = "POLL" /\ x.sp # 0 => NumberRead(Named(Polls, peek0(x)), x.typed)

\* Those that only C refuses.
Lone(x, i) ==
  \/ i.op = "DUP" /\ x.sp = 0
  \/ i.op = "CAST" /\ x.sp # 0 /\ Named(Casts, peek0(x)) = "none"
  \/ i.op = "POLL" /\ x.sp # 0 /\ Named(Polls, peek0(x)) = "none"
  \/ i.op = "POLL" /\ x.sp # 0 /\ ~ NumberRead(Named(Polls, peek0(x)), x.typed)

\* How the results P of Python and C of C are related.
SameBitsPromised(n, q, i) == \A bit \in Promised(i) : Has(n.flags, bit) <=> Has(q.flags, bit)

Alike(P, C, x, i) ==
  /\ Shaped(P, C, x)
  /\ C = {} /\ P # {} => Lone(x, i)
  /\ Clear(x, i) /\ Fluent(x, i) => (P = {} => C = {})
  /\ Clear(x, i) => \A n \in P, q \in C : SameBitsPromised(n, q, i)
  /\ Clear(x, i) /\ ~ Own(x, i) => \A n \in P, q \in C : Agree(n, q, i) /\ Like(n, q, x)

\* Instructions that change registers only.
LEMMA QuietAlike ==
  ASSUME NEW x, IsMachine(x), NEW i, NEW P, NEW C,
         \A n \in P : Quiet(n, View(x)), \A q \in C : Quiet(q, x),
         C = {} /\ P # {} => Lone(x, i),
         Clear(x, i) => Agreeing(P, C, i)
  PROVE  Alike(P, C, x, i)
<1>1. Shaped(P, C, x) /\ (Agreeing(P, C, i) => Matching(P, C, x, i))
  BY EffectsShaped
<1>2. Matching(P, C, x, i) => /\ P = {} => C = {}
                              /\ \A n \in P, q \in C : Agree(n, q, i) /\ Like(n, q, x)
                              /\ \A n \in P, q \in C : SameBitsPromised(n, q, i)
  BY DEF Matching, Agree, SameBitsPromised
<1> QED
  BY <1>1, <1>2 DEF Alike

\* Python of the 24-bit machine refuses some instructions.
LEMMA Refused ==
  ASSUME NEW x, NEW i, NEW P, NEW R, NEW C, Alike(P, C, x, i), R = {} \/ R = P,
         Clear(x, i) => R = P
  PROVE  Alike(R, C, x, i)
<1>1. CASE R = P
  BY <1>1
<1>2. CASE R = {} /\ ~ Clear(x, i)
  BY <1>2 DEF Alike, Shaped
<1> QED
  BY <1>1, <1>2

\* The two methods of Python and the part of C, of each instruction.
OpAlike(x, i) ==
  /\ Alike(PyOp(View(x), i), switch(x, i), x, i)
  /\ Alike(PyOp24(x, View(x), i), switch(x, i), x, i)
  /\ Clear(x, i) => PyOp24(x, View(x), i) = PyOp(View(x), i)

\* Arithmetic and logic.
LEMMA ALUAlike ==
  ASSUME NEW x, IsMachine(x), NEW i, ALUCode(i), i.arg \in WordSet
  PROVE  OpAlike(x, i)
<1> DEFINE w == View(x)
           P == optALU(w, i)
           C == step_ALU(x, i)
<1>1. Effects(P, C, w, x) /\ (InBank(w, i) => Agreeing(P, C, i))
  BY ALUAgree
<1>2. Clear(x, i) => InBank(w, i)
  BY DEF Clear, ALUCode
<1>3. Alike(P, C, x, i)
  BY <1>1, <1>2, QuietAlike DEF Effects
<1>4. optALU24(w, i) = IF InBank(w, i) THEN P ELSE {}
  BY DEF optALU24
<1>5. PyOp(w, i) = P /\ PyOp24(x, w, i) = optALU24(w, i) /\ switch(x, i) = C
  BY Parts
<1>6. Alike(optALU24(w, i), C, x, i)
  BY <1>2, <1>3, <1>4, Refused
<1> QED
  BY <1>2, <1>3, <1>4, <1>5, <1>6 DEF OpAlike

\* Rotates, shifts and complements.
LEMMA OnTopAlike ==
  ASSUME NEW x, IsMachine(x), NEW i, i.op \in OnTop
  PROVE  OpAlike(x, i)
<1> DEFINE w == View(x)
           P == optOnTop(w, i)
           C == step_OnTop(x, i)
<1>1. Effects(P, C, w, x) /\ Agreeing(P, C, i)
  BY OnTopAgree
<1>2. Alike(P, C, x, i)
  BY <1>1, QuietAlike DEF Effects
<1>3. PyOp(w, i) = P /\ PyOp24(x, w, i) = P /\ switch(x, i) = C
  BY Parts DEF optOnTop24
<1> QED
  BY <1>2, <1>3 DEF OpAlike

\* Jumps.
LEMMA JumpAlike ==
  ASSUME NEW x, IsMachine(x), NEW i, JumpCode(i), i.arg \in WordSet
  PROVE  OpAlike(x, i)
<1> DEFINE w == View(x)
           P == optJump(w, i)
           C == step_JMP(x, i)
<1>1. Effects(P, C, w, x) /\ (i.arg # MAXMEMSP => Agreeing(P, C, i))
  BY JumpAgree
<1>2. Clear(x, i) => i.arg # MAXMEMSP /\ InBank(w, i)
  BY DEF Clear, JumpCode, InBank, Accessed, CondJumps
<1>3. Alike(P, C, x, i)
  BY <1>1, <1>2, QuietAlike DEF Effects
<1>4. optJump24(w, i) = IF InBank(w, i) THEN P ELSE {}
  BY DEF optJump24
<1>5. PyOp(w, i) = P /\ PyOp24(x, w, i) = optJump24(w, i) /\ switch(x, i) = C
  BY Parts
<1>6. Alike(optJump24(w, i), C, x, i)
  BY <1>2, <1>3, <1>4, Refused
<1> QED
  BY <1>2, <1>3, <1>4, <1>5, <1>6 DEF OpAlike

\* PUSH.
LEMMA PushAlike ==
  ASSUME NEW x, IsMachine(x), NEW i, PushCode(i), i.arg \in WordSet
  PROVE  OpAlike(x, i)
<1> DEFINE w == View(x)
           P == optPushFrom(w, i)
           C == step_PUSH(x, i)
<1>1. Effects(P, C, w, x) /\ (InBank(w, i) => Agreeing(P, C, i))
  BY PushFromAgree
<1>2. Clear(x, i) => InBank(w, i)
  BY DEF Clear, PushCode
<1>3. Alike(P, C, x, i)
  BY <1>1, <1>2, QuietAlike DEF Effects
<1>4. optPushFrom24(w, i) = IF InBank(w, i) THEN P ELSE {}
  BY DEF optPushFrom24
<1>5. PyOp(w, i) = P /\ PyOp24(x, w, i) = optPushFrom24(w, i) /\ switch(x, i) = C
  BY Parts
<1>6. Alike(optPushFrom24(w, i), C, x, i)
  BY <1>2, <1>3, <1>4, Refused
<1> QED
  BY <1>2, <1>3, <1>4, <1>5, <1>6 DEF OpAlike

\* POP.
LEMMA PopAlike ==
  ASSUME NEW x, IsMachine(x), NEW i, PopCode(i), i.arg \in WordSet
  PROVE  OpAlike(x, i)
<1> DEFINE w == View(x)
           P == optPopTo(w, i)
           C == step_POP(x, i)
<1>1. Shaped(P, C, x) /\ (C = {} => P = {}) /\ (InBank(w, i) => Matching(P, C, x, i))
  BY PopAgree
<1>2. Clear(x, i) => InBank(w, i)
  BY DEF Clear, PopCode
<1>3. Alike(P, C, x, i)
  BY <1>1, <1>2 DEF Alike, Matching, Agree, SameBitsPromised
<1>4. optPopTo24(w, i) = IF InBank(w, i) THEN P ELSE {}
  BY DEF optPopTo24
<1>5. PyOp(w, i) = P /\ PyOp24(x, w, i) = optPopTo24(w, i) /\ switch(x, i) = C
  BY Parts
<1>6. Alike(optPopTo24(w, i), C, x, i)
  BY <1>2, <1>3, <1>4, Refused
<1> QED
  BY <1>2, <1>3, <1>4, <1>5, <1>6 DEF OpAlike

\* The instructions without an operand.
LEMMA PlainAlike ==
  ASSUME NEW x, IsMachine(x), NEW i, i.op \in Plain
  PROVE  OpAlike(x, i)
<1> DEFINE w == View(x)
           P == optPlain(w, i)
           C == step_Plain(x, i)
<1>1. /\ \A n \in P : Quiet(n, w)
      /\ \A q \in C : Quiet(q, x)
      /\ C = {} /\ P # {} => Lone(x, i)
      /\ Agreeing(P, C, i)
  <2>1. CASE i.op = "DUP"
    BY <2>1, DupAgree DEF Lone
  <2>2. CASE i.op = "SWP"
    BY <2>2, SwapAgree DEF Effects
  <2>3. CASE i.op \in {"FSAV", "SRPT"}
    BY <2>3, SaveAgree DEF Effects
  <2>4. CASE i.op \in {"NOP", "POPNULL", "JMPS", "FCLR", "FLOD", "SCLR"}
    BY <2>4, PlainAgree DEF Effects
  <2> QED
    BY <2>1, <2>2, <2>3, <2>4 DEF Plain
<1>2. Alike(P, C, x, i)
  BY <1>1, QuietAlike
<1>3. PyOp(w, i) = P /\ PyOp24(x, w, i) = P /\ switch(x, i) = C
  BY Parts DEF optPlain24
<1> QED
  BY <1>2, <1>3 DEF OpAlike

\* CAST.
LEMMA CastAlike ==
  ASSUME NEW x, IsMachine(x), NEW i, i.op = "CAST", i.arg \in WordSet
  PROVE  OpAlike(x, i)
<1> DEFINE w   == View(x)
           cmd == Named(Casts, peek0(x))
           P   == optCAST(w, i.arg)
           R   == optCAST24(x, w, i)
           C   == IF x.sp = 0 THEN {} ELSE handle_cast(x, i.arg)
<1>1. /\ Whole(w) /\ Whole(x) /\ w.sp = x.sp /\ x.sp \in 0 .. Depth /\ w.flags = x.flags
      /\ w.seg = x.seg /\ Shape(w, WordSet)
  <2>1. Twins(w, x)
    BY ViewTwins
  <2> QED
    BY <2>1, ViewShape DEF Twins
<1>2. ASSUME NEW n, OnePrint(n, w)
      PROVE  Shape(n, WordSet) /\ n.seg = x.seg /\ n.flags = x.flags
  BY <1>1, <1>2, PrintedShaped DEF OnePrint
<1>3. ASSUME NEW q \in C PROVE Shape(q, Memory(x.seg)) /\ q.seg = x.seg /\ q.flags = x.flags
  <2>1. x.sp \in 1 .. Depth /\ q \in handle_cast(x, i.arg)
    BY <1>1
  <2>2. PICK s \in 0 .. Depth : \E item : Printed(q, x, s, item)
    BY <1>1, <2>1, CastOfC
  <2> QED
    BY <2>2, PrintedShaped
<1>4. ASSUME NEW n \in P PROVE x.sp # 0 /\ OnePrint(n, w)
  <2>1. w.sp >= 1 /\ OnePrint(n, w)
    BY <1>1, CastPython
  <2> QED
    BY <1>1, <2>1
<1>5. \A n \in R : OnePrint(n, w)
  BY Cast24
<1>6. /\ \/ R = {} \/ R = P
         \/ x.sp # 0 /\ cmd = "Print32II" /\ ~ CastInside(w, i.arg, cmd) /\ handle_cast(x, i.arg) # {}
      /\ x.sp # 0 /\ CastInside(w, i.arg, cmd) => R = P
  BY Cast24
<1>7. x.sp # 0 => /\ C = {} /\ P # {} => cmd = "none"
                  /\ CastInside(w, i.arg, cmd) /\ Spoken(w, i.arg, cmd) => (P = {} => C = {})
                  /\ CastInside(w, i.arg, cmd) /\ ~ CastOwn(w, i.arg, cmd) =>
                       \A n \in P, q \in C : Agree(n, q, i) /\ Like(n, q, x)
  BY CastAgree
<1>8. PyOp(w, i) = P /\ PyOp24(x, w, i) = R /\ switch(x, i) = C
  BY Parts
<1>9. Clear(x, i) => (x.sp # 0 => CastInside(w, i.arg, cmd))
  BY DEF Clear
<1>10. Fluent(x, i) => (x.sp # 0 => Spoken(w, i.arg, cmd))
  BY DEF Fluent
<1>11. cmd = "none" /\ x.sp # 0 => Lone(x, i)
  BY DEF Lone
<1>12. ~ Own(x, i) /\ x.sp # 0 => ~ CastOwn(w, i.arg, cmd)
  BY DEF Own
<1>13. x.sp = 0 => C = {}
  OBVIOUS
<1>14. P # {} => x.sp # 0
  BY <1>4
<1>15. C # {} /\ R # {} /\ ~ Clear(x, i) => Alike(R, C, x, i)
  BY <1>2, <1>3, <1>5 DEF Alike, Shaped
<1>16. /\ Shaped(P, C, x)
       /\ \A n \in P, q \in C : SameBitsPromised(n, q, i)
  BY <1>2, <1>3, <1>4 DEF Shaped, SameBitsPromised
<1> HIDE DEF w, cmd, P, R, C
<1>17. Alike(P, C, x, i)
  <2>1. C = {} /\ P # {} => Lone(x, i)
    BY <1>7, <1>11, <1>14
  <2>2. Clear(x, i) /\ Fluent(x, i) => (P = {} => C = {})
    BY <1>7, <1>9, <1>13, <1>10
  <2>3. Clear(x, i) /\ ~ Own(x, i) => \A n \in P, q \in C : Agree(n, q, i) /\ Like(n, q, x)
    BY <1>7, <1>9, <1>12, <1>13
  <2> QED
    BY <1>16, <2>1, <2>2, <2>3 DEF Alike
<1>18. (R = {} \/ R = P) /\ (Clear(x, i) => R = P) => Alike(R, C, x, i)
  BY <1>17, Refused
<1>19. Clear(x, i) => R = P
  <2>1. x.sp = 0 => R = P
    BY <1>6, <1>14
  <2> QED
    BY <1>6, <1>9, <2>1
<1>20. Alike(R, C, x, i)
  <2>1. CASE R = {} \/ R = P
    BY <1>18, <1>19, <2>1
  <2>2. CASE R # {} /\ R # P
    BY <1>6, <1>15, <1>19, <2>2 DEF C
  <2> QED
    BY <2>1, <2>2
<1> QED
  BY <1>8, <1>17, <1>19, <1>20 DEF OpAlike, w, P, R, C

\* POLL.
LEMMA PollAlike ==
  ASSUME NEW x, IsMachine(x), NEW i, i.op = "POLL", i.arg \in WordSet
  PROVE  OpAlike(x, i)
<1> DEFINE w   == View(x)
           cmd == Named(Polls, peek0(x))
           P   == optPOLL(w, i.arg)
           C   == IF x.sp = 0 THEN {} ELSE handle_poll(x, i.arg)
<1>1. PyOp(w, i) = P /\ PyOp24(x, w, i) = P /\ switch(x, i) = C
  <2>1. optPOLL24(w, i) = P
    BY DEF optPOLL24
  <2>2. PyOp(w, i) = P /\ PyOp24(x, w, i) = optPOLL24(w, i)
    <3> HIDE DEF w
    <3> QED
      BY Parts
  <2>3. switch(x, i) = C
    BY Parts
  <2> QED
    BY <2>1, <2>2, <2>3
<1>2. CASE x.sp = 0
  <2>1. w.sp = 0
    BY <1>2, ViewShape
  <2>2. P = {} /\ C = {}
    BY <1>2, <2>1 DEF optPOLL
  <2>3. Alike({}, {}, x, i)
    BY DEF Alike, Shaped
  <2> QED
    BY <1>1, <2>2, <2>3 DEF OpAlike
<1>3. CASE x.sp # 0
  <2>1. C = handle_poll(x, i.arg)
    BY <1>3
  <2>2. /\ Shaped(P, C, x)
        /\ \A n \in P : n.flags = x.flags
        /\ \A q \in C : q.flags = x.flags
        /\ C = {} /\ P # {} => cmd = "none" \/ ~ NumberRead(cmd, x.typed)
        /\ RoomAt(i.arg) /\ (cmd = "ReadStrI" => RoomAt(i.arg + Len(StoredLine(x.typed)) - 1))
             /\ NumberRead(cmd, x.typed) => (P = {} => C = {})
        /\ cmd # "ReadIntI" /\ LineRead(cmd, x.typed) =>
             (cmd = "none" \/ \A n \in P, q \in C : \A k : Agree(n, q, k) /\ Like(n, q, x))
    BY <1>3, <2>1, PollAgree
  <2>3. cmd = "none" => C = {}
    BY <2>1, HandlePollIs
  <2>4. Clear(x, i) =>
          RoomAt(i.arg) /\ (cmd = "ReadStrI" => RoomAt(i.arg + Len(StoredLine(x.typed)) - 1))
    BY <1>3 DEF Clear, Services
  <2>5. ~ Own(x, i) => cmd # "ReadIntI" /\ LineRead(cmd, x.typed)
    BY <1>3 DEF Own
  <2>6. /\ cmd = "none" \/ ~ NumberRead(cmd, x.typed) => Lone(x, i)
        /\ Fluent(x, i) => NumberRead(cmd, x.typed)
    BY <1>3 DEF Lone, Fluent
  <2>7. \A n \in P, q \in C : SameBitsPromised(n, q, i)
    BY <2>2 DEF SameBitsPromised
  <2> HIDE DEF w, cmd, P, C
  <2>8. Alike(P, C, x, i)
    BY <2>2, <2>3, <2>4, <2>5, <2>6, <2>7 DEF Alike
  <2> QED
    BY <1>1, <2>8 DEF OpAlike, w, P, C
<1> QED
  BY <1>2, <1>3

\* The emulators make the same of every instruction of the 16-bit machine, up to its end.
LEMMA OpsAlike ==
  ASSUME NEW x, IsMachine(x), NEW i, Coded(i), i.arg \in WordSet
  PROVE  OpAlike(x, i)
BY ALUAlike, OnTopAlike, JumpAlike, PushAlike, PopAlike, PlainAlike, CastAlike, PollAlike DEF Coded

-----------------------------------------------------------------------------
\* The machine z past the instruction i, and without a prefix.
Past(z, i)    == [z EXCEPT !.pc = (z.pc + Size(i)) % WordSize]
Unprefixed(z) == [z EXCEPT !.seg.override = NoOverride]
NoPrefix(seg) == [seg EXCEPT !.override = NoOverride]

\* Going past an instruction changes the program counter only.
LEMMA PastIs ==
  ASSUME NEW z, IsMachine(z), NEW i
  PROVE  LET x == Past(z, i) IN
         /\ IsMachine(x)
         /\ x.flags = z.flags /\ x.sp = z.sp /\ x.hw = z.hw /\ x.mem = z.mem
         /\ x.seg = z.seg /\ x.out = z.out /\ x.typed = z.typed
         /\ peek0(x) = peek0(z) /\ Base(x) = Base(z)
         /\ \A a : get16(x, a) = get16(z, a)
<1> DEFINE x == Past(z, i)
           p == (z.pc + Size(i)) % WordSize
<1>1. Shape(z, Memory(z.seg)) /\ SegTyped(z.seg)
  BY MachineShape
<1>2. p \in WordSet
  <2>1. Size(i) \in {1, 3} /\ z.pc \in Int
    BY <1>1, Numbers DEF Size, Shape, WordSet
  <2> QED
    BY <2>1, WordOf
<1>3. x = [z EXCEPT !.pc = p]
  BY DEF Past
<1> HIDE DEF x, p
<1>4. /\ Whole(x) /\ x.pc = p
      /\ x.flags = z.flags /\ x.sp = z.sp /\ x.hw = z.hw /\ x.mem = z.mem
      /\ x.seg = z.seg /\ x.out = z.out /\ x.typed = z.typed
  BY <1>1, <1>3 DEF Shape, Fields, Whole
<1>5. IsMachine(x)
  <2>1. Shape(x, Memory(x.seg)) /\ SegTyped(x.seg)
    BY <1>1, <1>2, <1>4 DEF Shape
  <2> QED
    BY <2>1, MachineShape
<1>6. peek0(x) = peek0(z) /\ Base(x) = Base(z)
  BY <1>4 DEF peek0, Base
<1>7. \A a : get16(x, a) = get16(z, a)
  BY <1>4, SameBank
<1> QED
  BY <1>4, <1>5, <1>6, <1>7 DEF x

\* Segments without a prefix are segments.
LEMMA NoPrefixTyped ==
  ASSUME NEW seg, SegTyped(seg)
  PROVE  /\ SegTyped(NoPrefix(seg)) /\ Memory(NoPrefix(seg)) = Memory(seg)
         /\ ~ seg.vm24 => NoPrefix(seg) = seg
<1>1. /\ NoPrefix(seg).vm24 = seg.vm24 /\ NoPrefix(seg).ring = seg.ring
      /\ NoPrefix(seg).cs = seg.cs /\ NoPrefix(seg).ds = seg.ds /\ NoPrefix(seg).es = seg.es
      /\ NoPrefix(seg).override = NoOverride
      /\ DOMAIN NoPrefix(seg) = DOMAIN seg
  BY DEF NoPrefix, SegTyped
<1>2. CASE seg.vm24
  <2>1. NoPrefix(seg) \in [vm24 : BOOLEAN, ring : {0, 1}, cs : 0 .. Banks - 1, ds : 0 .. Banks - 1,
              es : 0 .. Banks - 1, override : {NoOverride} \cup 0 .. Banks - 1]
    BY DEF SegTyped, NoPrefix
  <2> QED
    BY <1>1, <1>2, <2>1 DEF SegTyped, Memory
<1>3. CASE ~ seg.vm24
  <2>1. seg.override = NoOverride
    BY <1>3 DEF SegTyped, NoSegments
  <2>2. seg \in [vm24 : BOOLEAN, ring : {0, 1}, cs : 0 .. Banks - 1, ds : 0 .. Banks - 1,
                es : 0 .. Banks - 1, override : {NoOverride} \cup 0 .. Banks - 1]
    BY DEF SegTyped
  <2>3. NoPrefix(seg) = seg
    BY <2>1, <2>2 DEF NoPrefix
  <2> QED
    BY <1>3, <2>3
<1> QED
  BY <1>2, <1>3

\* Dropping the prefix changes the segments only.
LEMMA UnprefixedIs ==
  ASSUME NEW z, Whole(z)
  PROVE  LET r == Unprefixed(z) IN
         /\ Whole(r) /\ r.pc = z.pc /\ r.flags = z.flags /\ r.sp = z.sp /\ r.hw = z.hw
         /\ r.mem = z.mem /\ r.out = z.out /\ r.typed = z.typed /\ r.seg = NoPrefix(z.seg)
BY DEF Unprefixed, NoPrefix, Whole, Fields

\* What C leaves of a result that still has its prefix.
LEMMA DoneIs ==
  ASSUME NEW x, IsMachine(x), NEW q, Shape(q, Memory(x.seg)), q.seg = x.seg
  PROVE  LET r == Unprefixed(q) IN
         /\ IsMachine(r) /\ r.pc = q.pc /\ r.flags = q.flags /\ r.sp = q.sp /\ r.hw = q.hw
         /\ r.mem = q.mem /\ r.out = q.out /\ r.typed = q.typed /\ r.seg = NoPrefix(x.seg)
<1> DEFINE r == Unprefixed(q)
<1>1. /\ Whole(r) /\ r.pc = q.pc /\ r.flags = q.flags /\ r.sp = q.sp /\ r.hw = q.hw
      /\ r.mem = q.mem /\ r.out = q.out /\ r.typed = q.typed /\ r.seg = NoPrefix(x.seg)
  BY UnprefixedIs DEF Shape
<1>2. SegTyped(x.seg)
  BY MachineShape
<1> HIDE DEF r
<1>3. SegTyped(r.seg) /\ Memory(r.seg) = Memory(x.seg)
  BY <1>1, <1>2, NoPrefixTyped
<1>4. Shape(r, Memory(r.seg))
  BY <1>1, <1>3 DEF Shape
<1> QED
  BY <1>1, <1>3, <1>4, MachineShape DEF r

\* What Python leaves of a result over the active bank of the machine x.
Result(x, n) == IF x.seg.vm24 THEN Unprefixed(Back(x, n)) ELSE n

\* Back of cpu24.py merges the bank into the memory.
LEMMA BackIs ==
  ASSUME NEW x, IsMachine(x), x.seg.vm24, NEW n
  PROVE  Back(x, n) = [n EXCEPT !.mem = Merge(x, n.mem)]
<1>1. physical_address(active_data_segment(x), 0) = Base(x) /\ DOMAIN x.mem = Memory(x.seg)
  BY ViewOf24, BaseRange
<1> QED
  BY <1>1 DEF Back, Merge

\* What Python leaves of a result is a machine.
LEMMA ResultIs ==
  ASSUME NEW x, IsMachine(x), NEW n, Shape(n, WordSet), n.seg = x.seg
  PROVE  LET r == Result(x, n) IN
         /\ IsMachine(r) /\ r.pc = n.pc /\ r.flags = n.flags /\ r.sp = n.sp /\ r.hw = n.hw
         /\ r.mem = Merge(x, n.mem) /\ r.out = n.out /\ r.typed = n.typed
         /\ r.seg = NoPrefix(x.seg)
<1>1. SegTyped(x.seg) /\ Merge(x, n.mem) \in [Memory(x.seg) -> Bytes]
  BY MachineShape, MergeBank DEF Shape
<1>2. CASE x.seg.vm24
  <2> DEFINE mem == Merge(x, n.mem)
             b   == [n EXCEPT !.mem = mem]
  <2>1. Back(x, n) = b
    BY <1>2, BackIs
  <2> HIDE DEF mem
  <2>2. /\ Whole(b) /\ b.pc = n.pc /\ b.flags = n.flags /\ b.sp = n.sp /\ b.hw = n.hw
        /\ b.mem = mem /\ b.out = n.out /\ b.typed = n.typed /\ b.seg = n.seg
    BY DEF Shape, Whole, Fields
  <2> HIDE DEF b
  <2>3. Shape(b, Memory(x.seg))
    BY <1>1, <2>2 DEF Shape, mem
  <2>4. Result(x, n) = Unprefixed(b)
    BY <1>2, <2>1 DEF Result
  <2> QED
    BY <2>2, <2>3, <2>4, DoneIs DEF mem
<1>3. CASE ~ x.seg.vm24
  <2>1. Result(x, n) = n /\ NoPrefix(x.seg) = x.seg /\ Memory(x.seg) = WordSet
    BY <1>1, <1>3, NoPrefixTyped DEF Result, Memory
  <2>2. Merge(x, n.mem) = n.mem
    <3>1. Base(x) = 0
      BY <1>3 DEF Base
    <3>2. \A a \in WordSet : a - 0 = a
      BY Numbers DEF WordSet
    <3>3. n.mem \in [WordSet -> Bytes]
      BY DEF Shape
    <3>4. Merge(x, n.mem) = [a \in WordSet |-> n.mem[a]]
      BY <2>1, <3>1, <3>2 DEF Merge
    <3> QED
      BY <3>3, <3>4
  <2>3. IsMachine(n)
    BY <1>1, <2>1, MachineShape
  <2> QED
    BY <2>1, <2>2, <2>3
<1> QED
  BY <1>2, <1>3

\* What the methods of the machine's Python make of an instruction that the 16-bit machine has.
PyOps(z, i) ==
  LET x == Past(z, i) IN
  IF ~ z.seg.vm24 THEN PyOp(View(x), i)
  ELSE IF OperandInBank(z, i) THEN PyOp24(x, View(x), i) ELSE {}

\* The groups of instructions, without those of segments.
LEMMA CodedOp ==
  ASSUME NEW i, Coded(i)
  PROVE  /\ i.op \notin OfSegments
         /\ \/ i.op \in Arithmetic \cup Logic \/ i.op \in OnTop \/ i.op \in CondJumps \cup {"JMP"}
            \/ i.op = "PUSH" \/ i.op = "POP" \/ i.op \in Plain \/ i.op = "CAST" \/ i.op = "POLL"
<1>1. \/ i.op \in Arithmetic \cup Logic \/ i.op \in OnTop \/ i.op \in CondJumps \cup {"JMP"}
      \/ i.op = "PUSH" \/ i.op = "POP" \/ i.op \in Plain \/ i.op = "CAST" \/ i.op = "POLL"
  BY DEF Coded, ALUCode, JumpCode, PushCode, PopCode
<1> QED
  BY <1>1, Apart

\* _evalpc_py of cpu.py goes past the instruction and calls its method.
LEMMA PyStepIs ==
  ASSUME NEW z, NEW i, Coded(i)
  PROVE  PyStep(z, i) = PyOp(Past(z, i), i)
<1> DEFINE x == Past(z, i)
<1>1. i.op # "ADM"
  BY CodedOp DEF OfSegments
<1>2. PyStep(z, i) =
        CASE i.op \in Arithmetic \cup Logic -> optALU(x, i)
          [] i.op \in OnTop                 -> optOnTop(x, i)
          [] i.op \in CondJumps \cup {"JMP"} -> optJump(x, i)
          [] i.op = "PUSH"                  -> optPushFrom(x, i)
          [] i.op = "POP"                   -> optPopTo(x, i)
          [] i.op \in Plain                 -> optPlain(x, i)
          [] i.op \in Services              -> optService(x, i)
          [] i.op = "ADM"                   -> {x}
  BY DEF PyStep, Past
<1> HIDE DEF x
<1>3. CASE i.op \in Arithmetic \cup Logic
  <2>1. PyStep(z, i) = optALU(x, i)
    BY <1>1, <1>2, <1>3, Apart
  <2>2. PyOp(x, i) = optALU(x, i)
    BY <1>3, Apart DEF PyOp
  <2> QED
    BY <2>1, <2>2 DEF x
<1>4. CASE i.op \in OnTop
  <2>1. PyStep(z, i) = optOnTop(x, i)
    BY <1>1, <1>2, <1>4, Apart
  <2>2. PyOp(x, i) = optOnTop(x, i)
    BY <1>4, Apart DEF PyOp
  <2> QED
    BY <2>1, <2>2 DEF x
<1>5. CASE i.op \in CondJumps \cup {"JMP"}
  <2>1. PyStep(z, i) = optJump(x, i)
    BY <1>1, <1>2, <1>5, Apart
  <2>2. PyOp(x, i) = optJump(x, i)
    BY <1>5, Apart DEF PyOp
  <2> QED
    BY <2>1, <2>2 DEF x
<1>6. CASE i.op = "PUSH"
  <2>1. PyStep(z, i) = optPushFrom(x, i)
    BY <1>1, <1>2, <1>6, Apart
  <2>2. PyOp(x, i) = optPushFrom(x, i)
    BY <1>6, Apart DEF PyOp
  <2> QED
    BY <2>1, <2>2 DEF x
<1>7. CASE i.op = "POP"
  <2>1. PyStep(z, i) = optPopTo(x, i)
    BY <1>1, <1>2, <1>7, Apart
  <2>2. PyOp(x, i) = optPopTo(x, i)
    BY <1>7, Apart DEF PyOp
  <2> QED
    BY <2>1, <2>2 DEF x
<1>8. CASE i.op \in Plain
  <2>1. PyStep(z, i) = optPlain(x, i)
    BY <1>1, <1>2, <1>8, Apart
  <2>2. PyOp(x, i) = optPlain(x, i)
    BY <1>8, Apart DEF PyOp
  <2> QED
    BY <2>1, <2>2 DEF x
<1>9. CASE i.op = "CAST" \/ i.op = "POLL"
  <2>1. PyStep(z, i) = optService(x, i)
    BY <1>1, <1>2, <1>9, Apart
  <2>2. PyOp(x, i) = IF i.op = "CAST" THEN optCAST(x, i.arg) ELSE optPOLL(x, i.arg)
    BY <1>9, Apart DEF PyOp
  <2> QED
    BY <2>1, <2>2 DEF x, optService
<1> QED
  BY <1>3, <1>4, <1>5, <1>6, <1>7, <1>8, <1>9, CodedOp

\* The methods of cpu24.py, which work on the window.
LEMMA MethodIs ==
  ASSUME NEW x, IsMachine(x), x.seg.vm24, NEW i, Coded(i)
  PROVE  Method(x, i) = {Back(x, n) : n \in PyOp24(x, View(x), i)}
<1>1. Window(x) = View(x)
  BY ViewOf24
<1>2. i.op \notin OfSegments
  BY CodedOp
<1> QED
  BY <1>1, <1>2 DEF Method, PyOp24

\* Both _evalpc_py: the methods on the active bank, whose results are merged into memory.
LEMMA PythonIs ==
  ASSUME NEW z, IsMachine(z), NEW i, Coded(i)
  PROVE  Python(z, i) = {Result(Past(z, i), n) : n \in PyOps(z, i)}
<1> DEFINE x == Past(z, i)
<1>1. IsMachine(x) /\ x.seg = z.seg
  BY PastIs
<1>2. CASE ~ z.seg.vm24
  <2>1. Python(z, i) = PyOp(x, i) /\ View(x) = x
    BY <1>1, <1>2, PyStepIs, ViewOf16 DEF Python
  <2>2. PyOps(z, i) = PyOp(x, i)
    BY <1>2, <2>1 DEF PyOps
  <2>3. \A n : Result(x, n) = n
    BY <1>1, <1>2 DEF Result
  <2> QED
    BY <2>1, <2>2, <2>3
<1>3. CASE z.seg.vm24 /\ ~ OperandInBank(z, i)
  BY <1>3 DEF Python, PyStep24, PyOps
<1>4. CASE z.seg.vm24 /\ OperandInBank(z, i)
  <2>1. i.op \notin Prefixes
    BY CodedOp DEF OfSegments
  <2>2. Python(z, i) = {Unprefixed(r) : r \in Method(x, i)}
    BY <1>4, <2>1 DEF Python, PyStep24, Past, Unprefixed
  <2>3. Method(x, i) = {Back(x, n) : n \in PyOps(z, i)}
    BY <1>1, <1>4, MethodIs DEF PyOps
  <2>4. \A n : Result(x, n) = Unprefixed(Back(x, n))
    BY <1>1, <1>4 DEF Result
  <2> HIDE DEF x
  <2> QED
    BY <2>2, <2>3, <2>4 DEF x
<1> QED
  BY <1>2, <1>3, <1>4

\* C goes past the instruction, executes it, and drops the prefix.
LEMMA CStepIs ==
  ASSUME NEW z, NEW i, i.op \notin Prefixes
  PROVE  CStep(z, i) = {Unprefixed(q) : q \in switch(Past(z, i), i)}
BY DEF CStep, Past, Unprefixed

-----------------------------------------------------------------------------
\* The results of an instruction of the 16-bit machine are machines with the same segments.
LEMMA CodedTyped ==
  ASSUME NEW z, IsMachine(z), NEW i, Coded(i), i.arg \in WordSet
  PROVE  /\ \A n \in PyOps(z, i) : Shape(n, WordSet) /\ n.seg = z.seg
         /\ \A q \in switch(Past(z, i), i) : Shape(q, Memory(z.seg)) /\ q.seg = z.seg
         /\ \A p \in Python(z, i) : IsMachine(p)
         /\ \A q \in CStep(z, i) : IsMachine(q)
<1> DEFINE x == Past(z, i)
<1>1. IsMachine(x) /\ x.seg = z.seg
  BY PastIs
<1>2. OpAlike(x, i)
  BY <1>1, OpsAlike
<1>3. /\ Shaped(PyOp(View(x), i), switch(x, i), x)
      /\ Shaped(PyOp24(x, View(x), i), switch(x, i), x)
  BY <1>2 DEF OpAlike, Alike
<1> HIDE DEF x
<1>4. \A n \in PyOps(z, i) : Shape(n, WordSet) /\ n.seg = z.seg
  <2>1. PyOps(z, i) = PyOp(View(x), i) \/ PyOps(z, i) = PyOp24(x, View(x), i) \/ PyOps(z, i) = {}
    BY DEF PyOps, x
  <2> QED
    BY <1>1, <1>3, <2>1 DEF Shaped
<1>5. \A q \in switch(x, i) : Shape(q, Memory(z.seg)) /\ q.seg = z.seg
  BY <1>1, <1>3 DEF Shaped
<1>6. \A p \in Python(z, i) : IsMachine(p)
  <2>1. Python(z, i) = {Result(x, n) : n \in PyOps(z, i)}
    BY PythonIs DEF x
  <2> QED
    BY <1>1, <1>4, <2>1, ResultIs
<1>7. \A q \in CStep(z, i) : IsMachine(q)
  <2>1. CStep(z, i) = {Unprefixed(q) : q \in switch(x, i)}
    BY CodedOp, CStepIs DEF x, OfSegments
  <2> QED
    BY <1>1, <1>5, <2>1, DoneIs
<1> QED
  BY <1>4, <1>5, <1>6, <1>7 DEF x

\* The command of the last instruction, if it is a service.
LEMMA CommandIs ==
  ASSUME IsMachine(m)
  PROVE  /\ last.op = "CAST" /\ m.sp # 0 => Command = Named(Casts, peek0(m))
         /\ last.op = "POLL" /\ m.sp # 0 => Command = Named(Polls, peek0(m))
         /\ last.op \notin Services => Command = "none"
<1>1. m.sp \in Nat
  BY MachineShape, Numbers DEF Shape
<1> QED
  BY <1>1 DEF Command, Services

\* The machine before the instruction and the bank that Python works on.
LEMMA BeforeIs ==
  ASSUME IsMachine(m), last.arg \in WordSet
  PROVE  LET x == Past(m, last)
             w == View(x)
         IN  /\ IsMachine(x) /\ x.sp = m.sp /\ x.typed = m.typed /\ x.seg = m.seg
             /\ peek0(x) = peek0(m) /\ fetchStack(w, 0) = peek0(m) /\ w.sp = m.sp
             /\ Pointed \in WordSet /\ getwordat(w, last.arg) \in WordSet
             /\ last.arg # MAXMEMSP =>
                  getwordat(w, last.arg) = Pointed /\ Pointed % Byte = w.mem[last.arg]
             /\ m.sp \in 0 .. Depth /\ m.pc \in WordSet
<1> DEFINE x == Past(m, last)
           w == View(x)
<1>1. /\ IsMachine(x) /\ x.sp = m.sp /\ x.typed = m.typed /\ x.seg = m.seg
      /\ peek0(x) = peek0(m) /\ get16(x, last.arg) = Pointed
  BY PastIs DEF Pointed
<1>2. w.sp = x.sp /\ w.hw = x.hw /\ w.mem \in [WordSet -> Bytes]
  BY <1>1, ViewShape DEF Shape
<1>3. m.sp \in 0 .. Depth /\ m.pc \in WordSet
  BY MachineShape DEF Shape
<1> HIDE DEF x, w
<1>4. fetchStack(w, 0) = peek0(m)
  <2>1. x.sp \in Int
    BY <1>1, <1>3
  <2> QED
    BY <1>1, <1>2, <2>1 DEF fetchStack, peek0
<1>5. /\ Pointed \in WordSet /\ getwordat(w, last.arg) \in WordSet
      /\ last.arg # MAXMEMSP => getwordat(w, last.arg) = Pointed
  BY <1>1, SameWord DEF w
<1>6. ASSUME last.arg # MAXMEMSP PROVE Pointed % Byte = w.mem[last.arg]
  <2>1. last.arg + 1 \in WordSet
    BY <1>6, Numbers DEF WordSet, MAXMEMSP
  <2>2. w.mem[last.arg] \in 0 .. Byte - 1 /\ w.mem[last.arg + 1] \in Int
    BY <1>2, <2>1, Numbers DEF Bytes
  <2>3. Pointed = w.mem[last.arg] + Byte * w.mem[last.arg + 1]
    BY <1>5, <1>6 DEF getwordat
  <2>4. w.mem[last.arg] + Byte * w.mem[last.arg + 1] = w.mem[last.arg + 1] * Byte + w.mem[last.arg]
    BY <2>2, Numbers
  <2> QED
    BY <2>2, <2>3, <2>4, ModIs, Numbers
<1> QED
  BY <1>1, <1>2, <1>3, <1>4, <1>5, <1>6 DEF x, w

\* Away from the last address, nothing of the instruction comes near the end of its bank.
LEMMA EdgeClear ==
  ASSUME IsMachine(m), Coded(last), last.arg \in WordSet, ~ AtTheEdge
  PROVE  Clear(Past(m, last), last) /\ (Is24 => OperandInBank(m, last))
<1> DEFINE x == Past(m, last)
           w == View(x)
<1>1. /\ IsMachine(x) /\ x.sp = m.sp /\ x.typed = m.typed /\ x.seg = m.seg
      /\ peek0(x) = peek0(m) /\ fetchStack(w, 0) = peek0(m) /\ w.sp = m.sp
      /\ Pointed \in WordSet /\ getwordat(w, last.arg) \in WordSet
      /\ last.arg # MAXMEMSP => getwordat(w, last.arg) = Pointed
      /\ m.sp \in 0 .. Depth /\ m.pc \in WordSet
  BY BeforeIs
<1>2. /\ MAXMEMSP \notin Addresses
      /\ Is24 /\ Size(last) = 3 => ~ (m.pc > MAXMEMSP - 3)
      /\ last.op \in Services => RoomAt(last.arg)
      /\ Command = "ReadStrI" => RoomAt(last.arg + Len(StoredLine(m.typed)) - 1)
  BY DEF AtTheEdge
<1> HIDE DEF x, w
<1>3. Is24 => OperandInBank(m, last)
  <2>1. Size(last) \in {1, 3}
    BY DEF Size
  <2>2. m.pc \in Int /\ MAXMEMSP - 3 \in Int
    BY <1>1, Numbers DEF WordSet, MAXMEMSP
  <2> QED
    BY <1>2, <2>1, <2>2 DEF OperandInBank
<1>4. ASSUME last.op \in Arithmetic \cup Logic \cup {"PUSH", "POP"} PROVE InBank(w, last)
  <2>1. last.op \notin Services /\ last.op \notin CondJumps \cup {"JMP"}
    BY <1>4, Apart
  <2>2. Command = "none"
    BY <2>1, CommandIs
  <2>3. CASE last.mode = "I"
    <3>1. Addresses = {last.arg}
      BY <2>2, <2>3 DEF Addresses
    <3>2. Accessed(w, last) = {last.arg}
      BY <2>3 DEF Accessed
    <3> QED
      BY <1>2, <3>1, <3>2 DEF InBank
  <2>4. CASE last.mode = "II"
    <3>1. Addresses = {last.arg, Pointed}
      BY <2>2, <2>4 DEF Addresses, Pointed
    <3>2. Accessed(w, last) = {last.arg, getwordat(w, last.arg)}
      BY <2>4 DEF Accessed
    <3> QED
      BY <1>1, <1>2, <3>1, <3>2 DEF InBank
  <2>5. CASE last.mode = "S" /\ last.op \in {"PUSH", "POP"} /\ w.sp >= 1
    <3>1. m.sp > 0
      BY <1>1, <2>5
    <3>2. Addresses = {peek0(m)}
      BY <2>2, <2>5, <3>1 DEF Addresses
    <3>3. Accessed(w, last) = {peek0(m)}
      BY <1>1, <2>5 DEF Accessed
    <3> QED
      BY <1>2, <3>2, <3>3 DEF InBank
  <2>6. CASE /\ last.mode # "I" /\ last.mode # "II"
             /\ ~ (last.mode = "S" /\ last.op \in {"PUSH", "POP"} /\ w.sp >= 1)
    <3>1. Accessed(w, last) = {}
      BY <2>6 DEF Accessed
    <3> QED
      BY <3>1 DEF InBank
  <2> QED
    BY <2>3, <2>4, <2>5, <2>6
<1>5. ASSUME last.op \in CondJumps \cup {"JMP"} PROVE last.arg # MAXMEMSP
  <2>1. last.op \notin Services /\ last.op \notin {"PUSH", "POP"}
    BY <1>5, Apart
  <2>2. Command = "none"
    BY <2>1, CommandIs
  <2>3. last.mode = "" \/ last.mode = "I"
    <3>1. JumpCode(last)
      BY <1>5, Apart DEF Coded, ALUCode, PushCode, PopCode
    <3> QED
      BY <3>1 DEF JumpCode
  <2>4. Addresses = {last.arg}
    BY <1>5, <2>1, <2>2, <2>3 DEF Addresses
  <2> QED
    BY <1>2, <2>4
<1>6. ASSUME last.op = "CAST", m.sp # 0 PROVE CastInside(w, last.arg, Named(Casts, peek0(m)))
  <2>1. RoomAt(last.arg) /\ Command = Named(Casts, peek0(m))
    BY <1>2, <1>6, CommandIs DEF Services
  <2>2. last.arg # MAXMEMSP
    BY <2>1, RoomIs
  <2>3. last.mode = "" /\ last.op \notin CondJumps \cup {"JMP"}
    <3>1. last.op \notin CondJumps \cup {"JMP"}
      BY <1>6, Apart
    <3>2. ~ ALUCode(last) /\ ~ JumpCode(last) /\ ~ PushCode(last) /\ ~ PopCode(last)
      BY <1>6, Apart DEF ALUCode, JumpCode, PushCode, PopCode
    <3>3. last.op \notin OnTop /\ last.op \notin Plain
      BY <1>6, Apart
    <3> QED
      BY <3>1, <3>2, <3>3 DEF Coded
  <2>4. Command = "PrintHexII" => Pointed # MAXMEMSP
    <3>1. Command = "PrintHexII" => Addresses = {Pointed}
      BY <1>6, <2>3 DEF Addresses
    <3> QED
      BY <1>2, <3>1
  <2>5. Command = "Print32II" => Pointed # MAXMEMSP /\ Pointed + 1 # MAXMEMSP /\ Pointed + 2 # MAXMEMSP
    <3>1. Command = "Print32II" => Addresses = Pointed .. Pointed + 2
      BY <1>6, <2>3 DEF Addresses
    <3>2. Pointed \in Nat
      BY <1>1, Numbers DEF WordSet
    <3>3. /\ Pointed \in Pointed .. Pointed + 2 /\ Pointed + 1 \in Pointed .. Pointed + 2
          /\ Pointed + 2 \in Pointed .. Pointed + 2
      BY <3>2
    <3> QED
      BY <1>2, <3>1, <3>3
  <2> QED
    BY <1>1, <2>1, <2>2, <2>4, <2>5 DEF CastInside
<1>7. ASSUME last.op = "POLL", m.sp # 0, Named(Polls, peek0(m)) = "ReadStrI"
      PROVE  RoomAt(last.arg + Len(StoredLine(m.typed)) - 1)
  BY <1>2, <1>7, CommandIs
<1> QED
  BY <1>1, <1>2, <1>3, <1>4, <1>5, <1>6, <1>7 DEF Clear, x, w

\* What the emulators do differently is what OwnWay says.
LEMMA OwnIs ==
  ASSUME IsMachine(m), last.arg \in WordSet, ~ AtTheEdge, ~ OwnWay
  PROVE  ~ Own(Past(m, last), last)
<1> DEFINE x == Past(m, last)
           w == View(x)
<1>1. /\ x.sp = m.sp /\ x.typed = m.typed /\ peek0(x) = peek0(m)
      /\ last.arg # MAXMEMSP =>
           getwordat(w, last.arg) = Pointed /\ Pointed % Byte = w.mem[last.arg]
  BY BeforeIs
<1>2. last.op \in Services => last.arg # MAXMEMSP
  BY RoomIs DEF AtTheEdge
<1>3. /\ Command \notin {"PrintBinI", "Print32SignS", "StackDump", "ReadIntI"}
      /\ ~ (Command = "PrintStr" /\ Contains(text_at(m, last.arg), NotAscii))
      /\ ~ (Command = "PrintStrI" /\ Contains(text_at(m, Pointed), NotAscii))
      /\ ~ (Command = "PrintErrMsg" /\ Contains(text_at(m, last.arg), RawInOne))
      /\ ~ (Command = "PrintChar" /\ Pointed % Byte \notin Space - 1 .. Ascii - 1)
      /\ ~ (Command = "PrintCharI" /\ Pointed >= Ascii)
      /\ LineRead(Command, m.typed)
  BY DEF OwnWay, LineRead
<1>6. \A a : text_at(m, a) = TextAt(w.mem, a)
  <2>1. IsMachine(x) /\ x.mem = m.mem /\ x.seg = m.seg
    BY PastIs
  <2>2. \A a : text_at(x, a) = TextAt(w.mem, a)
    BY <2>1, SameText
  <2>3. \A a : text_at(m, a) = text_at(x, a)
    BY <2>1, SameBank
  <2> QED
    BY <2>2, <2>3
<1> HIDE DEF x, w
<1>4. ASSUME last.op = "CAST", m.sp # 0 PROVE ~ CastOwn(w, last.arg, Named(Casts, peek0(m)))
  <2>1. Command = Named(Casts, peek0(m)) /\ last.arg # MAXMEMSP
    BY <1>2, <1>4, CommandIs DEF Services
  <2> QED
    BY <1>1, <1>3, <1>6, <2>1 DEF CastOwn
<1>5. ASSUME last.op = "POLL", m.sp # 0 PROVE Command = Named(Polls, peek0(m))
  BY <1>5, CommandIs
<1> QED
  BY <1>1, <1>3, <1>4, <1>5 DEF Own, x, w

\* What only C refuses, and what only Python refuses at the console.
OnlyCRefuses ==
  \/ last.op = "DUP" /\ m.sp = 0
  \/ last.op \in Services /\ Command = "none"
  \/ Command = "ReadIntI" /\ ~ NumberFirst(m.typed)

OnlyPythonRefuses ==
  \/ Command = "PrintCharI" /\ Encoded[Pointed] = <<>>
  \/ Command = "ReadIntI" /\ ~ NumberFirst(m.typed)

\* They are what SameFaults says.
LEMMA LoneIs ==
  ASSUME IsMachine(m), Lone(Past(m, last), last)
  PROVE  OnlyCRefuses
<1>1. /\ Past(m, last).sp = m.sp /\ peek0(Past(m, last)) = peek0(m)
      /\ Past(m, last).typed = m.typed
  BY PastIs
<1> QED
  BY <1>1, CommandIs DEF Lone, Services, OnlyCRefuses, NumberRead

LEMMA FluentIs ==
  ASSUME IsMachine(m), last.arg \in WordSet, ~ AtTheEdge, ~ OnlyPythonRefuses
  PROVE  Fluent(Past(m, last), last)
<1> DEFINE x == Past(m, last)
           w == View(x)
<1>1. /\ x.sp = m.sp /\ x.typed = m.typed /\ peek0(x) = peek0(m)
      /\ last.arg # MAXMEMSP => getwordat(w, last.arg) = Pointed
  BY BeforeIs
<1>2. last.op \in Services => last.arg # MAXMEMSP
  BY RoomIs DEF AtTheEdge
<1> HIDE DEF x, w
<1>3. ASSUME last.op = "CAST", m.sp # 0 PROVE Spoken(w, last.arg, Named(Casts, peek0(m)))
  <2>1. Command = Named(Casts, peek0(m)) /\ last.arg # MAXMEMSP
    BY <1>2, <1>3, CommandIs DEF Services
  <2> QED
    BY <1>1, <2>1 DEF Spoken, OnlyPythonRefuses
<1>4. ASSUME last.op = "POLL", m.sp # 0 PROVE NumberRead(Named(Polls, peek0(m)), m.typed)
  <2>1. Command = Named(Polls, peek0(m))
    BY <1>4, CommandIs
  <2> QED
    BY <2>1 DEF NumberRead, OnlyPythonRefuses
<1> QED
  BY <1>1, <1>3, <1>4 DEF Fluent, x, w

\* Python's and C's results, without the prefix.
LEMMA RestIs ==
  ASSUME NEW x, IsMachine(x), NEW i,
         NEW n, Shape(n, WordSet), n.seg = x.seg,
         NEW q, Shape(q, Memory(x.seg)), q.seg = x.seg
  PROVE  /\ Agree(n, q, i) /\ Like(n, q, x) => SameRest(Result(x, n), Unprefixed(q))
         /\ Result(x, n).flags = n.flags /\ Unprefixed(q).flags = q.flags
<1> DEFINE p == Result(x, n)
           r == Unprefixed(q)
<1>1. /\ p.pc = n.pc /\ p.flags = n.flags /\ p.sp = n.sp /\ p.hw = n.hw
      /\ p.mem = Merge(x, n.mem) /\ p.out = n.out /\ p.typed = n.typed
      /\ p.seg = NoPrefix(x.seg)
  BY ResultIs
<1>2. /\ r.pc = q.pc /\ r.flags = q.flags /\ r.sp = q.sp /\ r.hw = q.hw
      /\ r.mem = q.mem /\ r.out = q.out /\ r.typed = q.typed /\ r.seg = NoPrefix(x.seg)
  BY DoneIs
<1> HIDE DEF p, r
<1>3. ASSUME Agree(n, q, i), Like(n, q, x) PROVE SameRest(p, r)
  <2>1. /\ p.pc = r.pc /\ p.sp = r.sp /\ p.mem = r.mem /\ p.seg = r.seg
        /\ p.out = r.out /\ p.typed = r.typed
        /\ \A s \in 0 .. p.sp - 1 : p.hw[s] = r.hw[s]
    BY <1>1, <1>2, <1>3 DEF Agree, Like
  <2>2. Live(p) = Live(r)
    BY <2>1 DEF Live
  <2> QED
    BY <2>1, <2>2 DEF SameRest
<1> QED
  BY <1>1, <1>2, <1>3 DEF p, r

\* The cross check of an instruction that the 16-bit machine has.
CrossChecked(P, C) ==
  /\ ~ AtTheEdge /\ ~ OwnWay => \A p \in P, q \in C : SameRest(p, q)
  /\ ~ AtTheEdge => \A p \in P, q \in C : SameBitsPromised(p, q, last)
  /\ C = {} /\ P # {} => OnlyCRefuses
  /\ P = {} /\ C # {} =>
       AtTheEdge \/ (last.op = "FJMPS" /\ m.seg.ring = 0) \/ OnlyPythonRefuses

\* The results of Python and of C agree in all that the invariants ask for.
LEMMA CodedChecked ==
  ASSUME IsMachine(m), Coded(last), last.arg \in WordSet
  PROVE  CrossChecked(Python(m, last), CStep(m, last))
<1> DEFINE x == Past(m, last)
           w == View(x)
           P == PyOps(m, last)
           C == switch(x, last)
<1>1. IsMachine(x) /\ x.seg = m.seg
  BY PastIs
<1>2. /\ Python(m, last) = {Result(x, n) : n \in P}
      /\ CStep(m, last) = {Unprefixed(q) : q \in C}
  BY PythonIs, CodedOp, CStepIs DEF OfSegments
<1>3. /\ \A n \in P : Shape(n, WordSet) /\ n.seg = x.seg
      /\ \A q \in C : Shape(q, Memory(x.seg)) /\ q.seg = x.seg
  BY <1>1, CodedTyped
<1>4. /\ Alike(PyOp(w, last), C, x, last)
      /\ Alike(PyOp24(x, w, last), C, x, last)
  BY <1>1, OpsAlike DEF OpAlike
<1>5. P = IF ~ Is24 THEN PyOp(w, last)
          ELSE IF OperandInBank(m, last) THEN PyOp24(x, w, last) ELSE {}
  BY DEF PyOps, Is24
<1>6. ~ AtTheEdge => Clear(x, last) /\ (Is24 => OperandInBank(m, last))
  BY EdgeClear
<1>7. /\ ~ AtTheEdge /\ ~ OwnWay => ~ Own(x, last)
      /\ ~ AtTheEdge /\ ~ OnlyPythonRefuses => Fluent(x, last)
  BY OwnIs, FluentIs
<1> HIDE DEF x, w, P, C
<1>8. /\ ~ AtTheEdge /\ ~ OnlyPythonRefuses => (P = {} => C = {})
      /\ ~ AtTheEdge => \A n \in P, q \in C : SameBitsPromised(n, q, last)
      /\ ~ AtTheEdge /\ ~ OwnWay => \A n \in P, q \in C : Agree(n, q, last) /\ Like(n, q, x)
  BY <1>4, <1>5, <1>6, <1>7 DEF Alike
<1>9. C = {} /\ P # {} => Lone(x, last)
  BY <1>4, <1>5 DEF Alike
<1>10. \A n \in P, q \in C :
         /\ Agree(n, q, last) /\ Like(n, q, x) => SameRest(Result(x, n), Unprefixed(q))
         /\ Result(x, n).flags = n.flags /\ Unprefixed(q).flags = q.flags
  BY <1>1, <1>3, RestIs
<1>11. Lone(x, last) => OnlyCRefuses
  BY LoneIs DEF x
<1>12. ~ AtTheEdge /\ ~ OwnWay =>
         \A p \in Python(m, last), q \in CStep(m, last) : SameRest(p, q)
  BY <1>2, <1>8, <1>10
<1>13. ~ AtTheEdge =>
         \A p \in Python(m, last), q \in CStep(m, last) : SameBitsPromised(p, q, last)
  BY <1>2, <1>8, <1>10 DEF SameBitsPromised
<1>14. (Python(m, last) = {} <=> P = {}) /\ (CStep(m, last) = {} <=> C = {})
  BY <1>2
<1> QED
  BY <1>8, <1>9, <1>11, <1>12, <1>13, <1>14 DEF CrossChecked

-----------------------------------------------------------------------------
\* q is the machine x with other registers and segments.
Segmented(q, x) ==
  /\ Whole(q)
  /\ q.pc \in WordSet /\ q.flags = x.flags /\ q.sp \in 0 .. Depth /\ q.hw \in Stack
  /\ q.mem = x.mem /\ q.out = x.out /\ q.typed = x.typed
  /\ SegTyped(q.seg) /\ q.seg.vm24

\* A machine with other registers and segments is a machine, with its prefix and without.
LEMMA SegmentedMachine ==
  ASSUME NEW x, IsMachine(x), x.seg.vm24, NEW q, Segmented(q, x)
  PROVE  /\ IsMachine(q) /\ IsMachine(Unprefixed(q))
         /\ Unprefixed(q).mem = x.mem /\ Unprefixed(q).out = x.out
         /\ Unprefixed(q).typed = x.typed
<1>1. Shape(x, Memory(x.seg)) /\ Memory(q.seg) = Memory(x.seg)
  BY MachineShape DEF Memory, Segmented
<1>2. Shape(q, Memory(q.seg))
  BY <1>1 DEF Shape, Segmented
<1>3. IsMachine(q)
  BY <1>2, MachineShape DEF Segmented
<1>4. /\ IsMachine(Unprefixed(q)) /\ Unprefixed(q).mem = q.mem
      /\ Unprefixed(q).out = q.out /\ Unprefixed(q).typed = q.typed
  BY <1>2, <1>3, DoneIs
<1> QED
  BY <1>3, <1>4 DEF Segmented

\* The segments after ADM, a prefix, SSET and FJMPS.
LEMMA SegmentsTyped ==
  ASSUME NEW seg, SegTyped(seg), seg.vm24, NEW b \in 0 .. Banks - 1
  PROVE  /\ \A r \in {0, 1} : SegTyped(Ring(seg, r)) /\ Ring(seg, r).vm24
         /\ SegTyped([seg EXCEPT !.override = b]) /\ [seg EXCEPT !.override = b].vm24
         /\ SegTyped([seg EXCEPT !.ds = b]) /\ [seg EXCEPT !.ds = b].vm24
         /\ SegTyped([seg EXCEPT !.es = b]) /\ [seg EXCEPT !.es = b].vm24
         /\ SegTyped([seg EXCEPT !.cs = b]) /\ [seg EXCEPT !.cs = b].vm24
<1>1. 0 \in 0 .. Banks - 1
  BY Numbers
<1>2. ASSUME NEW r \in {0, 1} PROVE SegTyped(Ring(seg, r)) /\ Ring(seg, r).vm24
  <2>1. CASE r = 0
    BY <1>1, <2>1 DEF Ring, SegTyped
  <2>2. CASE r = 1
    BY <1>1, <2>2 DEF Ring, SegTyped
  <2> QED
    BY <2>1, <2>2
<1>3. SegTyped([seg EXCEPT !.override = b]) /\ [seg EXCEPT !.override = b].vm24
  BY DEF SegTyped
<1>4. SegTyped([seg EXCEPT !.ds = b]) /\ [seg EXCEPT !.ds = b].vm24
  BY DEF SegTyped
<1>5. SegTyped([seg EXCEPT !.es = b]) /\ [seg EXCEPT !.es = b].vm24
  BY DEF SegTyped
<1>6. SegTyped([seg EXCEPT !.cs = b]) /\ [seg EXCEPT !.cs = b].vm24
  BY DEF SegTyped
<1> QED
  BY <1>2, <1>3, <1>4, <1>5, <1>6

\* x with other registers and segments.
LEMMA SegmentedBy ==
  ASSUME NEW x, IsMachine(x), NEW seg, SegTyped(seg), seg.vm24,
         NEW s \in 0 .. Depth, NEW p \in WordSet
  PROVE  /\ Segmented([x EXCEPT !.seg = seg], x)
         /\ Segmented([x EXCEPT !.sp = s, !.seg = seg], x)
         /\ Segmented([x EXCEPT !.sp = s, !.seg = seg, !.pc = p], x)
<1>1. Whole(x) /\ x.pc \in WordSet /\ x.sp \in 0 .. Depth /\ x.hw \in Stack
  BY MachineShape DEF Shape
<1>2. Segmented([x EXCEPT !.seg = seg], x)
  BY <1>1 DEF Segmented, Whole, Fields
<1>3. Segmented([x EXCEPT !.sp = s, !.seg = seg], x)
  BY <1>1 DEF Segmented, Whole, Fields
<1>4. Segmented([x EXCEPT !.sp = s, !.seg = seg, !.pc = p], x)
  BY <1>1 DEF Segmented, Whole, Fields
<1> QED
  BY <1>2, <1>3, <1>4

\* The instructions of segments: C's results, which Python's are as well but for FJMPS in
\* ring 0.
LEMMA SegmentsSame ==
  ASSUME NEW x, IsMachine(x), x.seg.vm24, NEW i, i.op \in OfSegments, i.arg \in WordSet
  PROVE  LET P == optSegments(x, i)
             C == step_Segments(x, i)
         IN  /\ \A q \in C : Segmented(q, x)
             /\ \A p \in C, q \in C : p = q
             /\ P = C \/ (P = {} /\ i.op = "FJMPS" /\ x.seg.ring = 0)
<1> DEFINE P == optSegments(x, i)
           C == step_Segments(x, i)
           a == peek0(x)
           b == peek1(x)
<1>1. /\ Whole(x) /\ x.pc \in WordSet /\ x.flags \in WordSet /\ x.sp \in 0 .. Depth
      /\ x.hw \in Stack /\ SegTyped(x.seg)
  BY MachineShape DEF Shape
<1>2. fetchStack(x, 0) = a /\ fetchStack(x, 1) = b
  <2>1. x.sp - 1 - 0 = x.sp - 1 /\ x.sp - 1 - 1 = x.sp - 2
    BY <1>1, Numbers
  <2> QED
    BY <2>1 DEF fetchStack, peek0, peek1
<1>3. /\ x.sp >= 1 => x.sp - 1 \in 0 .. Depth /\ a \in WordSet
      /\ x.sp >= 2 => x.sp - 2 \in 0 .. Depth /\ b \in WordSet
  BY <1>1, Slots DEF peek0, peek1, Stack
<1>4. \A v \in WordSet : v < Banks => v \in 0 .. Banks - 1
  BY Numbers DEF WordSet
<1> HIDE DEF a, b
<1>5. CASE i.op = "ADM"
  <2> DEFINE q == [x EXCEPT !.sp = x.sp - 1, !.seg = Ring(x.seg, a)]
  <2>1. P = When(x.sp >= 1 /\ a \in {0, 1}, q)
    BY <1>2, <1>5 DEF optSegments, optADM, Prefixes
  <2>2. C = When(x.sp >= 1 /\ a \in {0, 1}, q)
    BY <1>5 DEF step_Segments, step_ADM, Prefixes, a
  <2>3. ASSUME x.sp >= 1, a \in {0, 1} PROVE Segmented(q, x)
    <3>0. 0 \in 0 .. Banks - 1
      BY Numbers
    <3>1. SegTyped(Ring(x.seg, a)) /\ Ring(x.seg, a).vm24
      BY <1>1, <2>3, <3>0, SegmentsTyped
    <3> QED
      BY <1>1, <1>3, <2>3, <3>1, SegmentedBy
  <2> HIDE DEF q, P, C
  <2> QED
    BY <2>1, <2>2, <2>3 DEF When, P, C
<1>6. CASE i.op \in Prefixes
  <2> DEFINE k == IF x.seg.ring = 1
                    THEN [CSO |-> x.seg.cs, DSO |-> x.seg.ds, ESO |-> x.seg.es][i.op] ELSE 0
             q == [x EXCEPT !.seg = [x.seg EXCEPT !.override = k]]
  <2>1. P = {q}
    BY <1>6 DEF optSegments, optPrefix, Prefixes
  <2>2. C = {q}
    <3>1. (CASE i.op = "CSO" -> x.seg.cs [] i.op = "DSO" -> x.seg.ds [] i.op = "ESO" -> x.seg.es)
            = [CSO |-> x.seg.cs, DSO |-> x.seg.ds, ESO |-> x.seg.es][i.op]
      BY <1>6 DEF Prefixes
    <3>2. C = step_Prefix(x, i)
      BY <1>6 DEF step_Segments, Prefixes
    <3> QED
      BY <3>1, <3>2 DEF step_Prefix
  <2>3. k \in 0 .. Banks - 1
    <3>1. /\ x.seg.cs \in 0 .. Banks - 1 /\ x.seg.ds \in 0 .. Banks - 1
          /\ x.seg.es \in 0 .. Banks - 1 /\ 0 \in 0 .. Banks - 1
      BY <1>1, Numbers DEF SegTyped
    <3> QED
      BY <1>6, <3>1 DEF Prefixes
  <2> HIDE DEF k
  <2>4. Segmented(q, x)
    BY <1>1, <2>3, SegmentsTyped, SegmentedBy
  <2> HIDE DEF q
  <2> QED
    BY <2>1, <2>2, <2>4
<1>7. CASE i.op = "SSO"
  <2>1. P = {} /\ C = {}
    BY <1>7 DEF optSegments, step_Segments, Prefixes
  <2> QED
    BY <2>1
<1>8. CASE i.op = "SGET"
  <2> DEFINE k == <<x.seg.cs, x.seg.ds, x.seg.es>>[i.arg + 1]
  <2>1. i.arg \notin 0 .. 2 <=> i.arg > 2
    BY Numbers DEF WordSet
  <2>2. P = IF i.arg > 2 THEN {} ELSE optPUSH(x, k)
    BY <1>8, <2>1 DEF optSegments, optSGET, Prefixes
  <2>3. C = IF i.arg > 2 THEN {} ELSE push16(x, k)
    BY <1>8 DEF step_Segments, step_SGET, Prefixes
  <2>4. ASSUME ~ (i.arg > 2) PROVE k \in WordSet
    <3>1. i.arg \in {0, 1, 2}
      BY <2>4, Numbers DEF WordSet
    <3>2. x.seg.cs \in WordSet /\ x.seg.ds \in WordSet /\ x.seg.es \in WordSet
      BY <1>1, Numbers DEF SegTyped, WordSet
    <3> QED
      BY <3>1, <3>2
  <2> HIDE DEF k
  <2>5. ASSUME ~ (i.arg > 2)
        PROVE  /\ optPUSH(x, k) = push16(x, k)
               /\ \A q \in push16(x, k) : Segmented(q, x)
               /\ \A p \in push16(x, k), q \in push16(x, k) : p = q
    <3>1. optPUSH(x, k) = push16(x, k)
      BY <1>1, <2>4, <2>5, PushQuiet
    <3>2. ASSUME NEW q \in push16(x, k) PROVE Segmented(q, x)
      <4>1. Quiet(q, x)
        BY <1>1, <2>4, <2>5, <3>1, PushQuiet
      <4>2. q.flags = x.flags
        BY <1>1, <2>4, <2>5, <3>1, PushedOn
      <4> QED
        BY <1>1, <4>1, <4>2 DEF Quiet, Beside, Segmented
    <3>3. \A p \in push16(x, k), q \in push16(x, k) : p = q
      BY DEF push16, When
    <3> QED
      BY <3>1, <3>2, <3>3
  <2> QED
    BY <2>2, <2>3, <2>5
<1>9. CASE i.op = "SSET"
  <2> DEFINE q == [x EXCEPT !.sp = x.sp - 1, !.seg = [x.seg EXCEPT !.ds = a]]
             r == [x EXCEPT !.sp = x.sp - 1, !.seg = [x.seg EXCEPT !.es = a]]
             ok == i.arg \in {1, 2} /\ x.sp >= 1 /\ a < Banks
  <2>1. i.arg \in 1 .. 2 <=> i.arg \in {1, 2}
    BY Numbers DEF WordSet
  <2>2. P = IF ok THEN {IF i.arg = 1 THEN q ELSE r} ELSE {}
    <3>1. P = optSSET(x, i.arg)
      BY <1>9 DEF optSegments, Prefixes
    <3> QED
      BY <1>1, <1>2, <2>1, <3>1 DEF optSSET, When, Whole, Fields
  <2>3. C = IF ok THEN {IF i.arg = 1 THEN q ELSE r} ELSE {}
    BY <1>9 DEF step_Segments, step_SSET, Prefixes, a, When
  <2>4. ASSUME ok PROVE Segmented(q, x) /\ Segmented(r, x)
    <3>1. a \in 0 .. Banks - 1
      BY <1>3, <1>4, <2>4
    <3> QED
      BY <1>1, <1>3, <2>4, <3>1, SegmentsTyped, SegmentedBy
  <2> HIDE DEF q, r, ok, P, C
  <2> QED
    BY <2>2, <2>3, <2>4 DEF P, C
<1>10. CASE i.op = "FJMPS"
  <2> DEFINE q == [x EXCEPT !.sp = x.sp - 2, !.seg = [x.seg EXCEPT !.cs = b], !.pc = a]
             ok == x.sp >= 2 /\ b < Banks
  <2>1. P = IF x.seg.ring = 1 /\ ok THEN {q} ELSE {}
    <3>1. P = optFJMPS(x)
      BY <1>10 DEF optSegments, Prefixes
    <3> QED
      BY <1>1, <1>2, <3>1 DEF optFJMPS, When, Whole, Fields
  <2>2. C = IF ok THEN {q} ELSE {}
    BY <1>1, <1>10 DEF step_Segments, step_FJMPS, Prefixes, a, b, When, Whole, Fields
  <2>3. ASSUME ok PROVE Segmented(q, x)
    <3>1. b \in 0 .. Banks - 1 /\ a \in WordSet /\ x.sp - 2 \in 0 .. Depth
      <4>1. x.sp >= 1
        BY <1>1, <2>3, Numbers
      <4> QED
        BY <1>3, <1>4, <2>3, <4>1
    <3> QED
      BY <1>1, <3>1, SegmentsTyped, SegmentedBy
  <2>4. x.seg.ring \in {0, 1}
    BY <1>1 DEF SegTyped
  <2> HIDE DEF q, ok, P, C
  <2> QED
    BY <1>10, <2>1, <2>2, <2>3, <2>4 DEF P, C
<1> QED
  BY <1>5, <1>6, <1>7, <1>8, <1>9, <1>10 DEF OfSegments, Prefixes

\* One step of the emulators for an instruction of segments.
LEMMA SegmentsStep ==
  ASSUME NEW z, IsMachine(z), z.seg.vm24, NEW i, i.op \in OfSegments, i.arg \in WordSet
  PROVE  LET P == Python(z, i)
             C == CStep(z, i)
         IN  /\ \A q \in C : /\ IsMachine(q) /\ q.seg.vm24
                             /\ q.mem = z.mem /\ q.out = z.out /\ q.typed = z.typed
             /\ \A p \in C, q \in C : p = q
             /\ P = C \/ (P = {} /\ ((i.op = "FJMPS" /\ z.seg.ring = 0) \/ ~ OperandInBank(z, i)))
<1> DEFINE x == Past(z, i)
           C == step_Segments(x, i)
           D == optSegments(x, i)
<1>1. IsMachine(x) /\ x.seg = z.seg /\ x.mem = z.mem /\ x.out = z.out /\ x.typed = z.typed
  BY PastIs
<1>2. /\ \A q \in C : Segmented(q, x)
      /\ \A p \in C, q \in C : p = q
      /\ D = C \/ (D = {} /\ i.op = "FJMPS" /\ x.seg.ring = 0)
  BY <1>1, SegmentsSame
<1>3. switch(x, i) = C
  <2>1. /\ i.op \notin Arithmetic \cup Logic /\ i.op \notin OnTop
        /\ i.op \notin CondJumps \cup {"JMP"} /\ i.op # "PUSH" /\ i.op # "POP"
        /\ i.op \notin Plain /\ i.op \notin Services
    BY Apart DEF Services
  <2> QED
    BY <2>1 DEF switch
<1>4. Method(x, i) = D
  BY DEF Method
<1>5. CStep(z, i) = IF i.op \in Prefixes THEN C ELSE {Unprefixed(q) : q \in C}
  BY <1>3 DEF CStep, Past, Unprefixed
<1>6. Python(z, i) = IF ~ OperandInBank(z, i) THEN {}
                     ELSE IF i.op \in Prefixes THEN D ELSE {Unprefixed(q) : q \in D}
  BY <1>4 DEF Python, PyStep24, Past, Unprefixed
<1> HIDE DEF x, C, D
<1>7. ASSUME NEW q \in C
      PROVE  /\ IsMachine(q) /\ IsMachine(Unprefixed(q))
             /\ q.seg.vm24 /\ Unprefixed(q).seg.vm24
             /\ q.mem = z.mem /\ q.out = z.out /\ q.typed = z.typed
             /\ Unprefixed(q).mem = z.mem /\ Unprefixed(q).out = z.out
             /\ Unprefixed(q).typed = z.typed
  <2>1. Segmented(q, x)
    BY <1>2
  <2>2. Unprefixed(q).seg = NoPrefix(q.seg)
    BY <2>1, UnprefixedIs DEF Segmented
  <2>3. NoPrefix(q.seg).vm24
    BY <2>1 DEF NoPrefix, Segmented, SegTyped
  <2>4. /\ IsMachine(q) /\ IsMachine(Unprefixed(q))
        /\ Unprefixed(q).mem = x.mem /\ Unprefixed(q).out = x.out
        /\ Unprefixed(q).typed = x.typed
    BY <1>1, <2>1, SegmentedMachine
  <2> QED
    BY <1>1, <2>1, <2>2, <2>3, <2>4 DEF Segmented
<1>8. \A q \in CStep(z, i) : /\ IsMachine(q) /\ q.seg.vm24
                             /\ q.mem = z.mem /\ q.out = z.out /\ q.typed = z.typed
  BY <1>5, <1>7
<1>9. \A p \in CStep(z, i), q \in CStep(z, i) : p = q
  BY <1>2, <1>5
<1>10. \/ Python(z, i) = CStep(z, i)
       \/ /\ Python(z, i) = {}
          /\ (i.op = "FJMPS" /\ z.seg.ring = 0) \/ ~ OperandInBank(z, i)
  BY <1>1, <1>2, <1>5, <1>6
<1> QED
  BY <1>8, <1>9, <1>10

\* ADM of the 16-bit machine, which toggles a flag outside of it.
LEMMA Adm16 ==
  ASSUME NEW z, IsMachine(z), ~ z.seg.vm24, NEW i, i.op = "ADM"
  PROVE  /\ Python(z, i) = {Past(z, i)} /\ CStep(z, i) = {Past(z, i)}
         /\ IsMachine(Past(z, i))
         /\ Past(z, i).mem = z.mem /\ Past(z, i).out = z.out /\ Past(z, i).typed = z.typed
         /\ Past(z, i).seg = z.seg
<1> DEFINE x == Past(z, i)
<1>1. /\ IsMachine(x) /\ x.seg = z.seg /\ x.mem = z.mem /\ x.out = z.out /\ x.typed = z.typed
  BY PastIs
<1>2. i.op \in OfSegments /\ i.op \notin Prefixes
  BY DEF OfSegments, Prefixes
<1>3. /\ i.op \notin Arithmetic \cup Logic /\ i.op \notin OnTop
      /\ i.op \notin CondJumps \cup {"JMP"} /\ i.op # "PUSH" /\ i.op # "POP"
      /\ i.op \notin Plain /\ i.op \notin Services
  BY <1>2, Apart DEF Services
<1>4. Python(z, i) = {x}
  BY <1>3 DEF Python, PyStep, Past
<1>5. switch(x, i) = {x}
  <2>1. switch(x, i) = step_Segments(x, i)
    BY <1>2, <1>3 DEF switch
  <2>2. step_Segments(x, i) = step_ADM(x)
    BY DEF step_Segments, Prefixes
  <2> QED
    BY <1>1, <2>1, <2>2 DEF step_ADM
<1>6. Unprefixed(x) = x
  <2>1. Whole(x) /\ SegTyped(x.seg)
    BY <1>1, MachineShape DEF Shape
  <2>2. NoPrefix(x.seg) = x.seg
    BY <1>1, <2>1, NoPrefixTyped
  <2>3. Unprefixed(x) = [x EXCEPT !.seg = NoPrefix(x.seg)]
    BY DEF Unprefixed, NoPrefix
  <2> HIDE DEF x
  <2> QED
    BY <2>1, <2>2, <2>3 DEF Whole, Fields
<1>7. CStep(z, i) = {x}
  BY <1>2, <1>5, <1>6, CStepIs
<1> QED
  BY <1>1, <1>4, <1>7

\* Which instructions a machine executes.
LEMMA Executes ==
  ASSUME NEW z, IsMachine(z), NEW i \in InstructionsOf(z)
  PROVE  /\ i.arg \in WordSet /\ i.op # "none"
         /\ \/ Coded(i)
            \/ i.op \in OfSegments /\ z.seg.vm24
            \/ i.op = "ADM" /\ ~ z.seg.vm24
<1>1. CASE i \in Instructions(Args)
  BY <1>1, Codes DEF OfSegments
<1>2. CASE z.seg.vm24 /\ i \in SegmentInstructions
  <2>1. i.op \in OfSegments /\ i.arg \in 0 .. 3
    <3>1. "SGET" \in OfSegments /\ "SSET" \in OfSegments
      BY DEF OfSegments
    <3>2. CASE i \in [op : OfSegments \ {"SGET", "SSET"}, mode : {""}, arg : {0}]
      <4>1. i.op \in OfSegments \ {"SGET", "SSET"} /\ i.arg = 0
        BY <3>2
      <4> QED
        BY <4>1, SMT
    <3>3. CASE i \in [op : {"SGET", "SSET"}, mode : {""}, arg : 0 .. 3]
      <4>1. (i.op = "SGET" \/ i.op = "SSET") /\ i.arg \in 0 .. 3
        BY <3>3
      <4> QED
        BY <3>1, <4>1, SMT
    <3> QED
      BY <1>2, <3>2, <3>3 DEF SegmentInstructions
  <2>2. i.arg \in WordSet
    BY <2>1, Numbers DEF WordSet
  <2> QED
    BY <1>2, <2>1, <2>2 DEF OfSegments, Prefixes
<1> QED
  BY <1>1, <1>2 DEF InstructionsOf

\* C leaves machines, and Python the memory and the terminal that C has left.
LEMMA SharedMachine ==
  ASSUME NEW z, IsMachine(z), NEW C, \A q \in C : IsMachine(q) /\ q.seg.vm24 = z.seg.vm24
  PROVE  /\ IsMachine(Shared(z, C))
         /\ Shared(z, C).seg = z.seg
         /\ (\A q \in C : q.mem = z.mem /\ q.out = z.out /\ q.typed = z.typed) => Shared(z, C) = z
<1>1. CASE C = {}
  BY <1>1 DEF Shared
<1>2. CASE C # {}
  <2> DEFINE q == CHOOSE q \in C : TRUE
             y == [z EXCEPT !.mem = q.mem, !.out = q.out, !.typed = q.typed]
  <2>1. q \in C /\ Shared(z, C) = y
    BY <1>2 DEF Shared
  <2> HIDE DEF q
  <2>2. /\ Shape(z, Memory(z.seg)) /\ SegTyped(z.seg)
        /\ Shape(q, Memory(q.seg)) /\ q.seg.vm24 = z.seg.vm24
    BY <2>1, MachineShape
  <2>3. Memory(q.seg) = Memory(z.seg)
    BY <2>2 DEF Memory
  <2>4. /\ Whole(y) /\ y.pc = z.pc /\ y.flags = z.flags /\ y.sp = z.sp /\ y.hw = z.hw
        /\ y.mem = q.mem /\ y.out = q.out /\ y.typed = q.typed /\ y.seg = z.seg
    BY <2>2 DEF Shape, Whole, Fields
  <2>5. q.mem = z.mem /\ q.out = z.out /\ q.typed = z.typed => y = z
    BY <2>2 DEF Shape, Whole, Fields
  <2> HIDE DEF y
  <2>6. Shape(y, Memory(y.seg)) /\ SegTyped(y.seg)
    BY <2>2, <2>3, <2>4 DEF Shape
  <2>7. IsMachine(y)
    BY <2>6, MachineShape
  <2> QED
    BY <2>1, <2>4, <2>5, <2>7
<1> QED
  BY <1>1, <1>2

\* Whatever is executed leaves machines.
LEMMA StepTyped ==
  ASSUME NEW z, IsMachine(z), NEW i \in InstructionsOf(z)
  PROVE  /\ \A q \in CStep(z, i) : IsMachine(q) /\ q.seg.vm24 = z.seg.vm24
         /\ \A p \in Python(z, i) : IsMachine(p)
<1>1. CASE Coded(i)
  <2>1. i.arg \in WordSet
    BY Executes
  <2>2. /\ \A p \in Python(z, i) : IsMachine(p)
        /\ \A q \in CStep(z, i) : IsMachine(q)
        /\ \A q \in switch(Past(z, i), i) : Shape(q, Memory(z.seg)) /\ q.seg = z.seg
    BY <1>1, <2>1, CodedTyped
  <2>3. ASSUME NEW q \in switch(Past(z, i), i) PROVE Unprefixed(q).seg.vm24 = z.seg.vm24
    <3>1. Whole(q) /\ q.seg = z.seg /\ SegTyped(z.seg)
      BY <2>2, MachineShape DEF Shape
    <3>2. Unprefixed(q).seg = NoPrefix(z.seg)
      BY <3>1, UnprefixedIs
    <3> QED
      BY <3>1, <3>2 DEF NoPrefix, SegTyped
  <2>4. CStep(z, i) = {Unprefixed(q) : q \in switch(Past(z, i), i)}
    BY <1>1, CodedOp, CStepIs DEF OfSegments
  <2> QED
    BY <2>2, <2>3, <2>4
<1>2. CASE i.op \in OfSegments /\ z.seg.vm24
  <2>1. i.arg \in WordSet
    BY Executes
  <2>2. SegTyped(z.seg)
    BY MachineShape
  <2>3. \A q \in CStep(z, i) : IsMachine(q) /\ q.seg.vm24
    BY <1>2, <2>1, SegmentsStep
  <2>4. \A q \in CStep(z, i) : q.seg.vm24 \in BOOLEAN
    BY <2>3, MachineShape DEF SegTyped
  <2>5. \A q \in CStep(z, i) : q.seg.vm24 = z.seg.vm24
    BY <1>2, <2>2, <2>3, <2>4 DEF SegTyped
  <2>6. Python(z, i) = CStep(z, i) \/ Python(z, i) = {}
    BY <1>2, <2>1, SegmentsStep
  <2> QED
    BY <2>3, <2>5, <2>6
<1>3. CASE i.op = "ADM" /\ ~ z.seg.vm24
  BY <1>3, Adm16
<1> QED
  BY <1>1, <1>2, <1>3, Executes

-----------------------------------------------------------------------------
\* What the variables hold: the last instruction, what C has made of the machine, and
\* what Python has made of it after C.
Executed ==
  /\ last \in InstructionsOf(m)
  /\ c = CStep(m, last)
  /\ py = Python(Shared(m, c), last)

LInv ==
  /\ IsMachine(m)
  /\ \A p \in py : IsMachine(p)
  /\ IF last.op = "none" THEN py = {m} /\ c = {m} ELSE Executed

\* Python starts from a machine of the same kind as the one before.
LEMMA StartOfPython ==
  ASSUME NEW z, IsMachine(z), NEW i \in InstructionsOf(z)
  PROVE  /\ IsMachine(Shared(z, CStep(z, i)))
         /\ Shared(z, CStep(z, i)).seg = z.seg
         /\ \A p \in Python(Shared(z, CStep(z, i)), i) : IsMachine(p)
<1> DEFINE C == CStep(z, i)
           y == Shared(z, C)
<1>1. \A q \in C : IsMachine(q) /\ q.seg.vm24 = z.seg.vm24
  BY StepTyped
<1> HIDE DEF C
<1>2. IsMachine(y) /\ y.seg = z.seg
  BY <1>1, SharedMachine
<1> HIDE DEF y
<1>3. i \in InstructionsOf(y)
  BY <1>2 DEF InstructionsOf
<1>4. \A p \in Python(y, i) : IsMachine(p)
  BY <1>2, <1>3, StepTyped
<1> QED
  BY <1>2, <1>4 DEF C, y

\* The invariant holds at the start.
LEMMA LInvInit == Init => LInv
<1> SUFFICES ASSUME Init PROVE LInv
  OBVIOUS
<1>1. IsMachine(m)
  BY LockstepAssumption DEF Init
<1> QED
  BY <1>1 DEF Init, LInv

\* Every step of evalpc keeps it.
LEMMA LInvStep == LInv /\ [Next]_vars => LInv'
<1> SUFFICES ASSUME LInv, [Next]_vars PROVE LInv'
  OBVIOUS
<1>1. CASE UNCHANGED vars
  BY <1>1 DEF LInv, Executed, vars
<1>2. ASSUME NEW i \in Instructions(Args) \cup SegmentInstructions, evalpc(i) PROVE LInv'
  <2>1. /\ m' \in py /\ i \in InstructionsOf(m') /\ last' = i
        /\ c' = CStep(m', i) /\ py' = Python(Shared(m', c'), i)
    BY <1>2 DEF evalpc
  <2>2. IsMachine(m')
    BY <2>1 DEF LInv
  <2>3. \A p \in py' : IsMachine(p)
    BY <2>1, <2>2, StartOfPython
  <2>4. last'.op # "none"
    BY <2>1, <2>2, Executes
  <2>5. Executed'
    BY <2>1 DEF Executed
  <2> QED
    BY <2>2, <2>3, <2>4, <2>5 DEF LInv
<1> QED
  BY <1>1, <1>2 DEF Next

\* What each emulator has made of the last instruction, and that all of it are machines.
THEOREM LockstepInvariant == Spec => []LInv
<1> QED
  BY LInvInit, LInvStep, PTL DEF Spec

\* Every instruction, if C and Python start from the same machine.
LEMMA Checked ==
  ASSUME LInv
  PROVE  IF last.op = "none" THEN Alone = {m} /\ c = {m}
         ELSE CrossChecked(Alone, c) /\ c = CStep(m, last) /\ Alone = Python(m, last)
<1>1. CASE last.op = "none"
  BY <1>1 DEF LInv, Alone
<1>2. CASE last.op # "none"
  <2>1. /\ IsMachine(m) /\ last \in InstructionsOf(m) /\ c = CStep(m, last)
        /\ Alone = Python(m, last)
    BY <1>2 DEF LInv, Executed, Alone
  <2>2. last.arg \in WordSet
    BY <2>1, Executes
  <2>3. CASE Coded(last)
    BY <1>2, <2>1, <2>2, <2>3, CodedChecked
  <2>4. CASE last.op \in OfSegments /\ m.seg.vm24
    <3>1. /\ \A p \in CStep(m, last), q \in CStep(m, last) : p = q
          /\ \/ Python(m, last) = CStep(m, last)
             \/ /\ Python(m, last) = {}
                /\ (last.op = "FJMPS" /\ m.seg.ring = 0) \/ ~ OperandInBank(m, last)
      BY <2>1, <2>2, <2>4, SegmentsStep
    <3>2. ~ OperandInBank(m, last) => AtTheEdge
      <4>1. m.pc \in WordSet
      BY <2>1, MachineShape DEF Shape
    <4>2. Size(last) = 1 \/ Size(last) = 3
      BY DEF Size
    <4>3. m.pc <= MAXMEMSP - 3 \/ m.pc > MAXMEMSP - 3
      BY <4>1, Numbers DEF WordSet, MAXMEMSP
    <4> QED
      BY <2>4, <4>2, <4>3 DEF Is24, AtTheEdge, OperandInBank
    <3>3. \A p \in CStep(m, last), q \in Alone : p = q
      BY <2>1, <3>1
    <3> QED
      BY <1>2, <2>1, <3>1, <3>2 DEF CrossChecked, SameRest, SameBitsPromised
  <2>5. CASE last.op = "ADM" /\ ~ m.seg.vm24
    <3>1. Python(m, last) = {Past(m, last)} /\ CStep(m, last) = {Past(m, last)}
      BY <2>1, <2>5, Adm16
    <3> QED
      BY <1>2, <2>1, <3>1 DEF CrossChecked, SameRest, SameBitsPromised
  <2> QED
    BY <2>1, <2>3, <2>4, <2>5, Executes
<1> QED
  BY <1>1, <1>2

\* The invariant implies SameMachine.
LEMMA SameMachineHere == LInv => SameMachine
<1> SUFFICES ASSUME LInv, ~ AtTheEdge, ~ OwnWay PROVE \A p \in Alone, q \in c : SameRest(p, q)
  BY DEF SameMachine
<1>1. CASE last.op = "none"
  <2>1. Alone = {m} /\ c = {m}
    BY <1>1, Checked
  <2> QED
    BY <2>1 DEF SameRest
<1>2. CASE last.op # "none"
  BY <1>2, Checked DEF CrossChecked
<1> QED
  BY <1>1, <1>2

\* The invariant implies SameFlags.
LEMMA SameFlagsHere == LInv => SameFlags
<1> SUFFICES ASSUME LInv, ~ AtTheEdge, NEW p \in Alone, NEW q \in c, NEW bit \in Promised(last)
             PROVE  Has(p.flags, bit) = Has(q.flags, bit)
  BY DEF SameFlags, Promised
<1>1. Has(p.flags, bit) \in BOOLEAN /\ Has(q.flags, bit) \in BOOLEAN
  BY DEF Has
<1>2. CASE last.op = "none"
  <2>1. Alone = {m} /\ c = {m}
    BY <1>2, Checked
  <2> QED
    BY <2>1
<1>3. CASE last.op # "none"
  <2>1. Has(p.flags, bit) <=> Has(q.flags, bit)
    BY <1>3, Checked DEF CrossChecked, SameBitsPromised
  <2> QED
    BY <1>1, <2>1
<1> QED
  BY <1>2, <1>3

\* The invariant implies SameFaults.
LEMMA SameFaultsHere == LInv => SameFaults
<1> SUFFICES ASSUME LInv PROVE SameFaults
  OBVIOUS
<1>1. CASE last.op = "none"
  <2>1. Alone = {m} /\ c = {m}
    BY <1>1, Checked
  <2> QED
    BY <2>1 DEF SameFaults
<1>2. CASE last.op # "none"
  BY <1>2, Checked DEF CrossChecked, SameFaults, OnlyCRefuses, OnlyPythonRefuses
<1> QED
  BY <1>1, <1>2

\* Away from the last address both emulators leave the same registers, stack, memory,
\* segments and terminal, whatever the machine and the instruction.
THEOREM MachinesAgree == Spec => []SameMachine
<1> QED
  BY LockstepInvariant, SameMachineHere, PTL

\* Both leave the same zero and negative flags, and but for OR, AND and XOR the same
\* carry and overflow.
THEOREM FlagsAgree == Spec => []SameFlags
<1> QED
  BY LockstepInvariant, SameFlagsHere, PTL

\* One of them stops a program where the other does, but for the cases that SameFaults
\* names.
THEOREM FaultsAgree == Spec => []SameFaults
<1> QED
  BY LockstepInvariant, SameFaultsHere, PTL

-----------------------------------------------------------------------------
\* Machines with the same fields are the same.
LEMMA SameFields ==
  ASSUME NEW y, Whole(y), NEW z, Whole(z),
         y.pc = z.pc, y.flags = z.flags, y.sp = z.sp, y.hw = z.hw,
         y.mem = z.mem, y.seg = z.seg, y.out = z.out, y.typed = z.typed
  PROVE  y = z
BY DEF Whole, Fields

\* The bank after another has been merged in.
LEMMA MergeTwice ==
  ASSUME NEW x, IsMachine(x), NEW bank \in [WordSet -> Bytes],
         NEW y, y.mem = Merge(x, bank), y.seg = x.seg
  PROVE  /\ Base(y) = Base(x)
         /\ \A other : Merge(y, other) = Merge(x, other)
         /\ [a \in WordSet |-> y.mem[Base(y) + a]] = bank
<1>1. Base(y) = Base(x)
  BY DEF Base
<1>2. \A a \in Memory(x.seg) :
        y.mem[a] = IF a - Base(x) \in WordSet THEN bank[a - Base(x)] ELSE x.mem[a]
  BY DEF Merge
<1>3. ASSUME NEW other PROVE Merge(y, other) = Merge(x, other)
  <2>1. \A a \in Memory(x.seg) : a - Base(x) \notin WordSet => y.mem[a] = x.mem[a]
    BY <1>2
  <2> QED
    BY <1>1, <2>1 DEF Merge
<1>4. ASSUME NEW a \in WordSet PROVE y.mem[Base(y) + a] = bank[a]
  <2>1. Base(x) \in Nat /\ Base(x) + a \in Memory(x.seg)
    BY BaseRange
  <2>2. (Base(x) + a) - Base(x) = a
    BY <2>1, Numbers DEF WordSet
  <2> QED
    BY <1>1, <1>2, <2>1, <2>2
<1> QED
  BY <1>1, <1>3, <1>4

\* An instruction that stores nothing and reads nothing from the terminal.
LEMMA QuietOfC ==
  ASSUME NEW x, IsMachine(x), NEW i, Coded(i), i.arg \in WordSet,
         i.op # "POP", i.op \notin Services, NEW q \in switch(x, i)
  PROVE  q.mem = x.mem /\ q.out = x.out /\ q.typed = x.typed
<1> SUFFICES Quiet(q, x)
  BY DEF Quiet, Beside
<1>1. CASE ALUCode(i)
  <2>1. q \in step_ALU(x, i)
    BY <1>1, Parts
  <2>2. \A r \in step_ALU(x, i) : Quiet(r, x)
    BY <1>1, ALUAgree DEF Effects
  <2> QED
    BY <2>1, <2>2
<1>2. CASE i.op \in OnTop
  <2>1. q \in step_OnTop(x, i)
    BY <1>2, Parts
  <2>2. \A r \in step_OnTop(x, i) : Quiet(r, x)
    BY <1>2, OnTopAgree DEF Effects
  <2> QED
    BY <2>1, <2>2
<1>3. CASE JumpCode(i)
  <2>1. q \in step_JMP(x, i)
    BY <1>3, Parts
  <2>2. \A r \in step_JMP(x, i) : Quiet(r, x)
    BY <1>3, JumpAgree DEF Effects
  <2> QED
    BY <2>1, <2>2
<1>4. CASE PushCode(i)
  <2>1. q \in step_PUSH(x, i)
    BY <1>4, Parts
  <2>2. \A r \in step_PUSH(x, i) : Quiet(r, x)
    BY <1>4, PushFromAgree DEF Effects
  <2> QED
    BY <2>1, <2>2
<1>5. CASE i.op \in Plain
  <2>1. q \in step_Plain(x, i)
    BY <1>5, Parts
  <2>2. CASE i.op = "DUP"
    BY <2>1, <2>2, DupAgree
  <2>3. CASE i.op = "SWP"
    BY <2>1, <2>3, SwapAgree DEF Effects
  <2>4. CASE i.op \in {"FSAV", "SRPT"}
    BY <2>1, <2>4, SaveAgree DEF Effects
  <2>5. CASE i.op \in {"NOP", "POPNULL", "JMPS", "FCLR", "FLOD", "SCLR"}
    BY <2>1, <2>5, PlainAgree DEF Effects
  <2> QED
    BY <1>5, <2>2, <2>3, <2>4, <2>5 DEF Plain
<1> QED
  BY <1>1, <1>2, <1>3, <1>4, <1>5 DEF Coded, PopCode, Services

\* So Python starts from the machine that C has started from.
LEMMA QuietShares ==
  ASSUME NEW z, IsMachine(z), NEW i \in InstructionsOf(z),
         i.op # "POP", i.op \notin Services
  PROVE  Shared(z, CStep(z, i)) = z
<1> SUFFICES \A q \in CStep(z, i) : q.mem = z.mem /\ q.out = z.out /\ q.typed = z.typed
  <2> DEFINE C == CStep(z, i)
  <2>1. \A q \in C : IsMachine(q) /\ q.seg.vm24 = z.seg.vm24
    BY StepTyped
  <2> HIDE DEF C
  <2> QED
    BY <2>1, SharedMachine DEF C
<1>1. i.arg \in WordSet
  BY Executes
<1>2. CASE Coded(i)
  <2> DEFINE x == Past(z, i)
  <2>1. IsMachine(x) /\ x.mem = z.mem /\ x.out = z.out /\ x.typed = z.typed /\ x.seg = z.seg
    BY PastIs
  <2>2. CStep(z, i) = {Unprefixed(q) : q \in switch(x, i)}
    BY <1>2, CodedOp, CStepIs DEF OfSegments
  <2> HIDE DEF x
  <2>3. ASSUME NEW q \in switch(x, i)
        PROVE  /\ Unprefixed(q).mem = x.mem /\ Unprefixed(q).out = x.out
               /\ Unprefixed(q).typed = x.typed
    <3>1. q.mem = x.mem /\ q.out = x.out /\ q.typed = x.typed
      BY <1>1, <1>2, <2>1, QuietOfC
    <3>2. Shape(q, Memory(z.seg))
      BY <1>1, <1>2, CodedTyped DEF x
    <3> QED
      BY <3>1, <3>2, UnprefixedIs DEF Shape
  <2> QED
    BY <2>1, <2>2, <2>3
<1>3. CASE i.op \in OfSegments /\ z.seg.vm24
  BY <1>1, <1>3, SegmentsStep
<1>4. CASE i.op = "ADM" /\ ~ z.seg.vm24
  BY <1>4, Adm16
<1> QED
  BY <1>2, <1>3, <1>4, Executes

\* POP keeps what has been printed and what there is to read.
LEMMA PopKeeps ==
  ASSUME NEW w, Shape(w, WordSet), NEW i, PopCode(i), NEW n \in optPopTo(w, i)
  PROVE  n.out = w.out /\ n.typed = w.typed
<1> DEFINE n1 == [w EXCEPT !.sp = @ - PopTakes(i)]
<1>1. n = putwordat(n1, Target(w, i), Popped(w, i))
  BY PopIs DEF When
<1>2. Whole(n1) /\ n1.out = w.out /\ n1.typed = w.typed
  BY DEF Shape, Whole, Fields
<1> HIDE DEF n1
<1>3. n.out = n1.out /\ n.typed = n1.typed
  BY <1>1, <1>2 DEF putwordat, Whole, Fields
<1> QED
  BY <1>2, <1>3

\* The machine from which Python starts after C has executed POP: in the active bank, what
\* POP has stored.
LEMMA PopShares ==
  ASSUME NEW z, IsMachine(z), NEW i, PopCode(i), i.arg \in WordSet,
         InBank(View(Past(z, i)), i), CStep(z, i) # {}
  PROVE  LET x == Past(z, i)
             y == Shared(z, CStep(z, i))
         IN  \E n \in optPopTo(View(x), i) :
               /\ n.mem \in [WordSet -> Bytes]
               /\ IsMachine(y) /\ IsMachine(Past(y, i))
               /\ y.pc = z.pc /\ y.seg = z.seg
               /\ Past(y, i).mem = Merge(x, n.mem) /\ Past(y, i).seg = x.seg
               /\ View(Past(y, i)) = [View(x) EXCEPT !.mem = n.mem]
<1> DEFINE x == Past(z, i)
           w == View(x)
           C == CStep(z, i)
           y == Shared(z, C)
           q == CHOOSE q \in C : TRUE
<1>1. /\ IsMachine(x) /\ x.seg = z.seg /\ x.flags = z.flags /\ x.sp = z.sp /\ x.hw = z.hw
      /\ x.mem = z.mem /\ x.out = z.out /\ x.typed = z.typed
  BY PastIs
<1>2. C = {Unprefixed(r) : r \in step_POP(x, i)}
  <2>1. i.op \notin Prefixes
    BY DEF PopCode, Prefixes
  <2>2. switch(x, i) = step_POP(x, i)
    BY Parts
  <2> QED
    BY <2>1, <2>2, CStepIs
<1>3. PICK r \in step_POP(x, i) : q = Unprefixed(r)
  <2> HIDE DEF C
  <2>1. q \in C
    BY DEF C
  <2> QED
    BY <1>2, <2>1
<1>4. /\ Shaped(optPopTo(w, i), step_POP(x, i), x)
      /\ Matching(optPopTo(w, i), step_POP(x, i), x, i)
  BY <1>1, PopAgree
<1>5. PICK n \in optPopTo(w, i) : Like(n, r, x)
  BY <1>4 DEF Matching
<1>6. /\ n.mem \in [WordSet -> Bytes] /\ Shape(r, Memory(x.seg)) /\ r.seg = x.seg
      /\ r.mem = Merge(x, n.mem) /\ r.out = n.out /\ r.typed = n.typed
  BY <1>4, <1>5 DEF Shaped, Shape, Like
<1>7. /\ Shape(w, WordSet) /\ w.pc = x.pc /\ w.flags = x.flags /\ w.sp = x.sp
      /\ w.hw = x.hw /\ w.seg = x.seg /\ w.out = x.out /\ w.typed = x.typed
  BY <1>1, ViewShape
<1> HIDE DEF w, x
<1>8. n.out = x.out /\ n.typed = x.typed
  BY <1>7, PopKeeps
<1>9. /\ IsMachine(q) /\ q.mem = Merge(x, n.mem) /\ q.out = z.out /\ q.typed = z.typed
  <2> HIDE DEF q, C, y
  <2>1. /\ IsMachine(Unprefixed(r)) /\ Unprefixed(r).mem = r.mem /\ Unprefixed(r).out = r.out
        /\ Unprefixed(r).typed = r.typed
    BY <1>1, <1>6, DoneIs
  <2> QED
    BY <1>1, <1>3, <1>6, <1>8, <2>1
<1>10. /\ Shape(z, Memory(z.seg)) /\ SegTyped(z.seg)
  BY MachineShape
<1>11. y = [z EXCEPT !.mem = q.mem, !.out = q.out, !.typed = q.typed]
  BY DEF Shared, x
<1> HIDE DEF y, q, C
<1>12. /\ Whole(y) /\ y.pc = z.pc /\ y.flags = z.flags /\ y.sp = z.sp /\ y.hw = z.hw
       /\ y.mem = q.mem /\ y.out = q.out /\ y.typed = q.typed /\ y.seg = z.seg
  BY <1>10, <1>11 DEF Shape, Whole, Fields
<1>13. IsMachine(y)
  <2>1. y.mem \in [Memory(y.seg) -> Bytes]
    BY <1>1, <1>6, <1>9, <1>12, MergeBank
  <2>2. Shape(y, Memory(y.seg)) /\ SegTyped(y.seg)
    BY <1>9, <1>10, <1>12, <2>1 DEF Shape
  <2> QED
    BY <2>2, MachineShape
<1> DEFINE v == Past(y, i)
<1>14. /\ IsMachine(v) /\ v.seg = x.seg /\ v.flags = x.flags /\ v.sp = x.sp /\ v.hw = x.hw
       /\ v.mem = Merge(x, n.mem) /\ v.out = x.out /\ v.typed = x.typed
  BY <1>1, <1>9, <1>12, <1>13, PastIs
<1>15. v.pc = x.pc
  BY <1>10, <1>12 DEF Past, x, Shape, Whole, Fields
<1> HIDE DEF v
<1>16. [a \in WordSet |-> v.mem[Base(v) + a]] = n.mem
  BY <1>1, <1>6, <1>14, MergeTwice
<1> DEFINE u == [w EXCEPT !.mem = n.mem]
<1>17. /\ Whole(u) /\ u.pc = w.pc /\ u.flags = w.flags /\ u.sp = w.sp /\ u.hw = w.hw
       /\ u.mem = n.mem /\ u.seg = w.seg /\ u.out = w.out /\ u.typed = w.typed
  BY <1>7 DEF Shape, Whole, Fields
<1>18. /\ Whole(View(v)) /\ View(v).pc = v.pc /\ View(v).flags = v.flags /\ View(v).sp = v.sp
       /\ View(v).hw = v.hw /\ View(v).mem = n.mem /\ View(v).seg = v.seg
       /\ View(v).out = v.out /\ View(v).typed = v.typed
  BY <1>14, <1>16, ViewShape DEF Shape
<1> HIDE DEF u
<1>19. View(v) = u
  BY <1>7, <1>14, <1>15, <1>17, <1>18, SameFields
<1> QED
  BY <1>6, <1>12, <1>13, <1>14, <1>19 DEF u, v, w, x, y, C

\* Python stores the same after C has stored, unless C has changed the pointer.
LEMMA PopFollowsCheck ==
  ASSUME NEW z, IsMachine(z), NEW i, PopCode(i), i.arg \in WordSet,
         InBank(View(Past(z, i)), i),
         i.mode = "II" => {i.arg, i.arg + 1} \cap {get16(z, i.arg), get16(z, i.arg) + 1} = {}
  PROVE  Python(Shared(z, CStep(z, i)), i) = Python(z, i)
<1> DEFINE x == Past(z, i)
           w == View(x)
           y == Shared(z, CStep(z, i))
           v == Past(y, i)
<1>1. CASE CStep(z, i) = {}
  BY <1>1 DEF Shared
<1>2. CASE CStep(z, i) # {}
  <2>1. PICK n \in optPopTo(w, i) :
          /\ n.mem \in [WordSet -> Bytes]
          /\ IsMachine(y) /\ IsMachine(v)
          /\ y.pc = z.pc /\ y.seg = z.seg
          /\ v.mem = Merge(x, n.mem) /\ v.seg = x.seg
          /\ View(v) = [w EXCEPT !.mem = n.mem]
    BY <1>2, PopShares
  <2>2. IsMachine(x) /\ x.seg = z.seg /\ \A a : get16(x, a) = get16(z, a)
    BY PastIs
  <2>3. Shape(w, WordSet)
    BY <2>2, ViewShape
  <2>4. i.mode = "II" =>
          {i.arg, i.arg + 1} \cap {getwordat(w, i.arg), getwordat(w, i.arg) + 1} = {}
    <3>1. CASE i.mode = "II"
      <4>1. i.arg # MAXMEMSP
        BY <3>1 DEF InBank, Accessed
      <4>2. get16(z, i.arg) = getwordat(w, i.arg)
        BY <2>2, <4>1, SameWord
      <4> QED
        BY <3>1, <4>2
    <3> QED
      BY <3>1
  <2>5. /\ optPopTo(View(v), i) = optPopTo(w, i) /\ InBank(View(v), i)
    <3> HIDE DEF w, v
    <3> QED
      BY <2>1, <2>3, <2>4, PopFollows DEF Shape, w, x
  <2>6. Coded(i)
    BY DEF Coded
  <2>7. PyOps(y, i) = PyOps(z, i)
    <3>1. /\ PyOp(w, i) = optPopTo(w, i) /\ PyOp24(x, w, i) = optPopTo24(w, i)
          /\ PyOp(View(v), i) = optPopTo(View(v), i) /\ PyOp24(v, View(v), i) = optPopTo24(View(v), i)
      BY Parts
    <3>2. optPopTo24(View(v), i) = optPopTo24(w, i)
      BY <2>5 DEF optPopTo24
    <3>3. OperandInBank(y, i) <=> OperandInBank(z, i)
      BY <2>1 DEF OperandInBank
    <3> QED
      BY <2>1, <2>5, <3>1, <3>2, <3>3 DEF PyOps
  <2>8. ASSUME NEW p PROVE Result(v, p) = Result(x, p)
    <3>1. CASE x.seg.vm24
      <4>1. Back(v, p) = [p EXCEPT !.mem = Merge(v, p.mem)]
        BY <2>1, <3>1, BackIs
      <4>2. Back(x, p) = [p EXCEPT !.mem = Merge(x, p.mem)]
        BY <2>2, <3>1, BackIs
      <4>3. Merge(v, p.mem) = Merge(x, p.mem)
        BY <2>1, <2>2, MergeTwice
      <4> HIDE DEF v, x
      <4> QED
        BY <2>1, <4>1, <4>2, <4>3 DEF Result
    <3>2. CASE ~ x.seg.vm24
      BY <2>1, <3>2 DEF Result
    <3> QED
      BY <3>1, <3>2
  <2>9. Python(y, i) = {Result(v, p) : p \in PyOps(y, i)}
    BY <2>1, <2>6, PythonIs
  <2>10. Python(z, i) = {Result(x, p) : p \in PyOps(z, i)}
    BY <2>6, PythonIs
  <2> HIDE DEF y, v, x
  <2>11. Python(y, i) = Python(z, i)
    BY <2>7, <2>8, <2>9, <2>10
  <2> QED
    BY <2>11 DEF y
<1> QED
  BY <1>1, <1>2

\* The invariant implies CheckFollows.
LEMMA CheckFollowsHere == LInv => CheckFollows
<1> SUFFICES ASSUME LInv, ~ AtTheEdge, ~ OverItsPointer, last.op \notin Services
             PROVE  py = Alone
  BY DEF CheckFollows
<1>1. CASE last.op = "none"
  BY <1>1 DEF Alone
<1>2. CASE last.op # "none"
  <2>1. /\ IsMachine(m) /\ last \in InstructionsOf(m)
        /\ py = Python(Shared(m, CStep(m, last)), last) /\ Alone = Python(m, last)
    BY <1>2 DEF LInv, Executed, Alone
  <2>2. CASE last.op # "POP"
    BY <2>1, <2>2, QuietShares
  <2>3. CASE last.op = "POP"
    <3>1. last.arg \in WordSet /\ Coded(last)
      BY <2>1, <2>3, Executes DEF OfSegments, Prefixes
    <3>2. PopCode(last)
      BY <2>3, <3>1 DEF Coded, ALUCode, JumpCode, PushCode, PopCode,
                        Arithmetic, Logic, OnTop, CondJumps, Plain
    <3>3. Clear(Past(m, last), last)
      BY <2>1, <3>1, EdgeClear
    <3>4. InBank(View(Past(m, last)), last)
      BY <2>3, <3>3 DEF Clear
    <3>5. last.mode = "II" =>
            {last.arg, last.arg + 1} \cap {get16(m, last.arg), get16(m, last.arg) + 1} = {}
      BY <2>3 DEF OverItsPointer
    <3> QED
      BY <2>1, <3>1, <3>2, <3>4, <3>5, PopFollowsCheck
  <2> QED
    BY <2>2, <2>3
<1> QED
  BY <1>1, <1>2

\* That C executes an instruction first does not change what Python makes of it, although
\* both work on the same memory: but for the cases that CheckFollows names.
THEOREM CheckUndisturbed == Spec => []CheckFollows
<1> QED
  BY LockstepInvariant, CheckFollowsHere, PTL

-----------------------------------------------------------------------------
\* The machine w with other segments, which the methods of cpu.py never look at.
SegAt(w, g) == [w EXCEPT !.seg = g]

\* P moved to the segments g.
SegsAt(P, g) == {SegAt(n, g) : n \in P}

\* Another value of the segments changes nothing else, and nothing that is read.
LEMMA SegAtIs ==
  ASSUME NEW w, Whole(w), NEW g
  PROVE  LET k == SegAt(w, g) IN
         /\ Whole(k) /\ k.pc = w.pc /\ k.flags = w.flags /\ k.sp = w.sp /\ k.hw = w.hw
         /\ k.mem = w.mem /\ k.seg = g /\ k.out = w.out /\ k.typed = w.typed
         /\ \A s : fetchStack(k, s) = fetchStack(w, s)
         /\ \A a : getwordat(k, a) = getwordat(w, a)
<1> DEFINE k == SegAt(w, g)
<1>1. /\ Whole(k) /\ k.pc = w.pc /\ k.flags = w.flags /\ k.sp = w.sp /\ k.hw = w.hw
      /\ k.mem = w.mem /\ k.seg = g /\ k.out = w.out /\ k.typed = w.typed
  BY DEF SegAt, Whole, Fields
<1> HIDE DEF k
<1> QED
  BY <1>1 DEF fetchStack, getwordat, k

\* Assignments to the other fields commute with the change of segments.
LEMMA SegAtHelpers ==
  ASSUME NEW w, Whole(w), NEW g, NEW v, NEW a
  PROVE  /\ StoreAcum(SegAt(w, g), v) = SegAt(StoreAcum(w, v), g) /\ Whole(StoreAcum(w, v))
         /\ putwordat(SegAt(w, g), a, v) = SegAt(putwordat(w, a, v), g)
         /\ Whole(putwordat(w, a, v))
         /\ Prints(SegAt(w, g), a, v) = SegAt(Prints(w, a, v), g) /\ Whole(Prints(w, a, v))
<1>1. StoreAcum(SegAt(w, g), v) = SegAt(StoreAcum(w, v), g) /\ Whole(StoreAcum(w, v))
  <2> DEFINE hw == [w.hw EXCEPT ![w.sp - 1] = v]
  <2>1. StoreAcum(w, v) = [w EXCEPT !.hw = hw]
    BY DEF StoreAcum
  <2>2. StoreAcum(SegAt(w, g), v) = [SegAt(w, g) EXCEPT !.hw = hw]
    BY SegAtIs DEF StoreAcum
  <2> HIDE DEF hw
  <2>3. [SegAt(w, g) EXCEPT !.hw = hw] = SegAt([w EXCEPT !.hw = hw], g)
    BY DEF SegAt, Whole, Fields
  <2>4. Whole([w EXCEPT !.hw = hw])
    BY DEF Whole, Fields
  <2> QED
    BY <2>1, <2>2, <2>3, <2>4
<1>2. putwordat(SegAt(w, g), a, v) = SegAt(putwordat(w, a, v), g) /\ Whole(putwordat(w, a, v))
  <2> DEFINE mem == [[w.mem EXCEPT ![a] = v % Byte] EXCEPT ![a + 1] = v \div Byte]
  <2>1. putwordat(w, a, v) = [w EXCEPT !.mem = mem]
    BY DEF putwordat, Whole, Fields
  <2>2. putwordat(SegAt(w, g), a, v) = [SegAt(w, g) EXCEPT !.mem = mem]
    BY SegAtIs DEF putwordat, Whole, Fields
  <2> HIDE DEF mem
  <2>3. [SegAt(w, g) EXCEPT !.mem = mem] = SegAt([w EXCEPT !.mem = mem], g)
    BY DEF SegAt, Whole, Fields
  <2>4. Whole([w EXCEPT !.mem = mem])
    BY DEF Whole, Fields
  <2> QED
    BY <2>1, <2>2, <2>3, <2>4
<1>3. Prints(SegAt(w, g), a, v) = SegAt(Prints(w, a, v), g) /\ Whole(Prints(w, a, v))
  <2> DEFINE out == Append(w.out, <<a, v>>)
  <2>1. Prints(w, a, v) = [w EXCEPT !.out = out]
    BY DEF Prints
  <2>2. Prints(SegAt(w, g), a, v) = [SegAt(w, g) EXCEPT !.out = out]
    BY SegAtIs DEF Prints
  <2> HIDE DEF out
  <2>3. [SegAt(w, g) EXCEPT !.out = out] = SegAt([w EXCEPT !.out = out], g)
    BY DEF SegAt, Whole, Fields
  <2>4. Whole([w EXCEPT !.out = out])
    BY DEF Whole, Fields
  <2> QED
    BY <2>1, <2>2, <2>3, <2>4
<1> QED
  BY <1>1, <1>2, <1>3

\* Guarded results commute with the change of segments.
LEMMA SegsAtWhen ==
  ASSUME NEW g, NEW z, NEW guard
  PROVE  /\ SegsAt(When(guard, z), g) = When(guard, SegAt(z, g))
         /\ SegsAt({z}, g) = {SegAt(z, g)} /\ SegsAt({}, g) = {}
BY DEF SegsAt, When

\* So does a push.
LEMMA SegsAtPush ==
  ASSUME NEW w, Whole(w), NEW g, NEW v
  PROVE  /\ optPUSH(SegAt(w, g), v) = SegsAt(optPUSH(w, v), g)
         /\ \A n \in optPUSH(w, v) : Whole(n)
<1> DEFINE hw == [w.hw EXCEPT ![w.sp] = v]
           n == [w EXCEPT !.hw = hw, !.sp = w.sp + 1]
<1>1. optPUSH(w, v) = When(w.sp < Depth, n)
  BY DEF optPUSH
<1>2. optPUSH(SegAt(w, g), v)
        = When(w.sp < Depth, [SegAt(w, g) EXCEPT !.hw = hw, !.sp = w.sp + 1])
  BY SegAtIs DEF optPUSH
<1>3. Whole(n) /\ [SegAt(w, g) EXCEPT !.hw = hw, !.sp = w.sp + 1] = SegAt(n, g)
  <2> HIDE DEF hw
  <2> QED
    BY DEF SegAt, Whole, Fields
<1> QED
  BY <1>1, <1>2, <1>3, SegsAtWhen DEF When

\* Arithmetic and logic do the same with any segments.
LEMMA ALUAnywhere ==
  ASSUME NEW w, Whole(w), NEW g, NEW i
  PROVE  optALU(SegAt(w, g), i) = SegsAt(optALU(w, i), g)
<1> DEFINE k == SegAt(w, g)
           a == fetchStack(w, IF i.mode = "S" THEN 1 ELSE 0)
           b == Operand(w, i)
           r == ResultOf(i.op, a, b)
           f == PyFlags(i.op, a, b)
           z == [w EXCEPT !.flags = f]
           left == IF i.op = "XOR" THEN StoreAcum(z, r) ELSE z
           n == IF i.op = "CMP" THEN z
                ELSE IF i.mode = "S" THEN StoreAcum([left EXCEPT !.sp = left.sp - 1], r)
                ELSE StoreAcum(z, r)
           kz == [k EXCEPT !.flags = f]
           kleft == IF i.op = "XOR" THEN StoreAcum(kz, r) ELSE kz
           kn == IF i.op = "CMP" THEN kz
                 ELSE IF i.mode = "S" THEN StoreAcum([kleft EXCEPT !.sp = kleft.sp - 1], r)
                 ELSE StoreAcum(kz, r)
           guard == Stacked(w, i.mode) /\ AddressOK(w, i)
<1>1. optALU(w, i) = When(guard, n)
  BY DEF optALU, ResultOf, PyFlags
<1>2. /\ \A s : fetchStack(k, s) = fetchStack(w, s)
      /\ \A d : getwordat(k, d) = getwordat(w, d)
      /\ k.sp = w.sp
  BY SegAtIs
<1>3. optALU(k, i) = When(guard, kn)
  <2>1. Operand(k, i) = b /\ fetchStack(k, IF i.mode = "S" THEN 1 ELSE 0) = a
    BY <1>2 DEF Operand
  <2>2. Stacked(k, i.mode) = Stacked(w, i.mode) /\ AddressOK(k, i) = AddressOK(w, i)
    BY <1>2 DEF Stacked, AddressOK
  <2> HIDE DEF k, a, b
  <2> QED
    BY <2>1, <2>2 DEF optALU, ResultOf, PyFlags, a
<1> HIDE DEF f, r, a, b
<1>4. Whole(z) /\ kz = SegAt(z, g)
  BY DEF Whole, Fields, SegAt
<1> HIDE DEF z, kz
<1>5. Whole(left) /\ kleft = SegAt(left, g)
  BY <1>4, SegAtHelpers
<1> HIDE DEF left, kleft
<1>6. Whole([left EXCEPT !.sp = left.sp - 1])
      /\ [kleft EXCEPT !.sp = kleft.sp - 1] = SegAt([left EXCEPT !.sp = left.sp - 1], g)
  <2>1. kleft.sp = left.sp
    BY <1>5, SegAtIs
  <2> QED
    BY <1>5, <2>1 DEF Whole, Fields, SegAt
<1>7. kn = SegAt(n, g)
  <2>1. StoreAcum(kz, r) = SegAt(StoreAcum(z, r), g)
    BY <1>4, SegAtHelpers
  <2> DEFINE d == [left EXCEPT !.sp = left.sp - 1]
  <2> HIDE DEF d
  <2>2. StoreAcum(SegAt(d, g), r) = SegAt(StoreAcum(d, r), g)
    BY <1>6, SegAtHelpers DEF d
  <2> QED
    BY <1>4, <1>6, <2>1, <2>2 DEF d
<1> HIDE DEF n, kn, guard, k
<1> QED
  BY <1>1, <1>3, <1>7, SegsAtWhen DEF k

\* optOnTop, by its result and its flags.
LEMMA OnTopIs ==
  ASSUME NEW w, NEW i, i.op \in OnTop
  PROVE  optOnTop(w, i) =
           When(w.sp >= 1,
                StoreAcum([w EXCEPT !.flags = OnTopPy(w.flags, i.op, fetchStack(w, 0))],
                          OnTopResult(i.op, fetchStack(w, 0), CF(w.flags))))
<1> DEFINE a == fetchStack(w, 0)
           r == OnTopResult(i.op, a, CF(w.flags))
<1>1. r = CASE i.op = "RRTC"  -> a \div 2 + Bit(CF(w.flags), Half)
            [] i.op = "RLTC"  -> ((2 * a) % WordSize) + Bit(CF(w.flags), 1)
            [] i.op = "SHR"   -> a \div 2
            [] i.op = "SHL"   -> (2 * a) % WordSize
            [] i.op = "INV"   -> WordSize - 1 - a
            [] i.op = "COMP2" -> (WordSize - a) % WordSize
  BY DEF OnTopResult, Bit, OnTop
<1> HIDE DEF a, r
<1> QED
  BY <1>1 DEF optOnTop, OnTopPy, r, a

\* So do rotates, shifts and complements.
LEMMA OnTopAnywhere ==
  ASSUME NEW w, Whole(w), NEW g, NEW i, i.op \in OnTop
  PROVE  optOnTop(SegAt(w, g), i) = SegsAt(optOnTop(w, i), g)
<1> DEFINE k == SegAt(w, g)
           a == fetchStack(w, 0)
           f == OnTopPy(w.flags, i.op, a)
           r == OnTopResult(i.op, a, CF(w.flags))
           z == [w EXCEPT !.flags = f]
           kz == [k EXCEPT !.flags = f]
<1>1. optOnTop(w, i) = When(w.sp >= 1, StoreAcum(z, r))
  BY OnTopIs
<1>2. fetchStack(k, 0) = a /\ k.sp = w.sp /\ k.flags = w.flags
  BY SegAtIs
<1>3. optOnTop(k, i) = When(w.sp >= 1, StoreAcum(kz, r))
  <2>1. optOnTop(k, i) =
          When(k.sp >= 1, StoreAcum([k EXCEPT !.flags = OnTopPy(k.flags, i.op, fetchStack(k, 0))],
                                    OnTopResult(i.op, fetchStack(k, 0), CF(k.flags))))
    BY OnTopIs
  <2> HIDE DEF k, a
  <2> QED
    BY <1>2, <2>1
<1> HIDE DEF f, r, a
<1>4. Whole(z) /\ kz = SegAt(z, g)
  BY DEF Whole, Fields, SegAt
<1> HIDE DEF z, kz, k
<1>5. StoreAcum(kz, r) = SegAt(StoreAcum(z, r), g)
  BY <1>4, SegAtHelpers
<1> QED
  BY <1>1, <1>3, <1>5, SegsAtWhen DEF k

\* So do jumps.
LEMMA JumpAnywhere ==
  ASSUME NEW w, Whole(w), NEW g, NEW i
  PROVE  optJump(SegAt(w, g), i) = SegsAt(optJump(w, i), g)
<1> DEFINE k == SegAt(w, g)
           taken == CASE i.op = "JMPZ" -> ZF(w.flags) [] i.op = "JMPN" -> NF(w.flags)
                      [] i.op = "JMPC" -> CF(w.flags) [] i.op = "JMPO" -> OF(w.flags)
                      [] i.op = "JMP"  -> TRUE
           n == IF taken THEN [w EXCEPT !.pc = i.arg] ELSE w
           kn == IF taken THEN [k EXCEPT !.pc = i.arg] ELSE k
           d == [w EXCEPT !.pc = getwordat(w, i.arg)]
           kd == [k EXCEPT !.pc = getwordat(w, i.arg)]
<1>1. k.flags = w.flags /\ getwordat(k, i.arg) = getwordat(w, i.arg)
  BY SegAtIs
<1>2. optJump(w, i) = IF i.mode = "I" THEN {d} ELSE When(i.arg # MAXMEMSP, n)
  BY DEF optJump
<1>3. optJump(k, i) = IF i.mode = "I" THEN {kd} ELSE When(i.arg # MAXMEMSP, kn)
  <2> HIDE DEF k
  <2> QED
    BY <1>1 DEF optJump
<1>4. kn = SegAt(n, g) /\ kd = SegAt(d, g)
  <2> HIDE DEF taken
  <2> QED
    BY DEF Whole, Fields, SegAt
<1> HIDE DEF n, kn, d, kd, k
<1> QED
  BY <1>2, <1>3, <1>4, SegsAtWhen DEF k

\* So does PUSH.
LEMMA PushAnywhere ==
  ASSUME NEW w, Whole(w), NEW g, NEW i, PushCode(i)
  PROVE  optPushFrom(SegAt(w, g), i) = SegsAt(optPushFrom(w, i), g)
<1> DEFINE k == SegAt(w, g)
<1>1. /\ \A s : fetchStack(k, s) = fetchStack(w, s)
      /\ \A a : getwordat(k, a) = getwordat(w, a)
      /\ k.sp = w.sp
  BY SegAtIs
<1>2. \A v : optPUSH(k, v) = SegsAt(optPUSH(w, v), g)
  BY SegsAtPush
<1>3. \A v : StoreAcum(k, v) = SegAt(StoreAcum(w, v), g)
  BY SegAtHelpers
<1> HIDE DEF k
<1>4. CASE i.mode = ""
  BY <1>1, <1>2, <1>4 DEF optPushFrom, k
<1>5. CASE i.mode = "I"
  BY <1>1, <1>2, <1>5, SegsAtWhen DEF optPushFrom, k
<1>6. CASE i.mode = "II"
  BY <1>1, <1>2, <1>6, SegsAtWhen DEF optPushFrom, k
<1>7. CASE i.mode = "S"
  <2> DEFINE v == getwordat(w, fetchStack(w, 0))
  <2>1. optPushFrom(w, i) = When(w.sp >= 1, StoreAcum(w, v))
    BY <1>7 DEF optPushFrom
  <2>2. optPushFrom(k, i) = When(w.sp >= 1, StoreAcum(k, v))
    BY <1>1, <1>7 DEF optPushFrom
  <2> HIDE DEF v
  <2> QED
    BY <1>3, <2>1, <2>2, SegsAtWhen DEF k
<1> QED
  BY <1>4, <1>5, <1>6, <1>7 DEF PushCode

\* So does POP.
LEMMA PopAnywhere ==
  ASSUME NEW w, Whole(w), NEW g, NEW i, PopCode(i)
  PROVE  optPopTo(SegAt(w, g), i) = SegsAt(optPopTo(w, i), g)
<1> DEFINE k == SegAt(w, g)
           d == [w EXCEPT !.sp = w.sp - PopTakes(i)]
           kd == [k EXCEPT !.sp = w.sp - PopTakes(i)]
           a == Target(w, i)
           v == Popped(w, i)
           guard == w.sp >= PopTakes(i) /\ Target(w, i) # MAXMEMSP
<1>1. optPopTo(w, i) = When(guard, putwordat(d, a, v))
  BY PopIs
<1>2. /\ \A s : fetchStack(k, s) = fetchStack(w, s)
      /\ \A b : getwordat(k, b) = getwordat(w, b)
      /\ k.sp = w.sp
  BY SegAtIs
<1>3. optPopTo(k, i) = When(guard, putwordat(kd, a, v))
  <2>1. Target(k, i) = a /\ Popped(k, i) = v
    BY <1>2 DEF Target, Popped
  <2>2. optPopTo(k, i) =
          When(k.sp >= PopTakes(i) /\ Target(k, i) # MAXMEMSP,
               putwordat([k EXCEPT !.sp = k.sp - PopTakes(i)], Target(k, i), Popped(k, i)))
    BY PopIs
  <2> HIDE DEF k, a, v
  <2> QED
    BY <1>2, <2>1, <2>2 DEF a
<1>4. Whole(d) /\ kd = SegAt(d, g)
  BY DEF Whole, Fields, SegAt
<1> HIDE DEF d, kd, a, v, guard, k
<1>5. putwordat(kd, a, v) = SegAt(putwordat(d, a, v), g)
  BY <1>4, SegAtHelpers
<1> QED
  BY <1>1, <1>3, <1>5, SegsAtWhen DEF k

\* So do the instructions without an operand.
LEMMA PlainAnywhere ==
  ASSUME NEW w, Whole(w), NEW g, NEW i, i.op \in Plain
  PROVE  optPlain(SegAt(w, g), i) = SegsAt(optPlain(w, i), g)
<1> DEFINE k == SegAt(w, g)
<1>1. /\ \A s : fetchStack(k, s) = fetchStack(w, s)
      /\ k.sp = w.sp /\ k.hw = w.hw /\ k.flags = w.flags
  BY SegAtIs
<1>2. \A v : optPUSH(k, v) = SegsAt(optPUSH(w, v), g)
  BY SegsAtPush
<1>3. CASE i.op = "NOP"
  BY <1>3, SegsAtWhen DEF optPlain
<1>4. CASE i.op = "DUP"
  <2> HIDE DEF k
  <2>1. optPlain(k, i) = optPUSH(k, w.hw[(w.sp + Depth - 1) % Depth])
    BY <1>1, <1>4 DEF optPlain, optDUP
  <2> QED
    BY <1>2, <1>4, <2>1 DEF optPlain, optDUP, k
<1>5. CASE i.op = "SWP"
  <2> DEFINE hw == [[w.hw EXCEPT ![w.sp - 1] = w.hw[w.sp - 2]] EXCEPT ![w.sp - 2] = w.hw[w.sp - 1]]
             n  == [w EXCEPT !.hw = hw]
             kn == [k EXCEPT !.hw = hw]
  <2>1. optPlain(w, i) = When(w.sp >= 2, n)
    BY <1>5 DEF optPlain, optSWP, Whole, Fields
  <2>2. Whole(k)
    BY SegAtIs
  <2>3. optPlain(k, i) = When(w.sp >= 2, kn)
    <3> HIDE DEF k
    <3> QED
      BY <1>1, <1>5, <2>2 DEF optPlain, optSWP, Whole, Fields
  <2>4. kn = SegAt(n, g)
    <3> HIDE DEF hw
    <3> QED
      BY DEF SegAt, Whole, Fields
  <2> HIDE DEF n, kn, k
  <2> QED
    BY <2>1, <2>3, <2>4, SegsAtWhen DEF k
<1>6. CASE i.op = "POPNULL"
  <2> DEFINE n  == [w EXCEPT !.sp = w.sp - 1]
             kn == [k EXCEPT !.sp = w.sp - 1]
  <2>1. optPlain(w, i) = When(w.sp >= 1, n)
    BY <1>6 DEF optPlain, optPOPNULL
  <2>2. optPlain(k, i) = When(w.sp >= 1, kn)
    <3> HIDE DEF k
    <3> QED
      BY <1>1, <1>6 DEF optPlain, optPOPNULL
  <2>3. kn = SegAt(n, g)
    BY DEF SegAt, Whole, Fields
  <2> HIDE DEF n, kn, k
  <2> QED
    BY <2>1, <2>2, <2>3, SegsAtWhen DEF k
<1>7. CASE i.op = "JMPS"
  <2> DEFINE a  == fetchStack(w, 0)
             n  == [w EXCEPT !.pc = a, !.sp = w.sp - 1]
             kn == [k EXCEPT !.pc = a, !.sp = w.sp - 1]
  <2>1. optPlain(w, i) = When(w.sp >= 1, n)
    BY <1>7 DEF optPlain, Whole, Fields
  <2>2. Whole(k)
    BY SegAtIs
  <2>3. optPlain(k, i) = When(w.sp >= 1, kn)
    <3> HIDE DEF k
    <3> QED
      BY <1>1, <1>7, <2>2 DEF optPlain, Whole, Fields
  <2>4. kn = SegAt(n, g)
    <3> HIDE DEF a
    <3> QED
      BY DEF SegAt, Whole, Fields
  <2> HIDE DEF n, kn, k
  <2> QED
    BY <2>1, <2>3, <2>4, SegsAtWhen DEF k
<1>8. CASE i.op = "FCLR"
  <2>1. [k EXCEPT !.flags = 0] = SegAt([w EXCEPT !.flags = 0], g)
    BY DEF SegAt, Whole, Fields
  <2>2. optPlain(w, i) = {[w EXCEPT !.flags = 0]} /\ optPlain(k, i) = {[k EXCEPT !.flags = 0]}
    BY <1>8 DEF optPlain
  <2> HIDE DEF k
  <2> QED
    BY <2>1, <2>2, SegsAtWhen DEF k
<1>9. CASE i.op = "FSAV"
  <2> HIDE DEF k
  <2>1. optPlain(k, i) = optPUSH(k, w.flags)
    BY <1>1, <1>9 DEF optPlain
  <2> QED
    BY <1>2, <1>9, <2>1 DEF optPlain, k
<1>10. CASE i.op = "FLOD"
  <2> DEFINE a  == fetchStack(w, 0)
             n  == [w EXCEPT !.flags = a, !.sp = w.sp - 1]
             kn == [k EXCEPT !.flags = a, !.sp = w.sp - 1]
  <2>1. optPlain(w, i) = When(w.sp >= 1, n)
    BY <1>10 DEF optPlain, Whole, Fields
  <2>2. Whole(k)
    BY SegAtIs
  <2>3. optPlain(k, i) = When(w.sp >= 1, kn)
    <3> HIDE DEF k
    <3> QED
      BY <1>1, <1>10, <2>2 DEF optPlain, Whole, Fields
  <2>4. kn = SegAt(n, g)
    <3> HIDE DEF a
    <3> QED
      BY DEF SegAt, Whole, Fields
  <2> HIDE DEF n, kn, k
  <2> QED
    BY <2>1, <2>3, <2>4, SegsAtWhen DEF k
<1>11. CASE i.op = "SCLR"
  <2>1. [k EXCEPT !.sp = 0] = SegAt([w EXCEPT !.sp = 0], g)
    BY DEF SegAt, Whole, Fields
  <2>2. optPlain(w, i) = {[w EXCEPT !.sp = 0]} /\ optPlain(k, i) = {[k EXCEPT !.sp = 0]}
    BY <1>11 DEF optPlain
  <2> HIDE DEF k
  <2> QED
    BY <2>1, <2>2, SegsAtWhen DEF k
<1>12. CASE i.op = "SRPT"
  <2> HIDE DEF k
  <2>1. optPlain(k, i) = optPUSH(k, w.sp)
    BY <1>1, <1>12 DEF optPlain
  <2> QED
    BY <1>2, <1>12, <2>1 DEF optPlain, k
<1> QED
  BY <1>3, <1>4, <1>5, <1>6, <1>7, <1>8, <1>9, <1>10, <1>11, <1>12 DEF Plain

\* Something printed from a machine that has lost words of its stack.
LEMMA PrintsAnywhere ==
  ASSUME NEW w, Whole(w), NEW g, NEW s, NEW form, NEW what
  PROVE  /\ Prints(SpAt(SegAt(w, g), s), form, what) = SegAt(Prints(SpAt(w, s), form, what), g)
         /\ Prints(SegAt(w, g), form, what) = SegAt(Prints(w, form, what), g)
<1>1. Whole(SpAt(w, s)) /\ SpAt(SegAt(w, g), s) = SegAt(SpAt(w, s), g)
  BY DEF SpAt, SegAt, Whole, Fields
<1> DEFINE n == SpAt(w, s)
<1> HIDE DEF n
<1>2. Prints(SegAt(n, g), form, what) = SegAt(Prints(n, form, what), g)
  BY <1>1, SegAtHelpers DEF n
<1>3. Prints(SegAt(w, g), form, what) = SegAt(Prints(w, form, what), g)
  BY SegAtHelpers
<1> QED
  BY <1>1, <1>2, <1>3 DEF n

\* So does CAST.
LEMMA CastAnywhere ==
  ASSUME NEW w, Shape(w, WordSet), NEW g, NEW a
  PROVE  optCAST(SegAt(w, g), a) = SegsAt(optCAST(w, a), g)
<1> DEFINE k   == SegAt(w, g)
           cmd == Named(Casts, fetchStack(w, 0))
<1>1. Whole(w) /\ w.sp \in 0 .. Depth
  BY DEF Shape
<1>2. /\ Whole(k) /\ k.sp = w.sp /\ k.hw = w.hw /\ k.mem = w.mem
      /\ \A s : fetchStack(k, s) = fetchStack(w, s)
      /\ \A d : getwordat(k, d) = getwordat(w, d)
  BY <1>1, SegAtIs
<1> HIDE DEF k
<1>3. CASE ~ RoomAt(a) \/ w.sp = 0
  BY <1>2, <1>3, SegsAtWhen DEF optCAST, k
<1>4. CASE RoomAt(a) /\ w.sp # 0
  <2>0. k.sp # 0 /\ Named(Casts, fetchStack(k, 0)) = cmd /\ w.sp \in 1 .. Depth
    BY <1>1, <1>2, <1>4
  <2>1. CASE cmd = "none"
    <3>1. optCAST(w, a) = {w} /\ optCAST(k, a) = {k}
      BY <1>4, <2>0, <2>1, CastIs
    <3> QED
      BY <3>1, SegsAtWhen DEF k
  <2>2. CASE cmd = "StackDump"
    <3> DEFINE n  == SpAt(w, w.sp - 1)
               kn == SpAt(k, w.sp - 1)
               what == [j \in 1 .. n.sp |-> fetchStack(n, j - 1)]
    <3>1. optCAST(w, a) = castStackDump(w) /\ optCAST(k, a) = castStackDump(k)
      BY <1>4, <2>0, <2>2, CastIs
    <3>2. castStackDump(w) = {Prints(n, "stack", what)}
      BY DEF castStackDump, SpAt
    <3>3. /\ n.sp = w.sp - 1 /\ n.hw = w.hw /\ kn.sp = w.sp - 1 /\ kn.hw = w.hw
      BY <1>1, <1>2 DEF SpAt, Whole, Fields
    <3>4. castStackDump(k) = {Prints(kn, "stack", [j \in 1 .. kn.sp |-> fetchStack(kn, j - 1)])}
      BY <1>2 DEF castStackDump, SpAt
    <3> HIDE DEF n, kn
    <3>5. [j \in 1 .. kn.sp |-> fetchStack(kn, j - 1)] = what
      BY <3>3 DEF fetchStack
    <3> HIDE DEF what
    <3>6. Prints(kn, "stack", what) = SegAt(Prints(n, "stack", what), g)
      BY <1>1, PrintsAnywhere DEF n, kn, k
    <3> QED
      BY <3>1, <3>2, <3>4, <3>5, <3>6, SegsAtWhen DEF k
  <2>3. CASE cmd \in WordCasts
    <3> DEFINE what == WordOfPython(w, cmd, a)
               form == WordForm(cmd)
               n  == IF cmd = "PrintBinI" THEN w ELSE SpAt(w, w.sp - 1)
               kn == IF cmd = "PrintBinI" THEN k ELSE SpAt(k, w.sp - 1)
    <3>1. optCAST(w, a) = castWords(w, cmd, a) /\ optCAST(k, a) = castWords(k, cmd, a)
      BY <1>4, <2>0, <2>3, CastIs
    <3> DEFINE guard == Spoken(w, a, cmd)
    <3>2. castWords(w, cmd, a) = When(guard, Prints(n, form, what))
      BY <2>3, WordsOfPython DEF SpAt
    <3>3. WordOfPython(k, cmd, a) = what /\ Spoken(k, a, cmd) = guard
      BY <1>2 DEF WordOfPython, Spoken
    <3>4. castWords(k, cmd, a) = When(guard, Prints(kn, form, what))
      BY <1>2, <2>3, <3>3, WordsOfPython DEF SpAt
    <3> HIDE DEF what, form, guard
    <3>5. Prints(kn, form, what) = SegAt(Prints(n, form, what), g)
      BY <1>1, PrintsAnywhere DEF k
    <3> HIDE DEF n, kn
    <3>6. SegsAt(When(guard, Prints(n, form, what)), g) = When(guard, SegAt(Prints(n, form, what), g))
      BY SegsAtWhen
    <3> QED
      BY <3>1, <3>2, <3>4, <3>5, <3>6 DEF k
  <2>4. CASE cmd \in DoubleCasts
    <3> DEFINE what  == DoubleOfPython(w, cmd, a)
               s     == w.sp - DoubleTaken(cmd, 2)
               guard == DoubleRoom(w, cmd, a)
    <3>1. optCAST(w, a) = castDoubles(w, cmd, a) /\ optCAST(k, a) = castDoubles(k, cmd, a)
      BY <1>4, <2>0, <2>4, CastIs
    <3>2. castDoubles(w, cmd, a) = When(guard, Prints(SpAt(w, s), "number", what))
      BY <1>1, <2>0, <2>4, DoublesOfPython DEF SpAt
    <3>3. DoubleOfPython(k, cmd, a) = what /\ DoubleRoom(k, cmd, a) = guard
      BY <1>2 DEF DoubleOfPython, DoubleRoom, StackRoom, StackedDouble, doubleAt
    <3>4. castDoubles(k, cmd, a) = When(guard, Prints(SpAt(k, s), "number", what))
      BY <1>2, <2>0, <2>4, <3>3, DoublesOfPython DEF SpAt
    <3> HIDE DEF what, s, guard
    <3>5. Prints(SpAt(k, s), "number", what) = SegAt(Prints(SpAt(w, s), "number", what), g)
      BY <1>1, PrintsAnywhere DEF k
    <3> DEFINE n == Prints(SpAt(w, s), "number", what)
    <3> HIDE DEF n
    <3>6. SegsAt(When(guard, n), g) = When(guard, SegAt(n, g))
      BY SegsAtWhen
    <3> QED
      BY <3>1, <3>2, <3>4, <3>5, <3>6 DEF k, n
  <2> QED
    BY <2>1, <2>2, <2>3, <2>4, CastName
<1> QED
  BY <1>3, <1>4

\* What is read at the terminal.
LEMMA ReadAnywhere ==
  ASSUME NEW w, Whole(w), NEW g, NEW typed
  PROVE  Read(SegAt(w, g), typed) = SegAt(Read(w, typed), g) /\ Whole(Read(w, typed))
<1> DEFINE n  == SpAt(w, w.sp - 1)
           kn == SpAt(SegAt(w, g), w.sp - 1)
<1>1. SegAt(w, g).sp = w.sp
  BY SegAtIs
<1>2. Whole(n) /\ kn = SegAt(n, g)
  BY DEF SpAt, SegAt, Whole, Fields
<1>3. Read(w, typed) = [n EXCEPT !.typed = typed]
  BY DEF Read
<1>4. Read(SegAt(w, g), typed) = [kn EXCEPT !.typed = typed]
  BY <1>1 DEF Read
<1> HIDE DEF n, kn
<1> QED
  BY <1>2, <1>3, <1>4 DEF SegAt, Whole, Fields

\* So does POLL.
LEMMA PollAnywhere ==
  ASSUME NEW w, Shape(w, WordSet), NEW g, NEW a
  PROVE  optPOLL(SegAt(w, g), a) = SegsAt(optPOLL(w, a), g)
<1> DEFINE k   == SegAt(w, g)
           cmd == Named(Polls, fetchStack(w, 0))
           n   == [w EXCEPT !.sp = w.sp - 1]
           kn  == [k EXCEPT !.sp = w.sp - 1]
<1>1. Whole(w)
  BY DEF Shape
<1>2. /\ Whole(k) /\ k.sp = w.sp /\ k.typed = w.typed
      /\ \A s : fetchStack(k, s) = fetchStack(w, s)
  BY <1>1, SegAtIs
<1>3. Whole(n) /\ n.typed = w.typed /\ n.mem = w.mem /\ kn = SegAt(n, g)
  BY <1>1 DEF SegAt, Whole, Fields
<1>4. /\ \A l : [n EXCEPT !.typed = Unread(n.typed, l)] = Read(w, Unread(w.typed, l))
      /\ [n EXCEPT !.typed = AfterChar(n.typed)] = Read(w, AfterChar(w.typed))
  BY <1>1, ReadTwice
<1>5. /\ kn.typed = w.typed
      /\ \A l : [kn EXCEPT !.typed = Unread(kn.typed, l)] = Read(k, Unread(w.typed, l))
      /\ [kn EXCEPT !.typed = AfterChar(kn.typed)] = Read(k, AfterChar(w.typed))
  <2> HIDE DEF k
  <2> DEFINE j == [k EXCEPT !.sp = k.sp - 1]
  <2>1. /\ j.typed = k.typed
        /\ \A l : [j EXCEPT !.typed = Unread(j.typed, l)] = Read(k, Unread(k.typed, l))
        /\ [j EXCEPT !.typed = AfterChar(j.typed)] = Read(k, AfterChar(k.typed))
    BY <1>2, ReadTwice
  <2>2. kn = j
    BY <1>2
  <2> HIDE DEF j, kn
  <2> QED
    BY <1>2, <2>1, <2>2
<1>6. \A t : Read(k, t) = SegAt(Read(w, t), g) /\ Whole(Read(w, t))
  BY <1>1, ReadAnywhere
<1>7. \A t, v : putwordat(Read(k, t), a, v) = SegAt(putwordat(Read(w, t), a, v), g)
  <2> TAKE t, v
  <2> DEFINE d == Read(w, t)
  <2> HIDE DEF d
  <2>1. Whole(d) /\ Read(k, t) = SegAt(d, g)
    BY <1>6 DEF d
  <2>2. putwordat(SegAt(d, g), a, v) = SegAt(putwordat(d, a, v), g)
    BY <2>1, SegAtHelpers
  <2> QED
    BY <2>1, <2>2 DEF d
<1>8. CASE ~ RoomAt(a) \/ w.sp = 0
  <2> HIDE DEF k
  <2> QED
    BY <1>2, <1>8, SegsAtWhen DEF optPOLL, k
<1>9. CASE RoomAt(a) /\ w.sp # 0
  <2> HIDE DEF k, kn, n
  <2>0. k.sp # 0 /\ Named(Polls, fetchStack(k, 0)) = cmd
    BY <1>2, <1>9
  <2>1. CASE cmd = "none"
    <3>1. optPOLL(w, a) = {w} /\ optPOLL(k, a) = {k}
      BY <1>9, <2>0, <2>1, PollIs
    <3> QED
      BY <3>1, SegsAtWhen DEF k
  <2>2. CASE cmd = "ReadIntI"
    <3> DEFINE s == justnum(w.typed)
               number == int(s)
               v == IF number < WordSize - 1 /\ number >= -(Half - 1) THEN number ELSE 0
               t == Unread(w.typed, Taken(w.typed, LineMax))
               u == v % WordSize
    <3>1. optPOLL(w, a) = pollInt(n, a) /\ optPOLL(k, a) = pollInt(kn, a)
      BY <1>2, <1>9, <2>0, <2>2, PollIs DEF n, kn
    <3>2. pollInt(n, a) = When(IsNumeral(s), putwordat(Read(w, t), a, u))
      BY <1>3, <1>4 DEF pollInt
    <3>3. pollInt(kn, a) = When(IsNumeral(s), putwordat(Read(k, t), a, u))
      BY <1>5 DEF pollInt
    <3> DEFINE guard == IsNumeral(s)
               r == putwordat(Read(w, t), a, u)
    <3> HIDE DEF s, t, u
    <3>4. putwordat(Read(k, t), a, u) = SegAt(putwordat(Read(w, t), a, u), g)
      BY <1>7
    <3> HIDE DEF guard, r
    <3>5. SegsAt(When(guard, r), g) = When(guard, SegAt(r, g))
      BY SegsAtWhen
    <3> QED
      BY <3>1, <3>2, <3>3, <3>4, <3>5 DEF k, guard, r
  <2>3. CASE cmd = "ReadStrI"
    <3> DEFINE text == StoredLine(w.typed)
               len  == Len(text)
               guard == len = 0 \/ a + len <= MAXMEMSP - Slack
               t == Unread(w.typed, Taken(w.typed, LineMax))
               mem == [b \in DOMAIN w.mem |->
                         IF b \in a .. a + len - 1 THEN text[b - a + 1]
                         ELSE IF len > 0 /\ b = a + len THEN 0 ELSE w.mem[b]]
               r  == [n EXCEPT !.typed = t, !.mem = mem]
               kr == [kn EXCEPT !.typed = t, !.mem = mem]
    <3>1. optPOLL(w, a) = pollStr(n, a) /\ optPOLL(k, a) = pollStr(kn, a)
      BY <1>2, <1>9, <2>0, <2>3, PollIs DEF n, kn
    <3>2. pollStr(n, a) = When(guard, r)
      BY <1>3 DEF pollStr, StoredLine, Whole, Fields
    <3>3. Whole(kn) /\ kn.mem = w.mem /\ kn.typed = w.typed
      BY <1>3, SegAtIs
    <3>4. pollStr(kn, a) = When(guard, kr)
      BY <3>3 DEF pollStr, StoredLine, Whole, Fields
    <3>5. kr = SegAt(r, g)
      <4> HIDE DEF mem, t
      <4> QED
        BY <1>3 DEF SegAt, Whole, Fields
    <3> HIDE DEF r, kr, guard
    <3>6. SegsAt(When(guard, r), g) = When(guard, SegAt(r, g))
      BY SegsAtWhen
    <3> QED
      BY <3>1, <3>2, <3>4, <3>5, <3>6 DEF k
  <2>4. CASE cmd = "ReadCharI" \/ cmd = "ReadCINoWait"
    <3> DEFINE t == AfterChar(w.typed)
               u == NextChar(w.typed)
    <3>1. optPOLL(w, a) = pollChar(n, a) /\ optPOLL(k, a) = pollChar(kn, a)
      BY <1>2, <1>9, <2>0, <2>4, PollIs DEF n, kn
    <3>2. pollChar(n, a) = {putwordat(Read(w, t), a, u)}
      BY <1>3, <1>4 DEF pollChar
    <3>3. pollChar(kn, a) = {putwordat(Read(k, t), a, u)}
      BY <1>5 DEF pollChar
    <3> HIDE DEF t, u
    <3>4. putwordat(Read(k, t), a, u) = SegAt(putwordat(Read(w, t), a, u), g)
      BY <1>7
    <3> QED
      BY <3>1, <3>2, <3>3, <3>4, SegsAtWhen DEF k
  <2>5. CASE cmd = "ReadTime"
    <3> DEFINE lo == Now % WordSize
               hi == Now \div WordSize
               S  == optPUSH(n, lo)
    <3>1. optPOLL(w, a) = pollTime(n) /\ optPOLL(k, a) = pollTime(kn)
      BY <1>2, <1>9, <2>0, <2>5, PollIs DEF n, kn
    <3>2. pollTime(n) = UNION {optPUSH(z, hi) : z \in S}
      BY DEF pollTime
    <3>3. pollTime(kn) = UNION {optPUSH(z, hi) : z \in SegsAt(S, g)}
      <4>1. optPUSH(kn, lo) = SegsAt(S, g)
        <5> HIDE DEF lo
        <5> QED
          BY <1>3, SegsAtPush
      <4> QED
        BY <4>1 DEF pollTime
    <3> HIDE DEF hi
    <3>4. \A z \in S : Whole(z)
      <4> HIDE DEF lo
      <4> QED
        BY <1>3, SegsAtPush
    <3> HIDE DEF S
    <3>5. \A z \in S : optPUSH(SegAt(z, g), hi) = SegsAt(optPUSH(z, hi), g)
      BY <3>4, SegsAtPush
    <3>6. UNION {optPUSH(z, hi) : z \in SegsAt(S, g)} = SegsAt(UNION {optPUSH(z, hi) : z \in S}, g)
      BY <3>5 DEF SegsAt
    <3> QED
      BY <3>1, <3>2, <3>3, <3>6 DEF k
  <2> QED
    BY <2>1, <2>2, <2>3, <2>4, <2>5, PollName
<1> QED
  BY <1>8, <1>9

\* What an instruction does depends on no segment.
LEMMA OpAnywhere ==
  ASSUME NEW w, Shape(w, WordSet), NEW g, NEW i, Coded(i)
  PROVE  PyOp(SegAt(w, g), i) = SegsAt(PyOp(w, i), g)
<1> DEFINE k == SegAt(w, g)
<1>0. Whole(w)
  BY DEF Shape
<1> HIDE DEF k
<1>1. CASE ALUCode(i)
  <2>1. PyOp(w, i) = optALU(w, i) /\ PyOp(k, i) = optALU(k, i)
    BY <1>1, Parts
  <2> QED
    BY <1>0, <2>1, ALUAnywhere DEF k
<1>2. CASE i.op \in OnTop
  <2>1. PyOp(w, i) = optOnTop(w, i) /\ PyOp(k, i) = optOnTop(k, i)
    BY <1>2, Parts
  <2> QED
    BY <1>0, <1>2, <2>1, OnTopAnywhere DEF k
<1>3. CASE JumpCode(i)
  <2>1. PyOp(w, i) = optJump(w, i) /\ PyOp(k, i) = optJump(k, i)
    BY <1>3, Parts
  <2> QED
    BY <1>0, <2>1, JumpAnywhere DEF k
<1>4. CASE PushCode(i)
  <2>1. PyOp(w, i) = optPushFrom(w, i) /\ PyOp(k, i) = optPushFrom(k, i)
    BY <1>4, Parts
  <2> QED
    BY <1>0, <1>4, <2>1, PushAnywhere DEF k
<1>5. CASE PopCode(i)
  <2>1. PyOp(w, i) = optPopTo(w, i) /\ PyOp(k, i) = optPopTo(k, i)
    BY <1>5, Parts
  <2> QED
    BY <1>0, <1>5, <2>1, PopAnywhere DEF k
<1>6. CASE i.op \in Plain
  <2>1. PyOp(w, i) = optPlain(w, i) /\ PyOp(k, i) = optPlain(k, i)
    BY <1>6, Parts
  <2> QED
    BY <1>0, <1>6, <2>1, PlainAnywhere DEF k
<1>7. CASE i.op = "CAST"
  <2>1. PyOp(w, i) = optCAST(w, i.arg) /\ PyOp(k, i) = optCAST(k, i.arg)
    BY <1>7, Parts
  <2> QED
    BY <2>1, CastAnywhere DEF k
<1>8. CASE i.op = "POLL"
  <2>1. PyOp(w, i) = optPOLL(w, i.arg) /\ PyOp(k, i) = optPOLL(k, i.arg)
    BY <1>8, Parts
  <2> QED
    BY <2>1, PollAnywhere DEF k
<1> QED
  BY <1>1, <1>2, <1>3, <1>4, <1>5, <1>6, <1>7, <1>8 DEF Coded

\* The invariant implies RingZero.
LEMMA RingZeroHere == LInv => RingZero
<1> SUFFICES ASSUME LInv, Is24, m.seg.ring = 0, last \in Instructions(Args),
                    last.op # "ADM", ~ AtTheEdge
             PROVE  /\ {LowBank(p) : p \in Alone} = PyStep(LowBank(m), last)
                    /\ \A p \in Alone : \A a \in DOMAIN m.mem \ WordSet : p.mem[a] = m.mem[a]
  BY DEF RingZero
<1> DEFINE x == Past(m, last)
           w == View(x)
           P == PyOp(w, last)
           u == LowBank(m)
           v == Past(u, last)
<1>1. /\ last.arg \in WordSet /\ Coded(last) /\ IsMachine(m) /\ Alone = Python(m, last)
  BY Codes DEF LInv, Alone
<1>2. /\ IsMachine(x) /\ x.flags = m.flags /\ x.sp = m.sp /\ x.hw = m.hw /\ x.mem = m.mem
      /\ x.seg = m.seg /\ x.out = m.out /\ x.typed = m.typed
  BY <1>1, PastIs
<1>3. Base(x) = 0
  BY <1>2 DEF Base
<1>4. /\ Shape(w, WordSet) /\ w.pc = x.pc /\ w.flags = x.flags /\ w.sp = x.sp /\ w.hw = x.hw
      /\ w.seg = x.seg /\ w.out = x.out /\ w.typed = x.typed
      /\ w.mem = [a \in WordSet |-> x.mem[Base(x) + a]]
  BY <1>2, ViewShape
<1>5. PyOps(m, last) = P
  <2>1. OpAlike(x, last)
    BY <1>1, <1>2, OpsAlike
  <2>2. Clear(x, last) /\ OperandInBank(m, last)
    BY <1>1, EdgeClear
  <2>3. PyOp24(x, w, last) = P
    BY <2>1, <2>2 DEF OpAlike
  <2> QED
    BY <2>2, <2>3 DEF PyOps, Is24
<1>6. \A n \in P : Shape(n, WordSet) /\ n.seg = x.seg
  BY <1>1, <1>2, <1>5, CodedTyped
<1>7. Alone = {Result(x, n) : n \in P}
  BY <1>1, <1>5, PythonIs
<1>8. v = SegAt(w, NoSegments)
  <2>1. Shape(m, Memory(m.seg))
    BY <1>1, MachineShape
  <2> DEFINE mem == [a \in WordSet |-> m.mem[a]]
  <2>2. mem = w.mem
    <3>1. \A a \in WordSet : 0 + a = a
      BY Numbers DEF WordSet
    <3>2. \A a \in WordSet : w.mem[a] = m.mem[a]
      BY <1>2, <1>3, <1>4, <3>1
    <3> QED
      BY <1>4, <3>2
  <2>3. u = [m EXCEPT !.mem = mem, !.seg = NoSegments]
    BY DEF LowBank
  <2> HIDE DEF mem, u
  <2>4. /\ Whole(u) /\ u.pc = m.pc /\ u.flags = m.flags /\ u.sp = m.sp /\ u.hw = m.hw
        /\ u.mem = mem /\ u.seg = NoSegments /\ u.out = m.out /\ u.typed = m.typed
    BY <2>1, <2>3 DEF Shape, Whole, Fields
  <2>5. /\ Whole(v) /\ v.pc = x.pc /\ v.flags = m.flags /\ v.sp = m.sp /\ v.hw = m.hw
        /\ v.mem = mem /\ v.seg = NoSegments /\ v.out = m.out /\ v.typed = m.typed
    BY <2>1, <2>4 DEF Past, Shape, Whole, Fields
  <2> HIDE DEF v, w, x
  <2>6. LET k == SegAt(w, NoSegments) IN
        /\ Whole(k) /\ k.pc = w.pc /\ k.flags = w.flags /\ k.sp = w.sp /\ k.hw = w.hw
        /\ k.mem = w.mem /\ k.seg = NoSegments /\ k.out = w.out /\ k.typed = w.typed
    BY <1>4, SegAtIs DEF Shape
  <2> QED
    BY <1>2, <1>4, <2>2, <2>5, <2>6, SameFields
<1>9. PyStep(u, last) = PyOp(v, last)
  BY <1>1, PyStepIs
<1>10. PyOp(SegAt(w, NoSegments), last) = SegsAt(P, NoSegments)
  BY <1>1, <1>4, OpAnywhere
<1> HIDE DEF P, u, v, w, x
<1>11. ASSUME NEW n \in P
       PROVE  /\ LowBank(Result(x, n)) = SegAt(n, NoSegments)
              /\ \A a \in DOMAIN m.mem \ WordSet : Result(x, n).mem[a] = m.mem[a]
  <2> DEFINE r == Result(x, n)
             k == LowBank(r)
             mem == [a \in WordSet |-> r.mem[a]]
  <2>1. /\ IsMachine(r) /\ r.pc = n.pc /\ r.flags = n.flags /\ r.sp = n.sp /\ r.hw = n.hw
        /\ r.mem = Merge(x, n.mem) /\ r.out = n.out /\ r.typed = n.typed
    BY <1>2, <1>6, ResultIs
  <2>2. Shape(n, WordSet)
    BY <1>6
  <2>3. \A a \in Memory(x.seg) :
          r.mem[a] = IF a - 0 \in WordSet THEN n.mem[a - 0] ELSE x.mem[a]
    BY <1>3, <2>1 DEF Merge
  <2>4. WordSet \subseteq Memory(x.seg) /\ DOMAIN m.mem = Memory(x.seg)
    <3>1. \A a \in WordSet : Base(x) + a \in Memory(x.seg)
      BY <1>2, BaseRange
    <3>2. \A a \in WordSet : 0 + a = a
      BY Numbers DEF WordSet
    <3> QED
      BY <1>2, <1>3, <3>1, <3>2, BaseRange
  <2>5. \A a \in Memory(x.seg) : a - 0 = a
    BY <1>2, Numbers DEF Memory, WordSet
  <2>6. mem = n.mem
    <3>1. \A a \in WordSet : r.mem[a] = n.mem[a]
      BY <2>3, <2>4, <2>5
    <3> QED
      BY <2>2, <3>1 DEF Shape
  <2>7. \A a \in DOMAIN m.mem \ WordSet : r.mem[a] = m.mem[a]
    BY <1>2, <2>3, <2>4, <2>5
  <2>8. k = [r EXCEPT !.mem = mem, !.seg = NoSegments] /\ Whole(r)
    BY <2>1, MachineShape DEF LowBank, Shape
  <2> HIDE DEF mem, k, r
  <2>9. /\ Whole(k) /\ k.pc = r.pc /\ k.flags = r.flags /\ k.sp = r.sp /\ k.hw = r.hw
        /\ k.mem = mem /\ k.seg = NoSegments /\ k.out = r.out /\ k.typed = r.typed
    BY <2>8 DEF Whole, Fields
  <2>10. LET d == SegAt(n, NoSegments) IN
         /\ Whole(d) /\ d.pc = n.pc /\ d.flags = n.flags /\ d.sp = n.sp /\ d.hw = n.hw
         /\ d.mem = n.mem /\ d.seg = NoSegments /\ d.out = n.out /\ d.typed = n.typed
    BY <2>2, SegAtIs DEF Shape
  <2>11. k = SegAt(n, NoSegments)
    BY <2>1, <2>6, <2>9, <2>10, SameFields
  <2> QED
    BY <2>7, <2>11 DEF k, r
<1>12. {LowBank(p) : p \in Alone} = SegsAt(P, NoSegments)
  BY <1>7, <1>11 DEF SegsAt
<1>13. \A p \in Alone : \A a \in DOMAIN m.mem \ WordSet : p.mem[a] = m.mem[a]
  BY <1>7, <1>11
<1> QED
  BY <1>8, <1>9, <1>10, <1>12, <1>13 DEF u

\* In ring 0 the 24-bit machine is the 16-bit one over bank 0, and leaves the other banks
\* alone, whatever its segment registers and its prefix hold.
THEOREM RingZeroIsSixteen == Spec => []RingZero
<1> QED
  BY LockstepInvariant, RingZeroHere, PTL
=============================================================================
