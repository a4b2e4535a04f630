--------------------------- MODULE HeapMemProofs ---------------------------
(***************************************************************************)
(* Proofs about the heap manager on memory, for every region, every byte   *)
(* size, every set of requested sizes and any number of calls.             *)
(*                                                                         *)
(* Chain(m, S) says that the bytes of m hold a chain of which the objects  *)
(* are S; the loops of the code over a chain are shown to find what the    *)
(* definitions of module Heap say of S, each by an invariant that holds    *)
(* after k turns, and every sequence of word stores to leave a chain.  The *)
(* invariant MInv is that there is a chain, in a state of module Heap, and *)
(* that its blocks lie within memory.  A step of HeapMem is then a step of *)
(* Heap, whose own invariant says that blocks and headers do not overlap,  *)
(* and a chain operation stores in headers only.                           *)
(***************************************************************************)
EXTENDS HeapMem, TLAPS

USE HeapMemAssumption DEF HeapMemAssumption

\* Module Heap with its theorems, over the chain that is in memory.
P == INSTANCE HeapProofs WITH
       Sizes <- Sizes \cup NewSizes,
       objs <- Objects(mem), used <- Used(mem), wild <- FALSE

\* The first object.
Base == HeapID + 7

-----------------------------------------------------------------------------
(***************************************************************************)
(* Bytes and words.                                                        *)
(***************************************************************************)
ByteSet == 0 .. ByteSize - 1
Memory  == [HeapID .. Top -> ByteSet]
Words   == 0 .. Word - 1

\* Addresses are words.
LEMMA WordIs == Word \in Nat /\ Word > Top + 100
BY DEF Word

\* Two bytes make a word, from which they can be had again.
LEMMA WordOfBytes ==
  ASSUME NEW l \in ByteSet, NEW h \in ByteSet
  PROVE  /\ l + ByteSize * h \in Words
         /\ (l + ByteSize * h) % ByteSize = l
         /\ (l + ByteSize * h) \div ByteSize = h
<1>1. ByteSize * h + ByteSize <= ByteSize * ByteSize
  <2>1. h + 1 <= ByteSize
    BY DEF ByteSet
  <2>2. ByteSize * (h + 1) <= ByteSize * ByteSize
    BY <2>1 DEF ByteSet
  <2> QED
    BY <2>2 DEF ByteSet
<1>2. l + ByteSize * h \in Words
  BY <1>1 DEF Words, Word, ByteSet
<1>3. (l + ByteSize * h) % ByteSize = l /\ (l + ByteSize * h) \div ByteSize = h
  BY DEF ByteSet
<1> QED
  BY <1>2, <1>3

\* A byte is a word.
LEMMA BytesAreWords == ByteSet \subseteq Words
<1>1. ByteSize <= ByteSize * ByteSize
  <2>1. 1 * ByteSize <= ByteSize * ByteSize
    OBVIOUS
  <2> QED
    BY <2>1
<1> QED
  BY <1>1 DEF ByteSet, Words, Word

\* A word is made of its two bytes.
LEMMA BytesOfWord ==
  ASSUME NEW w \in Words
  PROVE  /\ w % ByteSize \in ByteSet /\ w \div ByteSize \in ByteSet
         /\ w = (w % ByteSize) + ByteSize * (w \div ByteSize)
<1>1. w \in Nat /\ w < ByteSize * ByteSize
  BY DEF Words, Word
<1>2. w % ByteSize \in ByteSet /\ w = (w % ByteSize) + ByteSize * (w \div ByteSize)
  BY <1>1 DEF ByteSet
<1>3. w \div ByteSize \in Nat
  BY <1>1
<1>4. w \div ByteSize < ByteSize
  <2>1. SUFFICES ASSUME w \div ByteSize >= ByteSize PROVE FALSE
    BY <1>3
  <2>2. ByteSize * (w \div ByteSize) >= ByteSize * ByteSize
    BY <2>1, <1>3
  <2> QED
    BY <1>1, <1>2, <2>2 DEF ByteSet
<1> QED
  BY <1>2, <1>3, <1>4 DEF ByteSet

\* What is read is a byte,
LEMMA ByteTyped ==
  ASSUME NEW m \in Memory, NEW a \in Int
  PROVE  Byte(m, a) \in ByteSet
BY DEF Memory, Byte, ByteSet

\* Within the region a byte is what the memory has there.
LEMMA ByteIs ==
  ASSUME NEW m \in Memory, NEW a \in HeapID .. Top
  PROVE  Byte(m, a) = m[a]
BY WordIs DEF Memory, Byte

\* and a word where a word is read.
LEMMA LoadTyped ==
  ASSUME NEW m \in Memory, NEW a \in Int
  PROVE  Load(m, a) \in Words
BY ByteTyped, WordOfBytes DEF Load

\* A word is read from two bytes.
LEMMA LoadIs ==
  ASSUME NEW m \in Memory, NEW a \in HeapID .. Top - 1
  PROVE  Load(m, a) = m[a] + ByteSize * m[a + 1]
BY ByteIs DEF Load

\* A store changes two bytes, and what is stored can be loaded.
LEMMA StoreIs ==
  ASSUME NEW m \in Memory, NEW a, NEW w \in Words
  PROVE  /\ Store(m, a, w) \in Memory
         /\ \A x \in HeapID .. Top : x # a /\ x # a + 1 => Store(m, a, w)[x] = m[x]
         /\ a \in HeapID .. Top - 1 =>
              /\ Load(Store(m, a, w), a) = w
              /\ Store(m, a, w)[a] = w % ByteSize /\ Store(m, a, w)[a + 1] = w \div ByteSize
<1> DEFINE n == Store(m, a, w)
<1>1. /\ w % ByteSize \in ByteSet /\ w \div ByteSize \in ByteSet
      /\ w = (w % ByteSize) + ByteSize * (w \div ByteSize)
  BY BytesOfWord
<1>2. DOMAIN m = HeapID .. Top
  BY DEF Memory
<1>3. n = [x \in HeapID .. Top |->
             IF x = a THEN w % ByteSize ELSE IF x = a + 1 THEN w \div ByteSize ELSE m[x]]
  BY <1>2 DEF Store
<1> HIDE DEF n
<1>4. n \in Memory
  BY <1>1, <1>3 DEF Memory
<1>5. \A x \in HeapID .. Top : x # a /\ x # a + 1 => n[x] = m[x]
  BY <1>3
<1>6. ASSUME a \in HeapID .. Top - 1
      PROVE  Load(n, a) = w /\ n[a] = w % ByteSize /\ n[a + 1] = w \div ByteSize
  <2>1. n[a] = w % ByteSize /\ n[a + 1] = w \div ByteSize
    BY <1>3, <1>6
  <2> QED
    BY <1>1, <1>4, <1>6, <2>1, LoadIs
<1> QED
  BY <1>4, <1>5, <1>6 DEF n

\* What module Heap assumes of its constants.
LEMMA HeapSized ==
  /\ Word \in Nat /\ HeapID \in Nat /\ SizeInBytes \in Nat
  /\ HeapID > 100
  /\ SizeInBytes > P!HEAP_HEAD_SIZE + P!OBJ_HEAD_SIZE
  /\ HeapID + SizeInBytes < Word
  /\ Sizes \cup NewSizes \subseteq 0 .. Word - 1
BY WordIs DEF P!HEAP_HEAD_SIZE, P!OBJ_HEAD_SIZE

-----------------------------------------------------------------------------
(***************************************************************************)
(* A chain in memory.                                                      *)
(***************************************************************************)

\* The objects S, each with the next one in its header.
Chain(m, S) ==
  /\ S \subseteq Base .. Top
  /\ Base \in S
  /\ \A o, p \in S : o < p => o + 3 <= p
  /\ \A o \in S : P!IsNext(S, o, NextOf(m, o))
  /\ FirstOf(m) = Base
  /\ Load(m, HeapID + 2) = SizeInBytes - 4

InUse(m, S) == {o \in S : Flag(m, o) # 0}

\* The header of an object is in the three bytes below it.
LEMMA HeaderIs ==
  ASSUME NEW m \in Memory, NEW o \in Base .. Top
  PROVE  /\ o - 3 \in HeapID .. Top /\ o - 2 \in HeapID .. Top /\ o - 1 \in HeapID .. Top
         /\ Flag(m, o) = m[o - 3] /\ Flag(m, o) \in ByteSet
         /\ NextOf(m, o) = m[o - 2] + ByteSize * m[o - 1] /\ NextOf(m, o) \in Words
         /\ KeepHigh(m, o) = ByteSize * m[o - 2]
<1>1. o - 3 \in HeapID .. Top - 1 /\ o - 2 \in HeapID .. Top - 1 /\ o - 1 \in HeapID .. Top
      /\ (o - 3) + 1 = o - 2 /\ (o - 2) + 1 = o - 1
  BY DEF Base
<1>2. Flag(m, o) = m[o - 3] /\ Flag(m, o) \in ByteSet
  BY <1>1, ByteIs, ByteTyped DEF Flag
<1>3. NextOf(m, o) = m[o - 2] + ByteSize * m[o - 1] /\ NextOf(m, o) \in Words
  BY <1>1, LoadIs, LoadTyped DEF NextOf
<1>4. Load(m, o - 3) = m[o - 3] + ByteSize * m[o - 2]
  BY <1>1, LoadIs
<1>5. m[o - 3] \in Int /\ ByteSize * m[o - 2] \in Int
  BY <1>1 DEF Memory, ByteSet
<1> QED
  BY <1>1, <1>2, <1>3, <1>4, <1>5 DEF KeepHigh

\* An object whose header is not touched.
LEMMA SameHeader ==
  ASSUME NEW m \in Memory, NEW n \in Memory, NEW o \in Base .. Top,
         n[o - 3] = m[o - 3], n[o - 2] = m[o - 2], n[o - 1] = m[o - 1]
  PROVE  Flag(n, o) = Flag(m, o) /\ NextOf(n, o) = NextOf(m, o)
BY HeaderIs

\* The next object, 0 at the end.
LEMMA NextIs ==
  ASSUME NEW m \in Memory, NEW S, Chain(m, S), NEW o \in S
  PROVE  /\ NextOf(m, o) # 0 => NextOf(m, o) \in S /\ NextOf(m, o) >= o + 3
         /\ NextOf(m, o) # 0 => \A p \in S : p > o => p >= NextOf(m, o)
         /\ NextOf(m, o) = 0 => \A p \in S : p <= o
<1>1. S \subseteq Nat /\ 0 \notin S /\ P!IsNext(S, o, NextOf(m, o))
  BY DEF Chain, Base
<1> QED
  BY <1>1 DEF Chain, P!IsNext

-----------------------------------------------------------------------------
(***************************************************************************)
(* The walks along a chain.                                                *)
(***************************************************************************)
\* The first object is in the region.
LEMMA BaseIs == Base \in Nat /\ Base > 100 /\ Base <= Top /\ Base = HeapID + 7
BY DEF Base

\* As many turns as there are addresses reach the end of a chain.
LEMMA TurnsIs == Turns \in Nat /\ Base + Turns > Top
BY DEF Turns, Base

\* The loop of Objects: the function "after".
Listing(m, f, n) ==
  f = [k \in 0 .. n |-> IF k = 0 THEN {[at |-> FirstOf(m), seen |-> {}]}
                       ELSE {ListTurn(m, s) : s \in f[k - 1]}]

\* There is such a function.
LEMMA ListingExists ==
  ASSUME NEW m, NEW n \in Nat
  PROVE  \E f : Listing(m, f, n)
<1> DEFINE T == {k \in Nat : \E f : Listing(m, f, k)}
<1>1. 0 \in T
  <2>1. Listing(m, [k \in 0 .. 0 |-> {[at |-> FirstOf(m), seen |-> {}]}], 0)
    BY DEF Listing
  <2> QED
    BY <2>1
<1>2. ASSUME NEW k \in 0 .. n, k # n, k \in T PROVE k + 1 \in T
  <2>1. PICK g : Listing(m, g, k)
    BY <1>2
  <2> DEFINE val(h, i) == IF i = 0 THEN {[at |-> FirstOf(m), seen |-> {}]} ELSE {ListTurn(m, s) : s \in h[i - 1]}
             f == [i \in 0 .. k + 1 |-> IF i = k + 1 THEN val(g, k + 1) ELSE g[i]]
  <2>2. \A i \in 0 .. k + 1 : f[i] = val(f, i)
    <3>1. ASSUME NEW i \in 0 .. k + 1 PROVE f[i] = val(f, i)
      <4>1. CASE i = k + 1
        <5>1. f[i] = val(g, i) /\ f[i - 1] = g[i - 1] /\ i # 0
          BY <4>1
        <5> HIDE DEF f
        <5> QED
          BY <5>1
      <4>2. CASE i # k + 1
        <5>1. i \in 0 .. k /\ f[i] = g[i] /\ (i # 0 => f[i - 1] = g[i - 1])
          BY <4>2
        <5>2. g[i] = val(g, i)
          BY <2>1, <5>1 DEF Listing
        <5> HIDE DEF f
        <5> QED
          BY <5>1, <5>2
      <4> QED
        BY <4>1, <4>2
    <3> QED
      BY <3>1
  <2>3. f = [i \in 0 .. k + 1 |-> f[i]]
    OBVIOUS
  <2> HIDE DEF f
  <2>4. Listing(m, f, k + 1)
    BY <2>2, <2>3 DEF Listing
  <2> QED
    BY <2>4
<1> HIDE DEF T
<1>3. n \in T
  BY <1>1, <1>2, HeapSized, P!CountsTo
<1> QED
  BY <1>3 DEF T

\* HeapListMap prints the objects of the chain.
LEMMA ObjectsIs ==
  ASSUME NEW m \in Memory, NEW S, Chain(m, S)
  PROVE  Objects(m) = S
<1> DEFINE f == CHOOSE f : Listing(m, f, Turns)
<1>1. Objects(m) = UNION {s.seen : s \in f[Turns]}
  BY DEF Objects, Listing
<1>2. Listing(m, f, Turns)
  BY TurnsIs, ListingExists
<1> HIDE DEF f
<1> DEFINE Right(s, k) ==
             /\ s.at = 0 => s.seen = S
             /\ s.at # 0 => s.at \in S /\ s.at >= Base + k /\ s.seen = {p \in S : p < s.at}
           T == {k \in 0 .. Turns : f[k] # {} /\ \A s \in f[k] : Right(s, k)}
<1>3. /\ 0 \notin S /\ Base \in S /\ FirstOf(m) = Base
      /\ \A p \in S : p \in Nat /\ p >= Base /\ p <= Top
  BY BaseIs DEF Chain
<1>4. 0 \in T
  <2>1. f[0] = {[at |-> FirstOf(m), seen |-> {}]}
    BY <1>2, TurnsIs DEF Listing
  <2>2. {p \in S : p < Base} = {}
    <3>1. \A p \in S : ~ (p < Base)
      BY <1>3, BaseIs
    <3> QED
      BY <3>1
  <2>3. f[0] # {} /\ \A s \in f[0] : Right(s, 0)
    BY <1>3, <2>1, <2>2, BaseIs
  <2> QED
    BY <2>3, TurnsIs
<1>5. ASSUME NEW k \in 0 .. Turns, k # Turns, k \in T PROVE k + 1 \in T
  <2>1. f[k + 1] = {ListTurn(m, s) : s \in f[k]}
    BY <1>2, <1>5, TurnsIs DEF Listing
  <2>2. ASSUME NEW s \in f[k], Right(s, k) PROVE Right(ListTurn(m, s), k + 1)
    <3>1. CASE s.at = 0
      BY <2>2, <3>1 DEF ListTurn
    <3>2. CASE s.at # 0
      <4> DEFINE n == NextOf(m, s.at)
      <4>1. s.at \in S /\ s.at >= Base + k /\ s.seen = {p \in S : p < s.at}
        BY <2>2, <3>2
      <4>2. ListTurn(m, s) = [at |-> n, seen |-> s.seen \cup {s.at}]
        BY <3>2 DEF ListTurn
      <4>3. CASE n = 0
        <5>1. \A p \in S : p <= s.at
          BY <4>1, <4>3, NextIs
        <5>2. s.seen \cup {s.at} = S
          BY <1>3, <4>1, <5>1
        <5> QED
          BY <4>2, <4>3, <5>2
      <4>4. CASE n # 0
        <5>1. n \in S /\ n >= s.at + 3 /\ \A p \in S : p > s.at => p >= n
          BY <4>1, <4>4, NextIs
        <5> HIDE DEF n
        <5>2. s.seen \cup {s.at} = {p \in S : p < n}
          BY <1>3, <4>1, <5>1
        <5>3. n >= Base + (k + 1)
          <6>1. n \in Nat /\ s.at \in Nat
            BY <1>3, <4>1, <5>1
          <6> QED
            BY <4>1, <5>1, <6>1, BaseIs
        <5> QED
          BY <4>2, <4>4, <5>1, <5>2, <5>3
      <4> QED
        BY <4>3, <4>4
    <3> QED
      BY <3>1, <3>2
  <2>3. f[k] # {} /\ \A s \in f[k] : Right(s, k)
    BY <1>5
  <2> HIDE DEF Right
  <2>4. f[k + 1] # {} /\ \A s \in f[k + 1] : Right(s, k + 1)
    BY <2>1, <2>2, <2>3
  <2>5. k + 1 \in 0 .. Turns
    BY <1>5, TurnsIs
  <2> QED
    BY <2>4, <2>5
<1>6. Turns \in T
  <2> HIDE DEF T
  <2> QED
    BY <1>4, <1>5, TurnsIs, HeapSized, P!CountsTo
<1>7. \A s \in f[Turns] : s.seen = S
  <2>1. \A p \in S : ~ (p >= Base + Turns)
    BY <1>3, TurnsIs, BaseIs
  <2> QED
    BY <1>6, <2>1
<1> QED
  BY <1>1, <1>6, <1>7

\* The room of an object is the one of module Heap.
LEMMA RoomIs ==
  ASSUME NEW m \in Memory, NEW S, Chain(m, S), NEW o \in S
  PROVE  /\ GetObjectRealSize(m, o) = P!RealSize(o, NextOf(m, o))
         /\ GetObjectRealSize(m, o) \in Nat
<1> DEFINE n == NextOf(m, o)
<1>1. o \in Base .. Top /\ Load(m, HeapID + 2) = SizeInBytes - 4
  BY DEF Chain
<1>2. n \in Words
  BY <1>1, HeaderIs
<1>3. n # 0 => n >= o + 3
  BY NextIs
<1>4. GetObjectRealSize(m, o)
        = (IF n # 0 THEN n - o - 3 ELSE SizeInBytes - 4 + HeapID - o - 3) % Word
  BY <1>1 DEF GetObjectRealSize
<1> HIDE DEF n
<1>5. CASE n # 0
  <2>1. n - o - 3 \in 0 .. Word - 1
    BY <1>1, <1>2, <1>3, <1>5, WordIs, BaseIs DEF Words
  <2>2. (n - o - 3) % Word = n - o - 3
    BY <2>1, WordIs
  <2> QED
    BY <1>4, <1>5, <2>1, <2>2 DEF P!RealSize, P!OBJ_HEAD_SIZE, n
<1>6. CASE n = 0
  <2>1. SizeInBytes - 4 + HeapID - o - 3 = P!HeapEnd - o - P!OBJ_HEAD_SIZE
    BY <1>1, BaseIs DEF P!HeapEnd, P!HeapLen, P!OBJ_HEAD_SIZE, P!HEAP_HEAD_SIZE
  <2>2. (SizeInBytes - 4 + HeapID - o - 3) % Word \in Nat
    BY <1>1, BaseIs, WordIs
  <2> QED
    BY <1>4, <1>6, <2>1, <2>2 DEF P!RealSize, n
<1> QED
  BY <1>5, <1>6

\* What the code tests at an object is whether it fits.
LEMMA FitsIs ==
  ASSUME NEW m \in Memory, NEW S, Chain(m, S), NEW o \in S, NEW size
  PROVE  P!Fits(S, InUse(m, S), o, size)
           <=> Flag(m, o) = 0 /\ GetObjectRealSize(m, o) >= size
<1> DEFINE n == NextOf(m, o)
<1>1. P!IsNext(S, o, n) /\ S \subseteq Nat /\ 0 \notin S
  BY BaseIs DEF Chain
<1>2. n \in S \cup {0}
  BY NextIs
<1>3. \A k \in S \cup {0} : P!IsNext(S, o, k) => k = n
  <2> SUFFICES ASSUME NEW k \in S \cup {0}, P!IsNext(S, o, k) PROVE k = n
    OBVIOUS
  <2>1. \A p \in S \cup {0} : p \in Nat
    BY <1>1
  <2>2. \/ k = 0 /\ \A p \in S : p <= o
        \/ k \in S /\ k > o /\ \A p \in S : p > o => p >= k
    BY DEF P!IsNext
  <2>3. \/ n = 0 /\ \A p \in S : p <= o
        \/ n \in S /\ n > o /\ \A p \in S : p > o => p >= n
    BY <1>1 DEF P!IsNext
  <2> HIDE DEF n
  <2> QED
    BY <1>2, <2>1, <2>2, <2>3
<1>4. GetObjectRealSize(m, o) = P!RealSize(o, n)
  BY RoomIs
<1>5. o \in S \ InUse(m, S) <=> Flag(m, o) = 0
  BY DEF InUse
<1> HIDE DEF n
<1> QED
  BY <1>1, <1>2, <1>3, <1>4, <1>5 DEF P!Fits

\* The loop of Walk: the function "after".
Walking(m, size, f, n) ==
  f = [k \in 0 .. n |-> IF k = 0 THEN {[end |-> "walking", at |-> FirstOf(m)]}
                       ELSE {WalkTurn(m, size, s) : s \in f[k - 1]}]

\* There is such a function.
LEMMA WalkingExists ==
  ASSUME NEW m, NEW size, NEW n \in Nat
  PROVE  \E f : Walking(m, size, f, n)
<1> DEFINE T == {k \in Nat : \E f : Walking(m, size, f, k)}
<1>1. 0 \in T
  <2>1. Walking(m, size, [k \in 0 .. 0 |-> {[end |-> "walking", at |-> FirstOf(m)]}], 0)
    BY DEF Walking
  <2> QED
    BY <2>1
<1>2. ASSUME NEW k \in 0 .. n, k # n, k \in T PROVE k + 1 \in T
  <2>1. PICK g : Walking(m, size, g, k)
    BY <1>2
  <2> DEFINE val(h, i) == IF i = 0 THEN {[end |-> "walking", at |-> FirstOf(m)]} ELSE {WalkTurn(m, size, s) : s \in h[i - 1]}
             f == [i \in 0 .. k + 1 |-> IF i = k + 1 THEN val(g, k + 1) ELSE g[i]]
  <2>2. \A i \in 0 .. k + 1 : f[i] = val(f, i)
    <3>1. ASSUME NEW i \in 0 .. k + 1 PROVE f[i] = val(f, i)
      <4>1. CASE i = k + 1
        <5>1. f[i] = val(g, i) /\ f[i - 1] = g[i - 1] /\ i # 0
          BY <4>1
        <5> HIDE DEF f
        <5> QED
          BY <5>1
      <4>2. CASE i # k + 1
        <5>1. i \in 0 .. k /\ f[i] = g[i] /\ (i # 0 => f[i - 1] = g[i - 1])
          BY <4>2
        <5>2. g[i] = val(g, i)
          BY <2>1, <5>1 DEF Walking
        <5> HIDE DEF f
        <5> QED
          BY <5>1, <5>2
      <4> QED
        BY <4>1, <4>2
    <3> QED
      BY <3>1
  <2>3. f = [i \in 0 .. k + 1 |-> f[i]]
    OBVIOUS
  <2> HIDE DEF f
  <2>4. Walking(m, size, f, k + 1)
    BY <2>2, <2>3 DEF Walking
  <2> QED
    BY <2>4
<1> HIDE DEF T
<1>3. n \in T
  BY <1>1, <1>2, HeapSized, P!CountsTo
<1> QED
  BY <1>3 DEF T

\* The walk ends at the first object that fits, or at the last one when none does.
LEMMA WalkIs ==
  ASSUME NEW m \in Memory, NEW S, Chain(m, S), NEW size
  PROVE  LET U == InUse(m, S)
             w == Walk(m, size)
         IN  \/ w.end = "fit" /\ P!FirstFit(S, U, w.at, size)
             \/ w.end = "tail" /\ w.at \in S \ U /\ P!NoFit(S, U, w.at, size)
             \/ w.end = "full" /\ w.at \in U /\ P!NoFit(S, U, w.at, size)
<1> DEFINE U == InUse(m, S)
           f == CHOOSE f : Walking(m, size, f, Turns)
<1>1. Walk(m, size) = CHOOSE s \in f[Turns] : TRUE
  BY DEF Walk, Walking
<1>2. Walking(m, size, f, Turns)
  BY TurnsIs, WalkingExists
<1> HIDE DEF f
<1> DEFINE Ended(s) ==
             \/ s.end = "fit" /\ P!FirstFit(S, U, s.at, size)
             \/ s.end = "tail" /\ s.at \in S \ U /\ P!NoFit(S, U, s.at, size)
             \/ s.end = "full" /\ s.at \in U /\ P!NoFit(S, U, s.at, size)
           Walked(s, k) ==
             /\ s.end = "walking" /\ s.at \in S /\ s.at >= Base + k
             /\ \A p \in S : p < s.at => ~ P!Fits(S, U, p, size)
           T == {k \in 0 .. Turns : f[k] # {} /\ \A s \in f[k] : Ended(s) \/ Walked(s, k)}
<1>3. /\ 0 \notin S /\ Base \in S /\ FirstOf(m) = Base
      /\ \A p \in S : p \in Nat /\ p >= Base /\ p <= Top
  BY BaseIs DEF Chain
<1>4. 0 \in T
  <2>1. f[0] = {[end |-> "walking", at |-> FirstOf(m)]}
    BY <1>2, TurnsIs DEF Walking
  <2>2. \A p \in S : ~ (p < Base)
    BY <1>3, BaseIs
  <2>3. f[0] # {} /\ \A s \in f[0] : Walked(s, 0)
    BY <1>3, <2>1, <2>2, BaseIs
  <2> QED
    BY <2>3, TurnsIs
<1>5. ASSUME NEW k \in 0 .. Turns, k # Turns, k \in T PROVE k + 1 \in T
  <2>1. f[k + 1] = {WalkTurn(m, size, s) : s \in f[k]}
    <3>1. k + 1 \in 0 .. Turns /\ k + 1 # 0 /\ (k + 1) - 1 = k
      BY <1>5, TurnsIs
    <3> QED
      BY <1>2, <3>1 DEF Walking
  <2>2. ASSUME NEW s \in f[k], Ended(s) PROVE WalkTurn(m, size, s) = s
    BY <2>2 DEF WalkTurn
  <2>3. ASSUME NEW s \in f[k], Walked(s, k)
        PROVE  Ended(WalkTurn(m, size, s)) \/ Walked(WalkTurn(m, size, s), k + 1)
    <3> DEFINE o == s.at
               n == NextOf(m, o)
               fits == Flag(m, o) = 0 /\ GetObjectRealSize(m, o) >= size
    <3>1. /\ s.end = "walking" /\ o \in S /\ o >= Base + k
          /\ \A p \in S : p < o => ~ P!Fits(S, U, p, size)
          /\ o \in Nat
      BY <1>3, <2>3
    <3>2. WalkTurn(m, size, s) =
            IF fits THEN [end |-> "fit", at |-> o]
            ELSE IF n # 0 THEN [end |-> "walking", at |-> n]
            ELSE [end |-> IF Flag(m, o) = 0 THEN "tail" ELSE "full", at |-> o]
      BY <3>1 DEF WalkTurn
    <3>3. P!Fits(S, U, o, size) <=> fits
      BY <3>1, FitsIs
    <3>4. P!IsNext(S, o, n)
      BY <3>1 DEF Chain
    <3>5. /\ n # 0 => n \in S /\ n >= o + 3 /\ n \in Nat
          /\ n # 0 => \A p \in S : p > o => p >= n
          /\ n = 0 => \A p \in S : p <= o
      BY <1>3, <3>1, NextIs
    <3> HIDE DEF o, n, fits
    <3>6. CASE fits
      <4>1. P!FirstFit(S, U, o, size)
        <5>1. ASSUME NEW p \in S, P!Fits(S, U, p, size) PROVE o <= p
          <6>1. ~ (p < o) /\ p \in Nat /\ o \in Nat
            BY <1>3, <3>1, <5>1
          <6> QED
            BY <6>1
        <5> QED
          BY <3>3, <3>6, <5>1 DEF P!FirstFit
      <4> QED
        BY <3>2, <3>6, <4>1
    <3>7. CASE ~ fits /\ n # 0
      <4>1. \A p \in S : p < n => ~ P!Fits(S, U, p, size)
        <5> SUFFICES ASSUME NEW p \in S, p < n PROVE ~ P!Fits(S, U, p, size)
          OBVIOUS
        <5>1. p \in Nat /\ (p < o \/ p = o)
          BY <1>3, <3>1, <3>5, <3>7
        <5> QED
          BY <3>1, <3>3, <3>7, <5>1
      <4>2. n >= Base + (k + 1)
        BY <3>1, <3>5, <3>7, BaseIs
      <4> QED
        BY <3>2, <3>5, <3>7, <4>1, <4>2
    <3>8. CASE ~ fits /\ n = 0
      <4>1. \A p \in S : ~ P!Fits(S, U, p, size)
        <5> SUFFICES ASSUME NEW p \in S PROVE ~ P!Fits(S, U, p, size)
          OBVIOUS
        <5>1. p \in Nat /\ (p < o \/ p = o)
          BY <1>3, <3>1, <3>5, <3>8
        <5> QED
          BY <3>1, <3>3, <3>8, <5>1
      <4>2. P!NoFit(S, U, o, size)
        BY <3>1, <3>4, <3>8, <4>1 DEF P!NoFit
      <4>3. o \in U <=> Flag(m, o) # 0
        BY <3>1 DEF InUse
      <4> QED
        BY <3>1, <3>2, <3>8, <4>2, <4>3
    <3> QED
      BY <3>6, <3>7, <3>8
  <2>4. f[k] # {} /\ \A s \in f[k] : Ended(s) \/ Walked(s, k)
    BY <1>5
  <2> HIDE DEF Ended, Walked
  <2>5. f[k + 1] # {} /\ \A s \in f[k + 1] : Ended(s) \/ Walked(s, k + 1)
    BY <2>1, <2>2, <2>3, <2>4
  <2>6. k + 1 \in 0 .. Turns
    BY <1>5, TurnsIs
  <2> QED
    BY <2>5, <2>6
<1>6. Turns \in T
  <2> HIDE DEF T
  <2> QED
    BY <1>4, <1>5, TurnsIs, HeapSized, P!CountsTo
<1>7. \A p \in S : ~ (p >= Base + Turns)
  BY <1>3, TurnsIs, BaseIs
<1>8. f[Turns] # {} /\ \A s \in f[Turns] : Ended(s)
  BY <1>6, <1>7
<1>9. Walk(m, size) \in f[Turns]
  BY <1>1, <1>8
<1> QED
  BY <1>8, <1>9

-----------------------------------------------------------------------------
(***************************************************************************)
(* The stores of HeapNewObject and HeapDeleteObject.                       *)
(***************************************************************************)

\* n is m but for the addresses in A.
Agree(m, n, A) == \A a \in HeapID .. Top : a \notin A => n[a] = m[a]

Header(o) == {o - 3, o - 2, o - 1}

\* A next pointer is in two bytes.
LEMMA SameNext ==
  ASSUME NEW m \in Memory, NEW n \in Memory, NEW o \in Base .. Top,
         n[o - 2] = m[o - 2], n[o - 1] = m[o - 1]
  PROVE  NextOf(n, o) = NextOf(m, o)
BY HeaderIs

\* A word of which the low byte is new.
LEMMA LowStore ==
  ASSUME NEW m \in Memory, NEW o \in Base .. Top, NEW b \in ByteSet,
         NEW n, n = Store(m, o - 3, b + ByteSize * m[o - 2])
  PROVE  n \in Memory /\ n[o - 3] = b /\ Agree(m, n, {o - 3})
<1> DEFINE w == b + ByteSize * m[o - 2]
<1>1. /\ o - 3 \in HeapID .. Top - 1 /\ (o - 3) + 1 = o - 2
      /\ o - 2 \in HeapID .. Top /\ o - 2 # o - 3
  BY BaseIs
<1>2. m[o - 2] \in ByteSet
  BY <1>1 DEF Memory
<1>3. w \in Words /\ w % ByteSize = b /\ w \div ByteSize = m[o - 2]
  BY <1>2, WordOfBytes
<1> HIDE DEF w
<1>4. n = Store(m, o - 3, w)
  BY DEF w
<1>5. /\ n \in Memory /\ n[o - 3] = b /\ n[o - 2] = m[o - 2]
      /\ \A x \in HeapID .. Top : x # o - 3 /\ x # o - 2 => n[x] = m[x]
  BY <1>1, <1>3, <1>4, StoreIs
<1> QED
  BY <1>5 DEF Agree

\* The flag of a fitting object is set.
LEMMA MarkFitIs ==
  ASSUME NEW m \in Memory, NEW o \in Base .. Top
  PROVE  LET n == MarkFit(m, o)
         IN  n \in Memory /\ n[o - 3] = 1 /\ Agree(m, n, {o - 3})
<1>1. KeepHigh(m, o) = ByteSize * m[o - 2] /\ m[o - 2] \in Nat
  BY HeaderIs DEF Memory, ByteSet
<1>2. KeepHigh(m, o) + 1 = 1 + ByteSize * m[o - 2]
  BY <1>1
<1>3. 1 \in ByteSet
  BY DEF ByteSet
<1> QED
  BY <1>2, <1>3, LowStore DEF MarkFit

\* The flag of a deleted object is cleared.
LEMMA ClearIs ==
  ASSUME NEW m \in Memory, NEW o \in Base .. Top
  PROVE  LET n == Clear(m, o)
         IN  n \in Memory /\ n[o - 3] = 0 /\ Agree(m, n, {o - 3})
<1>1. KeepHigh(m, o) = ByteSize * m[o - 2] /\ m[o - 2] \in Nat
  BY HeaderIs DEF Memory, ByteSet
<1>2. KeepHigh(m, o) = 0 + ByteSize * m[o - 2]
  BY <1>1
<1>3. 0 \in ByteSet
  BY DEF ByteSet
<1> QED
  BY <1>2, <1>3, LowStore DEF Clear

\* A next pointer is stored.
LEMMA NextStore ==
  ASSUME NEW m \in Memory, NEW o \in Base .. Top, NEW w \in Words, NEW n, n = Store(m, o - 2, w)
  PROVE  n \in Memory /\ NextOf(n, o) = w /\ Agree(m, n, {o - 2, o - 1})
<1>1. o - 2 \in HeapID .. Top - 1 /\ (o - 2) + 1 = o - 1
  BY BaseIs
<1>2. /\ n \in Memory /\ Load(n, o - 2) = w
      /\ \A x \in HeapID .. Top : x # o - 2 /\ x # o - 1 => n[x] = m[x]
  BY <1>1, StoreIs
<1> QED
  BY <1>2 DEF NextOf, Agree

\* A flag is stored as a word.
LEMMA FlagStore ==
  ASSUME NEW m \in Memory, NEW o \in Base .. Top, NEW b \in {0, 1}, NEW n, n = Store(m, o - 3, b)
  PROVE  n \in Memory /\ n[o - 3] = b /\ Agree(m, n, {o - 3, o - 2})
<1>1. o - 3 \in HeapID .. Top - 1 /\ (o - 3) + 1 = o - 2
  BY BaseIs
<1>2. b \in ByteSet /\ 0 \in ByteSet /\ b + ByteSize * 0 = b
  BY DEF ByteSet
<1>3. b \in Words /\ b % ByteSize = b
  BY <1>2, WordOfBytes
<1>4. /\ n \in Memory /\ n[o - 3] = b
      /\ \A x \in HeapID .. Top : x # o - 3 /\ x # o - 2 => n[x] = m[x]
  BY <1>1, <1>3, StoreIs
<1> QED
  BY <1>4 DEF Agree

\* A new object q behind o: the headers of the two.
Linked(m, n, o, q) ==
  /\ n[q - 3] = 0 /\ NextOf(n, o) = q /\ NextOf(n, q) = NextOf(m, o)
  /\ Agree(m, n, Header(o) \cup Header(q))

\* The stores that split an object link the new one behind it.
LEMMA SplitOffIs ==
  ASSUME NEW m \in Memory, NEW o \in Base .. Top, NEW q \in o + 4 .. Top
  PROVE  LET n == SplitOff(m, o, q)
         IN  n \in Memory /\ n[o - 3] = m[o - 3] /\ Linked(m, n, o, q)
<1> DEFINE m1 == Store(m, q - 2, 0)
           m2 == Store(m1, q - 3, 0)
           m3 == Store(m2, o - 2, q)
           w  == NextOf(m, o)
           n  == Store(m3, q - 2, w)
<1>1. SplitOff(m, o, q) = n
  BY DEF SplitOff
<1>2. /\ q \in Base .. Top /\ 0 \in Words /\ q \in Words /\ NextOf(m, o) \in Words
      /\ Header(o) \cup Header(q) \subseteq HeapID .. Top
      /\ o - 3 \notin Header(q) /\ o - 2 \notin Header(q) /\ o - 1 \notin Header(q)
      /\ q - 3 \notin Header(o) /\ q - 3 # q - 2 /\ q - 3 # q - 1
      /\ o - 3 # o - 2 /\ o - 3 # o - 1
  BY HeaderIs, BaseIs, WordIs DEF Words, Header
<1>3. m1 \in Memory /\ Agree(m, m1, {q - 2, q - 1})
  BY <1>2, NextStore
<1> HIDE DEF m1
<1>4. m2 \in Memory /\ m2[q - 3] = 0 /\ Agree(m1, m2, {q - 3, q - 2})
  BY <1>2, <1>3, FlagStore
<1> HIDE DEF m2
<1>5. m3 \in Memory /\ NextOf(m3, o) = q /\ Agree(m2, m3, {o - 2, o - 1})
  BY <1>2, <1>4, NextStore
<1> HIDE DEF m3
<1>9. w \in Words
  BY <1>2
<1> HIDE DEF w
<1>6. n \in Memory /\ NextOf(n, q) = w /\ Agree(m3, n, {q - 2, q - 1})
  BY <1>2, <1>5, <1>9, NextStore
<1> HIDE DEF n
<1>7. Agree(m, n, Header(o) \cup Header(q)) /\ n[o - 3] = m[o - 3] /\ n[q - 3] = 0
  BY <1>2, <1>3, <1>4, <1>5, <1>6 DEF Agree, Header
<1>8. NextOf(n, o) = q
  <2>1. n[o - 2] = m3[o - 2] /\ n[o - 1] = m3[o - 1]
    BY <1>2, <1>6 DEF Agree, Header
  <2> QED
    BY <1>5, <1>6, <2>1, SameNext
<1> QED
  BY <1>1, <1>6, <1>7, <1>8 DEF Linked, w

\* So do the stores at the end of the chain.
LEMMA TailStoresIs ==
  ASSUME NEW m \in Memory, NEW o \in Base .. Top, NEW q \in o + 4 .. Top, NextOf(m, o) = 0
  PROVE  LET n == TailStores(m, o, q)
         IN  n \in Memory /\ n[o - 3] = 1 /\ Linked(m, n, o, q)
<1> DEFINE m1 == Store(m, o - 3, 1)
           m2 == Store(m1, o - 2, q)
           m3 == Store(m2, q - 3, 0)
           n  == Store(m3, q - 2, 0)
<1>1. TailStores(m, o, q) = n
  BY DEF TailStores
<1>2. /\ q \in Base .. Top /\ 0 \in Words /\ q \in Words
      /\ Header(o) \cup Header(q) \subseteq HeapID .. Top
      /\ o - 3 \notin Header(q) /\ o - 2 \notin Header(q) /\ o - 1 \notin Header(q)
      /\ q - 3 \notin Header(o) /\ q - 3 # q - 2 /\ q - 3 # q - 1
      /\ o - 3 # o - 2 /\ o - 3 # o - 1
  BY BaseIs, WordIs DEF Words, Header
<1>3. m1 \in Memory /\ m1[o - 3] = 1 /\ Agree(m, m1, {o - 3, o - 2})
  BY FlagStore
<1> HIDE DEF m1
<1>4. m2 \in Memory /\ NextOf(m2, o) = q /\ Agree(m1, m2, {o - 2, o - 1})
  BY <1>2, <1>3, NextStore
<1> HIDE DEF m2
<1>5. m3 \in Memory /\ m3[q - 3] = 0 /\ Agree(m2, m3, {q - 3, q - 2})
  <2>1. m2 \in Memory /\ q \in Base .. Top /\ 0 \in {0, 1}
    BY <1>2, <1>4
  <2> QED
    BY <2>1, FlagStore
<1> HIDE DEF m3
<1>6. n \in Memory /\ NextOf(n, q) = 0 /\ Agree(m3, n, {q - 2, q - 1})
  BY <1>2, <1>5, NextStore
<1> HIDE DEF n
<1>7. Agree(m, n, Header(o) \cup Header(q)) /\ n[o - 3] = 1 /\ n[q - 3] = 0
  BY <1>2, <1>3, <1>4, <1>5, <1>6 DEF Agree, Header
<1>8. NextOf(n, o) = q
  <2>1. n[o - 2] = m2[o - 2] /\ n[o - 1] = m2[o - 1]
    BY <1>2, <1>5, <1>6 DEF Agree, Header
  <2> QED
    BY <1>4, <1>6, <2>1, SameNext
<1> QED
  BY <1>1, <1>6, <1>7, <1>8 DEF Linked

\* The bytes that make the chain: the two words of the region and the headers.
Headers(S) == HeapID .. HeapID + 3 \cup UNION {Header(o) : o \in S}

\* Headers have their bytes to themselves.
LEMMA HeadersApart ==
  ASSUME NEW m \in Memory, NEW S, Chain(m, S), NEW o \in S
  PROVE  /\ \A p \in S : p # o => Header(p) \cap Header(o) = {}
         /\ Header(o) \cap (HeapID .. HeapID + 3) = {}
         /\ Header(o) \subseteq HeapID .. Top
         /\ Header(o) \subseteq Headers(S)
<1>1. \A p \in S : p \in Nat /\ p >= Base /\ p <= Top
  BY BaseIs DEF Chain
<1>2. ASSUME NEW p \in S, p # o PROVE Header(p) \cap Header(o) = {}
  <2>1. o + 3 <= p \/ p + 3 <= o
    BY <1>1, <1>2 DEF Chain
  <2> QED
    BY <1>1, <2>1 DEF Header
<1>3. Header(o) \cap (HeapID .. HeapID + 3) = {}
  BY <1>1, BaseIs DEF Header
<1>4. Header(o) \subseteq HeapID .. Top
  BY <1>1, BaseIs DEF Header
<1> QED
  BY <1>2, <1>3, <1>4 DEF Headers

\* The words at the start of the region.
LEMMA SameWords ==
  ASSUME NEW m \in Memory, NEW n \in Memory, \A a \in HeapID .. HeapID + 3 : n[a] = m[a]
  PROVE  FirstOf(n) = FirstOf(m) /\ Load(n, HeapID + 2) = Load(m, HeapID + 2)
<1>1. /\ HeapID \in HeapID .. Top - 1 /\ HeapID + 2 \in HeapID .. Top - 1
      /\ (HeapID + 2) + 1 = HeapID + 3
      /\ \A i \in 0 .. 3 : HeapID + i \in HeapID .. HeapID + 3
  BY BaseIs
<1>2. n[HeapID] = m[HeapID] /\ n[HeapID + 1] = m[HeapID + 1]
      /\ n[HeapID + 2] = m[HeapID + 2] /\ n[HeapID + 3] = m[HeapID + 3]
  BY <1>1
<1> QED
  BY <1>1, <1>2, LoadIs DEF FirstOf

\* Next pointers and these words are all that a chain is.
LEMMA NextsChain ==
  ASSUME NEW m \in Memory, NEW n \in Memory, NEW S, Chain(m, S),
         \A a \in HeapID .. HeapID + 3 : n[a] = m[a],
         \A o \in S : NextOf(n, o) = NextOf(m, o)
  PROVE  Chain(n, S)
BY SameWords DEF Chain

\* What changes no header changes neither the chain nor the flags.
LEMMA SameChain ==
  ASSUME NEW m \in Memory, NEW n \in Memory, NEW S, Chain(m, S),
         \A a \in Headers(S) : n[a] = m[a]
  PROVE  Chain(n, S) /\ InUse(n, S) = InUse(m, S)
<1>1. \A o \in S : NextOf(n, o) = NextOf(m, o) /\ Flag(n, o) = Flag(m, o)
  <2> SUFFICES ASSUME NEW o \in S
               PROVE  NextOf(n, o) = NextOf(m, o) /\ Flag(n, o) = Flag(m, o)
    OBVIOUS
  <2>1. o \in Base .. Top
    BY DEF Chain
  <2>2. n[o - 3] = m[o - 3] /\ n[o - 2] = m[o - 2] /\ n[o - 1] = m[o - 1]
    BY HeadersApart DEF Header
  <2> QED
    BY <2>1, <2>2, SameHeader
<1>2. \A a \in HeapID .. HeapID + 3 : n[a] = m[a]
  BY DEF Headers
<1> QED
  BY <1>1, <1>2, NextsChain DEF InUse

\* A flag is set or cleared.
LEMMA FlagChain ==
  ASSUME NEW m \in Memory, NEW n \in Memory, NEW S, Chain(m, S), NEW o \in S,
         Agree(m, n, {o - 3})
  PROVE  /\ Chain(n, S)
         /\ n[o - 3] # 0 => InUse(n, S) = InUse(m, S) \cup {o}
         /\ n[o - 3] = 0 => InUse(n, S) = InUse(m, S) \ {o}
<1>1. \A p \in S : p \in Base .. Top /\ p \in Nat /\ p >= Base /\ p <= Top
  BY BaseIs DEF Chain
<1>2. ASSUME NEW p \in S
      PROVE  NextOf(n, p) = NextOf(m, p) /\ (p # o => Flag(n, p) = Flag(m, p))
  <2>1. p - 2 # o - 3 /\ p - 1 # o - 3 /\ (p # o => p - 3 # o - 3)
    <3>1. p # o => o + 3 <= p \/ p + 3 <= o
      BY <1>1 DEF Chain
    <3> QED
      BY <1>1, <3>1
  <2>2. p - 3 \in HeapID .. Top /\ p - 2 \in HeapID .. Top /\ p - 1 \in HeapID .. Top
    BY <1>1, HeaderIs
  <2>3. n[p - 2] = m[p - 2] /\ n[p - 1] = m[p - 1] /\ (p # o => n[p - 3] = m[p - 3])
    BY <2>1, <2>2 DEF Agree
  <2> QED
    BY <1>1, <2>3, SameNext, HeaderIs
<1>3. \A a \in HeapID .. HeapID + 3 : n[a] = m[a]
  <2> SUFFICES ASSUME NEW a \in HeapID .. HeapID + 3 PROVE n[a] = m[a]
    OBVIOUS
  <2>1. a \in HeapID .. Top /\ a # o - 3
    BY <1>1, BaseIs
  <2> QED
    BY <2>1 DEF Agree
<1>4. Chain(n, S)
  BY <1>2, <1>3, NextsChain
<1>5. Flag(n, o) = n[o - 3]
  BY <1>1, HeaderIs
<1> QED
  BY <1>2, <1>4, <1>5 DEF InUse

\* The stores put the free object q behind o, which is now in use ...
Growing(m, n, S, o, q) ==
  /\ m \in Memory /\ n \in Memory /\ Chain(m, S) /\ o \in S
  /\ q \in o + 4 .. Top /\ \A p \in S : p > o => q + 3 <= p
  /\ Linked(m, n, o, q) /\ n[o - 3] # 0

\* ... and so does the chain.
Grows(m, n, S, o, q) ==
  Chain(n, S \cup {q}) /\ InUse(n, S \cup {q}) = InUse(m, S) \cup {o}

\* Putting q in is putting it in the chain.
LEMMA Grown ==
  ASSUME NEW m, NEW n, NEW S, NEW o, NEW q, Growing(m, n, S, o, q)
  PROVE  Grows(m, n, S, o, q)
<1> DEFINE R == S \cup {q}
<1> USE DEF Growing
<1>1. /\ \A p \in S : p \in Base .. Top /\ p \in Nat /\ p >= Base /\ p <= Top
      /\ \A p \in S : p # o => o + 3 <= p \/ p + 3 <= o
      /\ q \in Nat /\ q \in Base .. Top /\ q >= o + 4 /\ q <= Top
  BY BaseIs DEF Chain
<1>2. \A p \in S : p < o => p + 3 <= o
  BY DEF Chain
<1>3. \A p \in S : p > o => q + 3 <= p
  OBVIOUS
<1>4. ASSUME NEW p \in S, p # o
      PROVE  NextOf(n, p) = NextOf(m, p) /\ Flag(n, p) = Flag(m, p)
  <2>1. p < o \/ p > o
    BY <1>1, <1>4
  <2>2. p + 3 <= o \/ q + 3 <= p
    BY <1>2, <1>3, <2>1
  <2>3. /\ p - 3 \notin Header(o) \cup Header(q)
        /\ p - 2 \notin Header(o) \cup Header(q)
        /\ p - 1 \notin Header(o) \cup Header(q)
    <3>1. o \in Nat /\ p \in Nat
      BY <1>1
    <3> QED
      BY <1>1, <2>2, <3>1 DEF Header
  <2>4. p - 3 \in HeapID .. Top /\ p - 2 \in HeapID .. Top /\ p - 1 \in HeapID .. Top
    BY <1>1, HeaderIs
  <2>5. n[p - 3] = m[p - 3] /\ n[p - 2] = m[p - 2] /\ n[p - 1] = m[p - 1]
    BY <2>3, <2>4 DEF Linked, Agree
  <2> QED
    BY <1>1, <2>5, SameHeader
<1>5. R \subseteq Base .. Top /\ Base \in R
  BY <1>1 DEF Chain
<1>6. \A x, y \in R : x < y => x + 3 <= y
  <2> SUFFICES ASSUME NEW x \in R, NEW y \in R, x < y PROVE x + 3 <= y
    OBVIOUS
  <2>1. CASE x \in S /\ y \in S
    BY <2>1 DEF Chain
  <2>2. CASE x = q /\ y \in S
    <3>1. y > o
      BY <1>1, <2>2
    <3> QED
      BY <1>3, <2>2, <3>1
  <2>3. CASE x \in S /\ y = q
    <3>1. ~ (x > o)
      <4>1. x > o => q + 3 <= x
        BY <1>3, <2>3
      <4> QED
        BY <1>1, <2>3, <4>1
    <3> QED
      BY <1>1, <2>3, <3>1
  <2>4. ~ (q < q)
    BY <1>1
  <2> QED
    BY <2>1, <2>2, <2>3, <2>4
<1>7. ASSUME NEW x \in R PROVE P!IsNext(R, x, NextOf(n, x))
  <2>1. CASE x = o
    <3>1. NextOf(n, o) = q
      BY DEF Linked
    <3>2. \A p \in R : p > o => p >= q
      BY <1>1, <1>3
    <3> QED
      BY <1>1, <2>1, <3>1, <3>2 DEF P!IsNext
  <2>2. CASE x = q
    <3> DEFINE w == NextOf(m, o)
    <3>1. NextOf(n, q) = w
      BY DEF Linked
    <3>2. /\ w # 0 => w \in S /\ w >= o + 3
          /\ w # 0 => \A p \in S : p > o => p >= w
          /\ w = 0 => \A p \in S : p <= o
      BY NextIs
    <3> HIDE DEF w
    <3>3. CASE w = 0
      <4>1. \A p \in R : p <= q
        BY <1>1, <3>2, <3>3
      <4> QED
        BY <2>2, <3>1, <3>3, <4>1 DEF P!IsNext
    <3>4. CASE w # 0
      <4>1. w \in S /\ w > o
        BY <1>1, <3>2, <3>4
      <4>2. w > q
        BY <1>1, <1>3, <4>1
      <4>3. \A p \in R : p > q => p >= w
        <5>1. \A p \in R : p > q => p \in S /\ p > o
          BY <1>1
        <5> QED
          BY <3>2, <3>4, <5>1
      <4> QED
        BY <2>2, <3>1, <4>1, <4>2, <4>3 DEF P!IsNext
    <3> QED
      BY <3>3, <3>4
  <2>3. CASE x \in S /\ x # o
    <3> DEFINE w == NextOf(m, x)
    <3>1. NextOf(n, x) = w
      BY <1>4, <2>3
    <3>2. /\ w # 0 => w \in S /\ w >= x + 3
          /\ w # 0 => \A p \in S : p > x => p >= w
          /\ w = 0 => \A p \in S : p <= x
      BY <2>3, NextIs
    <3> HIDE DEF w
    <3>3. x < o \/ q + 3 <= x
      BY <1>1, <1>3, <2>3
    <3>4. CASE w = 0
      <4>1. ~ (x < o)
        BY <1>1, <2>3, <3>2, <3>4
      <4>2. \A p \in R : p <= x
        BY <1>1, <2>3, <3>2, <3>3, <3>4, <4>1
      <4> QED
        BY <3>1, <3>4, <4>2 DEF P!IsNext
    <3>5. CASE w # 0
      <4>1. w \in S /\ w > x
        BY <1>1, <2>3, <3>2, <3>5
      <4>2. q > x => q >= w
        <5>1. x < o => o >= w
          BY <3>2, <3>5
        <5> QED
          BY <1>1, <2>3, <3>3, <4>1, <5>1
      <4>3. \A p \in R : p > x => p >= w
        BY <3>2, <3>5, <4>2
      <4> QED
        BY <3>1, <4>1, <4>3 DEF P!IsNext
    <3> QED
      BY <3>4, <3>5
  <2> QED
    BY <2>1, <2>2, <2>3
<1>8. \A a \in HeapID .. HeapID + 3 : n[a] = m[a]
  <2> SUFFICES ASSUME NEW a \in HeapID .. HeapID + 3 PROVE n[a] = m[a]
    OBVIOUS
  <2>1. a \in HeapID .. Top /\ a \notin Header(o) \cup Header(q)
    BY <1>1, BaseIs DEF Header
  <2> QED
    BY <2>1 DEF Linked, Agree
<1>9. FirstOf(n) = Base /\ Load(n, HeapID + 2) = SizeInBytes - 4
  BY <1>8, SameWords DEF Chain
<1>10. Chain(n, R)
  BY <1>5, <1>6, <1>7, <1>9 DEF Chain
<1>11. InUse(n, R) = InUse(m, S) \cup {o}
  <2>1. q \notin S
    <3>1. q \in S /\ q > o => q + 3 <= q
      BY <1>3
    <3> QED
      BY <1>1, <3>1
  <2>2. Flag(n, q) = 0 /\ Flag(n, o) # 0
    <3>1. Flag(n, q) = n[q - 3] /\ Flag(n, o) = n[o - 3]
      BY <1>1, HeaderIs
    <3> QED
      BY <3>1 DEF Linked
  <2> QED
    BY <1>4, <2>1, <2>2 DEF InUse
<1> QED
  BY <1>10, <1>11 DEF Grows

-----------------------------------------------------------------------------
(***************************************************************************)
(* The objects that HeapDefrag unlinks, as a set: Cut is what the visits   *)
(* to the objects D unlink.                                                *)
(***************************************************************************)
Cut(S, U, D) == {p \in S \ U : \E x \in D \ U : x < p /\ \A q \in U : ~ (x < q /\ q < p)}

\* The outer loop is at x, after visits to the objects D.
Reached(S, U, D, x) ==
  /\ x \in S /\ x \in P!Visited(S, U) /\ D \subseteq S \cap P!Visited(S, U)
  /\ Base \in D \cup {x}
  /\ \A v \in D : v < x
  /\ \A v \in D \ U : \E q \in U : v < q /\ q < x
  /\ \A v \in D, w \in S : P!Visits(S, U, v, w) => w \in D \cup {x}

\* The outer loop tests y again, in use, with its index at what follows y.
Passed(S, U, D, y, z) ==
  /\ y \in U /\ z \in S \cup {0} /\ P!IsNext(S, y, z) /\ D \subseteq S \cap P!Visited(S, U)
  /\ Base \in D
  /\ \A v \in D : v < y
  /\ \A v \in D \ U : \E q \in U : v < q /\ q <= y
  /\ \A v \in D, w \in S : P!Visits(S, U, v, w) => w \in D \/ (z # 0 /\ P!IsNext(S, z, w))
  /\ \A w \in S : z # 0 /\ P!IsNext(S, z, w) => w \in P!Visited(S, U)

\* Every visit has been made.
Closed(S, U, D) ==
  /\ D \subseteq S \cap P!Visited(S, U)
  /\ Base \in D
  /\ \A v \in D, w \in S : P!Visits(S, U, v, w) => w \in D

\* The first object is the one of module Heap.
LEMMA FirstIs == P!First = Base /\ Base .. Top \subseteq P!First .. Word - 1
BY WordIs DEF P!First, P!HEAP_HEAD_SIZE, P!OBJ_HEAD_SIZE, Base

\* When every visit has been made, Cut is Joined of module Heap.
LEMMA ClosedIs ==
  ASSUME NEW S \in SUBSET (Base .. Top), NEW U \in SUBSET S, NEW D, Closed(S, U, D)
  PROVE  Cut(S, U, D) = P!Joined(S, U)
<1>1. S \in SUBSET (P!First .. Word - 1)
  BY FirstIs
<1>2. P!Visited(S, U) \subseteq D
  BY <1>1, FirstIs, HeapSized, P!VisitedLeast DEF Closed
<1>3. D = S \cap P!Visited(S, U)
  BY <1>2 DEF Closed
<1> QED
  BY <1>3 DEF Cut, P!Joined

\* An object has one next object.
LEMMA NextOnce ==
  ASSUME NEW S \in SUBSET (Base .. Top), NEW o \in S, NEW a \in S \cup {0}, NEW b \in S \cup {0},
         P!IsNext(S, o, a), P!IsNext(S, o, b)
  PROVE  a = b
<1>1. \A p \in S : p \in Nat /\ p # 0
  BY BaseIs
<1>2. \/ a = 0 /\ \A p \in S : p <= o
      \/ a \in S /\ a > o /\ \A p \in S : p > o => p >= a
  BY DEF P!IsNext
<1>3. \/ b = 0 /\ \A p \in S : p <= o
      \/ b \in S /\ b > o /\ \A p \in S : p > o => p >= b
  BY DEF P!IsNext
<1> QED
  BY <1>1, <1>2, <1>3

\* What the visits unlink lies below an object in use.
LEMMA CutBelow ==
  ASSUME NEW S \in SUBSET (Base .. Top), NEW U \in SUBSET S, NEW D \in SUBSET S,
         NEW Q \in SUBSET U, \A v \in D \ U : \E q \in Q : v < q
  PROVE  \A p \in Cut(S, U, D) : \E q \in Q : p < q
<1>1. \A p \in S : p \in Nat
  BY BaseIs
<1> SUFFICES ASSUME NEW p \in Cut(S, U, D) PROVE \E q \in Q : p < q
  OBVIOUS
<1>2. p \in S \ U
  BY DEF Cut
<1>3. PICK v \in D \ U : v < p /\ \A q \in U : ~ (v < q /\ q < p)
  BY DEF Cut
<1>4. PICK q \in Q : v < q
  BY <1>3
<1>5. p <= q /\ p # q
  BY <1>1, <1>2, <1>3, <1>4
<1> QED
  BY <1>1, <1>2, <1>4, <1>5

\* A visit to an object in use unlinks nothing.
LEMMA CutUsed ==
  ASSUME NEW S, NEW U, NEW D, NEW x \in U
  PROVE  Cut(S, U, D \cup {x}) = Cut(S, U, D)
BY DEF Cut

\* A visit to a free object unlinks the free ones up to y.
LEMMA CutFree ==
  ASSUME NEW S \in SUBSET (Base .. Top), NEW U \in SUBSET S, NEW D \in SUBSET S,
         NEW x \in S \ U, NEW y \in U,
         x < y, \A q \in U : ~ (x < q /\ q < y)
  PROVE  Cut(S, U, D \cup {x}) = Cut(S, U, D) \cup {p \in S \ U : x < p /\ p < y}
<1>1. \A p \in S : p \in Nat
  BY BaseIs
<1>2. ASSUME NEW p \in S \ U
      PROVE  (x < p /\ \A q \in U : ~ (x < q /\ q < p)) <=> (x < p /\ p < y)
  <2>1. ASSUME x < p, \A q \in U : ~ (x < q /\ q < p) PROVE p < y
    <3>1. p # y /\ ~ (y < p)
      BY <2>1
    <3> QED
      BY <1>1, <3>1
  <2>2. ASSUME x < p, p < y, NEW q \in U PROVE ~ (x < q /\ q < p)
    BY <1>1, <2>2
  <2> QED
    BY <2>1, <2>2
<1>3. Cut(S, U, D \cup {x})
        = Cut(S, U, D) \cup {p \in S \ U : x < p /\ \A q \in U : ~ (x < q /\ q < p)}
  BY DEF Cut
<1>4. {p \in S \ U : x < p /\ \A q \in U : ~ (x < q /\ q < p)} = {p \in S \ U : x < p /\ p < y}
  BY <1>2
<1> QED
  BY <1>3, <1>4

\* With no object in use above it, all of those above.
LEMMA CutLast ==
  ASSUME NEW S \in SUBSET (Base .. Top), NEW U \in SUBSET S, NEW D \in SUBSET S,
         NEW x \in S \ U, \A q \in U : ~ (x < q)
  PROVE  Cut(S, U, D \cup {x}) = Cut(S, U, D) \cup {p \in S \ U : x < p}
BY DEF Cut

\* Where the walk goes from an object in use.
LEMMA ReachUsed ==
  ASSUME NEW S \in SUBSET (Base .. Top), NEW U \in SUBSET S, NEW D \in SUBSET S, NEW x \in U,
         NEW n \in S \cup {0}, Reached(S, U, D, x), P!IsNext(S, x, n)
  PROVE  /\ n # 0 => Reached(S, U, D \cup {x}, n)
         /\ n = 0 => Closed(S, U, D \cup {x})
<1>1. \A p \in S : p \in Nat /\ p # 0
  BY BaseIs
<1>2. S \in SUBSET (P!First .. Word - 1)
  BY FirstIs
<1>3. \A w \in S : P!Visits(S, U, x, w) <=> P!IsNext(S, x, w)
  BY DEF P!Visits
<1>4. \A w \in S : P!IsNext(S, x, w) => w = n
  BY NextOnce
<1>5. CASE n # 0
  <2>1. n \in S /\ n > x
    BY <1>1, <1>5 DEF P!IsNext
  <2>2. n \in P!Visited(S, U)
    <3>1. P!Visits(S, U, x, n) /\ x \in P!Visited(S, U)
      BY <1>3, <2>1 DEF Reached
    <3>2. P!VisitedFrom(S, U, P!Visited(S, U), n)
      BY <3>1 DEF P!VisitedFrom
    <3> QED
      BY <1>2, <2>1, <3>2, HeapSized, P!VisitedIs
  <2>3. \A v \in D \cup {x} : v < n
    BY <1>1, <2>1 DEF Reached
  <2>4. \A v \in (D \cup {x}) \ U : \E q \in U : v < q /\ q < n
    <3> SUFFICES ASSUME NEW v \in D \ U PROVE \E q \in U : v < q /\ q < n
      OBVIOUS
    <3>1. PICK q \in U : v < q /\ q < x
      BY DEF Reached
    <3> QED
      BY <1>1, <2>1, <3>1
  <2>5. \A v \in D \cup {x}, w \in S : P!Visits(S, U, v, w) => w \in (D \cup {x}) \cup {n}
    BY <1>3, <1>4 DEF Reached
  <2> QED
    BY <1>5, <2>1, <2>2, <2>3, <2>4, <2>5 DEF Reached
<1>6. CASE n = 0
  <2>1. \A v \in D \cup {x}, w \in S : P!Visits(S, U, v, w) => w \in D \cup {x}
    BY <1>1, <1>3, <1>4, <1>6 DEF Reached
  <2> QED
    BY <1>6, <2>1 DEF Reached, Closed
<1> QED
  BY <1>5, <1>6

\* From a free object with none in use above, nowhere.
LEMMA ReachLast ==
  ASSUME NEW S \in SUBSET (Base .. Top), NEW U \in SUBSET S, NEW D \in SUBSET S, NEW x \in S \ U,
         Reached(S, U, D, x), \A q \in U : ~ (x < q)
  PROVE  Closed(S, U, D \cup {x})
<1>1. \A p \in S : p \in Nat /\ p # 0
  BY BaseIs
<1>2. \A w \in S : ~ P!Visits(S, U, x, w)
  BY <1>1 DEF P!Visits
<1> QED
  BY <1>2 DEF Reached, Closed

\* From a free object to the second one above the next in use.
LEMMA ReachPass ==
  ASSUME NEW S \in SUBSET (Base .. Top), NEW U \in SUBSET S, NEW D \in SUBSET S, NEW x \in S \ U,
         Reached(S, U, D, x), NEW y \in U, x < y, \A q \in U : ~ (x < q /\ q < y),
         NEW z \in S \cup {0}, P!IsNext(S, y, z)
  PROVE  Passed(S, U, D \cup {x}, y, z)
<1>1. \A p \in S : p \in Nat /\ p # 0
  BY BaseIs
<1>2. S \in SUBSET (P!First .. Word - 1)
  BY FirstIs
<1>3. ASSUME NEW w \in S PROVE P!Visits(S, U, x, w) <=> z # 0 /\ P!IsNext(S, z, w)
  <2>1. ASSUME P!Visits(S, U, x, w) PROVE z # 0 /\ P!IsNext(S, z, w)
    <3>1. PICK t \in U, m \in S :
            /\ t > x /\ \A p \in U : p > x => p >= t
            /\ P!IsNext(S, t, m) /\ P!IsNext(S, m, w)
      BY <2>1 DEF P!Visits
    <3>2. t = y
      <4>1. y >= t /\ ~ (t < y)
        BY <3>1
      <4> QED
        BY <1>1, <4>1
    <3>3. m = z
      BY <3>1, <3>2, NextOnce
    <3> QED
      BY <1>1, <3>1, <3>3
  <2>2. ASSUME z # 0, P!IsNext(S, z, w) PROVE P!Visits(S, U, x, w)
    <3>1. \A p \in U : p > x => p >= y
      BY <1>1
    <3> QED
      BY <2>2, <3>1 DEF P!Visits
  <2> QED
    BY <2>1, <2>2
<1>4. \A v \in D \cup {x}, w \in S :
        P!Visits(S, U, v, w) => w \in D \cup {x} \/ (z # 0 /\ P!IsNext(S, z, w))
  BY <1>3 DEF Reached
<1>5. \A w \in S : z # 0 /\ P!IsNext(S, z, w) => w \in P!Visited(S, U)
  <2> SUFFICES ASSUME NEW w \in S, z # 0, P!IsNext(S, z, w) PROVE w \in P!Visited(S, U)
    OBVIOUS
  <2>1. P!VisitedFrom(S, U, P!Visited(S, U), w)
    BY <1>3 DEF P!VisitedFrom, Reached
  <2> QED
    BY <1>2, <2>1, HeapSized, P!VisitedIs
<1>6. \A v \in D \cup {x} : v < y
  BY <1>1 DEF Reached
<1>7. \A v \in (D \cup {x}) \ U : \E q \in U : v < q /\ q <= y
  <2> SUFFICES ASSUME NEW v \in (D \cup {x}) \ U PROVE \E q \in U : v < q /\ q <= y
    OBVIOUS
  <2>1. CASE v = x
    BY <1>1, <2>1
  <2>2. CASE v \in D
    <3>1. PICK q \in U : v < q /\ q < x
      BY <2>2 DEF Reached
    <3> QED
      BY <1>1, <3>1
  <2> QED
    BY <2>1, <2>2
<1> QED
  BY <1>4, <1>5, <1>6, <1>7 DEF Reached, Passed

\* And on from there.
LEMMA PassReach ==
  ASSUME NEW S \in SUBSET (Base .. Top), NEW U \in SUBSET S, NEW D \in SUBSET S, NEW y, NEW z,
         Passed(S, U, D, y, z)
  PROVE  /\ z = 0 => Closed(S, U, D)
         /\ \A n \in S \cup {0} : z # 0 /\ P!IsNext(S, z, n) =>
              /\ n # 0 => n > y /\ Reached(S, U, D, n)
              /\ n = 0 => Closed(S, U, D)
<1>1. \A p \in S : p \in Nat /\ p # 0
  BY BaseIs
<1>2. z = 0 => Closed(S, U, D)
  BY DEF Passed, Closed
<1>3. ASSUME NEW n \in S, z # 0, P!IsNext(S, z, n)
      PROVE  n > y /\ Reached(S, U, D, n)
  <2>1. z \in S /\ y \in S /\ z > y /\ n > z
    BY <1>1, <1>3 DEF Passed, P!IsNext
  <2>2. n > y /\ y < n
    BY <1>1, <2>1
  <2>3. \A w \in S : P!IsNext(S, z, w) => w = n
    BY <1>3, <2>1, NextOnce
  <2>4. \A v \in D, w \in S : P!Visits(S, U, v, w) => w \in D \cup {n}
    BY <2>3 DEF Passed
  <2>5. \A v \in D : v < n
    BY <1>1, <2>1, <2>2 DEF Passed
  <2>6. \A v \in D \ U : \E q \in U : v < q /\ q < n
    <3> SUFFICES ASSUME NEW v \in D \ U PROVE \E q \in U : v < q /\ q < n
      OBVIOUS
    <3>1. PICK q \in U : v < q /\ q <= y
      BY DEF Passed
    <3> QED
      BY <1>1, <2>1, <2>2, <3>1
  <2> QED
    BY <1>3, <2>2, <2>4, <2>5, <2>6 DEF Passed, Reached
<1>4. ASSUME z # 0, P!IsNext(S, z, 0)
      PROVE  Closed(S, U, D)
  <2>1. z \in S
    BY <1>4 DEF Passed
  <2>2. \A w \in S : ~ P!IsNext(S, z, w)
    BY <1>1, <1>4, <2>1, NextOnce
  <2> QED
    BY <2>2 DEF Passed, Closed
<1> QED
  BY <1>1, <1>2, <1>3, <1>4

-----------------------------------------------------------------------------
(***************************************************************************)
(* HeapDefrag on memory.                                                   *)
(***************************************************************************)
Pointers(S) == UNION {{o - 2, o - 1} : o \in S}

\* It leaves the flags alone.
LEMMA PointersOnly ==
  ASSUME NEW m \in Memory, NEW n \in Memory, NEW S, Chain(m, S), Agree(m, n, Pointers(S))
  PROVE  \A p \in S : Flag(n, p) = Flag(m, p)
<1> SUFFICES ASSUME NEW p \in S PROVE Flag(n, p) = Flag(m, p)
  OBVIOUS
<1>1. \A o \in S : o \in Base .. Top /\ o \in Nat /\ o >= Base /\ o <= Top
  BY BaseIs DEF Chain
<1>2. p - 3 \notin Pointers(S)
  <2> SUFFICES ASSUME NEW o \in S, p - 3 = o - 2 \/ p - 3 = o - 1 PROVE FALSE
    BY DEF Pointers
  <2>1. o < p /\ o + 3 > p
    BY <1>1
  <2> QED
    BY <1>1, <2>1 DEF Chain
<1>3. p - 3 \in HeapID .. Top
  BY <1>1, HeaderIs
<1> QED
  BY <1>1, <1>2, <1>3, HeaderIs DEF Agree

\* The object y after x is unlinked.
LEMMA Unlink ==
  ASSUME NEW m \in Memory, NEW C, Chain(m, C), NEW x \in C, NEW y \in C, NextOf(m, x) = y,
         NEW n, n = Store(m, x - 2, NextOf(m, y))
  PROVE  n \in Memory /\ Chain(n, C \ {y}) /\ Agree(m, n, {x - 2, x - 1})
<1> DEFINE w == NextOf(m, y)
           R == C \ {y}
<1>1. \A p \in C : p \in Base .. Top /\ p \in Nat /\ p # 0 /\ p >= Base /\ p <= Top
  BY BaseIs DEF Chain
<1>2. w \in Words /\ x \in Base .. Top
  BY <1>1, HeaderIs
<1>3. y > x /\ \A p \in C : p > x => p >= y
  BY <1>1, NextIs
<1>4. /\ w # 0 => w \in C /\ w > y
      /\ w # 0 => \A p \in C : p > y => p >= w
      /\ w = 0 => \A p \in C : p <= y
  BY <1>1, NextIs
<1> HIDE DEF w
<1>5. n = Store(m, x - 2, w)
  BY DEF w
<1>6. n \in Memory /\ NextOf(n, x) = w /\ Agree(m, n, {x - 2, x - 1})
  BY <1>2, <1>5, NextStore
<1>7. ASSUME NEW p \in C, p # x PROVE NextOf(n, p) = NextOf(m, p)
  <2>1. x + 3 <= p \/ p + 3 <= x
    BY <1>1, <1>7 DEF Chain
  <2>2. p - 2 \notin {x - 2, x - 1} /\ p - 1 \notin {x - 2, x - 1}
    BY <1>1, <2>1
  <2>3. p - 2 \in HeapID .. Top /\ p - 1 \in HeapID .. Top
    BY <1>1, HeaderIs
  <2>4. n[p - 2] = m[p - 2] /\ n[p - 1] = m[p - 1]
    BY <1>6, <2>2, <2>3 DEF Agree
  <2> QED
    BY <1>1, <1>6, <2>4, SameNext
<1>8. P!IsNext(R, x, w)
  <2>1. CASE w = 0
    <3>1. \A p \in R : p <= x
      BY <1>1, <1>3, <1>4, <2>1
    <3> QED
      BY <2>1, <3>1 DEF P!IsNext
  <2>2. CASE w # 0
    <3>1. w \in R /\ w > x
      BY <1>1, <1>3, <1>4, <2>2
    <3>2. \A p \in R : p > x => p >= w
      BY <1>1, <1>3, <1>4, <2>2
    <3> QED
      BY <3>1, <3>2 DEF P!IsNext
  <2> QED
    BY <2>1, <2>2
<1>9. ASSUME NEW p \in R, p # x PROVE P!IsNext(R, p, NextOf(m, p))
  <2> DEFINE v == NextOf(m, p)
  <2>1. /\ v # 0 => v \in C /\ v > p
        /\ v # 0 => \A q \in C : q > p => q >= v
        /\ v = 0 => \A q \in C : q <= p
    BY <1>1, <1>9, NextIs
  <2> HIDE DEF v
  <2>2. v # y
    <3> SUFFICES ASSUME v = y PROVE FALSE
      OBVIOUS
    <3>1. y > p /\ ~ (x > p) /\ ~ (p > x)
      BY <1>1, <1>3, <1>9, <2>1
    <3> QED
      BY <1>1, <1>9, <3>1
  <2>3. P!IsNext(R, p, v)
    BY <2>1, <2>2 DEF P!IsNext
  <2> QED
    BY <2>3 DEF v
<1>10. R \subseteq Base .. Top /\ Base \in R /\ \A o, p \in R : o < p => o + 3 <= p
  <2>1. Base # y
    BY <1>1, <1>3
  <2> QED
    BY <2>1 DEF Chain
<1>11. \A a \in HeapID .. HeapID + 3 : n[a] = m[a]
  <2> SUFFICES ASSUME NEW a \in HeapID .. HeapID + 3 PROVE n[a] = m[a]
    OBVIOUS
  <2>1. a \in HeapID .. Top /\ a \notin {x - 2, x - 1}
    BY <1>1, BaseIs
  <2> QED
    BY <1>6, <2>1 DEF Agree
<1>12. FirstOf(n) = Base /\ Load(n, HeapID + 2) = SizeInBytes - 4
  BY <1>6, <1>11, SameWords DEF Chain
<1>13. \A o \in R : P!IsNext(R, o, NextOf(n, o))
  BY <1>6, <1>7, <1>8, <1>9
<1> QED
  BY <1>6, <1>10, <1>12, <1>13 DEF Chain

\* next(0) is read in the top bytes of memory, which are zero.
LEMMA NextOfZero ==
  ASSUME NEW m \in Memory
  PROVE  NextOf(m, 0) = 0
<1>1. (0 - 2) % Word = Word - 2 /\ (0 - 2 + 1) % Word = Word - 1
  BY WordIs
<1>2. Word - 2 \notin DOMAIN m /\ Word - 1 \notin DOMAIN m
  BY WordIs DEF Memory
<1>3. Byte(m, 0 - 2) = 0 /\ Byte(m, 0 - 2 + 1) = 0
  BY <1>1, <1>2 DEF Byte
<1> QED
  BY <1>3 DEF NextOf, Load

\* Above what has been unlinked the chain is what it was.
LEMMA NextAbove ==
  ASSUME NEW n \in Memory, NEW C, Chain(n, C), NEW S \in SUBSET (Base .. Top), C \subseteq S,
         NEW o \in C, \A p \in S : p > o => p \in C
  PROVE  /\ NextOf(n, o) \in C \cup {0}
         /\ P!IsNext(S, o, NextOf(n, o))
         /\ NextOf(n, o) # 0 => NextOf(n, o) >= o + 3
<1>1. \A p \in S : p \in Nat /\ p # 0
  BY BaseIs
<1> DEFINE v == NextOf(n, o)
<1>2. /\ v # 0 => v \in C /\ v >= o + 3
      /\ v # 0 => \A q \in C : q > o => q >= v
      /\ v = 0 => \A q \in C : q <= o
  BY NextIs
<1> HIDE DEF v
<1>3. CASE v = 0
  <2>1. \A q \in S : q <= o
    BY <1>1, <1>2, <1>3
  <2> QED
    BY <1>2, <1>3, <2>1 DEF P!IsNext, v
<1>4. CASE v # 0
  <2>1. v \in S /\ v > o
    <3>1. v \in S /\ v \in Nat /\ o \in Nat /\ v >= o + 3
      BY <1>1, <1>2, <1>4
    <3> QED
      BY <3>1
  <2>2. \A q \in S : q > o => q >= v
    BY <1>2, <1>4
  <2> QED
    BY <1>2, <1>4, <2>1, <2>2 DEF P!IsNext, v
<1> QED
  BY <1>3, <1>4

\* A state s of the loops over the memory m, of which the chain was S and now is C.
Held(m, S, s, C) ==
  /\ s = [mem |-> s.mem, loop |-> s.loop, cond |-> s.cond, x |-> s.x]
  /\ s.mem \in Memory /\ Chain(s.mem, C) /\ C \subseteq S
  /\ Agree(m, s.mem, Pointers(S))

\* The outer loop, after k turns.
Outer(m, S, s, k) ==
  \E D \in SUBSET S :
    /\ Held(m, S, s, S \ Cut(S, InUse(m, S), D))
    /\ s.loop = "outer" /\ s.cond = s.x /\ s.x >= Base + k
    /\ Reached(S, InUse(m, S), D, s.x)

\* The outer loop, where the inner one has met an object in use.
Again(m, S, s, k) ==
  \E D \in SUBSET S :
    /\ Held(m, S, s, S \ Cut(S, InUse(m, S), D))
    /\ s.loop = "outer" /\ s.cond + 1 >= Base + k
    /\ Passed(S, InUse(m, S), D, s.cond, s.x)

\* The free objects that have been unlinked behind x, at y.
Swallowed(S, U, x, y) == {p \in S \ U : x < p /\ p < y}

Inner(m, S, s, k) ==
  \E D \in SUBSET S :
    /\ Held(m, S, s, S \ (Cut(S, InUse(m, S), D) \cup Swallowed(S, InUse(m, S), s.x, s.cond)))
    /\ s.loop = "inner" /\ s.cond \in S /\ s.cond >= Base + k
    /\ s.x \notin InUse(m, S) /\ s.x < s.cond
    /\ \A q \in InUse(m, S) : ~ (s.x < q /\ q < s.cond)
    /\ Reached(S, InUse(m, S), D, s.x)

Done(m, S, s) ==
  /\ Held(m, S, s, S \ P!Joined(S, InUse(m, S)))
  /\ s.loop = "none" \/ (s.loop = "outer" /\ s.cond = 0)

\* A turn of the outer loop.
LEMMA OuterTurnIs ==
  ASSUME NEW m \in Memory, NEW S \in SUBSET (Base .. Top), Chain(m, S), NEW s, NEW k \in Nat,
         Outer(m, S, s, k)
  PROVE  LET t == DefragTurn(s)
         IN  Outer(m, S, t, k + 1) \/ Inner(m, S, t, k + 1) \/ Done(m, S, t)
<1> DEFINE U == InUse(m, S)
           t == DefragTurn(s)
           x == s.x
           n == NextOf(s.mem, x)
<1>1. PICK D \in SUBSET S :
        /\ Held(m, S, s, S \ Cut(S, U, D))
        /\ s.loop = "outer" /\ s.cond = x /\ x >= Base + k
        /\ Reached(S, U, D, x)
  BY DEF Outer
<1> DEFINE C == S \ Cut(S, U, D)
<1>2. \A p \in S : p \in Nat /\ p # 0
  BY BaseIs
<1>3. U \in SUBSET S /\ x \in S
  BY <1>1 DEF InUse, Reached
<1>4. \A p \in S : p >= x => p \in C
  <2> DEFINE Q == {q \in U : q < x}
  <2>1. \A v \in D \ U : \E q \in Q : v < q
    BY <1>1 DEF Reached
  <2>2. Q \in SUBSET U
    OBVIOUS
  <2>3. \A q \in Q : q \in U /\ q < x
    OBVIOUS
  <2> HIDE DEF Q
  <2>4. \A p \in Cut(S, U, D) : \E q \in Q : p < q
    BY <1>3, <2>1, <2>2, CutBelow
  <2>5. \A p \in Cut(S, U, D) : p \in S
    BY DEF Cut
  <2> SUFFICES ASSUME NEW p \in S, p >= x, p \in Cut(S, U, D) PROVE FALSE
    OBVIOUS
  <2>6. PICK q \in Q : p < q
    BY <2>4
  <2>7. q \in Nat /\ p \in Nat /\ x \in Nat /\ q < x
    BY <1>2, <1>3, <2>3
  <2> QED
    BY <2>6, <2>7
<1>5. /\ s = [mem |-> s.mem, loop |-> s.loop, cond |-> s.cond, x |-> s.x]
      /\ s.mem \in Memory /\ Chain(s.mem, C) /\ C \subseteq S
      /\ Agree(m, s.mem, Pointers(S))
  BY <1>1 DEF Held
<1> HIDE DEF C
<1>6. x \in C /\ \A p \in S : p > x => p \in C
  <2>1. x \in S /\ x \in Nat
    BY <1>2, <1>3
  <2> HIDE DEF x
  <2>2. x >= x /\ \A p \in S : p > x => p >= x
    BY <1>2, <2>1
  <2> QED
    BY <1>4, <2>1, <2>2
<1>7. n \in S \cup {0} /\ P!IsNext(S, x, n) /\ (n # 0 => n >= x + 3)
  BY <1>5, <1>6, NextAbove
<1>8. Flag(s.mem, x) # 0 <=> x \in U
  <2>1. Flag(s.mem, x) = Flag(m, x)
    BY <1>3, <1>5, PointersOnly
  <2> QED
    BY <1>3, <2>1 DEF InUse
<1>9. x # 0 /\ x \in Nat /\ Flag(s.mem, s.cond) = Flag(s.mem, x)
  BY <1>1, <1>2, <1>3
<1>10. t = OuterTurn(s)
  BY <1>1 DEF DefragTurn
<1> HIDE DEF n, U, t
<1>11. CASE x \in U
  <2>1. t = [mem |-> s.mem, loop |-> "outer", cond |-> n, x |-> n]
    BY <1>1, <1>5, <1>8, <1>9, <1>10, <1>11 DEF OuterTurn, n
  <2>2. Cut(S, U, D \cup {x}) = Cut(S, U, D)
    BY <1>11, CutUsed
  <2>3. D \cup {x} \in SUBSET S
    BY <1>3
  <2>4. CASE n # 0
    <3>1. Reached(S, U, D \cup {x}, n)
      BY <1>1, <1>3, <1>7, <1>11, <2>4, ReachUsed
    <3>2. Held(m, S, t, S \ Cut(S, U, D \cup {x}))
      BY <1>5, <2>1, <2>2 DEF Held, C
    <3>3. n >= Base + (k + 1)
      <4>1. n \in Nat
        BY <1>2, <1>7
      <4> QED
        BY <1>1, <1>7, <1>9, <2>4, <4>1, BaseIs
    <3>4. Outer(m, S, t, k + 1)
      BY <2>1, <2>3, <3>1, <3>2, <3>3 DEF Outer, U
    <3> QED
      BY <3>4 DEF t
  <2>5. CASE n = 0
    <3>1. Closed(S, U, D \cup {x})
      BY <1>1, <1>3, <1>7, <1>11, <2>5, ReachUsed
    <3>2. Cut(S, U, D) = P!Joined(S, U)
      BY <1>3, <2>2, <3>1, ClosedIs
    <3>3. Done(m, S, t)
      BY <1>5, <2>1, <2>5, <3>2 DEF Done, Held, C, U
    <3> QED
      BY <3>3 DEF t
  <2> QED
    BY <2>4, <2>5
<1>12. CASE x \notin U /\ n = 0
  <2>1. t = [mem |-> s.mem, loop |-> "none", cond |-> s.cond, x |-> x]
    BY <1>1, <1>5, <1>8, <1>9, <1>10, <1>12 DEF OuterTurn, n
  <2>2. \A p \in S : ~ (x < p)
    <3>1. \A p \in S : p <= x
      BY <1>2, <1>7, <1>12 DEF P!IsNext
    <3> QED
      BY <1>2, <1>9, <3>1
  <2>3. Closed(S, U, D \cup {x})
    BY <1>1, <1>3, <1>12, <2>2, ReachLast
  <2>4. Cut(S, U, D \cup {x}) = Cut(S, U, D) \cup {p \in S \ U : x < p}
    <3>1. x \in S \ U /\ \A q \in U : ~ (x < q)
      BY <1>3, <1>12, <2>2
    <3> HIDE DEF x
    <3> QED
      BY <1>3, <3>1, CutLast
  <2>5. Cut(S, U, D) = P!Joined(S, U)
    BY <1>3, <2>2, <2>3, <2>4, ClosedIs
  <2>6. Done(m, S, t)
    BY <1>5, <2>1, <2>5 DEF Done, Held, C, U
  <2> QED
    BY <2>6 DEF t
<1>13. CASE x \notin U /\ n # 0
  <2>1. t = [mem |-> s.mem, loop |-> "inner", cond |-> n, x |-> x]
    BY <1>1, <1>5, <1>8, <1>9, <1>10, <1>13 DEF OuterTurn, n
  <2>2. n \in S /\ n \in Nat /\ x < n /\ \A p \in S : p > x => p >= n
    BY <1>2, <1>7, <1>9, <1>13 DEF P!IsNext
  <2>3. \A p \in S : ~ (x < p /\ p < n)
    BY <1>2, <1>9, <2>2
  <2>4. Swallowed(S, U, x, n) = {}
    BY <2>3 DEF Swallowed
  <2>5. n >= Base + (k + 1)
    BY <1>1, <1>7, <1>9, <1>13, <2>2, BaseIs
  <2>6. Held(m, S, t, S \ (Cut(S, U, D) \cup Swallowed(S, U, x, n)))
    BY <1>5, <2>1, <2>4 DEF Held, C
  <2>7. \A q \in U : ~ (x < q /\ q < n)
    BY <1>3, <2>3
  <2>8. Inner(m, S, t, k + 1)
    BY <1>1, <1>13, <2>1, <2>2, <2>5, <2>6, <2>7 DEF Inner, U
  <2> QED
    BY <2>8 DEF t
<1> QED
  BY <1>11, <1>12, <1>13 DEF t

\* A turn of the outer loop behind an object in use.
LEMMA AgainTurnIs ==
  ASSUME NEW m \in Memory, NEW S \in SUBSET (Base .. Top), Chain(m, S), NEW s, NEW k \in Nat,
         Again(m, S, s, k)
  PROVE  LET t == DefragTurn(s)
         IN  Outer(m, S, t, k + 1) \/ Done(m, S, t)
<1> DEFINE U == InUse(m, S)
           t == DefragTurn(s)
           y == s.cond
           z == s.x
           n == NextOf(s.mem, z)
<1>1. PICK D \in SUBSET S :
        /\ Held(m, S, s, S \ Cut(S, U, D))
        /\ s.loop = "outer" /\ y + 1 >= Base + k
        /\ Passed(S, U, D, y, z)
  BY DEF Again
<1> DEFINE C == S \ Cut(S, U, D)
<1>2. \A p \in S : p \in Nat /\ p # 0
  BY BaseIs
<1>3. U \in SUBSET S /\ y \in U /\ z \in S \cup {0} /\ P!IsNext(S, y, z)
  BY <1>1 DEF InUse, Passed
<1>4. \A p \in S : p >= y => p \in C
  <2> DEFINE Q == {q \in U : q <= y}
  <2>1. \A v \in D \ U : \E q \in Q : v < q
    BY <1>1 DEF Passed
  <2>2. Q \in SUBSET U
    OBVIOUS
  <2>3. \A q \in Q : q \in U /\ q <= y
    OBVIOUS
  <2> HIDE DEF Q
  <2>4. \A p \in Cut(S, U, D) : \E q \in Q : p < q
    BY <1>3, <2>1, <2>2, CutBelow
  <2> SUFFICES ASSUME NEW p \in S, p >= y, p \in Cut(S, U, D) PROVE FALSE
    OBVIOUS
  <2>6. PICK q \in Q : p < q
    BY <2>4
  <2>7. q \in Nat /\ p \in Nat /\ y \in Nat /\ q <= y
    BY <1>2, <1>3, <2>3
  <2> QED
    BY <2>6, <2>7
<1>5. /\ s = [mem |-> s.mem, loop |-> s.loop, cond |-> s.cond, x |-> s.x]
      /\ s.mem \in Memory /\ Chain(s.mem, C) /\ C \subseteq S
      /\ Agree(m, s.mem, Pointers(S))
  BY <1>1 DEF Held
<1> HIDE DEF C
<1>6. y # 0 /\ y \in Nat /\ Flag(s.mem, y) # 0
  <2>1. Flag(s.mem, y) = Flag(m, y)
    BY <1>3, <1>5, PointersOnly
  <2> QED
    BY <1>2, <1>3, <2>1 DEF InUse
<1>7. t = [mem |-> s.mem, loop |-> "outer", cond |-> n, x |-> n]
  BY <1>1, <1>5, <1>6 DEF DefragTurn, OuterTurn
<1> HIDE DEF n, U, t
<1>8. ASSUME n = 0, Closed(S, U, D) PROVE Done(m, S, t)
  <2>1. Cut(S, U, D) = P!Joined(S, U)
    BY <1>3, <1>8, ClosedIs
  <2> QED
    BY <1>5, <1>7, <1>8, <2>1 DEF Done, Held, C, U
<1>9. CASE z = 0
  <2>1. n = 0
    BY <1>5, <1>9, NextOfZero DEF n
  <2>2. Closed(S, U, D)
    BY <1>1, <1>3, <1>9, PassReach
  <2> QED
    BY <1>8, <2>1, <2>2 DEF t
<1>10. CASE z # 0
  <2>1. z \in S /\ z > y /\ z \in Nat
    BY <1>2, <1>3, <1>10 DEF P!IsNext
  <2>2. z \in C /\ \A p \in S : p > z => p \in C
    <3>1. z >= y /\ \A p \in S : p > z => p >= y
      BY <1>2, <1>6, <2>1
    <3> QED
      BY <1>4, <2>1, <3>1
  <2>3. n \in S \cup {0} /\ P!IsNext(S, z, n)
    BY <1>5, <2>2, NextAbove DEF n
  <2>4. /\ n # 0 => n > y /\ Reached(S, U, D, n)
        /\ n = 0 => Closed(S, U, D)
    BY <1>1, <1>3, <1>10, <2>3, PassReach
  <2>5. CASE n = 0
    BY <1>8, <2>4, <2>5 DEF t
  <2>6. CASE n # 0
    <3>1. n >= Base + (k + 1)
      <4>1. n \in Nat
        BY <1>2, <2>3
      <4>2. n > z
        BY <2>3, <2>6 DEF P!IsNext
      <4> QED
        BY <1>1, <1>6, <2>1, <4>1, <4>2, BaseIs
    <3>2. Held(m, S, t, S \ Cut(S, U, D))
      BY <1>5, <1>7 DEF Held, C
    <3>3. Outer(m, S, t, k + 1)
      BY <1>7, <2>4, <2>6, <3>1, <3>2 DEF Outer, U
    <3> QED
      BY <3>3 DEF t
  <2> QED
    BY <2>5, <2>6
<1> QED
  BY <1>9, <1>10

\* A turn of the inner loop.
LEMMA InnerTurnIs ==
  ASSUME NEW m \in Memory, NEW S \in SUBSET (Base .. Top), Chain(m, S), NEW s, NEW k \in Nat,
         Inner(m, S, s, k)
  PROVE  LET t == DefragTurn(s)
         IN  Inner(m, S, t, k + 1) \/ Again(m, S, t, k + 1) \/ Done(m, S, t)
<1> DEFINE U == InUse(m, S)
           t == DefragTurn(s)
           x == s.x
           y == s.cond
           n == NextOf(s.mem, y)
<1>1. PICK D \in SUBSET S :
        /\ Held(m, S, s, S \ (Cut(S, U, D) \cup Swallowed(S, U, x, y)))
        /\ s.loop = "inner" /\ y \in S /\ y >= Base + k
        /\ x \notin U /\ x < y
        /\ \A q \in U : ~ (x < q /\ q < y)
        /\ Reached(S, U, D, x)
  BY DEF Inner
<1> DEFINE C == S \ (Cut(S, U, D) \cup Swallowed(S, U, x, y))
<1>2. \A p \in S : p \in Nat /\ p # 0
  BY BaseIs
<1>3. U \in SUBSET S /\ x \in S \ U /\ y \in S /\ x \in Nat /\ y \in Nat
  BY <1>1, <1>2 DEF InUse, Reached
<1>4. \A p \in S : p >= x => p \notin Cut(S, U, D)
  <2> DEFINE Q == {q \in U : q < x}
  <2>1. \A v \in D \ U : \E q \in Q : v < q
    BY <1>1 DEF Reached
  <2>2. Q \in SUBSET U
    OBVIOUS
  <2>3. \A q \in Q : q \in U /\ q < x
    OBVIOUS
  <2> HIDE DEF Q
  <2>4. \A p \in Cut(S, U, D) : \E q \in Q : p < q
    BY <1>3, <2>1, <2>2, CutBelow
  <2> SUFFICES ASSUME NEW p \in S, p >= x, p \in Cut(S, U, D) PROVE FALSE
    OBVIOUS
  <2>6. PICK q \in Q : p < q
    BY <2>4
  <2>7. q \in Nat /\ p \in Nat /\ q < x
    BY <1>2, <1>3, <2>3
  <2> QED
    BY <1>3, <2>6, <2>7
<1>5. /\ s = [mem |-> s.mem, loop |-> s.loop, cond |-> s.cond, x |-> s.x]
      /\ s.mem \in Memory /\ Chain(s.mem, C) /\ C \subseteq S
      /\ Agree(m, s.mem, Pointers(S))
  BY <1>1 DEF Held
<1>6. x \in C /\ y \in C /\ \A p \in S : p > y => p \in C
  <2>1. \A p \in S : (p >= x /\ ~ (x < p /\ p < y)) => p \in C
    BY <1>4 DEF Swallowed
  <2>2. /\ x >= x /\ ~ (x < x)
        /\ y >= x /\ ~ (y < y)
        /\ \A p \in S : p > y => p >= x /\ ~ (p < y)
    BY <1>1, <1>2, <1>3
  <2> HIDE DEF C
  <2> QED
    BY <1>3, <2>1, <2>2
<1>7. \A p \in C : p > x => p >= y
  <2> SUFFICES ASSUME NEW p \in C, p > x, ~ (p >= y) PROVE FALSE
    OBVIOUS
  <2>1. p \in S /\ p \notin Swallowed(S, U, x, y)
    OBVIOUS
  <2>2. x < p /\ p < y
    <3>1. p \in Nat
      BY <1>2, <2>1
    <3> QED
      BY <1>3, <3>1
  <2>3. p \notin U
    BY <1>1, <2>2
  <2> QED
    BY <2>1, <2>2, <2>3 DEF Swallowed
<1> HIDE DEF C
<1>8. NextOf(s.mem, x) = y
  <2> DEFINE v == NextOf(s.mem, x)
  <2>1. /\ v # 0 => v \in C /\ v >= x + 3
        /\ v # 0 => \A p \in C : p > x => p >= v
        /\ v = 0 => \A p \in C : p <= x
    BY <1>5, <1>6, NextIs
  <2> HIDE DEF v
  <2>2. v # 0
    BY <1>1, <1>3, <1>6, <2>1
  <2>3. v \in Nat /\ v > x
    <3>1. v \in Nat
      BY <1>2, <1>5, <2>1, <2>2
    <3> QED
      BY <1>3, <2>1, <2>2, <3>1
  <2>4. v >= y /\ y >= v
    <3>1. y > x
      BY <1>1, <1>3
    <3> QED
      BY <1>6, <1>7, <2>1, <2>2, <2>3, <3>1
  <2> QED
    BY <1>3, <2>3, <2>4 DEF v
<1>9. n \in S \cup {0} /\ P!IsNext(S, y, n) /\ (n # 0 => n >= y + 3)
  BY <1>5, <1>6, NextAbove
<1>10. Flag(s.mem, y) # 0 <=> y \in U
  <2>1. Flag(s.mem, y) = Flag(m, y)
    BY <1>3, <1>5, PointersOnly
  <2> QED
    BY <1>3, <2>1 DEF InUse
<1>11. t = InnerTurn(s)
  BY <1>1 DEF DefragTurn
<1>12. D \cup {x} \in SUBSET S
  BY <1>3
<1> HIDE DEF n, U, t
<1>13. CASE y \in U
  <2>1. t = [mem |-> s.mem, loop |-> "outer", cond |-> y, x |-> n]
    BY <1>5, <1>10, <1>11, <1>13 DEF InnerTurn, n
  <2>2. Cut(S, U, D \cup {x}) = Cut(S, U, D) \cup Swallowed(S, U, x, y)
    BY <1>1, <1>3, <1>13, CutFree DEF Swallowed
  <2>3. Passed(S, U, D \cup {x}, y, n)
    BY <1>1, <1>3, <1>9, <1>13, ReachPass
  <2>4. Held(m, S, t, S \ Cut(S, U, D \cup {x}))
    BY <1>5, <2>1, <2>2 DEF Held, C
  <2>5. y + 1 >= Base + (k + 1)
    BY <1>1, <1>3, BaseIs
  <2>6. Again(m, S, t, k + 1)
    BY <1>12, <2>1, <2>3, <2>4, <2>5 DEF Again, U
  <2> QED
    BY <2>6 DEF t
<1>14. CASE y \notin U
  <2> DEFINE mm == Store(s.mem, x - 2, n)
  <2>1. t = [mem |-> mm, loop |-> IF n = 0 THEN "none" ELSE "inner", cond |-> n, x |-> x]
    BY <1>5, <1>10, <1>11, <1>14 DEF InnerTurn, n
  <2>2. mm \in Memory /\ Chain(mm, C \ {y}) /\ Agree(s.mem, mm, {x - 2, x - 1})
    BY <1>5, <1>6, <1>8, Unlink DEF n
  <2> HIDE DEF mm
  <2>3. Agree(m, mm, Pointers(S))
    <3>1. {x - 2, x - 1} \subseteq Pointers(S)
      BY <1>3 DEF Pointers
    <3> QED
      BY <1>5, <2>2, <3>1 DEF Agree
  <2>4. CASE n = 0
    <3>1. \A p \in S : p <= y
      BY <1>2, <1>9, <2>4 DEF P!IsNext
    <3>2. \A q \in U : ~ (x < q)
      <4> SUFFICES ASSUME NEW q \in U, x < q PROVE FALSE
        OBVIOUS
      <4>1. q \in Nat /\ q <= y /\ q # y /\ ~ (q < y)
        BY <1>1, <1>2, <1>3, <1>14, <3>1
      <4> QED
        BY <1>3, <4>1
    <3>3. Closed(S, U, D \cup {x})
      BY <1>1, <1>3, <3>2, ReachLast
    <3>4. Cut(S, U, D \cup {x}) = Cut(S, U, D) \cup {p \in S \ U : x < p}
      <4> HIDE DEF x
      <4> QED
        BY <1>3, <3>2, CutLast
    <3>5. {p \in S \ U : x < p} = Swallowed(S, U, x, y) \cup {y}
      <4>1. \A p \in S : x < p <=> ((x < p /\ p < y) \/ p = y)
        BY <1>1, <1>2, <1>3, <3>1
      <4> QED
        BY <1>3, <1>14, <4>1 DEF Swallowed
    <3>6. C \ {y} = S \ P!Joined(S, U)
      BY <1>3, <3>3, <3>4, <3>5, <1>12, ClosedIs DEF C
    <3>7. Done(m, S, t)
      <4>1. t.mem = mm /\ t.loop = "none" /\ t = [mem |-> t.mem, loop |-> t.loop, cond |-> t.cond, x |-> t.x]
        BY <2>1, <2>4
      <4>2. C \ {y} \subseteq S
        BY <1>5
      <4> QED
        BY <2>2, <2>3, <3>6, <4>1, <4>2 DEF Done, Held, U
    <3> QED
      BY <3>7 DEF t
  <2>5. CASE n # 0
    <3>1. n \in S /\ n \in Nat /\ n > y /\ \A p \in S : p > y => p >= n
      BY <1>2, <1>3, <1>9, <2>5 DEF P!IsNext
    <3>2. \A p \in S : (x < p /\ p < n) <=> ((x < p /\ p < y) \/ p = y)
      <4> SUFFICES ASSUME NEW p \in S PROVE (x < p /\ p < n) <=> ((x < p /\ p < y) \/ p = y)
        OBVIOUS
      <4>1. p \in Nat /\ (p > y => p >= n) /\ x < y
        BY <1>1, <1>2, <3>1
      <4> QED
        BY <1>3, <3>1, <4>1
    <3>3. Swallowed(S, U, x, n) = Swallowed(S, U, x, y) \cup {y}
      BY <1>3, <1>14, <3>2 DEF Swallowed
    <3>4. \A q \in U : ~ (x < q /\ q < n)
      BY <1>1, <1>3, <1>14, <3>2
    <3>5. C \ {y} = S \ (Cut(S, U, D) \cup Swallowed(S, U, x, n))
      BY <3>3 DEF C
    <3>6. n >= Base + (k + 1)
      BY <1>1, <1>3, <3>1, BaseIs
    <3>7. /\ t.mem = mm /\ t.loop = "inner" /\ t.cond = n /\ t.x = x
          /\ t = [mem |-> t.mem, loop |-> t.loop, cond |-> t.cond, x |-> t.x]
      BY <2>1, <2>5
    <3>8. Held(m, S, t, S \ (Cut(S, U, D) \cup Swallowed(S, U, x, n)))
      <4>1. C \ {y} \subseteq S
        BY <1>5
      <4> QED
        BY <2>2, <2>3, <3>5, <3>7, <4>1 DEF Held
    <3>9. x < n
      BY <1>1, <1>3, <3>1
    <3>10. Inner(m, S, t, k + 1)
      BY <1>1, <3>1, <3>4, <3>6, <3>7, <3>8, <3>9 DEF Inner, U
    <3> QED
      BY <3>10 DEF t
  <2> QED
    BY <2>4, <2>5
<1> QED
  BY <1>13, <1>14

\* The loops of Defrag: the function "after".
Defragging(m, f, n) ==
  f = [k \in 0 .. n |-> IF k = 0 THEN {[mem |-> m, loop |-> "outer", cond |-> FirstOf(m), x |-> FirstOf(m)]}
                       ELSE {DefragTurn(s) : s \in f[k - 1]}]

\* There is such a function.
LEMMA DefraggingExists ==
  ASSUME NEW m, NEW n \in Nat
  PROVE  \E f : Defragging(m, f, n)
<1> DEFINE T == {k \in Nat : \E f : Defragging(m, f, k)}
<1>1. 0 \in T
  <2>1. Defragging(m, [k \in 0 .. 0 |-> {[mem |-> m, loop |-> "outer", cond |-> FirstOf(m), x |-> FirstOf(m)]}], 0)
    BY DEF Defragging
  <2> QED
    BY <2>1
<1>2. ASSUME NEW k \in 0 .. n, k # n, k \in T PROVE k + 1 \in T
  <2>1. PICK g : Defragging(m, g, k)
    BY <1>2
  <2> DEFINE val(h, i) == IF i = 0 THEN {[mem |-> m, loop |-> "outer", cond |-> FirstOf(m), x |-> FirstOf(m)]} ELSE {DefragTurn(s) : s \in h[i - 1]}
             f == [i \in 0 .. k + 1 |-> IF i = k + 1 THEN val(g, k + 1) ELSE g[i]]
  <2>2. \A i \in 0 .. k + 1 : f[i] = val(f, i)
    <3>1. ASSUME NEW i \in 0 .. k + 1 PROVE f[i] = val(f, i)
      <4>1. CASE i = k + 1
        <5>1. f[i] = val(g, i) /\ f[i - 1] = g[i - 1] /\ i # 0
          BY <4>1
        <5> HIDE DEF f
        <5> QED
          BY <5>1
      <4>2. CASE i # k + 1
        <5>1. i \in 0 .. k /\ f[i] = g[i] /\ (i # 0 => f[i - 1] = g[i - 1])
          BY <4>2
        <5>2. g[i] = val(g, i)
          BY <2>1, <5>1 DEF Defragging
        <5> HIDE DEF f
        <5> QED
          BY <5>1, <5>2
      <4> QED
        BY <4>1, <4>2
    <3> QED
      BY <3>1
  <2>3. f = [i \in 0 .. k + 1 |-> f[i]]
    OBVIOUS
  <2> HIDE DEF f
  <2>4. Defragging(m, f, k + 1)
    BY <2>2, <2>3 DEF Defragging
  <2> QED
    BY <2>4
<1> HIDE DEF T
<1>3. n \in T
  BY <1>1, <1>2, HeapSized, P!CountsTo
<1> QED
  BY <1>3 DEF T

\* HeapDefrag unlinks the objects that module Heap says, and stores in next pointers only.
LEMMA DefragIs ==
  ASSUME NEW m \in Memory, NEW S, Chain(m, S)
  PROVE  LET n == Defrag(m)
             R == S \ P!Joined(S, InUse(m, S))
         IN  /\ n \in Memory /\ Chain(n, R) /\ InUse(n, R) = InUse(m, S)
             /\ Agree(m, n, Pointers(S))
<1> DEFINE U == InUse(m, S)
           f == CHOOSE f : Defragging(m, f, Turns)
<1>1. Defrag(m) = (CHOOSE s \in f[Turns] : TRUE).mem
  BY DEF Defrag, Defragging
<1>2. Defragging(m, f, Turns)
  BY TurnsIs, DefraggingExists
<1> HIDE DEF f
<1> DEFINE Right(s, k) == Outer(m, S, s, k) \/ Again(m, S, s, k) \/ Inner(m, S, s, k) \/ Done(m, S, s)
           T == {k \in 0 .. Turns : f[k] # {} /\ \A s \in f[k] : Right(s, k)}
<1>3. /\ S \in SUBSET (Base .. Top) /\ Base \in S /\ FirstOf(m) = Base
      /\ \A p \in S : p \in Nat /\ p >= Base /\ p <= Top /\ p # 0
      /\ U \in SUBSET S
  BY BaseIs DEF Chain, InUse
<1>4. 0 \in T
  <2> DEFINE s == [mem |-> m, loop |-> "outer", cond |-> Base, x |-> Base]
  <2>1. f[0] = {s}
    BY <1>2, <1>3, TurnsIs DEF Defragging
  <2>2. Cut(S, U, {}) = {}
    BY DEF Cut
  <2>3. Reached(S, U, {}, Base)
    <3>1. S \in SUBSET (P!First .. Word - 1)
      BY <1>3, FirstIs
    <3>2. P!VisitedFrom(S, U, P!Visited(S, U), Base)
      BY FirstIs DEF P!VisitedFrom
    <3>3. Base \in P!Visited(S, U)
      BY <1>3, <3>1, <3>2, HeapSized, P!VisitedIs
    <3> QED
      BY <1>3, <3>3 DEF Reached
  <2>4. Held(m, S, s, S \ Cut(S, U, {}))
    BY <2>2 DEF Held, Agree
  <2>5. Outer(m, S, s, 0)
    <3>1. s.loop = "outer" /\ s.cond = s.x /\ s.x = Base /\ Base >= Base + 0
      BY BaseIs
    <3>2. {} \in SUBSET S
      OBVIOUS
    <3> HIDE DEF s
    <3> QED
      BY <2>3, <2>4, <3>1, <3>2 DEF Outer
  <2> HIDE DEF s
  <2> QED
    BY <2>1, <2>5, TurnsIs
<1>5. ASSUME NEW k \in 0 .. Turns, k # Turns, k \in T PROVE k + 1 \in T
  <2>1. f[k + 1] = {DefragTurn(s) : s \in f[k]}
    <3>1. k + 1 \in 0 .. Turns /\ k + 1 # 0 /\ (k + 1) - 1 = k
      BY <1>5, TurnsIs
    <3> QED
      BY <1>2, <3>1 DEF Defragging
  <2>2. ASSUME NEW s \in f[k], Right(s, k) PROVE Right(DefragTurn(s), k + 1)
    <3>1. k \in Nat
      BY TurnsIs
    <3>2. CASE Outer(m, S, s, k)
      BY <1>3, <3>1, <3>2, OuterTurnIs
    <3>3. CASE Again(m, S, s, k)
      BY <1>3, <3>1, <3>3, AgainTurnIs
    <3>4. CASE Inner(m, S, s, k)
      BY <1>3, <3>1, <3>4, InnerTurnIs
    <3>5. CASE Done(m, S, s)
      <4>1. CASE s.loop = "none"
        BY <3>5, <4>1 DEF DefragTurn
      <4>2. CASE s.loop = "outer" /\ s.cond = 0
        <5>1. s = [mem |-> s.mem, loop |-> s.loop, cond |-> s.cond, x |-> s.x]
          BY <3>5 DEF Done, Held
        <5>2. DefragTurn(s) = [mem |-> s.mem, loop |-> "none", cond |-> s.cond, x |-> s.x]
          BY <4>2, <5>1 DEF DefragTurn, OuterTurn
        <5> QED
          BY <3>5, <5>2 DEF Done, Held
      <4> QED
        BY <3>5, <4>1, <4>2 DEF Done
    <3> QED
      BY <2>2, <3>2, <3>3, <3>4, <3>5
  <2>3. f[k] # {} /\ \A s \in f[k] : Right(s, k)
    BY <1>5
  <2> HIDE DEF Right
  <2>4. f[k + 1] # {} /\ \A s \in f[k + 1] : Right(s, k + 1)
    BY <2>1, <2>2, <2>3
  <2>5. k + 1 \in 0 .. Turns
    BY <1>5, TurnsIs
  <2> QED
    BY <2>4, <2>5
<1>6. Turns \in T
  <2> HIDE DEF T
  <2> QED
    BY <1>4, <1>5, TurnsIs, HeapSized, P!CountsTo
<1>7. \A p \in S : ~ (p >= Base + Turns) /\ ~ (p + 1 >= Base + Turns)
  <2>1. Base + Turns = Top + 7
    BY BaseIs DEF Turns
  <2> QED
    BY <1>3, <2>1
<1>8. \A s \in f[Turns] : Done(m, S, s)
  <2> SUFFICES ASSUME NEW s \in f[Turns] PROVE Done(m, S, s)
    OBVIOUS
  <2>1. Right(s, Turns)
    BY <1>6
  <2>2. ~ Outer(m, S, s, Turns)
    BY <1>7 DEF Outer, Reached
  <2>3. ~ Again(m, S, s, Turns)
    BY <1>3, <1>7 DEF Again, Passed
  <2>4. ~ Inner(m, S, s, Turns)
    BY <1>7 DEF Inner
  <2> QED
    BY <2>1, <2>2, <2>3, <2>4
<1>9. \E s \in f[Turns] : Defrag(m) = s.mem /\ Done(m, S, s)
  <2>1. f[Turns] # {}
    BY <1>6
  <2> QED
    BY <1>1, <1>8, <2>1
<1> DEFINE n == Defrag(m)
           R == S \ P!Joined(S, U)
<1>10. n \in Memory /\ Chain(n, R) /\ Agree(m, n, Pointers(S))
  BY <1>9 DEF Done, Held
<1>11. InUse(n, R) = U
  <2>1. \A p \in S : Flag(n, p) = Flag(m, p)
    BY <1>10, PointersOnly
  <2>2. P!Joined(S, U) \subseteq S \ U
    BY DEF P!Joined
  <2> QED
    BY <2>1, <2>2 DEF InUse
<1> QED
  BY <1>10, <1>11

-----------------------------------------------------------------------------
(***************************************************************************)
(* What the calls do to the chain.                                         *)
(***************************************************************************)

\* A fitting object is split.
LEMMA SplitIs ==
  ASSUME NEW m \in Memory, NEW S, Chain(m, S), NEW o \in S,
         NEW q \in o + 4 .. Top, \A p \in S : p > o => q + 3 <= p
  PROVE  LET n == MarkFit(SplitOff(m, o, q), o)
         IN  /\ n \in Memory /\ Grows(m, n, S, o, q)
             /\ Agree(m, n, Header(o) \cup Header(q))
<1> DEFINE a == SplitOff(m, o, q)
           n == MarkFit(a, o)
<1>1. o \in Base .. Top /\ q \in Base .. Top /\ q >= o + 4 /\ o >= Base
  <2>1. o \in Base .. Top
    BY DEF Chain
  <2> QED
    BY <2>1, BaseIs
<1>2. a \in Memory /\ Linked(m, a, o, q)
  BY <1>1, SplitOffIs
<1> HIDE DEF a
<1>3. n \in Memory /\ n[o - 3] = 1 /\ Agree(a, n, {o - 3})
  BY <1>1, <1>2, MarkFitIs
<1> HIDE DEF n
<1>4. /\ o - 3 \in Header(o) /\ o - 2 # o - 3 /\ o - 1 # o - 3
      /\ q - 3 # o - 3 /\ q - 2 # o - 3 /\ q - 1 # o - 3
  BY <1>1, BaseIs DEF Header
<1>5. /\ o - 2 \in HeapID .. Top /\ o - 1 \in HeapID .. Top
      /\ q - 3 \in HeapID .. Top /\ q - 2 \in HeapID .. Top /\ q - 1 \in HeapID .. Top
  BY <1>1, <1>2, HeaderIs
<1>6. /\ n[o - 2] = a[o - 2] /\ n[o - 1] = a[o - 1]
      /\ n[q - 3] = a[q - 3] /\ n[q - 2] = a[q - 2] /\ n[q - 1] = a[q - 1]
  BY <1>3, <1>4, <1>5 DEF Agree
<1>7. NextOf(n, o) = NextOf(a, o) /\ NextOf(n, q) = NextOf(a, q)
  BY <1>1, <1>2, <1>3, <1>6, SameNext
<1>8. Agree(m, n, Header(o) \cup Header(q))
  BY <1>2, <1>3, <1>4 DEF Agree, Linked
<1>9. Linked(m, n, o, q) /\ n[o - 3] # 0
  BY <1>2, <1>3, <1>6, <1>7, <1>8 DEF Linked
<1>10. Grows(m, n, S, o, q)
  <2>1. Growing(m, n, S, o, q)
    BY <1>3, <1>9 DEF Growing
  <2> QED
    BY <2>1, Grown
<1> QED
  BY <1>3, <1>8, <1>10 DEF n, a

\* The last object is given, and a free one put behind it.
LEMMA TailIs ==
  ASSUME NEW m \in Memory, NEW S, Chain(m, S), NEW o \in S, P!IsNext(S, o, 0),
         NEW q \in o + 4 .. Top
  PROVE  LET n == TailStores(m, o, q)
         IN  /\ n \in Memory /\ Grows(m, n, S, o, q)
             /\ Agree(m, n, Header(o) \cup Header(q))
<1>1. S \in SUBSET (Base .. Top) /\ o \in Base .. Top
  BY DEF Chain
<1>2. \A p \in S : p \in Nat /\ p # 0
  BY <1>1, BaseIs
<1>3. NextOf(m, o) = 0
  <2>1. P!IsNext(S, o, NextOf(m, o)) /\ NextOf(m, o) \in S \cup {0}
    BY NextIs DEF Chain
  <2> QED
    BY <1>1, <2>1, NextOnce
<1>4. \A p \in S : ~ (p > o)
  <2>1. \A p \in S : p <= o
    BY <1>2 DEF P!IsNext
  <2> QED
    BY <1>2, <2>1
<1>5. /\ TailStores(m, o, q) \in Memory /\ TailStores(m, o, q)[o - 3] = 1
      /\ Linked(m, TailStores(m, o, q), o, q)
  BY <1>1, <1>3, TailStoresIs
<1> DEFINE n == TailStores(m, o, q)
<1>6. n \in Memory /\ n[o - 3] # 0 /\ Linked(m, n, o, q)
  BY <1>5
<1> HIDE DEF n
<1>7. Grows(m, n, S, o, q)
  <2>1. \A p \in S : p > o => q + 3 <= p
    BY <1>4
  <2> QED
    <3>1. Growing(m, n, S, o, q)
      BY <1>6, <2>1 DEF Growing
    <3> QED
      BY <3>1, Grown
<1> QED
  BY <1>6, <1>7 DEF Linked, n

\* The bytes of a block are in no header.
LEMMA BlockApart ==
  ASSUME NEW S \in SUBSET (Base .. Top), NEW v \in S, NEW size \in Nat,
         \A p \in S : p > v => v + size + 3 <= p
  PROVE  Block(v, size) \cap Headers(S) = {}
<1>1. \A p \in S : p \in Nat /\ p >= Base
  BY BaseIs
<1> SUFFICES ASSUME NEW a \in Block(v, size), a \in Headers(S) PROVE FALSE
  OBVIOUS
<1>2. a \in Int /\ a >= v /\ a < v + size /\ v \in Nat /\ v >= Base
  BY <1>1 DEF Block
<1>3. a \notin HeapID .. HeapID + 3
  BY <1>2, BaseIs
<1>4. PICK p \in S : a \in Header(p)
  BY <1>3 DEF Headers
<1>5. p \in Nat /\ (p > v => v + size + 3 <= p)
  BY <1>1
<1> QED
  BY <1>2, <1>4, <1>5 DEF Header

\* The chain as module Heap sees it, while no copy has gone astray.
Sound == mem \in Memory /\ Chain(mem, Objects(mem)) /\ P!HInv

\* The clients' objects are those of which the flag is set.
LEMMA UsedIs ==
  /\ Used(mem) = InUse(mem, Objects(mem))
  /\ Sound => DOMAIN req = Used(mem)
BY DEF Used, InUse, Sound, P!HInv, P!TypeOK

\* The size of the heap is in its second word.
LEMMA HeapLenIs == Sound => Load(mem, HeapID + 2) = P!HeapLen
BY DEF Sound, Chain, P!HeapLen, P!HEAP_HEAD_SIZE

\* What a call leaves of the bytes.
Kept == mem' \in Memory /\ Chain(mem', Objects(mem'))

\* A fitting object is given as in module Heap.
LEMMA FitStep ==
  ASSUME Sound, NEW size \in Sizes \cup NewSizes, NewObjectFit(size)
  PROVE  /\ P!NewObjectFit(size) /\ Kept
         /\ Agree(mem, mem', Headers(Objects(mem')))
<1> DEFINE S == Objects(mem)
           U == InUse(mem, S)
           w == Walk(mem, size)
           o == w.at
           n == NextOf(mem, o)
           q == Split(o, size)
           left == GetObjectRealSize(mem, o) - size
<1>1. mem \in Memory /\ Chain(mem, S) /\ Used(mem) = U /\ DOMAIN req = U
  BY UsedIs DEF Sound
<1>2. /\ size # 0 /\ size <= P!HeapLen - 3 /\ w.end = "fit" /\ q < Top
      /\ mem' = IF left < 8 THEN MarkFit(mem, o) ELSE MarkFit(SplitOff(mem, o, q), o)
      /\ req' = [u \in DOMAIN req \cup {o} |-> IF u = o THEN size ELSE req[u]]
      /\ result' = o /\ pushed' = 1
  BY HeapLenIs DEF NewObjectFit, Modelled, Give
<1>3. P!FirstFit(S, U, o, size)
  BY <1>1, <1>2, WalkIs
<1>4. o \in S \ U /\ S \in SUBSET (Base .. Top) /\ o \in Nat /\ o >= Base
  BY <1>1, <1>3, BaseIs DEF P!FirstFit, P!Fits, Chain
<1>5. n \in S \cup {0} /\ P!IsNext(S, o, n)
  BY <1>1, <1>4, NextIs DEF Chain
<1>6. left = P!RealSize(o, n) - size
  BY <1>1, <1>4, RoomIs
<1>7. size \in Nat /\ q = o + size + 3 /\ q \in o + 4 .. Top
  BY <1>2, <1>4, WordIs DEF Split
<1> HIDE DEF S, U, w, n, q, left
<1> DEFINE Out(R) == /\ mem' \in Memory /\ Chain(mem', R) /\ InUse(mem', R) = U \cup {o}
                     /\ Agree(mem, mem', Headers(R))
<1>8. \A R : Out(R) => /\ Objects(mem') = R /\ Used(mem') = U \cup {o}
                       /\ Kept /\ Agree(mem, mem', Headers(Objects(mem')))
  <2> SUFFICES ASSUME NEW R, Out(R)
               PROVE  Objects(mem') = R /\ Used(mem') = U \cup {o}
    BY DEF Kept
  <2>1. Objects(mem') = R
    BY ObjectsIs
  <2> QED
    BY <2>1 DEF Used, InUse
<1>9. CASE left < 8
  <2>1. Out(S)
    <3> DEFINE m1 == MarkFit(mem, o)
    <3>1. m1 \in Memory /\ m1[o - 3] = 1 /\ Agree(mem, m1, {o - 3}) /\ mem' = m1
      BY <1>1, <1>2, <1>4, <1>9, MarkFitIs
    <3> HIDE DEF m1
    <3>2. Chain(m1, S) /\ InUse(m1, S) = U \cup {o}
      BY <1>1, <1>4, <3>1, FlagChain DEF U
    <3>3. o - 3 \in Headers(S)
      BY <1>4 DEF Headers, Header
    <3> QED
      BY <3>1, <3>2, <3>3 DEF Agree
  <2>2. Objects(mem') = S /\ Used(mem') = U \cup {o} /\ Kept /\ Agree(mem, mem', Headers(Objects(mem')))
    BY <1>8, <2>1
  <2>3. P!RealSize(o, n) - size < P!SPLITTHRESHOLD
    BY <1>6, <1>9 DEF P!SPLITTHRESHOLD, P!OBJ_HEAD_SIZE
  <2>4. P!Take(o, size)
    BY <1>1, <1>2, <2>2 DEF P!Take
  <2>5. P!NewObjectFit(size)
    BY <1>1, <1>2, <1>3, <1>4, <1>5, <2>2, <2>3, <2>4 DEF P!NewObjectFit, P!OBJ_HEAD_SIZE, S
  <2> QED
    BY <2>2, <2>5
<1>10. CASE ~ (left < 8)
  <2>1. \A p \in S : p > o => q + 3 <= p
    <3> SUFFICES ASSUME NEW p \in S, p > o PROVE q + 3 <= p
      OBVIOUS
    <3>1. p \in Nat /\ ~ (p <= o)
      BY <1>4, BaseIs
    <3>2. n # 0 /\ n <= p /\ n \in Nat
      BY <1>4, <1>5, <3>1, BaseIs DEF P!IsNext
    <3>3. left = n - o - 3 - size
      BY <1>6, <3>2 DEF P!RealSize, P!OBJ_HEAD_SIZE
    <3> QED
      BY <1>4, <1>7, <1>10, <3>1, <3>2, <3>3
  <2>2. Out(S \cup {q})
    <3>1. /\ mem' \in Memory /\ Chain(mem', S \cup {q})
          /\ InUse(mem', S \cup {q}) = InUse(mem, S) \cup {o}
          /\ Agree(mem, mem', Header(o) \cup Header(q))
      <4> DEFINE m1 == MarkFit(SplitOff(mem, o, q), o)
      <4>1. mem' = m1
        BY <1>2, <1>10
      <4>2. /\ m1 \in Memory /\ Grows(mem, m1, S, o, q)
            /\ Agree(mem, m1, Header(o) \cup Header(q))
        <5> HIDE DEF o
        <5> QED
          BY <1>1, <1>4, <1>7, <2>1, SplitIs
      <4> HIDE DEF m1
      <4> QED
        BY <4>1, <4>2 DEF Grows
    <3>2. Header(o) \cup Header(q) \subseteq Headers(S \cup {q})
      BY <1>4 DEF Headers
    <3> QED
      BY <3>1, <3>2 DEF Agree, U
  <2>3. Objects(mem') = S \cup {q} /\ Used(mem') = U \cup {o} /\ Kept
        /\ Agree(mem, mem', Headers(Objects(mem')))
    BY <1>8, <2>2
  <2>4. ~ (P!RealSize(o, n) - size < P!SPLITTHRESHOLD)
    BY <1>6, <1>10 DEF P!SPLITTHRESHOLD, P!OBJ_HEAD_SIZE
  <2>5. P!Take(o, size)
    BY <1>1, <1>2, <2>3 DEF P!Take
  <2>6. P!Extend(o, size)
    <3>1. P!Split(o, size) = q /\ q < Word /\ ~ (q > Word)
      BY <1>4, <1>7, WordIs DEF P!Split, P!OBJ_HEAD_SIZE
    <3> QED
      BY <2>3, <3>1 DEF P!Extend, S
  <2>7. P!NewObjectFit(size)
    BY <1>1, <1>2, <1>3, <1>4, <1>5, <2>4, <2>5, <2>6 DEF P!NewObjectFit, P!OBJ_HEAD_SIZE, S
  <2> QED
    BY <2>3, <2>7
<1> QED
  BY <1>9, <1>10

\* A call that fails changes nothing.
LEMMA FailStep ==
  ASSUME Sound, NEW code, NEW words, Fail(code, words)
  PROVE  /\ P!Fail(code, words) /\ Kept
         /\ Agree(mem, mem', Headers(Objects(mem')))
<1>1. mem' = mem /\ req' = req /\ result' = code /\ pushed' = words
  BY DEF Fail
<1>2. Objects(mem') = Objects(mem) /\ Used(mem') = Used(mem)
  BY <1>1
<1>3. P!Fail(code, words)
  BY <1>1, <1>2 DEF P!Fail
<1>4. Kept
  BY <1>1, <1>2 DEF Kept, Sound
<1> QED
  BY <1>1, <1>3, <1>4 DEF Agree

\* The last object is given, or refused, as in module Heap.
LEMMA TailStep ==
  ASSUME Sound, NEW size \in Sizes \cup NewSizes, NewObjectTail(size)
  PROVE  /\ P!NewObjectTail(size) /\ Kept
         /\ Agree(mem, mem', Headers(Objects(mem')))
<1> DEFINE S == Objects(mem)
           U == InUse(mem, S)
           w == Walk(mem, size)
           o == w.at
           q == Split(o, size)
<1>1. mem \in Memory /\ Chain(mem, S) /\ Used(mem) = U /\ DOMAIN req = U
  BY UsedIs DEF Sound
<1>2. /\ size # 0 /\ size <= P!HeapLen - 3 /\ w.end = "tail" /\ q < Top
      /\ IF o - HeapID - 7 > size THEN mem' = TailStores(mem, o, q) /\ Give(o, size)
         ELSE Fail(3, 2)
  BY HeapLenIs DEF NewObjectTail, Modelled
<1>3. o \in S \ U /\ P!NoFit(S, U, o, size)
  BY <1>1, <1>2, WalkIs
<1>4. S \in SUBSET (Base .. Top) /\ o \in Nat /\ o >= Base /\ P!IsNext(S, o, 0)
  BY <1>1, <1>3, BaseIs DEF P!NoFit, Chain
<1>5. size \in Nat /\ q = o + size + 3 /\ q \in o + 4 .. Top
  BY <1>2, <1>4, WordIs DEF Split
<1> HIDE DEF S, U, w, q
<1>6. o - HeapID - P!HEAP_HEAD_SIZE - P!OBJ_HEAD_SIZE = o - HeapID - 7
  BY <1>4 DEF P!HEAP_HEAD_SIZE, P!OBJ_HEAD_SIZE
<1> HIDE DEF o
<1>7. CASE o - HeapID - 7 > size
  <2> DEFINE m1 == TailStores(mem, o, q)
  <2>1. mem' = m1 /\ Give(o, size)
    BY <1>2, <1>7
  <2>2. m1 \in Memory /\ Grows(mem, m1, S, o, q) /\ Agree(mem, m1, Header(o) \cup Header(q))
    BY <1>1, <1>3, <1>4, <1>5, TailIs
  <2> HIDE DEF m1
  <2>3. Chain(m1, S \cup {q}) /\ InUse(m1, S \cup {q}) = U \cup {o}
    BY <2>2 DEF Grows, U
  <2>4. Objects(m1) = S \cup {q}
    BY <2>2, <2>3, ObjectsIs
  <2>5. Used(m1) = U \cup {o}
    BY <2>3, <2>4 DEF Used, InUse
  <2>6. Header(o) \cup Header(q) \subseteq Headers(S \cup {q})
    BY <1>3 DEF Headers
  <2>7. Kept /\ Agree(mem, mem', Headers(Objects(mem')))
    BY <2>1, <2>2, <2>3, <2>4, <2>6 DEF Kept, Agree
  <2>8. P!Take(o, size)
    BY <1>1, <2>1, <2>5 DEF P!Take, Give
  <2>9. P!Extend(o, size)
    <3>1. P!Split(o, size) = q /\ q < Word /\ ~ (q > Word)
      BY <1>4, <1>5, WordIs DEF P!Split, P!OBJ_HEAD_SIZE
    <3> QED
      BY <2>1, <2>4, <3>1 DEF P!Extend, S
  <2>10. P!NewObjectTail(size)
    BY <1>1, <1>2, <1>3, <1>6, <1>7, <2>8, <2>9 DEF P!NewObjectTail, P!OBJ_HEAD_SIZE, S
  <2> QED
    BY <2>7, <2>10
<1>8. CASE ~ (o - HeapID - 7 > size)
  <2>1. Fail(3, 2)
    BY <1>2, <1>8
  <2>2. P!Fail(3, 2) /\ Kept /\ Agree(mem, mem', Headers(Objects(mem')))
    BY <2>1, FailStep
  <2>3. P!NewObjectTail(size)
    BY <1>1, <1>2, <1>3, <1>6, <1>8, <2>2 DEF P!NewObjectTail, P!OBJ_HEAD_SIZE, S
  <2> QED
    BY <2>2, <2>3
<1> QED
  BY <1>7, <1>8

\* What a call of HeapNewObject leaves with the client.
Answered(size) ==
  \/ req' = req /\ (size # 0 => result' \in 0 .. 99)
  \/ \E o \in Nat \ DOMAIN req :
       /\ req' = [u \in DOMAIN req \cup {o} |-> IF u = o THEN size ELSE req[u]]
       /\ result' = o /\ o + size <= Top

\* HeapNewObject on memory is HeapNewObject on the chain, and stores in headers only.
LEMMA NewObjectStep ==
  ASSUME Sound, NEW size \in Sizes \cup NewSizes, NewObject(size)
  PROVE  /\ P!HeapNewObject(size) /\ Kept /\ Answered(size)
         /\ Agree(mem, mem', Headers(Objects(mem')))
<1> DEFINE Good == Kept /\ Agree(mem, mem', Headers(Objects(mem')))
           S == Objects(mem)
<1>1. mem \in Memory /\ Chain(mem, S) /\ S \subseteq Base .. Top
  BY DEF Sound, Chain
<1>2. size \in Nat
  BY WordIs
<1>3. DOMAIN req = InUse(mem, S) /\ Used(mem) = InUse(mem, S)
  BY UsedIs
<1>4. CASE NewObjectEmpty(size)
  <2>1. size = 0 /\ Fail(result, 0)
    BY <1>4 DEF NewObjectEmpty
  <2>2. P!Fail(result, 0) /\ Good /\ P!NewObjectEmpty(size)
    BY <2>1, FailStep DEF P!NewObjectEmpty
  <2> QED
    BY <2>1, <2>2 DEF P!HeapNewObject, Answered, Fail
<1>5. CASE NewObjectTooLarge(size)
  <2>1. size # 0 /\ P!HeapLen - P!OBJ_HEAD_SIZE < size /\ Fail(2, 1)
    BY <1>5, HeapLenIs DEF NewObjectTooLarge, P!OBJ_HEAD_SIZE
  <2>2. P!Fail(2, 1) /\ Good
    BY <2>1, FailStep
  <2>3. P!NewObjectTooLarge(size)
    BY <2>1, <2>2 DEF P!NewObjectTooLarge
  <2> QED
    BY <2>1, <2>2, <2>3 DEF P!HeapNewObject, Answered, Fail
<1>6. CASE NewObjectFit(size)
  <2> DEFINE o == Walk(mem, size).at
  <2>1. P!NewObjectFit(size) /\ Good
    BY <1>6, FitStep
  <2>2. P!FirstFit(S, InUse(mem, S), o, size)
    BY <1>1, <1>6, WalkIs DEF NewObjectFit
  <2>3. o \in Nat /\ o \notin DOMAIN req
    BY <1>1, <1>3, <2>2, BaseIs DEF P!FirstFit, P!Fits
  <2>4. o + size <= Top
    BY <1>2, <1>6, <2>3 DEF NewObjectFit, Modelled, Split
  <2>5. Give(o, size)
    BY <1>6 DEF NewObjectFit
  <2> HIDE DEF o
  <2>6. Answered(size)
    BY <2>3, <2>4, <2>5 DEF Answered, Give
  <2> QED
    BY <2>1, <2>6 DEF P!HeapNewObject
<1>7. CASE NewObjectTail(size)
  <2> DEFINE o == Walk(mem, size).at
  <2>1. P!NewObjectTail(size) /\ Good
    BY <1>7, TailStep
  <2>2. o \in S \ InUse(mem, S)
    BY <1>1, <1>7, WalkIs DEF NewObjectTail
  <2>3. o \in Nat /\ o \notin DOMAIN req
    BY <1>1, <1>3, <2>2, BaseIs
  <2>4. o + size <= Top
    BY <1>2, <1>7, <2>3 DEF NewObjectTail, Modelled, Split
  <2>5. Give(o, size) \/ Fail(3, 2)
    BY <1>7 DEF NewObjectTail
  <2> HIDE DEF o
  <2>6. Answered(size)
    BY <2>3, <2>4, <2>5 DEF Answered, Give, Fail
  <2> QED
    BY <2>1, <2>6 DEF P!HeapNewObject
<1>8. CASE NewObjectFull(size)
  <2> DEFINE o == Walk(mem, size).at
  <2>1. /\ size # 0 /\ size <= P!HeapLen - P!OBJ_HEAD_SIZE
        /\ Walk(mem, size).end = "full" /\ Fail(4, 1)
    BY <1>8, HeapLenIs DEF NewObjectFull, P!OBJ_HEAD_SIZE
  <2>2. o \in InUse(mem, S) /\ P!NoFit(S, InUse(mem, S), o, size)
    BY <1>1, <2>1, WalkIs
  <2>3. P!Fail(4, 1) /\ Good
    BY <2>1, FailStep
  <2> HIDE DEF o
  <2>4. P!NewObjectFull(size)
    BY <1>3, <2>1, <2>2, <2>3 DEF P!NewObjectFull
  <2> QED
    BY <2>1, <2>3, <2>4 DEF P!HeapNewObject, Answered, Fail
<1> QED
  BY <1>4, <1>5, <1>6, <1>7, <1>8 DEF NewObject

\* HeapDefrag on memory is HeapDefrag on the chain.
LEMMA DefragStep ==
  ASSUME Sound, mem' = Defrag(mem), result' = 0, pushed' = 1, UNCHANGED req
  PROVE  /\ P!HeapDefrag /\ Kept
         /\ Agree(mem, mem', Headers(Objects(mem)))
<1> DEFINE S == Objects(mem)
           U == InUse(mem, S)
           n == Defrag(mem)
           R == S \ P!Joined(S, U)
<1>1. mem \in Memory /\ Chain(mem, S) /\ Used(mem) = U
  BY UsedIs DEF Sound
<1>2. /\ n \in Memory /\ Chain(n, R) /\ InUse(n, R) = U
      /\ Agree(mem, n, Pointers(S))
  BY <1>1, DefragIs
<1> HIDE DEF n
<1>3. Objects(n) = R
  BY <1>2, ObjectsIs
<1>4. Used(n) = U
  BY <1>2, <1>3 DEF Used, InUse
<1>5. mem' = n
  BY DEF n
<1>6. P!HeapDefrag
  BY <1>1, <1>3, <1>4, <1>5 DEF P!HeapDefrag
<1>7. Pointers(S) \subseteq Headers(S)
  BY DEF Pointers, Headers, Header
<1> QED
  BY <1>2, <1>3, <1>5, <1>6, <1>7 DEF Kept, Agree

\* HeapDeleteObject on memory is HeapDeleteObject on the chain.
LEMMA DeleteStep ==
  ASSUME Sound, NEW o \in DOMAIN req, Delete(o)
  PROVE  /\ P!HeapDeleteObject(o) /\ Kept
         /\ Agree(mem, mem', Headers(Objects(mem)))
<1> DEFINE S == Objects(mem)
           U == InUse(mem, S)
           c == Clear(mem, o)
           n == Defrag(c)
           V == U \ {o}
           R == S \ P!Joined(S, V)
<1>1. mem \in Memory /\ Chain(mem, S) /\ Used(mem) = U /\ DOMAIN req = U
  BY UsedIs DEF Sound
<1>2. o \in S /\ o \in U /\ o \in Base .. Top
  BY <1>1 DEF InUse, Chain
<1>3. c \in Memory /\ c[o - 3] = 0 /\ Agree(mem, c, {o - 3})
  BY <1>1, <1>2, ClearIs
<1> HIDE DEF c
<1>4. Chain(c, S) /\ InUse(c, S) = V
  BY <1>1, <1>2, <1>3, FlagChain
<1>5. /\ n \in Memory /\ Chain(n, R) /\ InUse(n, R) = V
      /\ Agree(c, n, Pointers(S))
  BY <1>3, <1>4, DefragIs
<1>6. mem' = n /\ req' = [u \in U \ {o} |-> req[u]] /\ result' = 0 /\ pushed' = 1
  BY <1>1 DEF Delete, c
<1> HIDE DEF n
<1>7. Objects(n) = R
  BY <1>5, ObjectsIs
<1>8. Used(n) = V
  BY <1>5, <1>7 DEF Used, InUse
<1>9. P!HeapDeleteObject(o)
  BY <1>1, <1>2, <1>6, <1>7, <1>8 DEF P!HeapDeleteObject
<1>10. Pointers(S) \cup {o - 3} \subseteq Headers(S)
  BY <1>2 DEF Pointers, Headers, Header
<1>11. Agree(mem, n, Headers(S))
  BY <1>3, <1>5, <1>10 DEF Agree
<1> QED
  BY <1>5, <1>6, <1>7, <1>9, <1>11 DEF Kept

-----------------------------------------------------------------------------
(***************************************************************************)
(* The copy of HeapResizeObject.                                           *)
(***************************************************************************)
\* The loop of CopyLoop: the function "after".
Copying(m, from, to, f, n) ==
  f = [k \in 0 .. n |-> IF k = 0 THEN {[mem |-> m, at |-> {}]}
                       ELSE {CopyTurn(s, from, to, k - 1) : s \in f[k - 1]}]

\* There is such a function.
LEMMA CopyingExists ==
  ASSUME NEW m, NEW from, NEW to, NEW n \in Nat
  PROVE  \E f : Copying(m, from, to, f, n)
<1> DEFINE T == {k \in Nat : \E f : Copying(m, from, to, f, k)}
<1>1. 0 \in T
  <2>1. Copying(m, from, to, [k \in 0 .. 0 |-> {[mem |-> m, at |-> {}]}], 0)
    BY DEF Copying
  <2> QED
    BY <2>1
<1>2. ASSUME NEW k \in 0 .. n, k # n, k \in T PROVE k + 1 \in T
  <2>1. PICK g : Copying(m, from, to, g, k)
    BY <1>2
  <2> DEFINE val(h, i) == IF i = 0 THEN {[mem |-> m, at |-> {}]} ELSE {CopyTurn(s, from, to, i - 1) : s \in h[i - 1]}
             f == [i \in 0 .. k + 1 |-> IF i = k + 1 THEN val(g, k + 1) ELSE g[i]]
  <2>2. \A i \in 0 .. k + 1 : f[i] = val(f, i)
    <3>1. ASSUME NEW i \in 0 .. k + 1 PROVE f[i] = val(f, i)
      <4>1. CASE i = k + 1
        <5>1. f[i] = val(g, i) /\ f[i - 1] = g[i - 1] /\ i # 0
          BY <4>1
        <5> HIDE DEF f
        <5> QED
          BY <5>1
      <4>2. CASE i # k + 1
        <5>1. i \in 0 .. k /\ f[i] = g[i] /\ (i # 0 => f[i - 1] = g[i - 1])
          BY <4>2
        <5>2. g[i] = val(g, i)
          BY <2>1, <5>1 DEF Copying
        <5> HIDE DEF f
        <5> QED
          BY <5>1, <5>2
      <4> QED
        BY <4>1, <4>2
    <3> QED
      BY <3>1
  <2>3. f = [i \in 0 .. k + 1 |-> f[i]]
    OBVIOUS
  <2> HIDE DEF f
  <2>4. Copying(m, from, to, f, k + 1)
    BY <2>2, <2>3 DEF Copying
  <2> QED
    BY <2>4
<1> HIDE DEF T
<1>3. n \in T
  BY <1>1, <1>2, HeapSized, P!CountsTo
<1> QED
  BY <1>3 DEF T

\* Wherever it stores, memory stays memory.
LEMMA CopyTyped ==
  ASSUME NEW m \in Memory, NEW from \in Int, NEW to, NEW len \in Nat
  PROVE  CopyLoop(m, from, to, len).mem \in Memory
<1> DEFINE f == CHOOSE f : Copying(m, from, to, f, len)
           T == {k \in 0 .. len : f[k] # {} /\ \A s \in f[k] : s.mem \in Memory}
<1>1. CopyLoop(m, from, to, len) = CHOOSE s \in f[len] : TRUE
  BY DEF CopyLoop, Copying
<1>2. Copying(m, from, to, f, len)
  BY CopyingExists
<1> HIDE DEF f
<1>3. 0 \in T
  <2>1. f[0] = {[mem |-> m, at |-> {}]}
    BY <1>2 DEF Copying
  <2>2. f[0] # {} /\ \A s \in f[0] : s.mem = m
    BY <2>1
  <2>3. 0 \in 0 .. len
    OBVIOUS
  <2> QED
    BY <2>2, <2>3
<1>4. ASSUME NEW k \in 0 .. len, k # len, k \in T PROVE k + 1 \in T
  <2>1. k + 1 \in 0 .. len /\ k + 1 # 0 /\ (k + 1) - 1 = k
    BY <1>4
  <2>2. f[k + 1] = {CopyTurn(s, from, to, k) : s \in f[k]}
    BY <1>2, <2>1 DEF Copying
  <2>3. ASSUME NEW s \in f[k] PROVE CopyTurn(s, from, to, k).mem \in Memory
    <3> DEFINE b == Byte(s.mem, from + k)
               a == CopyTo(s.mem, to + k)
    <3>1. s.mem \in Memory /\ from + k \in Int
      BY <1>4
    <3>2. b \in ByteSet
      BY <3>1, ByteTyped
    <3>3. b \in Words
      BY <3>2, BytesAreWords
    <3> HIDE DEF a, b
    <3>4. Store(s.mem, a, b) \in Memory
      BY <3>1, <3>3, StoreIs
    <3>5. CopyTurn(s, from, to, k).mem = Store(s.mem, a, b)
      BY DEF CopyTurn, a, b
    <3> QED
      BY <3>4, <3>5
  <2>4. f[k] # {}
    BY <1>4
  <2>5. f[k + 1] # {} /\ \A s \in f[k + 1] : s.mem \in Memory
    BY <2>2, <2>3, <2>4
  <2> QED
    BY <2>1, <2>5
<1>5. len \in T
  <2> HIDE DEF T
  <2> QED
    BY <1>3, <1>4, HeapSized, P!CountsTo
<1> QED
  BY <1>1, <1>5

\* The smaller of two numbers is one.
LEMMA MinIs ==
  ASSUME NEW a \in Nat, NEW b \in Nat
  PROVE  Min({a, b}) \in Nat
<1>1. \E x \in {a, b} : \A y \in {a, b} : x <= y
  OBVIOUS
<1>2. Min({a, b}) \in {a, b}
  BY <1>1 DEF Min
<1> QED
  BY <1>2

-----------------------------------------------------------------------------
(***************************************************************************)
(* The invariant.                                                          *)
(***************************************************************************)

\* HeapResizeObject in progress, with the new object its client's.
Moves ==
  \/ moving = None
  \/ \E f \in {"HeapResizeObject", "HeapValidate"} : moving = Lost(f)
  \/ \E step \in {"copy", "delete"}, from \in DOMAIN req, to \in DOMAIN req :
       moving = [step |-> step, from |-> from, to |-> to, size |-> req[to]]

\* The blocks end within the modelled addresses.
Bounded == \A u \in DOMAIN req : u + req[u] <= Top

MInv ==
  /\ stray \in BOOLEAN
  /\ stray => moving.step = "delete"
  /\ ~ stray => Sound /\ Moves /\ Bounded

\* The bytes of the clients are in no header.
LEMMA BlocksApart ==
  ASSUME NEW S \in SUBSET (Base .. Top), NEW r, DOMAIN r \subseteq S,
         NEW v \in DOMAIN r, r[v] \in Nat, \A u \in DOMAIN r, p \in S : p > u => u + r[u] + 3 <= p
  PROVE  Block(v, r[v]) \cap Headers(S) = {}
BY BlockApart

\* What NoOverlap of module Heap says of the bytes.
BlocksSound ==
  /\ DOMAIN req \subseteq Objects(mem) /\ Objects(mem) \in SUBSET (Base .. Top)
  /\ \A v \in DOMAIN req : /\ v \in Nat /\ v >= Base /\ req[v] \in 1 .. Word - 1
                           /\ Block(v, req[v]) \cap Headers(Objects(mem)) = {}
  /\ \A u, v \in DOMAIN req : u # v => Block(u, req[u]) \cap Block(v, req[v]) = {}

LEMMA SoundBlocks == Sound => BlocksSound
<1> SUFFICES ASSUME Sound PROVE BlocksSound
  OBVIOUS
<1>1. DOMAIN req \subseteq Objects(mem) /\ Objects(mem) \in SUBSET (Base .. Top)
  BY UsedIs DEF Sound, Chain, InUse
<1>2. \A v \in DOMAIN req : v \in Nat /\ v >= Base
  BY <1>1, BaseIs
<1>3. \A v \in DOMAIN req : req[v] \in 1 .. Word - 1
  BY DEF Sound, P!HInv, P!TypeOK
<1>4. \A v \in DOMAIN req : req[v] \in Nat
  BY <1>3, WordIs
<1>5. \A u \in DOMAIN req, p \in Objects(mem) : p > u => u + req[u] + 3 <= p
  <2>1. P!NoOverlap /\ Used(mem) = DOMAIN req
    BY UsedIs DEF Sound, P!HInv
  <2> QED
    BY <2>1 DEF P!NoOverlap, P!OBJ_HEAD_SIZE
<1>6. \A v \in DOMAIN req : Block(v, req[v]) \cap Headers(Objects(mem)) = {}
  BY <1>1, <1>4, <1>5, BlocksApart
<1>7. ASSUME NEW u \in DOMAIN req, NEW v \in DOMAIN req, u # v
      PROVE  Block(u, req[u]) \cap Block(v, req[v]) = {}
  <2>1. /\ u \in Nat /\ v \in Nat /\ req[u] \in Nat /\ req[v] \in Nat
        /\ u \in Objects(mem) /\ v \in Objects(mem)
    BY <1>1, <1>2, <1>4
  <2>2. (v > u => u + req[u] + 3 <= v) /\ (u > v => v + req[v] + 3 <= u)
    BY <1>5, <2>1
  <2> QED
    BY <1>7, <2>1, <2>2 DEF Block
<1> QED
  BY <1>1, <1>2, <1>3, <1>6, <1>7 DEF BlocksSound

\* Bytes outside the headers: the chain is as before.
LEMMA SameObjects ==
  ASSUME Sound, mem' \in Memory, \A a \in Headers(Objects(mem)) : mem'[a] = mem[a]
  PROVE  Kept /\ Objects(mem') = Objects(mem) /\ Used(mem') = Used(mem)
<1> DEFINE S == Objects(mem)
<1>1. Chain(mem', S) /\ InUse(mem', S) = InUse(mem, S)
  BY SameChain DEF Sound
<1>2. Objects(mem') = S
  BY <1>1, ObjectsIs
<1> QED
  BY <1>1, <1>2 DEF Kept, Used, InUse

\* Module Heap as HeapMem instantiates it, and with its theorems.
LEMMA SameSpec == H!Init = P!Init /\ H!Next = P!Next /\ H!vars = P!vars
<1>1. H!vars = P!vars
  BY DEF H!vars, P!vars
<1>2. H!Init = P!Init
  BY DEF H!Init, P!Init, H!First, P!First, H!HEAP_HEAD_SIZE, P!HEAP_HEAD_SIZE,
         H!OBJ_HEAD_SIZE, P!OBJ_HEAD_SIZE
<1>3. \A size : H!HeapNewObject(size) = P!HeapNewObject(size)
  BY DEF H!HeapNewObject, P!HeapNewObject, H!NewObjectEmpty, P!NewObjectEmpty,
         H!NewObjectTooLarge, P!NewObjectTooLarge, H!NewObjectFit, P!NewObjectFit,
         H!NewObjectTail, P!NewObjectTail, H!NewObjectFull, P!NewObjectFull,
         H!Fail, P!Fail, H!Take, P!Take, H!Extend, P!Extend, H!Split, P!Split,
         H!FirstFit, P!FirstFit, H!NoFit, P!NoFit, H!Fits, P!Fits, H!IsNext, P!IsNext,
         H!RealSize, P!RealSize, H!HeapLen, P!HeapLen, H!HeapEnd, P!HeapEnd,
         H!SPLITTHRESHOLD, P!SPLITTHRESHOLD,
         H!HEAP_HEAD_SIZE, P!HEAP_HEAD_SIZE, H!OBJ_HEAD_SIZE, P!OBJ_HEAD_SIZE
<1>4. H!HeapDefrag = P!HeapDefrag /\ \A o : H!HeapDeleteObject(o) = P!HeapDeleteObject(o)
  BY DEF H!HeapDefrag, P!HeapDefrag, H!HeapDeleteObject, P!HeapDeleteObject,
         H!Joined, P!Joined, H!Visited, P!Visited, H!Visits, P!Visits, H!IsNext, P!IsNext,
         H!First, P!First, H!HEAP_HEAD_SIZE, P!HEAP_HEAD_SIZE, H!OBJ_HEAD_SIZE, P!OBJ_HEAD_SIZE
<1>5. H!Next = P!Next
  BY <1>3, <1>4 DEF H!Next, P!Next
<1> QED
  BY <1>1, <1>2, <1>5

\* A step that leaves the bytes of the clients alone is one of these.
Apart == \/ Agree(mem, mem', Headers(Objects(mem)))
         \/ Agree(mem, mem', Headers(Objects(mem')))

\* A step of the chain, or none.
Stepped == /\ Kept /\ (P!Next \/ UNCHANGED P!vars)
           /\ Moves' /\ Bounded' /\ stray' = FALSE

\* A call of HeapNewObject, by a client or by HeapResizeObject.
LEMMA CallStep ==
  ASSUME Sound, Bounded, NEW size \in Sizes \cup NewSizes, NewObject(size)
  PROVE  /\ Kept /\ P!Next /\ Bounded' /\ Apart
         /\ \A u \in DOMAIN req : u \in DOMAIN req' /\ req'[u] = req[u]
         /\ size # 0 /\ ~ (result' < 100) => result' \in DOMAIN req' /\ req'[result'] = size
<1>1. /\ P!HeapNewObject(size) /\ Kept /\ Answered(size)
      /\ Agree(mem, mem', Headers(Objects(mem')))
  BY NewObjectStep
<1>2. P!Next
  BY <1>1 DEF P!Next
<1>3. /\ Bounded'
      /\ \A u \in DOMAIN req : u \in DOMAIN req' /\ req'[u] = req[u]
      /\ size # 0 /\ ~ (result' < 100) => result' \in DOMAIN req' /\ req'[result'] = size
  <2>1. CASE req' = req /\ (size # 0 => result' \in 0 .. 99)
    BY <2>1 DEF Bounded
  <2>2. CASE \E o \in Nat \ DOMAIN req :
               /\ req' = [u \in DOMAIN req \cup {o} |-> IF u = o THEN size ELSE req[u]]
               /\ result' = o /\ o + size <= Top
    <3>1. PICK o \in Nat \ DOMAIN req :
            /\ req' = [u \in DOMAIN req \cup {o} |-> IF u = o THEN size ELSE req[u]]
            /\ result' = o /\ o + size <= Top
      BY <2>2
    <3>2. DOMAIN req' = DOMAIN req \cup {o} /\ req'[o] = size
      BY <3>1
    <3>3. \A u \in DOMAIN req : u \in DOMAIN req' /\ req'[u] = req[u]
      BY <3>1
    <3>4. Bounded'
      BY <3>1, <3>2, <3>3 DEF Bounded
    <3> QED
      BY <3>1, <3>2, <3>3, <3>4
  <2> QED
    BY <1>1, <2>1, <2>2 DEF Answered
<1> QED
  BY <1>1, <1>2, <1>3 DEF Apart

\* HeapNewObject as a client calls it.
LEMMA NewStep ==
  ASSUME Sound, Bounded, NEW size \in Sizes, HeapNewObject(size)
  PROVE  Stepped /\ Apart /\ \A u \in DOMAIN req : u \in DOMAIN req' => req'[u] = req[u]
<1>1. moving' = None /\ stray' = FALSE /\ NewObject(size)
  BY DEF HeapNewObject, Call, Idle
<1>2. size \in Sizes \cup NewSizes
  OBVIOUS
<1>3. /\ Kept /\ P!Next /\ Bounded' /\ Apart
      /\ \A u \in DOMAIN req : u \in DOMAIN req' /\ req'[u] = req[u]
  BY <1>1, <1>2, CallStep
<1>4. Moves'
  BY <1>1 DEF Moves
<1> QED
  BY <1>1, <1>3, <1>4 DEF Stepped

\* HeapNewObject as HeapResizeObject calls it.
LEMMA ResizeStartStep ==
  ASSUME Sound, Bounded, NEW o \in DOMAIN req, NEW size \in NewSizes, Call, ResizeStart(o, size)
  PROVE  Stepped /\ Apart /\ \A u \in DOMAIN req : u \in DOMAIN req' => req'[u] = req[u]
<1>1. /\ stray' = FALSE /\ NewObject(size)
      /\ moving' = IF result' < 100 THEN Lost("HeapResizeObject")
                   ELSE [step |-> "copy", from |-> o, to |-> result', size |-> size]
  BY DEF ResizeStart, Call, Idle
<1>2. size \in Sizes \cup NewSizes /\ size # 0
  <2>1. 0 \notin 1 .. Word - 1
    OBVIOUS
  <2> QED
    BY <2>1
<1>3. /\ Kept /\ P!Next /\ Bounded' /\ Apart
      /\ \A u \in DOMAIN req : u \in DOMAIN req' /\ req'[u] = req[u]
      /\ ~ (result' < 100) => result' \in DOMAIN req' /\ req'[result'] = size
  BY <1>1, <1>2, CallStep
<1>4. Moves'
  <2>1. CASE result' < 100
    BY <1>1, <2>1 DEF Moves
  <2>2. CASE ~ (result' < 100)
    <3>1. /\ o \in DOMAIN req' /\ result' \in DOMAIN req'
          /\ moving' = [step |-> "copy", from |-> o, to |-> result', size |-> req'[result']]
      BY <1>1, <1>3, <2>2
    <3> QED
      BY <3>1 DEF Moves
  <2> QED
    BY <2>1, <2>2
<1> QED
  BY <1>1, <1>3, <1>4 DEF Stepped

\* HeapDeleteObject, called by a client or by HeapResizeObject.
LEMMA FreeStep ==
  ASSUME Sound, Bounded, NEW o \in DOMAIN req, Delete(o), moving' = None, stray' = FALSE
  PROVE  Stepped /\ Apart /\ \A u \in DOMAIN req : u \in DOMAIN req' => req'[u] = req[u]
<1>1. P!HeapDeleteObject(o) /\ Kept /\ Apart
  BY DeleteStep DEF Apart
<1>2. o \in Used(mem)
  BY UsedIs
<1>3. P!Next
  BY <1>1, <1>2 DEF P!Next
<1>4. req' = [u \in DOMAIN req \ {o} |-> req[u]]
  BY DEF Delete
<1>5. Bounded' /\ \A u \in DOMAIN req : u \in DOMAIN req' => req'[u] = req[u]
  BY <1>4 DEF Bounded
<1>6. Moves'
  BY DEF Moves
<1> QED
  BY <1>1, <1>3, <1>5, <1>6 DEF Stepped

\* HeapDefrag as a client calls it.
LEMMA DefragCallStep ==
  ASSUME Sound, Bounded, HeapDefrag
  PROVE  Stepped /\ Apart /\ req' = req
<1>1. /\ mem' = Defrag(mem) /\ result' = 0 /\ pushed' = 1
      /\ req' = req /\ moving' = None /\ stray' = FALSE
  BY DEF HeapDefrag, Call, Idle
<1>2. P!HeapDefrag /\ Kept /\ Apart
  BY <1>1, DefragStep DEF Apart
<1>3. P!Next
  BY <1>2 DEF P!Next
<1>4. Moves' /\ Bounded'
  BY <1>1 DEF Moves, Bounded
<1> QED
  BY <1>1, <1>2, <1>3, <1>4 DEF Stepped

\* HeapValidate, which is lost.
LEMMA ValidateStep ==
  ASSUME Sound, Bounded, HeapValidate
  PROVE  Stepped /\ mem' = mem /\ req' = req
<1>1. /\ moving' = Lost("HeapValidate") /\ mem' = mem /\ req' = req
      /\ result' = result /\ pushed' = pushed /\ stray' = FALSE
  BY DEF HeapValidate, Call, Idle
<1>2. Kept /\ UNCHANGED P!vars
  BY <1>1 DEF Kept, Sound, P!vars
<1>3. Moves' /\ Bounded'
  BY <1>1 DEF Moves, Bounded
<1> QED
  BY <1>1, <1>2, <1>3 DEF Stepped

\* The owner of o stores in its own bytes.
LEMMA FillStep ==
  ASSUME Sound, Bounded, NEW o \in DOMAIN req, NEW b \in Bytes, Fill(o, b)
  PROVE  /\ Stepped /\ req' = req
         /\ \A a \in HeapID .. Top : a \notin Block(o, req[o]) => mem'[a] = mem[a]
<1>1. /\ mem' = [a \in DOMAIN mem |-> IF a \in Block(o, req[o]) THEN b ELSE mem[a]]
      /\ req' = req /\ result' = result /\ pushed' = pushed
      /\ moving' = None /\ stray' = FALSE
  BY DEF Fill, Call, Idle
<1>2. mem \in Memory /\ b \in ByteSet /\ DOMAIN mem = HeapID .. Top
  BY DEF Sound, ByteSet, Memory
<1>3. mem' \in Memory /\ \A a \in HeapID .. Top : a \notin Block(o, req[o]) => mem'[a] = mem[a]
  BY <1>1, <1>2 DEF Memory
<1>4. Headers(Objects(mem)) \subseteq HeapID .. Top /\ Block(o, req[o]) \cap Headers(Objects(mem)) = {}
  <2>1. Block(o, req[o]) \cap Headers(Objects(mem)) = {}
    BY SoundBlocks DEF BlocksSound
  <2>2. \A p \in Objects(mem) : Header(p) \subseteq HeapID .. Top
    BY HeadersApart DEF Sound
  <2>3. HeapID .. HeapID + 3 \subseteq HeapID .. Top
    BY BaseIs
  <2> QED
    BY <2>1, <2>2, <2>3 DEF Headers
<1>5. Kept /\ Objects(mem') = Objects(mem) /\ Used(mem') = Used(mem)
  BY <1>3, <1>4, SameObjects
<1>6. UNCHANGED P!vars
  BY <1>1, <1>5 DEF P!vars
<1>7. Moves' /\ Bounded'
  BY <1>1 DEF Moves, Bounded
<1> QED
  BY <1>1, <1>3, <1>5, <1>6, <1>7 DEF Stepped

\* The copy stores in the new object or goes astray.
LEMMA CopyStep ==
  ASSUME Sound, Bounded, Moves, ResizeCopy
  PROVE  /\ stray' \in BOOLEAN /\ moving'.step = "delete"
         /\ ~ stray' => Stepped
<1>1. PICK from \in DOMAIN req, to \in DOMAIN req :
        moving = [step |-> "copy", from |-> from, to |-> to, size |-> req[to]]
  BY DEF Moves, ResizeCopy, None, Lost
<1> DEFINE len  == Min({moving.size, GetObjectRealSize(mem, moving.from)})
           done == CopyLoop(mem, moving.from, moving.to, len)
           mine == Block(moving.to, moving.size)
           astray == ~ (done.at \subseteq mine) \/ \E a \in DOMAIN mem \ mine : mem[a] # done.mem[a]
<1>2. /\ mem' = done.mem /\ (stray' <=> astray) /\ stray' \in BOOLEAN
      /\ moving' = [moving EXCEPT !.step = "delete"]
      /\ req' = req /\ result' = result /\ pushed' = pushed
  BY DEF ResizeCopy
<1>3. moving' = [step |-> "delete", from |-> from, to |-> to, size |-> req[to]]
  BY <1>1, <1>2
<1>4. Moves' /\ Bounded' /\ moving'.step = "delete"
  BY <1>2, <1>3 DEF Moves, Bounded
<1>5. len \in Nat /\ moving.from \in Int
  <2>1. from \in Objects(mem) /\ from \in Nat /\ req[to] \in Nat /\ mem \in Memory
        /\ Chain(mem, Objects(mem))
    BY SoundBlocks, WordIs DEF BlocksSound, Sound
  <2>2. GetObjectRealSize(mem, from) \in Nat
    BY <2>1, RoomIs
  <2>3. moving.from = from /\ moving.size = req[to]
    BY <1>1
  <2> QED
    BY <2>1, <2>2, <2>3, MinIs
<1>6. done.mem \in Memory
  BY <1>5, CopyTyped DEF Sound
<1> HIDE DEF done, len
<1>7. ASSUME ~ stray' PROVE Stepped
  <2>1. \A a \in DOMAIN mem : a \notin Block(to, req[to]) => mem'[a] = mem[a]
    BY <1>1, <1>2, <1>7
  <2>2. Headers(Objects(mem)) \subseteq DOMAIN mem /\ Block(to, req[to]) \cap Headers(Objects(mem)) = {}
    <3>1. Block(to, req[to]) \cap Headers(Objects(mem)) = {}
      BY SoundBlocks DEF BlocksSound
    <3>2. \A p \in Objects(mem) : Header(p) \subseteq HeapID .. Top
      BY HeadersApart DEF Sound
    <3>3. HeapID .. HeapID + 3 \subseteq HeapID .. Top
      BY BaseIs
    <3>4. DOMAIN mem = HeapID .. Top
      BY DEF Sound, Memory
    <3> QED
      BY <3>1, <3>2, <3>3, <3>4 DEF Headers
  <2>3. Kept /\ Objects(mem') = Objects(mem) /\ Used(mem') = Used(mem)
    BY <1>2, <1>6, <2>1, <2>2, SameObjects
  <2>4. UNCHANGED P!vars
    BY <1>2, <2>3 DEF P!vars
  <2> QED
    BY <1>2, <1>4, <1>7, <2>3, <2>4 DEF Stepped
<1> QED
  BY <1>2, <1>4, <1>7

\* HeapDefineMemory leaves a chain with one free object.
LEMMA InitMInv == Init => MInv /\ P!Init
<1> SUFFICES ASSUME Init PROVE MInv /\ P!Init
  OBVIOUS
<1> DEFINE m0 == [a \in HeapID .. Top |-> 0]
           m1 == Store(m0, HeapID, HeapID + 7)
           m2 == Store(m1, HeapID + 2, SizeInBytes - 4)
           m3 == Store(m2, HeapID + 4, 0)
           m4 == Store(m3, HeapID + 5, 0)
<1>1. mem = m4 /\ req = [o \in {} |-> 0] /\ result = HeapID /\ pushed = 1
      /\ moving = None /\ stray = FALSE
  BY DEF Init, Define
<1>2. /\ HeapID + 7 \in Words /\ SizeInBytes - 4 \in Words /\ 0 \in Words
      /\ \A i \in 0 .. 6 : HeapID + i \in HeapID .. Top - 1
      /\ HeapID \in HeapID .. Top - 1
      /\ Base \in Base .. Top /\ Base - 3 = HeapID + 4 /\ Base - 2 = HeapID + 5
      /\ Base - 1 = HeapID + 6
  BY WordIs, BaseIs DEF Words
<1>3. m0 \in Memory
  BY DEF Memory, ByteSet
<1> HIDE DEF m0
<1>4. /\ m1 \in Memory /\ Load(m1, HeapID) = HeapID + 7
  BY <1>2, <1>3, StoreIs
<1> HIDE DEF m1
<1>5. /\ m2 \in Memory /\ Load(m2, HeapID + 2) = SizeInBytes - 4
      /\ \A x \in HeapID .. Top : x # HeapID + 2 /\ x # HeapID + 2 + 1 => m2[x] = m1[x]
  <2> DEFINE w == SizeInBytes - 4
             a == HeapID + 2
  <2>1. w \in Words /\ a \in HeapID .. Top - 1
    BY <1>2
  <2> HIDE DEF w
  <2>2. /\ Store(m1, a, w) \in Memory /\ Load(Store(m1, a, w), a) = w
        /\ \A x \in HeapID .. Top : x # a /\ x # a + 1 => Store(m1, a, w)[x] = m1[x]
    BY <1>4, <2>1, StoreIs
  <2> QED
    BY <2>2 DEF w
<1> HIDE DEF m2
<1>6. /\ m3 \in Memory /\ m3[HeapID + 4] = 0
      /\ \A x \in HeapID .. Top : x # HeapID + 4 /\ x # HeapID + 4 + 1 => m3[x] = m2[x]
  <2>1. 0 \in ByteSet /\ 0 + ByteSize * 0 = 0
    BY DEF ByteSet
  <2>2. 0 % ByteSize = 0
    BY <2>1, WordOfBytes
  <2>3. HeapID + 4 \in HeapID .. Top - 1
    BY <1>2
  <2> QED
    BY <1>2, <1>5, <2>2, <2>3, StoreIs
<1> HIDE DEF m3
<1>7. m4 \in Memory /\ NextOf(m4, Base) = 0 /\ Agree(m3, m4, {Base - 2, Base - 1})
  BY <1>2, <1>6, NextStore
<1> HIDE DEF m4
<1>8. \A i \in 0 .. 4 : HeapID + i \in HeapID .. Top /\ HeapID + i \notin {Base - 2, Base - 1}
  BY BaseIs
<1>9. /\ m4[HeapID] = m3[HeapID] /\ m4[HeapID + 1] = m3[HeapID + 1]
      /\ m4[HeapID + 2] = m3[HeapID + 2] /\ m4[HeapID + 3] = m3[HeapID + 3]
      /\ m4[HeapID + 4] = 0
  <2>1. HeapID + 0 = HeapID
    OBVIOUS
  <2>2. HeapID \in HeapID .. Top /\ HeapID \notin {Base - 2, Base - 1}
    BY BaseIs
  <2> QED
    BY <1>6, <1>7, <1>8, <2>2 DEF Agree
<1>10. /\ m3[HeapID] = m1[HeapID] /\ m3[HeapID + 1] = m1[HeapID + 1]
       /\ m3[HeapID + 2] = m2[HeapID + 2] /\ m3[HeapID + 3] = m2[HeapID + 3]
  <2>1. \A i \in 0 .. 3 : HeapID + i \in HeapID .. Top
                          /\ HeapID + i # HeapID + 4 /\ HeapID + i # HeapID + 4 + 1
    BY <1>2
  <2>2. HeapID \in HeapID .. Top /\ HeapID # HeapID + 4 /\ HeapID # HeapID + 4 + 1
        /\ HeapID # HeapID + 2 /\ HeapID # HeapID + 2 + 1
        /\ HeapID + 1 # HeapID + 2 /\ HeapID + 1 # HeapID + 2 + 1
    BY BaseIs
  <2> QED
    BY <1>5, <1>6, <2>1, <2>2
<1>11. FirstOf(m4) = Base /\ Load(m4, HeapID + 2) = SizeInBytes - 4
  <2>1. HeapID \in HeapID .. Top - 1 /\ HeapID + 2 \in HeapID .. Top - 1
        /\ (HeapID + 2) + 1 = HeapID + 3
    BY <1>2
  <2>2. Load(m4, HeapID) = Load(m1, HeapID) /\ Load(m4, HeapID + 2) = Load(m2, HeapID + 2)
    BY <1>4, <1>5, <1>7, <1>9, <1>10, <2>1, LoadIs
  <2> QED
    BY <1>4, <1>5, <2>2 DEF FirstOf, Base
<1> DEFINE S == {Base}
<1>12. Chain(m4, S)
  <2>1. P!IsNext(S, Base, 0)
    BY BaseIs DEF P!IsNext
  <2>2. \A o, p \in S : o < p => o + 3 <= p
    BY BaseIs
  <2> QED
    BY <1>2, <1>7, <1>11, <2>1, <2>2 DEF Chain
<1>13. InUse(m4, S) = {}
  <2>1. Flag(m4, Base) = 0
    BY <1>2, <1>7, <1>9, HeaderIs
  <2> QED
    BY <2>1 DEF InUse
<1>14. Objects(mem) = S /\ Used(mem) = {}
  <2>1. Objects(mem) = S
    BY <1>1, <1>7, <1>12, ObjectsIs
  <2> QED
    BY <1>1, <1>13, <2>1 DEF Used, InUse
<1>15. P!Init
  BY <1>1, <1>14, FirstIs DEF P!Init
<1>16. P!HInv
  BY <1>15, HeapSized, P!InitHInv
<1>17. Sound
  BY <1>1, <1>7, <1>12, <1>14, <1>16 DEF Sound
<1>18. Moves /\ Bounded
  BY <1>1 DEF Moves, Bounded
<1> QED
  BY <1>1, <1>15, <1>17, <1>18 DEF MInv

\* A step of the chain keeps the invariant.
LEMMA SteppedInv ==
  ASSUME Sound, Stepped
  PROVE  MInv' /\ Sound'
<1>1. P!HInv'
  <2>1. P!HInv /\ [P!Next]_(P!vars)
    BY DEF Sound, Stepped
  <2> QED
    BY <2>1, HeapSized, P!NextHInv
<1>2. Sound'
  BY <1>1 DEF Sound, Stepped, Kept
<1> QED
  BY <1>2 DEF MInv, Stepped

\* What KeepsBytes says of a step.
KeepsBytesStep ==
  \A o \in DOMAIN req \cap DOMAIN req' :
    ~ (\E b \in Bytes : Fill(o, b)) /\ ~ stray' /\ ~ ResizeCopy
      => \A a \in Block(o, req[o]) : mem'[a] = mem[a]

\* A block lies within memory.
LEMMA BlockInside ==
  ASSUME Sound, Bounded, NEW o \in DOMAIN req
  PROVE  Block(o, req[o]) \subseteq HeapID .. Top
<1>1. o \in Nat /\ o >= Base /\ req[o] \in Nat /\ o + req[o] <= Top
  BY SoundBlocks, WordIs DEF BlocksSound, Bounded
<1> QED
  BY <1>1, BaseIs DEF Block

\* A step that stores in headers only keeps the bytes of the clients.
LEMMA ApartKeeps ==
  ASSUME Sound, Sound', Bounded, Apart, \A u \in DOMAIN req : u \in DOMAIN req' => req'[u] = req[u]
  PROVE  KeepsBytesStep
<1> SUFFICES ASSUME NEW o \in DOMAIN req, o \in DOMAIN req', NEW a \in Block(o, req[o])
             PROVE  mem'[a] = mem[a]
  BY DEF KeepsBytesStep
<1>1. a \in HeapID .. Top
  BY BlockInside
<1>2. a \notin Headers(Objects(mem))
  BY SoundBlocks DEF BlocksSound
<1>3. a \notin Headers(Objects(mem'))
  <2>1. BlocksSound'
    BY SoundBlocks, PTL
  <2>2. Block(o, req'[o]) \cap Headers(Objects(mem')) = {}
    BY <2>1 DEF BlocksSound
  <2> QED
    BY <2>2
<1> QED
  BY <1>1, <1>2, <1>3 DEF Apart, Agree

\* Every step keeps the invariant, is a step of module Heap and keeps the bytes.
LEMMA NextMInv ==
  ASSUME MInv, [Next]_vars
  PROVE  MInv' /\ (P!Next \/ UNCHANGED P!vars \/ stray') /\ KeepsBytesStep
<1>1. CASE UNCHANGED vars
  <2>1. /\ mem' = mem /\ req' = req /\ result' = result /\ pushed' = pushed
        /\ moving' = moving /\ stray' = stray
    BY <1>1 DEF vars
  <2>2. UNCHANGED P!vars
    BY <2>1 DEF P!vars
  <2>3. Sound' <=> Sound
    BY <2>1 DEF Sound, P!HInv, P!TypeOK, P!NoOverlap, P!EmptyIsWhole
  <2>4. MInv'
    BY <2>1, <2>3 DEF MInv, Moves, Bounded
  <2> QED
    BY <2>1, <2>2, <2>4 DEF KeepsBytesStep
<1>2. CASE Next /\ stray
  <2>1. moving.step = "delete"
    BY <1>2 DEF MInv
  <2> QED
    BY <1>2, <2>1 DEF Next, HeapNewObject, HeapDeleteObject, Fill, HeapDefrag, HeapValidate,
                      HeapResizeObject, ResizeCopy, ResizeEnd, Call, Idle
<1>3. CASE Next /\ ~ stray
  <2>1. Sound /\ Moves /\ Bounded
    BY <1>3 DEF MInv
  <2> DEFINE Same == \A u \in DOMAIN req : u \in DOMAIN req' => req'[u] = req[u]
             Good == MInv' /\ (P!Next \/ UNCHANGED P!vars \/ stray') /\ KeepsBytesStep
  <2>2. ASSUME Stepped, Apart, Same PROVE Good
    <3>1. MInv' /\ Sound'
      BY <2>1, <2>2, SteppedInv
    <3>2. KeepsBytesStep
      BY <2>1, <2>2, <3>1, ApartKeeps
    <3> QED
      BY <2>2, <3>1, <3>2 DEF Stepped
  <2>3. ASSUME NEW size \in Sizes, HeapNewObject(size) PROVE Good
    BY <2>1, <2>2, <2>3, NewStep
  <2>4. ASSUME NEW o \in DOMAIN req, HeapDeleteObject(o) PROVE Good
    <3>1. Delete(o) /\ moving' = None /\ stray' = FALSE
      BY <2>4 DEF HeapDeleteObject, Call, Idle
    <3> QED
      BY <2>1, <2>2, <2>4, <3>1, FreeStep
  <2>5. ASSUME NEW o \in DOMAIN req, NEW b \in Bytes, Fill(o, b) PROVE Good
    <3>1. /\ Stepped /\ req' = req
          /\ \A a \in HeapID .. Top : a \notin Block(o, req[o]) => mem'[a] = mem[a]
      BY <2>1, <2>5, FillStep
    <3>2. MInv'
      BY <2>1, <3>1, SteppedInv
    <3>3. KeepsBytesStep
      <4> SUFFICES ASSUME NEW u \in DOMAIN req, ~ (\E c \in Bytes : Fill(u, c)),
                          NEW a \in Block(u, req[u])
                   PROVE  mem'[a] = mem[a]
        BY DEF KeepsBytesStep
      <4>1. u # o
        BY <2>5
      <4>2. a \in HeapID .. Top
        BY <2>1, BlockInside
      <4>3. a \notin Block(o, req[o])
        BY <2>1, <4>1, SoundBlocks DEF BlocksSound
      <4> QED
        BY <3>1, <4>2, <4>3
    <3> QED
      BY <3>1, <3>2, <3>3 DEF Stepped
  <2>6. ASSUME HeapDefrag PROVE Good
    BY <2>1, <2>2, <2>6, DefragCallStep
  <2>7. ASSUME HeapValidate PROVE Good
    <3>1. Stepped /\ mem' = mem /\ req' = req
      BY <2>1, <2>7, ValidateStep
    <3>2. MInv'
      BY <2>1, <3>1, SteppedInv
    <3> QED
      BY <3>1, <3>2 DEF Stepped, KeepsBytesStep
  <2>8. ASSUME NEW o \in DOMAIN req, NEW size \in NewSizes, Call, ResizeStart(o, size) PROVE Good
    BY <2>1, <2>2, <2>8, ResizeStartStep
  <2>9. ASSUME ResizeCopy PROVE Good
    <3>1. /\ stray' \in BOOLEAN /\ moving'.step = "delete"
          /\ ~ stray' => Stepped
      BY <2>1, <2>9, CopyStep
    <3>2. CASE stray'
      BY <2>9, <3>1, <3>2 DEF MInv, KeepsBytesStep
    <3>3. CASE ~ stray'
      <4>1. MInv'
        BY <2>1, <3>1, <3>3, SteppedInv
      <4> QED
        BY <2>9, <3>1, <3>3, <4>1 DEF Stepped, KeepsBytesStep
    <3> QED
      BY <3>2, <3>3
  <2>10. ASSUME ResizeEnd PROVE Good
    <3>1. Delete(moving.from) /\ moving' = None /\ stray' = FALSE /\ moving.step = "delete"
      BY <1>3, <2>10 DEF ResizeEnd, MInv
    <3>2. moving.from \in DOMAIN req
      BY <2>1, <3>1 DEF Moves, None, Lost
    <3> QED
      BY <2>1, <2>2, <3>1, <3>2, FreeStep
  <2> QED
    BY <1>3, <2>3, <2>4, <2>5, <2>6, <2>7, <2>8, <2>9, <2>10 DEF Next, HeapResizeObject
<1> QED
  BY <1>1, <1>2, <1>3

\* The memory holds a chain that module Heap describes, with the bytes of the clients
\* outside its headers, until a copy goes astray (all of lib/heapmgr.ld on memory).
THEOREM MemoryIsChain == Spec => []MInv
<1>1. MInv /\ [Next]_vars => MInv'
  BY NextMInv
<1> QED
  BY <1>1, InitMInv, PTL DEF Spec

\* The bytes implement the chain of module Heap, through every word store.
THEOREM BytesImplementChain == Spec => ImplementsHeap
<1>1. MInv /\ [Next]_vars => [H!Next \/ stray']_(H!vars)
  <2>1. MInv /\ [Next]_vars => P!Next \/ UNCHANGED P!vars \/ stray'
    BY NextMInv
  <2>2. UNCHANGED P!vars => UNCHANGED H!vars
    BY DEF P!vars, H!vars
  <2>3. P!Next => H!Next
    BY SameSpec
  <2> QED
    BY <2>1, <2>2, <2>3
<1>2. Init => H!Init
  BY InitMInv, SameSpec
<1> QED
  BY <1>1, <1>2, MemoryIsChain, PTL DEF Spec, ImplementsHeap

\* No call alters a byte that another client holds, nor one that its owner keeps.
THEOREM DataKept == Spec => KeepsBytes
<1>1. MInv /\ [Next]_vars => [KeepsBytesStep]_vars
  BY NextMInv
<1> QED
  BY <1>1, MemoryIsChain, PTL DEF Spec, KeepsBytes, KeepsBytesStep

=============================================================================
